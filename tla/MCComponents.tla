------------------------------ MODULE MCComponents ------------------------------
(*****************************************************************************)
(* Small instances of the components that work on files of their own: a      *)
(* behaviour is about one of them.  part says which one, s1 to s16 are its   *)
(* variables, and those it does not need stay empty.  There are two          *)
(* specifications, one for each run; MCNotes adds a third.                   *)
(*****************************************************************************)
EXTENDS Integers, Sequences, FiniteSets, SequencesExt, TLC

CONSTANTS
  Parameters,  \* of the components, a record for each
  v1, v2, policy, said, hostA, hostB, subjectA, completed, aborted, Clean, Torn, Nil

\* A definition is evaluated once, a constant that a configuration names a definition for each time.
P == Parameters

VARIABLES part, s1, s2, s3, s4, s5, s6, s7, s8, s9, s10, s11, s12, s13, s14, s15, s16

slots == <<part, s1, s2, s3, s4, s5, s6, s7, s8, s9, s10, s11, s12, s13, s14, s15, s16>>

\* The slots from the n-th on.
Unused(n) ==
  /\ IF n > 2 THEN TRUE ELSE s2 = <<>>
  /\ IF n > 3 THEN TRUE ELSE s3 = <<>>
  /\ IF n > 4 THEN TRUE ELSE s4 = <<>>
  /\ IF n > 5 THEN TRUE ELSE s5 = <<>>
  /\ IF n > 6 THEN TRUE ELSE s6 = <<>>
  /\ IF n > 7 THEN TRUE ELSE s7 = <<>>
  /\ IF n > 8 THEN TRUE ELSE s8 = <<>>
  /\ IF n > 9 THEN TRUE ELSE s9 = <<>>
  /\ IF n > 10 THEN TRUE ELSE s10 = <<>>
  /\ IF n > 11 THEN TRUE ELSE s11 = <<>>
  /\ IF n > 12 THEN TRUE ELSE s12 = <<>>
  /\ IF n > 13 THEN TRUE ELSE s13 = <<>>
  /\ IF n > 14 THEN TRUE ELSE s14 = <<>>
  /\ IF n > 15 THEN TRUE ELSE s15 = <<>>
  /\ IF n > 16 THEN TRUE ELSE s16 = <<>>
Frozen(n) ==
  /\ IF n > 2 THEN TRUE ELSE UNCHANGED s2
  /\ IF n > 3 THEN TRUE ELSE UNCHANGED s3
  /\ IF n > 4 THEN TRUE ELSE UNCHANGED s4
  /\ IF n > 5 THEN TRUE ELSE UNCHANGED s5
  /\ IF n > 6 THEN TRUE ELSE UNCHANGED s6
  /\ IF n > 7 THEN TRUE ELSE UNCHANGED s7
  /\ IF n > 8 THEN TRUE ELSE UNCHANGED s8
  /\ IF n > 9 THEN TRUE ELSE UNCHANGED s9
  /\ IF n > 10 THEN TRUE ELSE UNCHANGED s10
  /\ IF n > 11 THEN TRUE ELSE UNCHANGED s11
  /\ IF n > 12 THEN TRUE ELSE UNCHANGED s12
  /\ IF n > 13 THEN TRUE ELSE UNCHANGED s13
  /\ IF n > 14 THEN TRUE ELSE UNCHANGED s14
  /\ IF n > 15 THEN TRUE ELSE UNCHANGED s15
  /\ IF n > 16 THEN TRUE ELSE UNCHANGED s16

Symmetry == Permutations({hostA, hostB})

---------------------------------------------------------------------------------
(* Components that derive something from files others write. *)

\* The truth is compiled, slept on, audited and compacted; threads recall while
\* the stores change, with one value, one event and nobody else to compile.
Truth == INSTANCE Governance WITH
  events <- s1, marks <- s2, policies <- s3, truth <- s4, journal <- s5, audit <- s6, suppressed <- s7, gov <- s8,
  plan <- s9, minted <- s10, forgotten <- s11, erased <- s12, unfiltered <- s13, strayed <- s14, cache <- s15,
  call <- s16,
  Topics <- P.truth.Topics, Values <- P.truth.Values, ValidFrom <- P.truth.ValidFrom,
  Policies <- P.truth.Policies, Denies <- P.truth.Denies, Builders <- P.truth.Builders,
  Texts <- P.truth.Texts, MaxEvents <- P.truth.MaxEvents, None <- Nil, Readers <- P.truth.Readers,
  Short <- P.truth.Short

TruthBounds == UNCHANGED s7
RecallBounds == s10' <= 1 /\ (\A e \in ToSet(s1') : e.value = v1) /\ UNCHANGED s9

\* Candidates and artifacts in one instance: a behaviour is about one of the two.
Candidates == INSTANCE Candidates WITH
  lines <- s1, hidden <- s2, expired <- s3, forget <- s4, audited <- s5, answered <- s6, minted <- s7,
  files <- s1, writer <- s2,
  Sessions <- P.candidates.Sessions, MaxCandidates <- P.candidates.MaxCandidates, NoForget <- Nil,
  Writers <- P.candidates.Writers

Project == INSTANCE ProjectMemory WITH
  sources <- s1, root <- s2, snapshots <- s3, manifest <- s4, holder <- s5, build <- s6, view <- s7, edits <- s8,
  builds <- s9, provenance <- s10, named <- s11, kills <- s12,
  Files <- P.project.Files, Contents <- P.project.Contents, TooLarge <- P.project.TooLarge,
  Configs <- P.project.Configs, Dates <- P.project.Dates, Compilers <- P.project.Compilers,
  Viewers <- P.project.Viewers, MaxEdits <- P.project.MaxEdits, MaxBuilds <- P.project.MaxBuilds,
  Nothing <- Nil

Projection == INSTANCE ProjectionCache WITH
  grants <- s1, inode <- s2, sidecar <- s3, reader <- s4,
  CacheReaders <- P.projection.CacheReaders, Expiries <- P.projection.Expiries,
  Instants <- P.projection.Instants, MaxVersions <- P.projection.MaxVersions, NoFile <- Nil

Read == INSTANCE ReadCache WITH
  policy <- s1, file <- s2, t1 <- s3, t2 <- s4, b1 <- s5, b2 <- s6, target <- s7, pathKeys <- s8, reader <- s9,
  reads <- s10, unreported <- s11, raced <- s12, crowded <- s13, stale <- s14,
  Readers <- P.read.Readers, Paths <- P.read.Paths, Capacity <- P.read.Capacity,
  MaxStat <- P.read.MaxStat, MaxReads <- P.read.MaxReads, Idle <- Nil, Unread <- Nil

Searches == INSTANCE SearchCache WITH
  version <- s1, gen <- s2, store <- s3, now <- s4, searcher <- s5, mutator <- s6, returned <- s7, backwards <- s8,
  handed <- s9, meddles <- s10,
  Searchers <- P.searches.Searchers, Mutators <- P.searches.Mutators, Queries <- P.searches.Queries,
  Capacity <- P.searches.Capacity, Ttl <- P.searches.Ttl, MaxVersion <- P.searches.MaxVersion,
  MaxNow <- P.searches.MaxNow, MaxMeddles <- P.searches.MaxMeddles, MaxAnswers <- P.searches.MaxAnswers,
  Idle <- Nil, NoHits <- P.searches.NoHits

Corpus == INSTANCE CorpusIndex WITH
  version <- s1, gen <- s2, pending <- s3, index <- s4, indexGen <- s5, verified <- s6, disk <- s7, searcher <- s8,
  owed <- s9, told <- s10, raced <- s11, restarts <- s12, gone <- s13,
  Docs <- P.corpus.Docs, Searchers <- P.corpus.Searchers, Trusted <- P.corpus.Trusted,
  Ttl <- P.corpus.Ttl, MaxVersion <- P.corpus.MaxVersion, MaxRestarts <- P.corpus.MaxRestarts,
  NoIndex <- Nil

\* Two processes scan, or one across a restart, and then the document may change more often.
CorpusBounds == s12' = 0 /\ \A d \in P.corpus.Docs : s1'[d] <= 3
RestartBounds == s8'[v2].at = "idle"

Embedding == INSTANCE EmbeddingIndex WITH
  file <- s1, blank <- s2, version <- s3, index <- s4, lock <- s5, events <- s6, sync <- s7, build <- s8, log <- s9,
  missed <- s10, kills <- s11, been <- s12, returned <- s13,
  Paths <- P.embedding.Paths, MaxVersion <- P.embedding.MaxVersion, MaxKills <- P.embedding.MaxKills,
  Nobody <- "nobody", Watcher <- "watcher", Builder <- "builder"

Budget == INSTANCE Budgets WITH
  asked <- s1, answer <- s2,
  ItemBytes <- P.budget.ItemBytes, GateBytes <- P.budget.GateBytes, FocusBytes <- P.budget.FocusBytes,
  AuthorityBytes <- P.budget.AuthorityBytes, Limits <- P.budget.Limits, Reserves <- P.budget.Reserves,
  BodyBytes <- P.budget.BodyBytes, TimeBytes <- P.budget.TimeBytes, Widths <- P.budget.Widths,
  Lengths <- P.budget.Lengths

ViewsInit ==
  \/ part = "truth" /\ Truth!Init /\ Unused(15)
  \/ part = "recall" /\ Truth!RInit
  \/ part = "candidates" /\ Candidates!KInit /\ Unused(8)
  \/ part = "project" /\ Project!MInit /\ Unused(13)
  \/ part = "projection" /\ Projection!PInit /\ Unused(5)
  \/ part = "artifacts" /\ Candidates!AInit /\ Unused(3)
  \/ part = "read" /\ Read!EInit /\ Unused(15)
  \/ part = "searches" /\ Searches!HInit /\ Unused(11)
  \/ part = "corpus" /\ Corpus!CInit /\ Unused(14)
  \/ part = "restart" /\ Corpus!CInit /\ Unused(14)
  \/ part = "embedding" /\ Embedding!MInit /\ Unused(14)
  \/ part = "budgets" /\ Budget!ZInit /\ Unused(3)
ViewsNext ==
  \/ part = "truth" /\ Truth!Next /\ TruthBounds /\ UNCHANGED part /\ Frozen(15)
  \/ part = "recall" /\ Truth!RNext /\ RecallBounds /\ UNCHANGED part
  \/ part = "candidates" /\ Candidates!KNext /\ UNCHANGED part /\ Frozen(8)
  \/ part = "project" /\ Project!MNext /\ UNCHANGED part /\ Frozen(13)
  \/ part = "projection" /\ Projection!PNext /\ UNCHANGED part /\ Frozen(5)
  \/ part = "artifacts" /\ Candidates!ANext /\ UNCHANGED part /\ Frozen(3)
  \/ part = "read" /\ Read!ENext /\ UNCHANGED part /\ Frozen(15)
  \/ part = "searches" /\ Searches!HNext /\ UNCHANGED part /\ Frozen(11)
  \/ part = "corpus" /\ Corpus!CNext /\ CorpusBounds /\ UNCHANGED part /\ Frozen(14)
  \/ part = "restart" /\ Corpus!CNext /\ RestartBounds /\ UNCHANGED part /\ Frozen(14)
  \/ part = "embedding" /\ Embedding!MNext /\ UNCHANGED part /\ Frozen(14)
  \/ part = "budgets" /\ Budget!ZNext /\ UNCHANGED part /\ Frozen(3)
ViewsSpec == ViewsInit /\ [][ViewsNext]_slots

\* What was forgotten, denied or erased is not told again by the compiled truth,
\* by a recall or by the candidates, every forget that went through is in the
\* audit, and a forget of candidates hides all it matched (derived_views.py
\* forget, forget_candidates; recall_suppress.py).
ForgottenStaysHidden ==
  /\ part = "truth" => Truth!TruthHidesTheForgotten /\ Truth!AuditNamesTheForgotten
  /\ part = "recall" => Truth!RecallHidesTheForgotten
  /\ part = "candidates" => Candidates!ForgetsAreWhole
\* What is called fresh is the log or the files as they are: truth_status,
\* read_projection, project_status and embedding_index_state.
FreshMeansCurrent ==
  /\ part = "truth" => Truth!FreshTruthIsTheLog
  /\ part = "projection" => Projection!AnswersAreOfThisCall
  /\ part = "project" => Project!ContextsAreHonest
  /\ part = "embedding" => Embedding!IndexTellsTheFiles
\* A read, a search or a scan is never answered from a cache that an invalidation
\* or a file signature should have emptied (_read_cache.py, cache.py,
\* _corpus_index.py).
CachesAreCurrent ==
  /\ part = "read" => Read!HitsAreCurrent
  /\ part = "searches" => Searches!SearchesSeeReturnedMutations
  /\ part = "corpus" => Corpus!ScansAreCurrent /\ Corpus!OwnWritesShowUnlessRaced
  /\ part = "restart" => Corpus!ScansAreCurrent /\ Corpus!OwnWritesShowUnlessRaced
\* What is published in several files is found whole or not at all: an artifact
\* found has its content, a manifest names a snapshot that exists, and only a
\* kill leaves files behind (artifacts.py persist_artifact,
\* project_memory/store.py apply_snapshot).
PublicationsAreWhole ==
  /\ part = "artifacts" => Candidates!FoundArtifactsAreWhole
  /\ part = "project" => Project!NamedSnapshotsExist /\ Project!LeftoversComeFromFaults
\* A compiled context fits its budget and accounts for every hit it left out
\* (context_compiler.py, evidence_context.py, context_compress.py,
\* reasoning_inject_for_task).
BudgetsAreKept ==
  /\ part = "budgets" => Budget!BudgetsAreKept

---------------------------------------------------------------------------------
(* The append-only ledgers beside the execution and the improvement ledger. *)

\* Focus, authority and reports are independent files: one of them per behaviour.
OneLogAtATime == (s1' = <<>> \/ s2' = <<>>) /\ (s1' \o s2' = <<>> \/ s3' = <<>>)

\* Eight lines hold a chain of evidence, four show what a restore does.
Delays == INSTANCE DelayLedger WITH
  log <- s1, view <- s2, tail <- s3, spoiled <- s4, rejected <- s5, cache <- s6, tears <- s7, restores <- s8,
  Instances <- P.delays.Instances, Subjects <- P.delays.Subjects, Elapsed <- P.delays.Elapsed,
  Outcomes <- P.delays.Outcomes, Completed <- P.delays.Completed, MinSamples <- P.delays.MinSamples,
  Window <- P.delays.Window, None <- Nil, Clean <- Clean, Torn <- Torn, MaxRuns <- P.delays.MaxRuns,
  MaxChain <- P.delays.MaxChain, MaxLines <- P.delays.MaxLines, MaxTears <- P.delays.MaxTears,
  TornWithin <- P.delays.TornWithin, MaxRestores <- P.delays.MaxRestores,
  RestoreWithin <- P.delays.RestoreWithin

Owner == INSTANCE OwnerLedger WITH
  sayings <- s1, decisions <- s2, enforcement <- s3, pending <- s4, settled <- s5, raced <- s6, withdrawn <- s7,
  Agents <- P.owner.Agents, Sayings <- P.owner.Sayings, ScopeOf <- P.owner.ScopeOf,
  Decisions <- P.owner.Decisions, Answers <- P.owner.Answers, Levels <- P.owner.Levels,
  Paths <- P.owner.Paths, MaxRows <- P.owner.MaxRows, NoRow <- Nil

Reports == INSTANCE Outcomes WITH
  usages <- s1, outcomes <- s2, lockedBy <- s3, report <- s4, reports <- s5, answered <- s6,
  Clients <- P.reports.Clients, Usages <- P.reports.Usages, Rewards <- P.reports.Rewards,
  Keys <- P.reports.Keys, MaxReports <- P.reports.MaxReports, NoKey <- Nil

\* One correction is evaluated and widened; corrections are promoted, compiled and
\* injected while others write a shorter log.
Correction == INSTANCE Corrections WITH
  log <- s1, active <- s2, compiling <- s3, injected <- s4,
  Scopes <- P.correction.Scopes, Revisions <- P.correction.Revisions, Evaluated <- P.correction.Evaluated,
  Observed <- P.correction.Observed, Promoted <- P.correction.Promoted, Kinds <- P.correction.Kinds,
  Instants <- P.correction.Instants, RefLists <- P.correction.RefLists, MaxLines <- P.correction.MaxLines,
  Nothing <- Nil

CorrectionNext == Correction!WriteCall /\ \A r \in ToSet(s1') : r.kind # "outcome"
InjectionNext == Correction!HostCall \/ (Len(s1) < 4 /\ Correction!WriteCall)

Evaluations == INSTANCE EvaluationCorpus WITH
  log <- s1, written <- s2, edits <- s3,
  Cases <- P.evaluations.Cases, Observations <- P.evaluations.Observations,
  Operations <- P.evaluations.Operations, MaxLines <- P.evaluations.MaxLines,
  MaxEdits <- P.evaluations.MaxEdits, Garbage <- Nil

Bank == INSTANCE Reasoning WITH
  file <- s1, index <- s2, patterns <- s3, call <- s4, seals <- s5, calls <- s6, kills <- s7, warned <- s8,
  generation <- s9, counted <- s10, smeared <- s11, executed <- s12, problem <- s13, answer <- s14,
  Callers <- P.bank.Callers, Tasks <- P.bank.Tasks, Rules <- P.bank.Rules, Lessons <- P.bank.Lessons,
  Statuses <- P.bank.Statuses, MaxCalls <- P.bank.MaxCalls, MaxRecords <- P.bank.MaxRecords,
  MaxKills <- P.bank.MaxKills, Torn <- Torn, NoCall <- Nil, MaxLimit <- P.bank.MaxLimit,
  MaxSide <- P.bank.MaxSide, MaxItems <- P.bank.MaxItems, MaxPrime <- P.bank.MaxPrime

Run == INSTANCE Reasoning WITH
  problem <- s1, answer <- s2, file <- s3, index <- s4, patterns <- s5, call <- s6, seals <- s7, calls <- s8,
  kills <- s9, warned <- s10, generation <- s11, counted <- s12, smeared <- s13, executed <- s14,
  MaxLimit <- P.run.MaxLimit, MaxSide <- P.run.MaxSide, MaxItems <- P.run.MaxItems,
  MaxPrime <- P.run.MaxPrime, Callers <- P.run.Callers, Tasks <- P.run.Tasks, Rules <- P.run.Rules,
  Lessons <- P.run.Lessons, Statuses <- P.run.Statuses, MaxCalls <- P.run.MaxCalls,
  MaxRecords <- P.run.MaxRecords, MaxKills <- P.run.MaxKills, Torn <- Torn, NoCall <- Nil

Standings == INSTANCE Standing WITH
  focus <- s1, authority <- s2, reports <- s3, torn <- s4, reading <- s5, filed <- s6,
  Subjects <- P.standings.Subjects, Instants <- P.standings.Instants, Ttls <- P.standings.Ttls,
  MaxActive <- P.standings.MaxActive, MaxRecords <- P.standings.MaxRecords,
  Operations <- P.standings.Operations, Observations <- P.standings.Observations

Sync == INSTANCE ProjectSync WITH
  remote <- s1, tracking <- s2, head <- s3, work <- s4, upstream <- s5, call <- s6, events <- s7, edits <- s8,
  syncs <- s9,
  MaxCommits <- P.sync.MaxCommits, MaxEdits <- P.sync.MaxEdits, MaxSyncs <- P.sync.MaxSyncs

LedgersInit ==
  \/ part = "delays" /\ Delays!Init /\ Unused(9)
  \/ part = "owner" /\ Owner!OInit /\ Unused(8)
  \/ part = "outcomes" /\ Reports!UInit /\ Unused(7)
  \/ part = "corrections" /\ Correction!RInit /\ Unused(5)
  \/ part = "injections" /\ Correction!RInit /\ Unused(5)
  \/ part = "evaluations" /\ Evaluations!EInit /\ Unused(4)
  \/ part = "reasoning" /\ Bank!BInit /\ Unused(13)
  \/ part = "procedures" /\ Run!XInit /\ Unused(3)
  \/ part = "standing" /\ Standings!GInit /\ Unused(7)
  \/ part = "synchronisation" /\ Sync!YInit /\ Unused(10)
LedgersNext ==
  \/ part = "delays" /\ Delays!Next /\ UNCHANGED part /\ Frozen(9)
  \/ part = "owner" /\ Owner!ONext /\ UNCHANGED part /\ Frozen(8)
  \/ part = "outcomes" /\ Reports!UNext /\ UNCHANGED part /\ Frozen(7)
  \/ part = "corrections" /\ CorrectionNext /\ UNCHANGED part /\ Frozen(5)
  \/ part = "injections" /\ InjectionNext /\ UNCHANGED part /\ Frozen(5)
  \/ part = "evaluations" /\ Evaluations!ENext /\ UNCHANGED part /\ Frozen(4)
  \/ part = "reasoning" /\ Bank!BNext /\ UNCHANGED part /\ Frozen(13)
  \/ part = "procedures" /\ Run!XNext /\ UNCHANGED part /\ Frozen(3)
  \/ part = "standing" /\ Standings!GNext /\ OneLogAtATime /\ UNCHANGED part /\ Frozen(7)
  \/ part = "synchronisation" /\ Sync!YNext /\ UNCHANGED part /\ Frozen(10)
LedgersSpec == LedgersInit /\ [][LedgersNext]_slots

\* Caches and log agree in the delay ledger, a tree closes from its leaves
\* inwards, and the evidence of a delay rests on anomalies that were recorded
\* before it.
DelaysAreExplained ==
  /\ part = "delays" => Delays!DelaysAreExplained
\* What a caller was told stays true of the log: a retired saying stays retired,
\* a settled decision keeps its answer, a report counts once, and the last word
\* on a focus or an authority stands (owner_ledger.py, outcomes.py, focus.py,
\* authority.py, state_contract.py).
WhatWasAnsweredStands ==
  /\ part = "owner" => Owner!RetiredStaysRetired /\ Owner!AnswersStand
  /\ part = "outcomes" => Reports!ReportsCountOnce
  /\ part = "standing" => Standings!LastWordsStand /\ Standings!ReportsAreFiledOnce
\* No sequence of calls writes a line that the ledger's own reader then refuses,
\* and what the evaluation corpus reads without complaint is what was registered.
LedgersReadCleanly ==
  /\ part = "delays" => Delays!WritersReplayCleanly
  /\ part = "corrections" => Correction!WritersReadCleanly
  /\ part = "injections" => Correction!WritersReadCleanly
  /\ part = "evaluations" => Evaluations!CleanLogsAreTrue
\* A correction is widened only on an evaluation of the revision it widens, and
\* what is injected is the revision that was promoted (correction_policy.py).
CorrectionsWereEarned ==
  /\ part = "corrections" => Correction!WideningsWereEarned
  /\ part = "injections" => Correction!WideningsWereEarned /\ Correction!InjectedAsPromoted
\* A recall tells the last completed trajectory of a task, a lesson is counted
\* once, an execution runs what was sealed, and a procedure computes what its
\* task asks (reasoning_bank.py, reasoning_execution.py).
ReasoningIsTold ==
  /\ part = "reasoning" => Bank!RecallTellsTheLast /\ Bank!PatternsCountOnce /\ Bank!ExecutedAsSealed
  /\ part = "procedures" => Run!ProceduresAnswerTheirTasks
\* A synchronisation never does more to the checkout than move it forward to
\* commits that were fetched (project_sync.py).
OnlyFastForwards == [][part = "synchronisation" => Sync!FastForwards]_slots

---------------------------------------------------------------------------------
(* What a state contract finds of a healthy checkout, and two faults. *)
Versions == {"source.version", "runtime.version", "distribution.version", "public.version", "snapshot.public_version",
  "snapshot.development_version", "candidate.package_version", "candidate.project_version", "expected.version"}
Healthy == [v \in Versions |-> 1] @@ [v \in {"git.tree_clean", "git.branch_remote_backed"} |-> TRUE]
  @@ ("runtime.source_path" :> <<"src">>) @@ ("artifact.source_path" :> <<"venv", "lib">>) @@ ("artifact.install_prefix" :> <<"venv">>)
Seen == {Healthy, [Healthy EXCEPT !["public.version"] = 0], [Healthy EXCEPT !["git.tree_clean"] = FALSE]}

(* The parameters of the runs. *)
Small ==
  [truth |-> [Topics |-> {"t"}, Values |-> {v1, v2}, ValidFrom |-> [v \in {v1, v2} |-> IF v = v1 THEN 1 ELSE 0],
              Policies |-> {policy}, Denies |-> [d \in {policy} |-> {"t"}], Builders |-> {"b"}, Texts |-> {said},
              MaxEvents |-> 2, Readers |-> {"r"}, Short |-> {}],
   candidates |-> [Sessions |-> {v1, v2}, MaxCandidates |-> 3, Writers |-> {v1, v2}],
   project |-> [Files |-> {"fa", "fb"}, Contents |-> 1..3, TooLarge |-> 3, Configs |-> {{"fa"}, {"fa", "fb"}},
                Dates |-> {1}, Compilers |-> {"c1", "c2"}, Viewers |-> {"v"}, MaxEdits |-> 1, MaxBuilds |-> 2],
   projection |-> [CacheReaders |-> {1, 2}, Expiries |-> {1}, Instants |-> {0}, MaxVersions |-> 2],
   read |-> [Readers |-> {1, 2}, Paths |-> {"p", "q"}, Capacity |-> 1, MaxStat |-> 1, MaxReads |-> 4],
   searches |-> [Searchers |-> {1}, Mutators |-> {1, 2}, Queries |-> {"q"}, Capacity |-> 2, Ttl |-> 1,
                 MaxVersion |-> 3, MaxNow |-> 2, MaxMeddles |-> 1, MaxAnswers |-> 2, NoHits |-> 99],
   corpus |-> [Docs |-> {v1}, Searchers |-> {v1, v2}, Trusted |-> {v1}, Ttl |-> TRUE, MaxVersion |-> 4,
               MaxRestarts |-> 1],
   embedding |-> [Paths |-> {"p", "q"}, MaxVersion |-> 3, MaxKills |-> 1],
   budget |-> [ItemBytes |-> {20, 60}, GateBytes |-> <<30, 60>>, FocusBytes |-> <<30, 60>>,
               AuthorityBytes |-> <<40, 50>>, Limits |-> {20, 45, 80}, Reserves |-> {0, 22, 30},
               BodyBytes |-> {60, 100}, TimeBytes |-> 40, Widths |-> {5, 8, 20}, Lengths |-> {2, 5, 9}],
   delays |-> [Instances |-> {hostA, hostB}, Subjects |-> {subjectA}, Elapsed |-> {1, 9},
               Outcomes |-> {completed, aborted}, Completed |-> completed, MinSamples |-> 1, Window |-> 2,
               MaxRuns |-> 3, MaxChain |-> 4, MaxLines |-> 0 :> 8 @@ 1 :> 4, MaxTears |-> 1, TornWithin |-> 2,
               MaxRestores |-> 1, RestoreWithin |-> 2],
   owner |-> [Agents |-> {1, 2}, Sayings |-> {"s"}, ScopeOf |-> [x \in {"s"} |-> "work"], Decisions |-> {"d"},
              Answers |-> {"yes", "no"}, Levels |-> {"code", "prose"}, Paths |-> {"f"}, MaxRows |-> 3],
   reports |-> [Clients |-> {1, 2}, Usages |-> {"u"}, Rewards |-> {20, -20}, Keys |-> {"k"}, MaxReports |-> 3],
   correction |-> [Scopes |-> {0, 1}, Revisions |-> {"r2"}, Evaluated |-> {"r2"}, Observed |-> {"r1"},
                   Promoted |-> {"r1", "r2"},
                   Kinds |-> {"k"}, Instants |-> {1, 2}, RefLists |-> {"one"}, MaxLines |-> 6],
   evaluations |-> [Cases |-> {"c1", "c2"}, Observations |-> {"pass"}, Operations |-> {1, 2, 3}, MaxLines |-> 3,
                    MaxEdits |-> 2],
   bank |-> [Callers |-> {1, 2}, Tasks |-> {"t"}, Rules |-> {"r"}, Lessons |-> {"l"},
             Statuses |-> {"success", "failure"}, MaxCalls |-> 2, MaxRecords |-> 4, MaxKills |-> 1, MaxLimit |-> 0,
             MaxSide |-> 0, MaxItems |-> 0, MaxPrime |-> 0],
   run |-> [MaxLimit |-> 24, MaxSide |-> 5, MaxItems |-> 8, MaxPrime |-> 50, Callers |-> {}, Tasks |-> {},
            Rules |-> {}, Lessons |-> {}, Statuses |-> {}, MaxCalls |-> 0, MaxRecords |-> 0, MaxKills |-> 0],
   standings |-> [Subjects |-> 1..2, Instants |-> 1..2, Ttls |-> {0, 1}, MaxActive |-> 1, MaxRecords |-> 2,
                  Operations |-> {1, 2}, Observations |-> Seen],
   sync |-> [MaxCommits |-> 3, MaxEdits |-> 4, MaxSyncs |-> 2]]
=================================================================================
