------------------------------- MODULE MCNotes -------------------------------
(*****************************************************************************)
(* Small instances of the components that keep notes as Markdown files, and  *)
(* of those that search them, in the slots of MCComponents: a behaviour is   *)
(* about one of them.                                                        *)
(*****************************************************************************)
EXTENDS MCComponents

CONSTANTS alpha, beta, gamma, delta, NoNote

(* Turns of one and of two chunks, with room for one and with none. *)
Chunk(t, b, blank) == [of |-> t, bytes |-> b, space |-> blank]
ManyTurns == {<<Chunk("a", 1, FALSE), Chunk("a", 2, FALSE), Chunk("a", 1, TRUE), Chunk("a", 2, FALSE), Chunk("a", 2, FALSE)>>,
  <<Chunk("b", 1, FALSE), Chunk("b", 1, TRUE), Chunk("b", 1, FALSE)>>}

(* Five notes, of which up to three are in the directory. *)
Doc(f, n, w, a) == [file |-> f, name |-> n, words |-> w, alike |-> a]
Library == {Doc("l/a", <<"tea">>, <<"ship", "deploys">>, TRUE), Doc("e/a", <<"tea">>, <<"tea", "the">>, FALSE),
  Doc("l/b", <<"deploys">>, <<"the">>, FALSE), Doc("l/c", <<"cup">>, <<"ship", "tea">>, TRUE), Doc("l/d", <<"dog">>, <<"deploy", "ship">>, FALSE)}
Queries == {<<"deploy">>, <<"tea">>, <<"ship", "tea">>, <<"the", "tea">>, <<"ship", "deploy">>, <<"the", "deploy">>, <<"chai">>, <<"oak">>}

(* Four pages linked as a chain, a fork or not at all; the first is what the words of a search find. *)
Says == {[words |-> 0, subs |-> 0], [words |-> 1, subs |-> 0], [words |-> 1, subs |-> 1]}
Page(shelf, links, hits, whole, says, tier) == [shelf |-> shelf, links |-> links, hits |-> hits, whole |-> whole, says |-> says, tier |-> tier]
Memories ==
  {alpha :> a @@ beta :> b @@ gamma :> c @@ delta :> d :
     a \in {Page(x, l, h, 0, [words |-> 1, subs |-> 1], "recall") : x \in {"entity", "decision"}, l \in {{beta}, {gamma, delta}}, h \in {<<3, 0>>, <<2, 9>>}},
     b \in {Page(x, l, <<0, 0>>, w, y, "core") : x \in {"entity", "decision"}, l \in {{}, {gamma}, {delta}}, w \in {0, 4}, y \in Says},
     c \in {Page(x, l, <<0, 0>>, 0, y, "archival") : x \in {"entity", "decision"}, l \in {{}, {delta}}, y \in Says},
     d \in {Page("entity", {}, <<0, 0>>, 0, y, "recall") : y \in Says}}

(* Rankings of four hits: copies, prompts, forgotten texts, stubs, templates and preambles at any rank. *)
Hit(kind, copy, prompt, forgotten, rank) == [kind |-> kind, copy |-> copy, prompt |-> prompt, forgotten |-> forgotten, rank |-> rank]
HitsAt(k) == {Hit("plain", c, "no", f, k) : c \in {1, k}, f \in BOOLEAN} \cup {Hit("plain", k, x, FALSE, k) : x \in {"reply", "all"}}
  \cup {Hit(x, k, "no", FALSE, k) : x \in {"stub", "template", "preamble"}}
Rankings == {<<a, b, c, d>> : a \in HitsAt(1), b \in HitsAt(2), c \in HitsAt(3), d \in HitsAt(4)} \cup {<<a, b>> : a \in HitsAt(1), b \in HitsAt(2)}

Note == INSTANCE Notes WITH
  note <- s1, call <- s2, calls <- s3, disturbed <- s4, dangling <- s5, added <- s6, judged <- s7, best <- s8,
  Callers <- {1, 2}, Incidents <- <<"i1">>, Decisions <- <<"d1", "d2">>, Runbook <- "rb",
  Hypotheses <- {"disk", "disk full"}, Within <- {<<"disk", "disk full">>}, MaxCalls <- 3, Absent <- NoNote,
  Torn <- Torn, NoCall <- Nil

\* Two callers race on the live notes; one caller alone gets further and does every chore.
Live == INSTANCE LiveNotes WITH
  page <- s1, report <- s2, registry <- s3, gatelog <- s4, version <- s5, call <- s6, calls <- s7, kills <- s8,
  disturbed <- s9, told <- s10, kept <- s11, dropped <- s12,
  Callers <- {1, 2}, Roles <- {"r", "s"}, Facts <- {"f", "g"}, Clashes <- {<<"f", "g">>, <<"g", "f">>},
  Gate <- "enforce", LogMax <- 0, Chores <- {"fileback"}, MaxCalls <- 2, MaxKills <- 1, NoCall <- Nil

Alone == INSTANCE LiveNotes WITH
  page <- s1, report <- s2, registry <- s3, gatelog <- s4, version <- s5, call <- s6, calls <- s7, kills <- s8,
  disturbed <- s9, told <- s10, kept <- s11, dropped <- s12,
  Callers <- {1}, Roles <- {"r", "s"}, Facts <- {"f", "g"}, Clashes <- {<<"f", "g">>, <<"g", "f">>},
  Gate <- "enforce", LogMax <- 1, Chores <- {"fileback", "decay", "summarize", "promote"}, MaxCalls <- 3,
  MaxKills <- 1, NoCall <- Nil

Debug == INSTANCE DebugSessions WITH
  file <- s1, call <- s2, calls <- s3, disturbed <- s4, told <- s5,
  Callers <- {1, 2}, Ids <- <<"a", "b">>, MaxCalls <- 3, Absent <- NoNote, Torn <- Torn, NoCall <- Nil

Register == INSTANCE Registers WITH
  json <- s1, archive <- s2, call <- s3, calls <- s4, disturbed <- s5, entered <- s6,
  Callers <- {1, 2}, Tasks <- {"t"}, Agents <- {"a"}, Channels <- {"c"}, MaxCalls <- 3, Absent <- NoNote,
  Torn <- Torn, NoCall <- Nil

Tier == INSTANCE Tiers WITH
  disk <- s1, call <- s2, calls <- s3, born <- s4, disturbed <- s5, told <- s6,
  Callers <- {1, 2}, Notes <- {"n"}, Ceiling <- 2, MaxCalls <- 3, MaxBodies <- 2, Absent <- NoNote, NoCall <- Nil

\* Two threads of one process and one of another append turns of several chunks.
Turn == INSTANCE HermesMemory WITH
  chunks <- s1, locks <- s2, writer <- s3, turns <- s4, cuts <- s5, kills <- s6, ranked <- s7, asked <- s8, told <- s9,
  Writers <- {<<1, 1>>, <<1, 2>>, <<2, 1>>}, Processes <- {1, 2}, Texts <- ManyTurns, Limit <- 6, Header <- 1,
  MaxTurns <- 3, MaxKills <- 1, Windows <- <<>>, Want <- 0

Watching == INSTANCE Lifecycle WITH
  file <- s1, stamps <- s2, now <- s3, watching <- s4, loops <- s5, imported <- s6, edits <- s7, blurred <- s8,
  notes <- s9, sweep <- s10, edited <- s11, verdict <- s12, noteEdits <- s13, sweeps <- s14,
  Threads <- {1, 2}, MaxVersion <- 3, MaxEdits <- 2, Pages <- {}, Capital <- {}, Ages <- {}, Limits <- {},
  MaxNoteEdits <- 0, MaxSweeps <- 0

Keeping == INSTANCE Lifecycle WITH
  notes <- s1, sweep <- s2, edited <- s3, verdict <- s4, noteEdits <- s5, sweeps <- s6, file <- s7, stamps <- s8,
  now <- s9, watching <- s10, loops <- s11, imported <- s12, edits <- s13, blurred <- s14,
  Pages <- {alpha, beta}, Capital <- {beta}, Ages <- {0, 1}, Limits <- {1, 2}, MaxNoteEdits <- 1, MaxSweeps <- 1,
  Threads <- {}, MaxVersion <- 0, MaxEdits <- 0

Fact == INSTANCE FactTimeline WITH
  file <- s1, now <- s2, call <- s3, version <- s4, calls <- s5, disturbed <- s6, stated <- s7, run <- s8,
  observed <- s9, before <- s10, calm <- s11,
  Callers <- {1, 2}, Values <- {"v", "w"}, MaxNow <- 2, MaxCalls <- 2, Forever <- 9, NoCall <- Nil, Stale <- 1

Settle == INSTANCE FactTimeline WITH
  file <- s1, now <- s2, call <- s3, version <- s4, calls <- s5, disturbed <- s6, stated <- s7, run <- s8,
  observed <- s9, before <- s10, calm <- s11,
  Callers <- {1}, Values <- {"v", "w"}, MaxNow <- 2, MaxCalls <- 2, Forever <- 9, NoCall <- Nil, Stale <- 1

Snapshot == INSTANCE Snapshots WITH
  note <- s1, now <- s2, latest <- s3, walk <- s4, snaps <- s5, torn <- s6, ended <- s7,
  Notes <- <<"p", "q">>, MaxNow <- 2, SecondsADay <- 2, MaxVersion <- 2, MaxSnapshots <- 2, Gone <- 99,
  Unreadable <- 98

Graph == INSTANCE KnowledgeGraph WITH
  nodes <- s1, edges <- s2, at <- s3, calls <- s4, described <- s5, raced <- s6, asked <- s7, told <- s8,
  Writers <- {1, 2}, Ids <- {"a", "b", "c"}, Kinds <- {"person"}, Backed <- {"c"}, MaxEdges <- 2, MaxCalls <- 2,
  MaxHops <- 2

Search == INSTANCE SearchPipeline WITH
  corpus <- s1, asked <- s2, answer <- s3, done <- s4, memory <- s5, sought <- s6, listing <- s7, filed <- s8,
  Docs <- Library, Queries <- Queries, Begins <- {<<"deploy", "deploys">>}, Stopwords <- {"the"},
  AliasOf <- [chai |-> "tea"], Limits <- {1, 2, 5}, Smoothing <- 2, MaxDocs <- 3, Pages <- {}, Shelves <- <<>>,
  High <- {}, MaxHops <- 0, MaxFiled <- 0

Expand == INSTANCE SearchPipeline WITH
  memory <- s1, sought <- s2, listing <- s3, filed <- s4, corpus <- s5, asked <- s6, answer <- s7, done <- s8,
  Pages <- {alpha, beta, gamma, delta}, Shelves <- <<"entity", "decision">>, High <- {"entity"}, MaxHops <- 2,
  MaxFiled <- 5, Docs <- {}, Queries <- {}, Begins <- {}, Stopwords <- {}, AliasOf <- <<>>, Limits <- {},
  Smoothing <- 2, MaxDocs <- 0

Prefetch == INSTANCE HermesMemory WITH
  ranked <- s1, asked <- s2, told <- s3, chunks <- s4, locks <- s5, writer <- s6, turns <- s7, cuts <- s8, kills <- s9,
  Windows <- <<2, 3, 4>>, Want <- 2, Writers <- {}, Processes <- {}, Texts <- {}, Limit <- 0, Header <- 0,
  MaxTurns <- 0, MaxKills <- 0

NotesInit ==
  \/ part = "notes" /\ Note!NInit /\ Unused(9)
  \/ part = "live notes" /\ Live!LInit /\ Unused(13)
  \/ part = "live notes of one" /\ Alone!LInit /\ Unused(13)
  \/ part = "sessions" /\ Debug!DInit /\ Unused(6)
  \/ part = "registers" /\ Register!GInit /\ Unused(7)
  \/ part = "tiers" /\ Tier!TInit /\ Unused(7)
  \/ part = "turns" /\ Turn!TInit /\ Unused(7)
  \/ part = "watching" /\ Watching!WInit /\ Unused(9)
  \/ part = "upkeep" /\ Keeping!UInit /\ Unused(7)
  \/ part = "facts" /\ Fact!TInit /\ Unused(8)
  \/ part = "consolidation" /\ Settle!CInit /\ Unused(12)
  \/ part = "snapshots" /\ Snapshot!SInit /\ Unused(8)
  \/ part = "graph" /\ Graph!GInit /\ Unused(9)
  \/ part = "search" /\ Search!QInit /\ Unused(5)
  \/ part = "expansion" /\ Expand!XInit(Memories) /\ Unused(5)
  \/ part = "prefetch" /\ Prefetch!PInit(Rankings) /\ Unused(4)
NotesNext ==
  \/ part = "notes" /\ Note!NNext /\ UNCHANGED part /\ Frozen(9)
  \/ part = "live notes" /\ Live!LNext /\ UNCHANGED part /\ Frozen(13)
  \/ part = "live notes of one" /\ Alone!LNext /\ UNCHANGED part /\ Frozen(13)
  \/ part = "sessions" /\ Debug!DNext /\ UNCHANGED part /\ Frozen(6)
  \/ part = "registers" /\ Register!GNext /\ UNCHANGED part /\ Frozen(7)
  \/ part = "tiers" /\ Tier!TNext /\ UNCHANGED part /\ Frozen(7)
  \/ part = "turns" /\ Turn!TNext /\ UNCHANGED part /\ Frozen(7)
  \/ part = "watching" /\ Watching!WNext /\ UNCHANGED part /\ Frozen(9)
  \/ part = "upkeep" /\ Keeping!UNext /\ UNCHANGED part /\ Frozen(7)
  \/ part = "facts" /\ Fact!TNext /\ UNCHANGED part /\ Frozen(8)
  \/ part = "consolidation" /\ Settle!CNext /\ UNCHANGED part /\ Frozen(12)
  \/ part = "snapshots" /\ Snapshot!SNext /\ UNCHANGED part /\ Frozen(8)
  \/ part = "graph" /\ Graph!GNext /\ UNCHANGED part /\ Frozen(9)
  \/ part = "search" /\ Search!QNext /\ UNCHANGED part /\ Frozen(5)
  \/ part = "expansion" /\ Expand!XNext /\ UNCHANGED part /\ Frozen(5)
  \/ part = "prefetch" /\ Prefetch!PNext /\ UNCHANGED part /\ Frozen(4)
NotesSpec == NotesInit /\ [][NotesNext]_slots

\* What a returned call wrote into a note is still there after every later call
\* that did not race it, links between notes go both ways, a found conflict is on
\* record, turns are kept in order and a file that changed while it was watched
\* was imported (incident.py, decision_store.py, live_notes, debug sessions,
\* registers, tiers.py, hermes_provider.py, lifecycle.py).
NotesKeepTheirStory ==
  /\ part = "notes" => Note!LinksGoBothWays /\ Note!HypothesesSurvive /\ Note!NotesStayWhole
  /\ part = "live notes" => Live!NotesKeepTheirStory /\ Live!ConflictsAreOnRecord
  /\ part = "live notes of one" => Alone!NotesKeepTheirStory /\ Alone!ConflictsAreOnRecord
  /\ part = "sessions" => Debug!SessionsTellTheirStory
  /\ part = "registers" => Register!RegistersKeepTheirEntries
  /\ part = "tiers" => Tier!TextsSurvive /\ Tier!AnswersHold
  /\ part = "turns" => Turn!TurnsAreKeptInOrder
  /\ part = "watching" => Watching!ChangesAreImported
\* Facts, snapshots and what consolidation does to facts agree with the order in
\* which they were recorded (bitemporal.py, consolidation.py, snapshot.py).
TimelinesHold ==
  /\ part = "facts" => Fact!OpenFactsBeginLater
  /\ part = "consolidation" => Settle!ConsolidationSettlesTheFile
  /\ part = "snapshots" => Snapshot!SnapshotsTellThePast
\* The shortcuts of the search find what the long way finds, fusion agrees with
\* its rankings, an expansion reaches what is linked and stops early only when it
\* had enough, a traversal reaches its hops, and a prefetch prefers facts
\* (core.py, search.py, graph.py, hermes_provider.py).
SearchFindsTheBest ==
  /\ part = "search" => Search!FastPathsFindTheBest /\ Search!FusionAgreesWithItsRuns
  /\ part = "expansion" => Expand!SearchReachesTheLinked /\ Expand!EarlyStopsHadEnough
  /\ part = "prefetch" => Prefetch!RecallPrefersFacts
  /\ part = "graph" => Graph!TraversalsReachTheirHops
\* A sweep takes what its rule names and nothing else: compaction makes room by
\* the oldest, an orphan is mentioned nowhere, the graph keeps one node per id
\* and drops the dangling ones, and the automatic tiers settle (lifecycle.py,
\* consolidation.py, graph.py, tiers.py).
SweepsSpareTheRest ==
  /\ part = "upkeep" => Keeping!RoomIsMadeByTheOldest /\ Keeping!OrphansAreUnmentioned
  /\ part = "graph" => Graph!GraphIsWhole
  /\ part = "tiers" => Tier!AutoTierSettles
==============================================================================
