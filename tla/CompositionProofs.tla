--------------------------- MODULE CompositionProofs ---------------------------
(*****************************************************************************)
(* The joined properties of MCComponents, from the theorems about its parts, *)
(* for every value of its parameters.  Parts has the components of           *)
(* ComponentProofs over the slots and the parameters of MCComponents.  A     *)
(* behaviour of ViewsSpec or LedgersSpec is about one part for good, and is  *)
(* a behaviour of that component, whose steps the bounds of the part only    *)
(* restrict: so the component's theorems hold of it, and the joined          *)
(* properties say nothing of the other parts.                                *)
(*                                                                           *)
(* MCComponents and ComponentProofs each have instances of their own; that   *)
(* two instances with the same substitution start, step and promise alike is *)
(* shown by expanding both.                                                  *)
(*****************************************************************************)
EXTENDS MCComponents, TLAPS

Parts == INSTANCE ComponentProofs WITH
  events <- s1, marks <- s2, policies <- s3, truth <- s4, journal <- s5, audit <- s6, suppressed <- s7,
  gov <- s8, plan <- s9, minted <- s10, forgotten <- s11, erased <- s12, unfiltered <- s13, strayed <- s14,
  cache <- s15, call <- s16, lines <- s1, hidden <- s2, expired <- s3, forget <- s4, audited <- s5,
  returned <- s6, remembered <- s7, files <- s1, writer <- s2, remote <- s1, tracking <- s2, head <- s3,
  work <- s4, upstream <- s5, sync <- s6, syncLog <- s7, edits <- s8, syncs <- s9, grants <- s1, inode <- s2,
  sidecar <- s3, reader <- s4, corrections <- s1, active <- s2, compiling <- s3, injected <- s4,
  sources <- s1, root <- s2, snapshots <- s3, manifest <- s4, holder <- s5, build <- s6, view <- s7,
  changes <- s8, builds <- s9, provenance <- s10, named <- s11, kills <- s12, version <- s1, generation <- s2,
  entries <- s3, clock <- s4, searcher <- s5, mutator <- s6, returnedVersion <- s7, backwards <- s8,
  handed <- s9, meddles <- s10, seeker <- s8, corpusIndex <- s4, indexGen <- s5, verified <- s6, tokens <- s7,
  owing <- s9, toldOf <- s10, restarts <- s12, deleted <- s13, noted <- s3, overtaken <- s11, content <- s1,
  newest <- s3, blanks <- s2, embeddings <- s4, indexLock <- s5, notices <- s6, syncing <- s7, building <- s8,
  lastLogged <- s9, lost <- s10, deaths <- s11, held <- s12, cameBack <- s13, eviction <- s1, texts <- s2,
  recent <- s3, frequent <- s4, ghosts <- s5, frequentGhosts <- s6, target <- s7, keyOf <- s8, opener <- s9,
  reads <- s10, unreported <- s11, overwritten <- s12, crowded <- s13, outdated <- s14,
  Topics <- P.truth.Topics, Values <- P.truth.Values, ValidFrom <- P.truth.ValidFrom,
  Policies <- P.truth.Policies, Denies <- P.truth.Denies, Builders <- P.truth.Builders, None <- Nil,
  Texts <- P.truth.Texts, MaxEvents <- P.truth.MaxEvents, Readers <- P.truth.Readers, Short <- P.truth.Short,
  Sessions <- P.candidates.Sessions, MaxCandidates <- P.candidates.MaxCandidates, NoForget <- Nil,
  Writers <- P.candidates.Writers, MaxCommits <- P.sync.MaxCommits, MaxEdits <- P.sync.MaxEdits,
  MaxSyncs <- P.sync.MaxSyncs, CacheReaders <- P.projection.CacheReaders, Expiries <- P.projection.Expiries,
  Instants <- P.projection.Instants, MaxVersions <- P.projection.MaxVersions, NoFile <- Nil,
  Scopes <- P.correction.Scopes, Revisions <- P.correction.Revisions, Evaluated <- P.correction.Evaluated,
  Observed <- P.correction.Observed, Promoted <- P.correction.Promoted, Kinds <- P.correction.Kinds,
  Moments <- P.correction.Instants, RefLists <- P.correction.RefLists, MaxLines <- P.correction.MaxLines,
  Nothing <- Nil, Files <- P.project.Files, Contents <- P.project.Contents, TooLarge <- P.project.TooLarge,
  Configs <- P.project.Configs, Dates <- P.project.Dates, Compilers <- P.project.Compilers,
  Viewers <- P.project.Viewers, BuildEdits <- P.project.MaxEdits, MaxBuilds <- P.project.MaxBuilds,
  Nobody <- Nil, Searchers <- P.searches.Searchers, Mutators <- P.searches.Mutators,
  Queries <- P.searches.Queries, Capacity <- P.searches.Capacity, Ttl <- P.searches.Ttl,
  MaxVersion <- P.searches.MaxVersion, MaxNow <- P.searches.MaxNow, MaxMeddles <- P.searches.MaxMeddles,
  MaxAnswers <- P.searches.MaxAnswers, Idle <- Nil, NoHits <- P.searches.NoHits, Docs <- P.corpus.Docs,
  Seekers <- P.corpus.Searchers, MaxDocVersion <- P.corpus.MaxVersion, Trusted <- P.corpus.Trusted,
  Expires <- P.corpus.Ttl, MaxRestarts <- P.corpus.MaxRestarts, NoIndex <- Nil,
  TextPaths <- P.embedding.Paths, MaxTextVersion <- P.embedding.MaxVersion, MaxDeaths <- P.embedding.MaxKills,
  NoOne <- "nobody", Watcher <- "watcher", Builder <- "builder", Openers <- P.read.Readers,
  TextFiles <- P.read.Paths, Room <- P.read.Capacity, MaxStats <- P.read.MaxStat, MaxReads <- P.read.MaxReads,
  AtRest <- Nil, NotRead <- Nil

-------------------------------------------------------------------------------
(* Two instances of one component. *)

(* Both instances of a component start alike. *)
LEMMA PartsStartAlike ==
  /\ (Truth!Init => Parts!Init)
  /\ (Truth!RInit => Parts!RInit)
  /\ (Candidates!KInit => Parts!Candidate!KInit)
  /\ (Project!MInit => Parts!Memory!MInit)
  /\ (Projection!PInit => Parts!Projection!PInit)
  /\ (Candidates!AInit => Parts!Candidate!AInit)
  /\ (Read!EInit => Parts!Cached!EInit)
  /\ (Searches!HInit => Parts!Search!HInit)
  /\ (Corpus!CInit => Parts!Corpus!CInit)
  /\ (Embedding!MInit => Parts!Embedding!MInit)
  /\ (Correction!RInit => Parts!Correction!RInit)
  /\ (Sync!YInit => Parts!Sync!YInit)
<1>1. /\ (Truth!Init => Parts!Init)
      /\ (Truth!RInit => Parts!RInit)
      /\ (Candidates!KInit => Parts!Candidate!KInit)
      /\ (Project!MInit => Parts!Memory!MInit)
  BY ZenonT(60) DEF
    Truth!Init, Truth!RInit, Candidates!KInit, Project!MInit, Parts!Init, Parts!RInit, Parts!Candidate!KInit,
    Parts!Memory!MInit
<1>2. /\ (Projection!PInit => Parts!Projection!PInit)
      /\ (Candidates!AInit => Parts!Candidate!AInit)
      /\ (Read!EInit => Parts!Cached!EInit)
      /\ (Searches!HInit => Parts!Search!HInit)
  BY ZenonT(60) DEF
    Projection!PInit, Candidates!AInit, Read!EInit, Searches!HInit, Parts!Projection!PInit,
    Parts!Candidate!AInit, Parts!Cached!EInit, Parts!Search!HInit
<1>3. /\ (Corpus!CInit => Parts!Corpus!CInit)
      /\ (Embedding!MInit => Parts!Embedding!MInit)
      /\ (Correction!RInit => Parts!Correction!RInit)
      /\ (Sync!YInit => Parts!Sync!YInit)
  BY ZenonT(60) DEF
    Corpus!CInit, Corpus!Idle, Embedding!MInit, Embedding!Absent, Embedding!Idle, Correction!RInit,
    Sync!YInit, Sync!Idle, Parts!Corpus!CInit, Parts!Corpus!Idle, Parts!Embedding!MInit,
    Parts!Embedding!Absent, Parts!Embedding!Idle, Parts!Correction!RInit, Parts!Sync!YInit, Parts!Sync!Idle
<1> QED BY <1>1, <1>2, <1>3

(* A step of one is a step of the other. *)
LEMMA TruthSteps == Truth!Next => Parts!Next
  BY ZenonT(60) DEF
    Truth!Next, Truth!Govern, Truth!Rebuild, Truth!AppendEvent, Truth!DoNotRemember, Truth!ForgetId,
    Truth!ForgetTopic, Truth!ForgetText, Truth!Audit, Truth!CompactEvents, Truth!CompactTruth, Truth!Kill,
    Truth!SleepPublish, Truth!SleepJournal, Truth!CompileRead, Truth!CompilePublish, Truth!Unlocked,
    Truth!Denied, Truth!Owes, Truth!ValuesOf, Truth!ToSet, Truth!history, Truth!Forget, Truth!Ids,
    Truth!store, Truth!Keeps, Truth!Picked, Truth!Live, Truth!Orphaned, Truth!AlreadySlept, Truth!Compiled,
    Truth!Transaction, Truth!Safe, Truth!Picks, Truth!Sources, Truth!Fresh, Truth!Row, Truth!Beats,
    Truth!Backed, Parts!Next, Parts!Govern, Parts!Rebuild, Parts!AppendEvent, Parts!DoNotRemember,
    Parts!ForgetId, Parts!ForgetTopic, Parts!ForgetText, Parts!Audit, Parts!CompactEvents, Parts!CompactTruth,
    Parts!Kill, Parts!SleepPublish, Parts!SleepJournal, Parts!CompileRead, Parts!CompilePublish,
    Parts!Unlocked, Parts!Denied, Parts!Owes, Parts!ValuesOf, Parts!ToSet, Parts!history, Parts!Forget,
    Parts!Ids, Parts!store, Parts!Keeps, Parts!Picked, Parts!Live, Parts!Orphaned, Parts!AlreadySlept,
    Parts!Compiled, Parts!Transaction, Parts!Safe, Parts!Picks, Parts!Sources, Parts!Fresh, Parts!Row,
    Parts!Beats, Parts!Backed

LEMMA RecallSteps == Truth!RNext => Parts!RNext
  BY ZenonT(60) DEF
    Truth!RNext, Truth!Govern, Truth!Consult, Truth!ReadList, Truth!ReadEvents, Truth!ReadPolicies,
    Truth!Recalled, Truth!ForgetTextHere, Truth!AppendEvent, Truth!DoNotRemember, Truth!ForgetId,
    Truth!ForgetTopic, Truth!ForgetText, Truth!Audit, Truth!CompactEvents, Truth!CompactTruth, Truth!Kill,
    Truth!Windows, Truth!Stamp, Truth!vars, Truth!At, Truth!ToSet, Truth!EventValues, Truth!StoredUnder,
    Truth!Unlocked, Truth!Denied, Truth!Owes, Truth!ValuesOf, Truth!history, Truth!Forget, Truth!Ids,
    Truth!store, Truth!Keeps, Truth!Picked, Truth!Live, Truth!Orphaned, Truth!Safe, Truth!Picks,
    Truth!Sources, Truth!Backed, Truth!Row, Parts!RNext, Parts!Govern, Parts!Consult, Parts!ReadList,
    Parts!ReadEvents, Parts!ReadPolicies, Parts!Recalled, Parts!ForgetTextHere, Parts!AppendEvent,
    Parts!DoNotRemember, Parts!ForgetId, Parts!ForgetTopic, Parts!ForgetText, Parts!Audit,
    Parts!CompactEvents, Parts!CompactTruth, Parts!Kill, Parts!Windows, Parts!Stamp, Parts!vars, Parts!At,
    Parts!ToSet, Parts!EventValues, Parts!StoredUnder, Parts!Unlocked, Parts!Denied, Parts!Owes,
    Parts!ValuesOf, Parts!history, Parts!Forget, Parts!Ids, Parts!store, Parts!Keeps, Parts!Picked,
    Parts!Live, Parts!Orphaned, Parts!Safe, Parts!Picks, Parts!Sources, Parts!Backed, Parts!Row

LEMMA CandidatesSteps == Candidates!KNext => Parts!Candidate!KNext
  BY ZenonT(60) DEF
    Candidates!KNext, Candidates!RememberCandidate, Candidates!Expire, Candidates!ForgetCandidates,
    Candidates!MarkTombstone, Candidates!AuditForget, Candidates!CompactCandidates, Candidates!KillForget,
    Candidates!Selected, Candidates!Owed, Candidates!Picked, Candidates!ToSet, Candidates!Picks,
    Parts!Candidate!KNext, Parts!Candidate!RememberCandidate, Parts!Candidate!Expire,
    Parts!Candidate!ForgetCandidates, Parts!Candidate!MarkTombstone, Parts!Candidate!AuditForget,
    Parts!Candidate!CompactCandidates, Parts!Candidate!KillForget, Parts!Candidate!Selected,
    Parts!Candidate!Owed, Parts!Candidate!Picked, Parts!Candidate!ToSet, Parts!Candidate!Picks

LEMMA ProjectSteps == Project!MNext => Parts!Memory!MNext
<1>1. ASSUME NEW c \in P.project.Compilers,
               \/ \E d \in P.project.Dates : \/ \E g \in P.project.Configs : Project!ProjectBuild(c, g, d)
                                            \/ Project!ProjectUpdate(c, d)
               \/ \E f \in P.project.Files : Project!Scan(c, f)
               \/ Project!Compile(c) \/ Project!PlanOnly(c)
      PROVE  Parts!Memory!MNext
  BY <1>1, ZenonT(60) DEF
    Project!ProjectBuild, Project!ProjectUpdate, Project!Scan, Project!Compile, Project!PlanOnly,
    Project!Begin, Project!Building, Project!Calm, Project!disk, Project!history, Project!WithinLimits,
    Project!To, Project!Done, Project!counters, Parts!Memory!MNext, Parts!Memory!ProjectBuild,
    Parts!Memory!ProjectUpdate, Parts!Memory!Scan, Parts!Memory!Compile, Parts!Memory!PlanOnly,
    Parts!Memory!Begin, Parts!Memory!Building, Parts!Memory!Calm, Parts!Memory!disk, Parts!Memory!history,
    Parts!Memory!WithinLimits, Parts!Memory!To, Parts!Memory!Done, Parts!Memory!counters
<1>2. ASSUME NEW c \in P.project.Compilers,
               \/ Project!CreateRoot(c) \/ Project!WriteMarker(c) \/ Project!ValidateOwned(c)
               \/ Project!LockStore(c) \/ Project!CheckIdentity(c)
      PROVE  Parts!Memory!MNext
  BY <1>2, ZenonT(60) DEF
    Project!CreateRoot, Project!WriteMarker, Project!ValidateOwned, Project!LockStore, Project!CheckIdentity,
    Project!Building, Project!To, Project!Calm, Project!history, Project!Done, Project!disk, Project!Refused,
    Project!counters, Project!Id, Project!Manifest, Project!SnapshotId, Parts!Memory!MNext,
    Parts!Memory!CreateRoot, Parts!Memory!WriteMarker, Parts!Memory!ValidateOwned, Parts!Memory!LockStore,
    Parts!Memory!CheckIdentity, Parts!Memory!Building, Parts!Memory!To, Parts!Memory!Calm,
    Parts!Memory!history, Parts!Memory!Done, Parts!Memory!disk, Parts!Memory!Refused, Parts!Memory!counters,
    Parts!Memory!Id, Parts!Memory!Manifest, Parts!Memory!SnapshotId
<1>3. ASSUME NEW c \in P.project.Compilers,
               \/ Project!PublishSnapshot(c) \/ Project!PublishManifest(c) \/ Project!Applied(c)
               \/ Project!RecordProvenance(c) \/ Project!Fail(c) \/ Project!KillBuild(c)
      PROVE  Parts!Memory!MNext
  BY <1>3, ZenonT(60) DEF
    Project!PublishSnapshot, Project!PublishManifest, Project!Applied, Project!RecordProvenance, Project!Fail,
    Project!KillBuild, Project!Building, Project!Id, Project!To, Project!Calm, Project!history,
    Project!Manifest, Project!disk, Project!Done, Project!Orphan, Project!counters, Project!SnapshotId,
    Parts!Memory!MNext, Parts!Memory!PublishSnapshot, Parts!Memory!PublishManifest, Parts!Memory!Applied,
    Parts!Memory!RecordProvenance, Parts!Memory!Fail, Parts!Memory!KillBuild, Parts!Memory!Building,
    Parts!Memory!Id, Parts!Memory!To, Parts!Memory!Calm, Parts!Memory!history, Parts!Memory!Manifest,
    Parts!Memory!disk, Parts!Memory!Done, Parts!Memory!Orphan, Parts!Memory!counters, Parts!Memory!SnapshotId
<1>4. ASSUME NEW v \in P.project.Viewers,
               Project!ReadManifest(v) \/ Project!OpenSnapshot(v) \/ Project!CloseView(v)
      PROVE  Parts!Memory!MNext
  BY <1>4, ZenonT(60) DEF
    Project!ReadManifest, Project!OpenSnapshot, Project!CloseView, Project!disk, Project!counters,
    Project!history, Project!Stale, Project!Restrict, Parts!Memory!MNext, Parts!Memory!ReadManifest,
    Parts!Memory!OpenSnapshot, Parts!Memory!CloseView, Parts!Memory!disk, Parts!Memory!counters,
    Parts!Memory!history, Parts!Memory!Stale, Parts!Memory!Restrict
<1>5. ASSUME NEW f \in P.project.Files, NEW x \in P.project.Contents,
               Project!EditSource(f, x)
      PROVE  Parts!Memory!MNext
  BY <1>5, ZenonT(60) DEF
    Project!EditSource, Project!disk, Project!history, Parts!Memory!MNext, Parts!Memory!EditSource,
    Parts!Memory!disk, Parts!Memory!history
<1> QED BY <1>1, <1>2, <1>3, <1>4, <1>5, ZenonT(60) DEF Project!MNext

LEMMA ProjectionSteps == Projection!PNext => Parts!Projection!PNext
  BY ZenonT(60) DEF
    Projection!PNext, Projection!Write, Projection!ReplaceLog, Projection!ReadProjection, Projection!Load,
    Projection!Confirm, Projection!StampLog, Projection!FoldLog, Projection!PublishFold,
    Projection!WriteSidecar, Projection!Forget, Projection!Go, Projection!Fingerprint, Projection!In,
    Projection!Usable, Projection!Holding, Projection!Seeking, Projection!Returned, Projection!Folded,
    Projection!Unchanged, Projection!Answer, Projection!ActiveAt, Parts!Projection!PNext,
    Parts!Projection!Write, Parts!Projection!ReplaceLog, Parts!Projection!ReadProjection,
    Parts!Projection!Load, Parts!Projection!Confirm, Parts!Projection!StampLog, Parts!Projection!FoldLog,
    Parts!Projection!PublishFold, Parts!Projection!WriteSidecar, Parts!Projection!Forget, Parts!Projection!Go,
    Parts!Projection!Fingerprint, Parts!Projection!In, Parts!Projection!Usable, Parts!Projection!Holding,
    Parts!Projection!Seeking, Parts!Projection!Returned, Parts!Projection!Folded, Parts!Projection!Unchanged,
    Parts!Projection!Answer, Parts!Projection!ActiveAt

LEMMA ArtifactSteps == Candidates!ANext => Parts!Candidate!ANext
  BY ZenonT(60) DEF
    Candidates!ANext, Candidates!Persist, Candidates!Fail, Candidates!CleanUp, Candidates!Die,
    Candidates!Writing, Candidates!Wrote, Candidates!After, Candidates!Unlinks, Parts!Candidate!ANext,
    Parts!Candidate!Persist, Parts!Candidate!Fail, Parts!Candidate!CleanUp, Parts!Candidate!Die,
    Parts!Candidate!Writing, Parts!Candidate!Wrote, Parts!Candidate!After, Parts!Candidate!Unlinks

LEMMA ReadSteps == Read!ENext => Parts!Cached!ENext
<1>1. ASSUME NEW r \in P.read.Readers, NEW p \in P.read.Paths,
               Read!Hit(r, p) \/ Read!MissLru(r, p)
      PROVE  Parts!Cached!ENext
  BY <1>1, ZenonT(60) DEF
    Read!Hit, Read!MissLru, Read!Begin, Read!In, Read!Key, Read!Put, Read!TextOf, Read!Current, Read!Drop,
    Read!Assign, Read!Reading, Read!cacheVars, Read!Entry, Read!Picked, Read!Picks, Parts!Cached!ENext,
    Parts!Cached!Hit, Parts!Cached!MissLru, Parts!Cached!Begin, Parts!Cached!In, Parts!Cached!Key,
    Parts!Cached!Put, Parts!Cached!TextOf, Parts!Cached!Current, Parts!Cached!Drop, Parts!Cached!Assign,
    Parts!Cached!Reading, Parts!Cached!cacheVars, Parts!Cached!Entry, Parts!Cached!Picked, Parts!Cached!Picks
<1>2. ASSUME NEW r \in P.read.Readers, NEW p \in P.read.Paths,
               Read!MissArc(r, p)
      PROVE  Parts!Cached!ENext
  BY <1>2, ZenonT(60) DEF
    Read!MissArc, Read!Key, Read!Smaller, Read!Larger, Read!Begin, Read!In, Read!Reading, Read!Replaced,
    Read!Become, Read!Drop, Read!FromT1, Read!Assign, Read!Picked, Read!Entry, Read!Picks, Parts!Cached!ENext,
    Parts!Cached!MissArc, Parts!Cached!Key, Parts!Cached!Smaller, Parts!Cached!Larger, Parts!Cached!Begin,
    Parts!Cached!In, Parts!Cached!Reading, Parts!Cached!Replaced, Parts!Cached!Become, Parts!Cached!Drop,
    Parts!Cached!FromT1, Parts!Cached!Assign, Parts!Cached!Picked, Parts!Cached!Entry, Parts!Cached!Picks
<1>3. ASSUME NEW r \in P.read.Readers,
               Read!ReadText(r) \/ Read!StoreLru(r) \/ Read!StoreArc(r)
      PROVE  Parts!Cached!ENext
  BY <1>3, ZenonT(60) DEF
    Read!ReadText, Read!StoreLru, Read!StoreArc, Read!cacheVars, Read!Newest, Read!Put, Read!Drop,
    Read!Evicted, Read!DropOthers, Read!Assign, Read!Entry, Read!Picked, Read!In, Read!Picks,
    Parts!Cached!ENext, Parts!Cached!ReadText, Parts!Cached!StoreLru, Parts!Cached!StoreArc,
    Parts!Cached!cacheVars, Parts!Cached!Newest, Parts!Cached!Put, Parts!Cached!Drop, Parts!Cached!Evicted,
    Parts!Cached!DropOthers, Parts!Cached!Assign, Parts!Cached!Entry, Parts!Cached!Picked, Parts!Cached!In,
    Parts!Cached!Picks
<1>4. ASSUME NEW p \in P.read.Paths,
               Read!WriteSeen(p) \/ Read!WriteUnseen(p) \/ Read!Invalidate(p)
      PROVE  Parts!Cached!ENext
  BY <1>4, ZenonT(60) DEF
    Read!WriteSeen, Read!WriteUnseen, Read!Invalidate, Read!cacheVars, Read!Busy, Read!DropPath, Read!Picked,
    Read!Picks, Parts!Cached!ENext, Parts!Cached!WriteSeen, Parts!Cached!WriteUnseen, Parts!Cached!Invalidate,
    Parts!Cached!cacheVars, Parts!Cached!Busy, Parts!Cached!DropPath, Parts!Cached!Picked, Parts!Cached!Picks
<1> QED BY <1>1, <1>2, <1>3, <1>4, ZenonT(60) DEF Read!ENext

LEMMA SearchesSteps == Searches!HNext => Parts!Search!HNext
  BY ZenonT(60) DEF
    Searches!HNext, Searches!Hit, Searches!Miss, Searches!Compute, Searches!Put, Searches!Mutate,
    Searches!BumpRead, Searches!BumpWrite, Searches!Meddle, Searches!WriteElsewhere, Searches!Tick,
    Searches!Clear, Searches!At, Searches!Key, Searches!Fresh, Searches!Without, Searches!Answer,
    Searches!Bounded, Searches!Bumped, Searches!Picked, Searches!Picks, Parts!Search!HNext, Parts!Search!Hit,
    Parts!Search!Miss, Parts!Search!Compute, Parts!Search!Put, Parts!Search!Mutate, Parts!Search!BumpRead,
    Parts!Search!BumpWrite, Parts!Search!Meddle, Parts!Search!WriteElsewhere, Parts!Search!Tick,
    Parts!Search!Clear, Parts!Search!At, Parts!Search!Key, Parts!Search!Fresh, Parts!Search!Without,
    Parts!Search!Answer, Parts!Search!Bounded, Parts!Search!Bumped, Parts!Search!Picked, Parts!Search!Picks

LEMMA CorpusSteps == Corpus!CNext => Parts!Corpus!CNext
  BY ZenonT(60) DEF
    Corpus!CNext, Corpus!OwnWrite, Corpus!ForeignWrite, Corpus!Invalidate, Corpus!Expire, Corpus!Restart,
    Corpus!Begin, Corpus!Observe, Corpus!Scan, Corpus!Check, Corpus!Decide, Corpus!Build, Corpus!PublishBuild,
    Corpus!Mark, Corpus!Write, Corpus!Idle, Corpus!Goes, Corpus!Answer, Corpus!process, Corpus!Matches,
    Corpus!Finish, Corpus!Publish, Corpus!Incremental, Corpus!Index, Corpus!Body, Corpus!Reused, Corpus!Next3,
    Corpus!Present, Corpus!Stats, Corpus!Changed, Corpus!Stat, Corpus!HasTokens, Parts!Corpus!CNext,
    Parts!Corpus!OwnWrite, Parts!Corpus!ForeignWrite, Parts!Corpus!Invalidate, Parts!Corpus!Expire,
    Parts!Corpus!Restart, Parts!Corpus!Begin, Parts!Corpus!Observe, Parts!Corpus!Scan, Parts!Corpus!Check,
    Parts!Corpus!Decide, Parts!Corpus!Build, Parts!Corpus!PublishBuild, Parts!Corpus!Mark, Parts!Corpus!Write,
    Parts!Corpus!Idle, Parts!Corpus!Goes, Parts!Corpus!Answer, Parts!Corpus!process, Parts!Corpus!Matches,
    Parts!Corpus!Finish, Parts!Corpus!Publish, Parts!Corpus!Incremental, Parts!Corpus!Index,
    Parts!Corpus!Body, Parts!Corpus!Reused, Parts!Corpus!Next3, Parts!Corpus!Present, Parts!Corpus!Stats,
    Parts!Corpus!Changed, Parts!Corpus!Stat, Parts!Corpus!HasTokens

LEMMA EmbeddingSteps == Embedding!MNext => Parts!Embedding!MNext
  BY ZenonT(60) DEF
    Embedding!MNext, Embedding!Edit, Embedding!Watch, Embedding!Build, Embedding!Clear, Embedding!Kill,
    Embedding!Delete, Embedding!Write, Embedding!Move, Embedding!Apply, Embedding!SyncBegin,
    Embedding!SyncStat, Embedding!SyncRead, Embedding!SyncWrite, Embedding!BuildBegin, Embedding!BuildStat,
    Embedding!BuildRead, Embedding!BuildWrite, Embedding!Absent, Embedding!Same, Embedding!Idle,
    Embedding!Tell, Embedding!Calm, Embedding!Drops, Embedding!NoRecord, Embedding!Stored, Embedding!Record,
    Embedding!Kept, Parts!Embedding!MNext, Parts!Embedding!Edit, Parts!Embedding!Watch, Parts!Embedding!Build,
    Parts!Embedding!Clear, Parts!Embedding!Kill, Parts!Embedding!Delete, Parts!Embedding!Write,
    Parts!Embedding!Move, Parts!Embedding!Apply, Parts!Embedding!SyncBegin, Parts!Embedding!SyncStat,
    Parts!Embedding!SyncRead, Parts!Embedding!SyncWrite, Parts!Embedding!BuildBegin,
    Parts!Embedding!BuildStat, Parts!Embedding!BuildRead, Parts!Embedding!BuildWrite, Parts!Embedding!Absent,
    Parts!Embedding!Same, Parts!Embedding!Idle, Parts!Embedding!Tell, Parts!Embedding!Calm,
    Parts!Embedding!Drops, Parts!Embedding!NoRecord, Parts!Embedding!Stored, Parts!Embedding!Record,
    Parts!Embedding!Kept

LEMMA CorrectionSteps == Correction!RNext => Parts!Correction!RNext
  BY ZenonT(60) DEF
    Correction!RNext, Correction!WriteCall, Correction!HostCall, Correction!Write, Correction!Capture,
    Correction!First, Correction!ReviseCall, Correction!Evaluation, Correction!Outcome, Correction!Rescope,
    Correction!Promote, Correction!CompileRead, Correction!CompileInject, Correction!Intact, Correction!ToSet,
    Correction!MayAppend, Correction!Captured, Correction!Revise, Correction!Scope, Correction!Recorded,
    Correction!Positions, Correction!Digest, Correction!Read, Correction!Current, Correction!Widens,
    Correction!ClocksAgree, Correction!Latest, Correction!FoldLeft, Correction!Structural,
    Correction!Accounted, Correction!Receipts, Correction!Boundary, Correction!RevisedAt,
    Correction!MapThenFoldSet, Correction!Max, Parts!Correction!RNext, Parts!Correction!WriteCall,
    Parts!Correction!HostCall, Parts!Correction!Write, Parts!Correction!Capture, Parts!Correction!First,
    Parts!Correction!ReviseCall, Parts!Correction!Evaluation, Parts!Correction!Outcome,
    Parts!Correction!Rescope, Parts!Correction!Promote, Parts!Correction!CompileRead,
    Parts!Correction!CompileInject, Parts!Correction!Intact, Parts!Correction!ToSet,
    Parts!Correction!MayAppend, Parts!Correction!Captured, Parts!Correction!Revise, Parts!Correction!Scope,
    Parts!Correction!Recorded, Parts!Correction!Positions, Parts!Correction!Digest, Parts!Correction!Read,
    Parts!Correction!Current, Parts!Correction!Widens, Parts!Correction!ClocksAgree, Parts!Correction!Latest,
    Parts!Correction!FoldLeft, Parts!Correction!Structural, Parts!Correction!Accounted,
    Parts!Correction!Receipts, Parts!Correction!Boundary, Parts!Correction!RevisedAt,
    Parts!Correction!MapThenFoldSet, Parts!Correction!Max

LEMMA SyncSteps == Sync!YNext => Parts!Sync!YNext
  BY ZenonT(60) DEF
    Sync!YNext, Sync!Elsewhere, Sync!Guard, Sync!Edit, Sync!Commit, Sync!Push, Sync!Others, Sync!Retrack,
    Sync!Begin, Sync!Fetch, Sync!Status, Sync!Counts, Sync!Report, Sync!Pull, Sync!Kill, Sync!Idle, Sync!None,
    Sync!Answers, Sync!Drift, Sync!Behind, Sync!StateOf, Sync!Log, Sync!Forward, Parts!Sync!YNext,
    Parts!Sync!Elsewhere, Parts!Sync!Guard, Parts!Sync!Edit, Parts!Sync!Commit, Parts!Sync!Push,
    Parts!Sync!Others, Parts!Sync!Retrack, Parts!Sync!Begin, Parts!Sync!Fetch, Parts!Sync!Status,
    Parts!Sync!Counts, Parts!Sync!Report, Parts!Sync!Pull, Parts!Sync!Kill, Parts!Sync!Idle, Parts!Sync!None,
    Parts!Sync!Answers, Parts!Sync!Drift, Parts!Sync!Behind, Parts!Sync!StateOf, Parts!Sync!Log,
    Parts!Sync!Forward

(* What is proved of one is so of the other. *)
LEMMA PartsPromiseAlike ==
  /\ (Parts!TruthHidesTheForgotten => Truth!TruthHidesTheForgotten)
  /\ (Parts!AuditNamesTheForgotten => Truth!AuditNamesTheForgotten)
  /\ (Parts!FreshTruthIsTheLog => Truth!FreshTruthIsTheLog)
  /\ (Parts!RecallHidesTheForgotten => Truth!RecallHidesTheForgotten)
  /\ (Parts!Candidate!ForgetsAreWhole => Candidates!ForgetsAreWhole)
  /\ (Parts!Memory!ContextsAreHonest => Project!ContextsAreHonest)
  /\ (Parts!Memory!NamedSnapshotsExist => Project!NamedSnapshotsExist)
  /\ (Parts!Memory!LeftoversComeFromFaults => Project!LeftoversComeFromFaults)
  /\ (Parts!Candidate!FoundArtifactsAreWhole => Candidates!FoundArtifactsAreWhole)
  /\ (Parts!Projection!AnswersAreOfThisCall => Projection!AnswersAreOfThisCall)
  /\ (Parts!Embedding!IndexTellsTheFiles => Embedding!IndexTellsTheFiles)
  /\ (Parts!Cached!HitsAreCurrent => Read!HitsAreCurrent)
  /\ (Parts!Search!SearchesSeeReturnedMutations => Searches!SearchesSeeReturnedMutations)
  /\ (Parts!Corpus!ScansAreCurrent => Corpus!ScansAreCurrent)
  /\ (Parts!Corpus!OwnWritesShowUnlessRaced => Corpus!OwnWritesShowUnlessRaced)
  /\ (Parts!Correction!WideningsWereEarned => Correction!WideningsWereEarned)
  /\ (Parts!Correction!InjectedAsPromoted => Correction!InjectedAsPromoted)
  /\ (Parts!Sync!FastForwards => Sync!FastForwards)
<1>1. /\ (Parts!TruthHidesTheForgotten => Truth!TruthHidesTheForgotten)
      /\ (Parts!AuditNamesTheForgotten => Truth!AuditNamesTheForgotten)
      /\ (Parts!FreshTruthIsTheLog => Truth!FreshTruthIsTheLog)
      /\ (Parts!RecallHidesTheForgotten => Truth!RecallHidesTheForgotten)
  BY ZenonT(60) DEF
    Truth!TruthHidesTheForgotten, Truth!Unlocked, Truth!CurrentTruth, Truth!Denied, Truth!ToSet, Truth!Live,
    Truth!Row, Truth!Snapshot, Truth!Safe, Truth!Backed, Truth!Sources, Truth!AuditNamesTheForgotten,
    Truth!FreshTruthIsTheLog, Truth!Fresh, Truth!Compiled, Truth!Transaction, Truth!Beats,
    Truth!RecallHidesTheForgotten, Truth!At, Parts!TruthHidesTheForgotten, Parts!Unlocked, Parts!CurrentTruth,
    Parts!Denied, Parts!ToSet, Parts!Live, Parts!Row, Parts!Snapshot, Parts!Safe, Parts!Backed, Parts!Sources,
    Parts!AuditNamesTheForgotten, Parts!FreshTruthIsTheLog, Parts!Fresh, Parts!Compiled, Parts!Transaction,
    Parts!Beats, Parts!RecallHidesTheForgotten, Parts!At
<1>2. /\ (Parts!Candidate!ForgetsAreWhole => Candidates!ForgetsAreWhole)
      /\ (Parts!Memory!ContextsAreHonest => Project!ContextsAreHonest)
      /\ (Parts!Memory!NamedSnapshotsExist => Project!NamedSnapshotsExist)
      /\ (Parts!Memory!LeftoversComeFromFaults => Project!LeftoversComeFromFaults)
      /\ (Parts!Candidate!FoundArtifactsAreWhole => Candidates!FoundArtifactsAreWhole)
  BY ZenonT(60) DEF
    Candidates!ForgetsAreWhole, Candidates!Listed, Candidates!ToSet, Project!ContextsAreHonest,
    Project!SnapshotId, Project!Restrict, Project!NamedSnapshotsExist, Project!LeftoversComeFromFaults,
    Project!Id, Project!Building, Project!Manifest, Candidates!FoundArtifactsAreWhole, Candidates!Found,
    Candidates!InCorpus, Parts!Candidate!ForgetsAreWhole, Parts!Candidate!Listed, Parts!Candidate!ToSet,
    Parts!Memory!ContextsAreHonest, Parts!Memory!SnapshotId, Parts!Memory!Restrict,
    Parts!Memory!NamedSnapshotsExist, Parts!Memory!LeftoversComeFromFaults, Parts!Memory!Id,
    Parts!Memory!Building, Parts!Memory!Manifest, Parts!Candidate!FoundArtifactsAreWhole,
    Parts!Candidate!Found, Parts!Candidate!InCorpus
<1>3. /\ (Parts!Projection!AnswersAreOfThisCall => Projection!AnswersAreOfThisCall)
      /\ (Parts!Embedding!IndexTellsTheFiles => Embedding!IndexTellsTheFiles)
  BY ZenonT(60) DEF
    Projection!AnswersAreOfThisCall, Projection!In, Projection!Answer, Projection!Folded, Projection!ActiveAt,
    Embedding!IndexTellsTheFiles, Embedding!LooksAreTrue, Embedding!DrainedMeansFresh, Embedding!Stored,
    Embedding!NoRecord, Embedding!Idle, Embedding!State, Embedding!Texts, Embedding!Absent, Embedding!Missing,
    Embedding!Orphaned, Embedding!Stale, Parts!Projection!AnswersAreOfThisCall, Parts!Projection!In,
    Parts!Projection!Answer, Parts!Projection!Folded, Parts!Projection!ActiveAt,
    Parts!Embedding!IndexTellsTheFiles, Parts!Embedding!LooksAreTrue, Parts!Embedding!DrainedMeansFresh,
    Parts!Embedding!Stored, Parts!Embedding!NoRecord, Parts!Embedding!Idle, Parts!Embedding!State,
    Parts!Embedding!Texts, Parts!Embedding!Absent, Parts!Embedding!Missing, Parts!Embedding!Orphaned,
    Parts!Embedding!Stale
<1>4. /\ (Parts!Cached!HitsAreCurrent => Read!HitsAreCurrent)
      /\ (Parts!Search!SearchesSeeReturnedMutations => Searches!SearchesSeeReturnedMutations)
      /\ (Parts!Corpus!ScansAreCurrent => Corpus!ScansAreCurrent)
      /\ (Parts!Corpus!OwnWritesShowUnlessRaced => Corpus!OwnWritesShowUnlessRaced)
  BY ZenonT(60) DEF
    Read!HitsAreCurrent, Read!Keys, Searches!SearchesSeeReturnedMutations, Corpus!ScansAreCurrent,
    Corpus!Answers, Corpus!Shows, Corpus!Present, Corpus!OwnWritesShowUnlessRaced,
    Parts!Cached!HitsAreCurrent, Parts!Cached!Keys, Parts!Search!SearchesSeeReturnedMutations,
    Parts!Corpus!ScansAreCurrent, Parts!Corpus!Answers, Parts!Corpus!Shows, Parts!Corpus!Present,
    Parts!Corpus!OwnWritesShowUnlessRaced
<1>5. /\ (Parts!Correction!WideningsWereEarned => Correction!WideningsWereEarned)
      /\ (Parts!Correction!InjectedAsPromoted => Correction!InjectedAsPromoted)
      /\ (Parts!Sync!FastForwards => Sync!FastForwards)
  BY ZenonT(60) DEF
    Correction!WideningsWereEarned, Correction!Positions, Correction!First, Correction!Receipts,
    Correction!InjectedAsPromoted, Sync!FastForwards, Sync!Guard, Sync!Begin, Sync!Fetch, Sync!Status,
    Sync!Counts, Sync!Report, Sync!Pull, Sync!Kill, Sync!Idle, Sync!None, Sync!Answers, Sync!Drift,
    Sync!Behind, Sync!StateOf, Sync!Log, Sync!Forward, Parts!Correction!WideningsWereEarned,
    Parts!Correction!Positions, Parts!Correction!First, Parts!Correction!Receipts,
    Parts!Correction!InjectedAsPromoted, Parts!Sync!FastForwards, Parts!Sync!Guard, Parts!Sync!Begin,
    Parts!Sync!Fetch, Parts!Sync!Status, Parts!Sync!Counts, Parts!Sync!Report, Parts!Sync!Pull,
    Parts!Sync!Kill, Parts!Sync!Idle, Parts!Sync!None, Parts!Sync!Answers, Parts!Sync!Drift,
    Parts!Sync!Behind, Parts!Sync!StateOf, Parts!Sync!Log, Parts!Sync!Forward
<1> QED BY <1>1, <1>2, <1>3, <1>4, <1>5

-------------------------------------------------------------------------------
(* A behaviour and its part. *)

(* A behaviour begins as its part does, stays with it, and steps as it does. *)
LEMMA ViewsStart ==
  ViewsInit =>
    /\ part = "truth" => Parts!Init
    /\ part = "recall" => Parts!RInit
    /\ part = "candidates" => Parts!Candidate!KInit
    /\ part = "project" => Parts!Memory!MInit
    /\ part = "projection" => Parts!Projection!PInit
    /\ part = "artifacts" => Parts!Candidate!AInit
    /\ part = "read" => Parts!Cached!EInit
    /\ part = "searches" => Parts!Search!HInit
    /\ part = "corpus" => Parts!Corpus!CInit
    /\ part = "restart" => Parts!Corpus!CInit
    /\ part = "embedding" => Parts!Embedding!MInit
  BY PartsStartAlike, ZenonT(60) DEF ViewsInit

LEMMA ViewsKeepTheirPart == [ViewsNext]_slots => part' = part
  BY ZenonT(60) DEF ViewsNext, slots

LEMMA ViewsStay ==
  [ViewsNext]_slots =>
    /\ part = "truth" <=> (part = "truth")'
    /\ part = "recall" <=> (part = "recall")'
    /\ part = "candidates" <=> (part = "candidates")'
    /\ part = "project" <=> (part = "project")'
    /\ part = "projection" <=> (part = "projection")'
    /\ part = "artifacts" <=> (part = "artifacts")'
    /\ part = "read" <=> (part = "read")'
    /\ part = "searches" <=> (part = "searches")'
    /\ part = "corpus" <=> (part = "corpus")'
    /\ part = "restart" <=> (part = "restart")'
    /\ part = "embedding" <=> (part = "embedding")'
  BY ViewsKeepTheirPart, SMTT(30)

LEMMA ViewsStep ==
  [ViewsNext]_slots =>
    /\ part = "truth" => [Parts!Next]_(Parts!vars)
    /\ part = "recall" => [Parts!RNext]_(Parts!rvars)
    /\ part = "candidates" => [Parts!Candidate!KNext]_(Parts!Candidate!kvars)
    /\ part = "project" => [Parts!Memory!MNext]_(Parts!Memory!mvars)
    /\ part = "projection" => [Parts!Projection!PNext]_(Parts!Projection!pvars)
    /\ part = "artifacts" => [Parts!Candidate!ANext]_(Parts!Candidate!avars)
    /\ part = "read" => [Parts!Cached!ENext]_(Parts!Cached!evars)
    /\ part = "searches" => [Parts!Search!HNext]_(Parts!Search!hvars)
    /\ part = "corpus" => [Parts!Corpus!CNext]_(Parts!Corpus!cvars)
    /\ part = "restart" => [Parts!Corpus!CNext]_(Parts!Corpus!cvars)
    /\ part = "embedding" => [Parts!Embedding!MNext]_(Parts!Embedding!mvars)
<1> SUFFICES ASSUME [ViewsNext]_slots
             PROVE  /\ part = "truth" => [Parts!Next]_(Parts!vars)
                    /\ part = "recall" => [Parts!RNext]_(Parts!rvars)
                    /\ part = "candidates" => [Parts!Candidate!KNext]_(Parts!Candidate!kvars)
                    /\ part = "project" => [Parts!Memory!MNext]_(Parts!Memory!mvars)
                    /\ part = "projection" => [Parts!Projection!PNext]_(Parts!Projection!pvars)
                    /\ part = "artifacts" => [Parts!Candidate!ANext]_(Parts!Candidate!avars)
                    /\ part = "read" => [Parts!Cached!ENext]_(Parts!Cached!evars)
                    /\ part = "searches" => [Parts!Search!HNext]_(Parts!Search!hvars)
                    /\ part = "corpus" => [Parts!Corpus!CNext]_(Parts!Corpus!cvars)
                    /\ part = "restart" => [Parts!Corpus!CNext]_(Parts!Corpus!cvars)
                    /\ part = "embedding" => [Parts!Embedding!MNext]_(Parts!Embedding!mvars)
  OBVIOUS
<1>1. part = "truth" => [Parts!Next]_(Parts!vars)
  BY TruthSteps, SMTT(30) DEF ViewsNext, slots, Parts!vars, Parts!store, Parts!history
<1>2. part = "recall" => [Parts!RNext]_(Parts!rvars)
  BY RecallSteps, SMTT(30) DEF ViewsNext, slots, Parts!rvars, Parts!vars, Parts!store, Parts!history
<1>3. part = "candidates" => [Parts!Candidate!KNext]_(Parts!Candidate!kvars)
  BY CandidatesSteps, SMTT(30) DEF ViewsNext, slots, Parts!Candidate!kvars
<1>4. part = "project" => [Parts!Memory!MNext]_(Parts!Memory!mvars)
  BY ProjectSteps, SMTT(30) DEF ViewsNext, slots, Parts!Memory!mvars, Parts!Memory!disk, Parts!Memory!counters, Parts!Memory!history
<1>5. part = "projection" => [Parts!Projection!PNext]_(Parts!Projection!pvars)
  BY ProjectionSteps, SMTT(30) DEF ViewsNext, slots, Parts!Projection!pvars
<1>6. part = "artifacts" => [Parts!Candidate!ANext]_(Parts!Candidate!avars)
  BY ArtifactSteps, SMTT(30) DEF ViewsNext, slots, Parts!Candidate!avars
<1>7. part = "read" => [Parts!Cached!ENext]_(Parts!Cached!evars)
  BY ReadSteps, SMTT(30) DEF ViewsNext, slots, Parts!Cached!evars, Parts!Cached!cacheVars
<1>8. part = "searches" => [Parts!Search!HNext]_(Parts!Search!hvars)
  BY SearchesSteps, SMTT(30) DEF ViewsNext, slots, Parts!Search!hvars
<1>9. part = "corpus" => [Parts!Corpus!CNext]_(Parts!Corpus!cvars)
  BY CorpusSteps, SMTT(30) DEF ViewsNext, slots, Parts!Corpus!cvars, Parts!Corpus!process
<1>10. part = "restart" => [Parts!Corpus!CNext]_(Parts!Corpus!cvars)
  BY CorpusSteps, SMTT(30) DEF ViewsNext, slots, Parts!Corpus!cvars, Parts!Corpus!process
<1>11. part = "embedding" => [Parts!Embedding!MNext]_(Parts!Embedding!mvars)
  BY EmbeddingSteps, SMTT(30) DEF ViewsNext, slots, Parts!Embedding!mvars
<1> QED BY <1>1, <1>2, <1>3, <1>4, <1>5, <1>6, <1>7, <1>8, <1>9, <1>10, <1>11

LEMMA LedgersStart ==
  LedgersInit =>
    /\ part = "corrections" => Parts!Correction!RInit
    /\ part = "injections" => Parts!Correction!RInit
    /\ part = "synchronisation" => Parts!Sync!YInit
  BY PartsStartAlike, ZenonT(60) DEF LedgersInit

LEMMA LedgersKeepTheirPart == [LedgersNext]_slots => part' = part
  BY ZenonT(60) DEF LedgersNext, slots

LEMMA LedgersStay ==
  [LedgersNext]_slots =>
    /\ part = "corrections" <=> (part = "corrections")'
    /\ part = "injections" <=> (part = "injections")'
    /\ part = "synchronisation" <=> (part = "synchronisation")'
  BY LedgersKeepTheirPart, SMTT(30)

LEMMA LedgersStep ==
  [LedgersNext]_slots =>
    /\ part = "corrections" => [Parts!Correction!RNext]_(Parts!Correction!rvars)
    /\ part = "injections" => [Parts!Correction!RNext]_(Parts!Correction!rvars)
    /\ part = "synchronisation" => [Parts!Sync!YNext]_(Parts!Sync!yvars)
<1> SUFFICES ASSUME [LedgersNext]_slots
             PROVE  /\ part = "corrections" => [Parts!Correction!RNext]_(Parts!Correction!rvars)
                    /\ part = "injections" => [Parts!Correction!RNext]_(Parts!Correction!rvars)
                    /\ part = "synchronisation" => [Parts!Sync!YNext]_(Parts!Sync!yvars)
  OBVIOUS
<1>1. part = "corrections" => [Parts!Correction!RNext]_(Parts!Correction!rvars)
  BY CorrectionSteps, SMTT(30) DEF LedgersNext, slots, Parts!Correction!rvars, CorrectionNext, Correction!RNext
<1>2. part = "injections" => [Parts!Correction!RNext]_(Parts!Correction!rvars)
  BY CorrectionSteps, SMTT(30) DEF LedgersNext, slots, Parts!Correction!rvars, InjectionNext, Correction!RNext
<1>3. part = "synchronisation" => [Parts!Sync!YNext]_(Parts!Sync!yvars)
  BY SyncSteps, SMTT(30) DEF LedgersNext, slots, Parts!Sync!yvars
<1> QED BY <1>1, <1>2, <1>3

-------------------------------------------------------------------------------
(* The theorems of the components, in their parts. *)

(* The watcher, the builder and nobody are told apart. *)
LEMMA HoldersAreTold == Parts!HoldersAreApart
  BY DEF Parts!HoldersAreApart

(* What is proved of a component holds in its part. *)
LEMMA TruthHolds ==
  ASSUME Parts!NoneIsApart
  PROVE  ViewsSpec => [](part = "truth" => Truth!TruthHidesTheForgotten /\ Truth!AuditNamesTheForgotten /\ Truth!FreshTruthIsTheLog)
<1>1. /\ (Parts!Spec => []Parts!TruthHidesTheForgotten)
      /\ (Parts!Spec => []Parts!AuditNamesTheForgotten)
      /\ (Parts!Spec => []Parts!FreshTruthIsTheLog)
  BY Parts!TruthAlwaysHidesTheForgotten, Parts!TheForgottenAreAlwaysAudited, Parts!FreshTruthIsAlwaysTheLog, SMTT(30)
<1> QED BY <1>1, ViewsStart, ViewsStay, ViewsStep, PartsPromiseAlike, PTL DEF ViewsSpec, Parts!Spec

LEMMA RecallHolds ==
  ASSUME Parts!NoneIsApart
  PROVE  ViewsSpec => [](part = "recall" => Truth!RecallHidesTheForgotten)
<1>1. Parts!RSpec => []Parts!RecallHidesTheForgotten
  BY Parts!RecallAlwaysHidesTheForgotten, SMTT(30)
<1> QED BY <1>1, ViewsStart, ViewsStay, ViewsStep, PartsPromiseAlike, PTL DEF ViewsSpec, Parts!RSpec

LEMMA CandidatesHolds ==
  ASSUME Parts!NoForgetIsApart
  PROVE  ViewsSpec => [](part = "candidates" => Candidates!ForgetsAreWhole)
<1>1. Parts!Candidate!KSpec => []Parts!Candidate!ForgetsAreWhole
  BY Parts!ForgetsAreAlwaysWhole, SMTT(30)
<1> QED BY <1>1, ViewsStart, ViewsStay, ViewsStep, PartsPromiseAlike, PTL DEF ViewsSpec, Parts!Candidate!KSpec

LEMMA ProjectHolds ==
  ASSUME Parts!NobodyIsNoCompiler
  PROVE  ViewsSpec => [](part = "project" => Project!ContextsAreHonest /\ Project!NamedSnapshotsExist /\ Project!LeftoversComeFromFaults)
<1>1. /\ (Parts!Memory!MSpec => []Parts!Memory!ContextsAreHonest)
      /\ (Parts!Memory!MSpec => []Parts!Memory!NamedSnapshotsExist)
      /\ (Parts!Memory!MSpec => []Parts!Memory!LeftoversComeFromFaults)
  BY Parts!ContextsAreAlwaysHonest, Parts!NamedSnapshotsAlwaysExist, Parts!LeftoversAlwaysComeFromFaults, SMTT(30)
<1> QED BY <1>1, ViewsStart, ViewsStay, ViewsStep, PartsPromiseAlike, PTL DEF ViewsSpec, Parts!Memory!MSpec

LEMMA ProjectionHolds ==
  ViewsSpec => [](part = "projection" => Projection!AnswersAreOfThisCall)
<1>1. Parts!Projection!PSpec => []Parts!Projection!AnswersAreOfThisCall
  BY Parts!AnswersAreAlwaysOfTheCall, SMTT(30)
<1> QED BY <1>1, ViewsStart, ViewsStay, ViewsStep, PartsPromiseAlike, PTL DEF ViewsSpec, Parts!Projection!PSpec

LEMMA ArtifactHolds ==
  ViewsSpec => [](part = "artifacts" => Candidates!FoundArtifactsAreWhole)
<1>1. Parts!Candidate!ASpec => []Parts!Candidate!FoundArtifactsAreWhole
  BY Parts!FoundArtifactsAreAlwaysWhole, SMTT(30)
<1> QED BY <1>1, ViewsStart, ViewsStay, ViewsStep, PartsPromiseAlike, PTL DEF ViewsSpec, Parts!Candidate!ASpec

LEMMA ReadHolds ==
  ASSUME Parts!CacheHasRoom
  PROVE  ViewsSpec => [](part = "read" => Read!HitsAreCurrent)
<1>1. Parts!Cached!ESpec => []Parts!Cached!HitsAreCurrent
  BY Parts!ReadHitsAreCurrent, SMTT(30)
<1> QED BY <1>1, ViewsStart, ViewsStay, ViewsStep, PartsPromiseAlike, PTL DEF ViewsSpec, Parts!Cached!ESpec

LEMMA SearchesHolds ==
  ASSUME Parts!IdleIsApart, P.searches.Capacity \in Nat
  PROVE  ViewsSpec => [](part = "searches" => Searches!SearchesSeeReturnedMutations)
<1>1. Parts!Search!HSpec => []Parts!Search!SearchesSeeReturnedMutations
  BY Parts!SearchesAlwaysSeeReturnedMutations, SMTT(30)
<1> QED BY <1>1, ViewsStart, ViewsStay, ViewsStep, PartsPromiseAlike, PTL DEF ViewsSpec, Parts!Search!HSpec

LEMMA CorpusHolds ==
  ViewsSpec => [](part = "corpus" => Corpus!ScansAreCurrent /\ Corpus!OwnWritesShowUnlessRaced)
<1>1. Parts!Corpus!CSpec => [](Parts!Corpus!ScansAreCurrent /\ Parts!Corpus!OwnWritesShowUnlessRaced)
  BY Parts!CorpusSearchesAreCurrent, SMTT(30)
<1> QED BY <1>1, ViewsStart, ViewsStay, ViewsStep, PartsPromiseAlike, PTL DEF ViewsSpec, Parts!Corpus!CSpec

LEMMA LaterCorpusHolds ==
  ViewsSpec => [](part = "restart" => Corpus!ScansAreCurrent /\ Corpus!OwnWritesShowUnlessRaced)
<1>1. Parts!Corpus!CSpec => [](Parts!Corpus!ScansAreCurrent /\ Parts!Corpus!OwnWritesShowUnlessRaced)
  BY Parts!CorpusSearchesAreCurrent, SMTT(30)
<1> QED BY <1>1, ViewsStart, ViewsStay, ViewsStep, PartsPromiseAlike, PTL DEF ViewsSpec, Parts!Corpus!CSpec

LEMMA EmbeddingHolds ==
  ViewsSpec => [](part = "embedding" => Embedding!IndexTellsTheFiles)
<1>1. Parts!Embedding!MSpec => []Parts!Embedding!IndexTellsTheFiles
  BY Parts!EmbeddingIndexTellsTheFiles, HoldersAreTold, SMTT(30)
<1> QED BY <1>1, ViewsStart, ViewsStay, ViewsStep, PartsPromiseAlike, PTL DEF ViewsSpec, Parts!Embedding!MSpec

LEMMA CorrectionHolds ==
  LedgersSpec => [](part = "corrections" => Correction!WideningsWereEarned)
<1>1. Parts!Correction!RSpec => []Parts!Correction!WideningsWereEarned
  BY Parts!WideningsWereAlwaysEarned, SMTT(30)
<1> QED BY <1>1, LedgersStart, LedgersStay, LedgersStep, PartsPromiseAlike, PTL DEF LedgersSpec, Parts!Correction!RSpec

LEMMA InjectionHolds ==
  LedgersSpec => [](part = "injections" => Correction!WideningsWereEarned /\ Correction!InjectedAsPromoted)
<1>1. /\ (Parts!Correction!RSpec => []Parts!Correction!WideningsWereEarned)
      /\ (Parts!Correction!RSpec => []Parts!Correction!InjectedAsPromoted)
  BY Parts!WideningsWereAlwaysEarned, Parts!InjectionsAreAlwaysAsPromoted, SMTT(30)
<1> QED BY <1>1, LedgersStart, LedgersStay, LedgersStep, PartsPromiseAlike, PTL DEF LedgersSpec, Parts!Correction!RSpec

-------------------------------------------------------------------------------
(* The joined properties. *)

(* derived_views.py, recall_suppress.py, candidates.py: the compiled truth, a recall and
   the candidates never tell again what was forgotten, denied or erased, and every forget is in the audit. *)
THEOREM ForgottenAlwaysStaysHidden ==
  ASSUME Parts!NoneIsApart, Parts!NoForgetIsApart
  PROVE  ViewsSpec => []ForgottenStaysHidden
  BY TruthHolds, RecallHolds, CandidatesHolds, PTL DEF ForgottenStaysHidden

(* derived_views.py, execution_projection_cache.py, project_memory, embedding.py: what is
   called fresh is the log or the files as they are, whatever was killed or changed in between. *)
THEOREM FreshAlwaysMeansCurrent ==
  ASSUME Parts!NoneIsApart, Parts!NobodyIsNoCompiler
  PROVE  ViewsSpec => []FreshMeansCurrent
  BY TruthHolds, ProjectionHolds, ProjectHolds, EmbeddingHolds, PTL DEF FreshMeansCurrent

(* _read_cache.py, cache.py, _corpus_index.py: no cache answers what an invalidation or a
   file signature should have emptied, for any number of readers, writers and searchers. *)
THEOREM CachesAreAlwaysCurrent ==
  ASSUME Parts!CacheHasRoom, Parts!IdleIsApart, P.searches.Capacity \in Nat
  PROVE  ViewsSpec => []CachesAreCurrent
  BY ReadHolds, SearchesHolds, CorpusHolds, LaterCorpusHolds, PTL DEF CachesAreCurrent

(* artifacts.py, project_memory/store.py: what is published in several files is found whole
   or not at all, and only a kill leaves files behind. *)
THEOREM PublicationsAreAlwaysWhole ==
  ASSUME Parts!NobodyIsNoCompiler
  PROVE  ViewsSpec => []PublicationsAreWhole
  BY ArtifactHolds, ProjectHolds, PTL DEF PublicationsAreWhole

(* correction_policy.py: a correction is widened only on an evaluation of the revision it
   widens, and what is injected is the revision that was promoted. *)
THEOREM CorrectionsWereAlwaysEarned ==
  LedgersSpec => []CorrectionsWereEarned
  BY CorrectionHolds, InjectionHolds, PTL DEF CorrectionsWereEarned

(* project_sync.py: a step of a synchronisation moves the checkout forward to commits that
   were fetched, or leaves it alone. *)
THEOREM OnlyFastForwardsAlways == LedgersSpec => OnlyFastForwards
<1>1. Parts!Sync!YSpec => [][Parts!Sync!FastForwards]_(Parts!Sync!yvars)
  BY Parts!GuardsAlwaysFastForward, SMTT(30) DEF Parts!Sync!OnlyFastForwards
<1>2. [LedgersNext]_slots /\ part = "synchronisation" /\ UNCHANGED Parts!Sync!yvars => UNCHANGED slots
  <2>1. [LedgersNext]_slots /\ part = "synchronisation" => UNCHANGED slots \/ (UNCHANGED part /\ Frozen(10))
    BY ZenonT(60) DEF LedgersNext
  <2>2. Frozen(10) => UNCHANGED <<s10, s11, s12, s13, s14, s15, s16>>
    BY SMTT(30) DEF Frozen
  <2> QED BY <2>1, <2>2, SMTT(30) DEF slots, Parts!Sync!yvars
<1>3. [LedgersNext]_slots /\ part = "synchronisation" /\ [Parts!Sync!FastForwards]_(Parts!Sync!yvars)
        => [part = "synchronisation" => Sync!FastForwards]_slots
  BY <1>2, PartsPromiseAlike
<1>4. [LedgersNext]_slots /\ part # "synchronisation" => [part = "synchronisation" => Sync!FastForwards]_slots
  OBVIOUS
<1> QED BY <1>1, <1>3, <1>4, LedgersStart, LedgersStay, LedgersStep, PTL DEF LedgersSpec, Parts!Sync!YSpec, OnlyFastForwards
================================================================================
