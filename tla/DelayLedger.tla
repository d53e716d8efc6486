------------------------------ MODULE DelayLedger ------------------------------
(***************************************************************************)
(* The delay ledger (delay_ledger.py): runs of work with their children    *)
(* and durations, the runs that took unusually long, and the chain of      *)
(* evidence that may follow one of them.                                   *)
(*                                                                         *)
(* Several processes write one log, each under the governance lock, so a   *)
(* call is one step; a call that is refused, or finds its operation in the *)
(* log, only refreshes its cache.  A process keeps what it folded in       *)
(* memory and folds the lines that were appended since, as long as the     *)
(* first and the last bytes of what it knows are where they were; when the *)
(* log ends in anything but whole, valid lines it drops the cache and reads*)
(* everything.  The owner may put back an older copy of the file.          *)
(*                                                                         *)
(* As in ImprovementLedger a line may be written in part (Torn, skipped),  *)
(* or whole but for its end (open, read as a record), and the next line    *)
(* runs into it.                                                           *)
(*                                                                         *)
(* Ids are opaque and numbered in the order of first use.  The operation   *)
(* id that a call leaves out is the digest of its arguments: a request is  *)
(* its own operation.  Texts, references and times decide nothing.         *)
(***************************************************************************)
EXTENDS Integers, FiniteSets, SequencesExt

CONSTANTS
  Instances,   \* processes with a MemKraft object
  Subjects,    \* cohorts whose durations are compared
  Elapsed,     \* durations
  Outcomes, Completed,   \* ends of a run, and the one that feeds estimates
  MinSamples, Window,    \* 5 and 100 in the code
  None, Clean, Torn,
  MaxRuns, MaxChain,          \* bounds: ids
  MaxTears, TornWithin,       \* bounds: torn lines, and the log they end
  MaxRestores, RestoreWithin, \* bounds: old copies put back, and the log they replace
  MaxLines                    \* bound: lines of the log after so many restores

Runs == 1 .. MaxRuns
Chain == 1 .. MaxChain
Kinds == {"task", "phase", "attempt"}
ChainTypes == {"delay_retrospective", "delay_action", "delay_application",
               "delay_verification"}

Start == [type : {"delay_run_start"}, run : Runs, kind : Kinds, subject : Subjects,
          parent : Runs \union {0}]
Finish == [type : {"delay_run_finish"}, run : Runs, elapsed : Elapsed, outcome : Outcomes]
Evidence ==
  [type : {"delay_retrospective"}, chain : Chain, run : Runs, predecessor : {0}]
  \union [type : ChainTypes \ {"delay_retrospective"}, chain : Chain, run : {0},
          predecessor : Chain]
Request == Start \union Finish \union Evidence

(* What a view holds of a run that was started *)
Run == [kind : Kinds, subject : Subjects, parent : Runs \union {0}, finished : Nat,
        elapsed : Elapsed \union {0}, outcome : Outcomes \union {None}]

ASSUME DelayAssumption ==
  /\ Elapsed \subseteq Nat /\ Completed \in Outcomes
  /\ MinSamples \in Nat \ {0} /\ Window \in Nat \ {0}
  /\ Clean # Torn /\ None \notin Nat \union Run \union ChainTypes
  /\ {MaxRuns, MaxChain, MaxTears, TornWithin, MaxRestores, RestoreWithin} \subseteq Nat
  /\ MaxLines \in [0 .. MaxRestores -> Nat]

(* What the store adds to a request: its event_seq, an id that no other line *)
(* has (lines of one era differ in their seq), and for a finish or a         *)
(* retrospective the threshold its duration was compared with.               *)
Line == [req : Request, seq : Nat, era : Nat, threshold : Nat \union {None},
         anomaly : BOOLEAN]

VARIABLES
  log,       \* the readable lines that are ended, in order
  view,      \* what replaying the log gives
  tail,      \* what follows the last end of line
  spoiled,   \* an unreadable line follows them
  rejected,  \* whole lines that replay rejects
  cache,     \* per instance: what it folded, and the guards of that prefix
  tears, restores

vars == <<log, view, tail, spoiled, rejected, cache, tears, restores>>

Views == [runs : [Runs -> Run \union {None}], chain : [Chain -> ChainTypes \union {None}]]
EmptyView == [runs |-> [r \in Runs |-> None], chain |-> [c \in Chain |-> None]]
NoCache == [upto |-> 0, head |-> 0, tail |-> 0, view |-> EmptyView]
Cache == [upto : Nat, head : Nat, tail : Nat, view : Views]

-----------------------------------------------------------------------------
(* Estimates *)

Started(v, r) == v.runs[r] # None
Finished(v, r) == Started(v, r) /\ v.runs[r].finished # 0

(* _window_values: the last completed runs of one kind and subject *)
Completions(v, kind, subject, through) ==
  {r \in Runs : /\ Finished(v, r) /\ (through = None \/ v.runs[r].finished <= through)
                /\ v.runs[r].outcome = Completed
                /\ v.runs[r].kind = kind /\ v.runs[r].subject = subject}
Samples(v, kind, subject, through) ==
  LET S == Completions(v, kind, subject, through) IN
  {r \in S : Cardinality({q \in S : v.runs[q].finished > v.runs[r].finished}) < Window}

(* _nearest with quantile .5: the lowest value that half of them do not exceed *)
Median(f) ==
  LET Reaches(m) == 2 * Cardinality({x \in DOMAIN f : f[x] <= m}) >= Cardinality(DOMAIN f)
  IN  CHOOSE m \in Range(f) : Reaches(m) /\ \A n \in Range(f) : Reaches(n) => m <= n

(* Mutant: too few samples give a threshold below every duration. *)
Threshold_Sentinel(v, kind, subject, through) ==
  LET S == Samples(v, kind, subject, through)
      p50 == Median([r \in S |-> v.runs[r].elapsed])
      mad == Median([r \in S |-> IF v.runs[r].elapsed < p50 THEN p50 - v.runs[r].elapsed
                                 ELSE v.runs[r].elapsed - p50])
  IN  IF Cardinality(S) < MinSamples THEN -1 ELSE p50 + 4 * mad

(* _estimate_runs: its anomaly_threshold_ms *)
Threshold(v, kind, subject, through) ==
  LET S == Samples(v, kind, subject, through)
      p50 == Median([r \in S |-> v.runs[r].elapsed])
      mad == Median([r \in S |-> IF v.runs[r].elapsed < p50 THEN p50 - v.runs[r].elapsed
                                 ELSE v.runs[r].elapsed - p50])
  IN  IF Cardinality(S) < MinSamples THEN None ELSE p50 + 4 * mad

Exceeds(elapsed, threshold) == threshold # None /\ elapsed > threshold

(* Mutant: the claim is recomputed with all that is known now. *)
Claim_WithHindsight(v, r) ==
  LET run == v.runs[r]
      threshold == Threshold(v, run.kind, run.subject, None)
  IN  IF run # None /\ run.finished # 0 /\ run.outcome = Completed
         /\ Exceeds(run.elapsed, threshold) THEN threshold ELSE None

(* _trusted_anomaly_claim: the threshold that the run exceeded when it ended *)
Claim(v, r) ==
  LET run == v.runs[r]
      threshold == Threshold(v, run.kind, run.subject, run.finished - 1)
  IN  IF run # None /\ run.finished # 0 /\ run.outcome = Completed
         /\ Exceeds(run.elapsed, threshold) THEN threshold ELSE None

-----------------------------------------------------------------------------
(* Replay: _Folder.feed *)

ParentKind(kind) == CASE kind = "phase" -> "task" [] kind = "attempt" -> "phase"

(* Mutant: an application may be verified before it is claimed. *)
PredecessorType_Skips(type) ==
  CASE type = "delay_action" -> "delay_retrospective"
    [] type = "delay_application" -> "delay_action"
    [] type = "delay_verification" -> "delay_action"

PredecessorType(type) ==
  CASE type = "delay_action" -> "delay_retrospective"
    [] type = "delay_application" -> "delay_action"
    [] type = "delay_verification" -> "delay_application"

(* Mutant: only the phases of a task are counted. *)
OpenChildren_Phases(v, r) ==
  {c \in Runs : Started(v, c) /\ v.runs[c].parent = r /\ v.runs[c].kind = "phase"
                /\ ~Finished(v, c)}

(* _Runs.open_children *)
OpenChildren(v, r) ==
  {c \in Runs : Started(v, c) /\ v.runs[c].parent = r /\ ~Finished(v, c)}

FeedValid(v, e) ==
  LET r == e.req IN
  CASE r.type = "delay_run_start" ->
         /\ ~Started(v, r.run)
         /\ IF r.kind = "task" THEN r.parent = 0
            ELSE r.parent # 0 /\ Started(v, r.parent)
                 /\ v.runs[r.parent].kind = ParentKind(r.kind) /\ ~Finished(v, r.parent)
    [] r.type = "delay_run_finish" ->
         /\ Started(v, r.run) /\ ~Finished(v, r.run)
         /\ OpenChildren(v, r.run) = {}
         /\ LET run == v.runs[r.run]
                threshold == Threshold(v, run.kind, run.subject, None)
            IN  e.threshold = threshold /\ e.anomaly = Exceeds(r.elapsed, threshold)
    [] OTHER ->
         /\ v.chain[r.chain] = None
         /\ IF r.type = "delay_retrospective"
            THEN Claim(v, r.run) # None /\ e.threshold = Claim(v, r.run)
            ELSE r.predecessor # 0 /\ v.chain[r.predecessor] = PredecessorType(r.type)

Feed(v, e) ==
  LET r == e.req IN
  CASE r.type = "delay_run_start" ->
         [v EXCEPT !.runs[r.run] = [kind |-> r.kind, subject |-> r.subject,
                                    parent |-> r.parent, finished |-> 0, elapsed |-> 0,
                                    outcome |-> None]]
    [] r.type = "delay_run_finish" ->
         [v EXCEPT !.runs[r.run].finished = e.seq, !.runs[r.run].elapsed = r.elapsed,
                   !.runs[r.run].outcome = r.outcome]
    [] OTHER -> [v EXCEPT !.chain[r.chain] = r.type]

(* _fold, and _DelayCache.advance from what is folded already *)
Replayed(v, lines) ==
  LET after[n \in 0 .. Len(lines)] ==
        IF n = 0 THEN v ELSE Feed(after[n - 1], lines[n])
  IN  after
Replay(v, lines) == Replayed(v, lines)[Len(lines)]

-----------------------------------------------------------------------------
(* What a writer that holds the lock reads *)

(* _partition and feed: a line the next reader accepts *)
ReplayValid(lines, v, e) ==
  /\ e.seq = Len(lines) + 1
  /\ \A i \in DOMAIN lines : lines[i].req # e.req
  /\ FeedValid(v, e)

Open == tail \notin {Clean, Torn}
OpenIsValid == Open /\ ReplayValid(log, view, tail)
Seen == IF OpenIsValid THEN Append(log, tail) ELSE log
View == IF OpenIsValid THEN Feed(view, tail) ELSE view

(* corrupt and semantic_corrupt are 0: a torn tail is not counted. *)
Healthy == ~spoiled /\ rejected = 0 /\ (Open => OpenIsValid)

(* Mutant: the end of the known prefix is not compared. *)
Matches_HeadOnly(i) ==
  LET c == cache[i] IN
  c.upto # 0 => c.upto <= Len(log) /\ log[1].era = c.head

(* _DelayCache.matches *)
Matches(i) ==
  LET c == cache[i] IN
  c.upto # 0 => /\ c.upto <= Len(log)
                /\ log[1].era = c.head /\ log[c.upto].era = c.tail

(* advance meets nothing that only the full read knows how to treat. *)
Plain == tail = Clean /\ ~spoiled /\ rejected = 0

(* _delay_cached_state: the cache a call leaves behind *)
Refreshed(i) ==
  IF ~Plain \/ log = <<>> THEN NoCache
  ELSE LET base == IF Matches(i) THEN cache[i] ELSE NoCache IN
       [upto |-> Len(log), head |-> log[1].era, tail |-> log[Len(log)].era,
        view |-> Replay(base.view, SubSeq(log, base.upto + 1, Len(log)))]

(* The fold a call works with, cached or read anew *)
Folded(i) == IF Plain THEN Refreshed(i).view ELSE View

KnownOperation(r) == \E i \in DOMAIN Seen : Seen[i].req = r

(* prepare and snapshot of each operation *)
Prepared(v, r) ==
  CASE r.type = "delay_run_start" ->
         /\ \/ r.kind = "task" /\ r.parent = 0
            \/ /\ r.kind # "task" /\ r.parent # 0 /\ Started(v, r.parent)
               /\ v.runs[r.parent].kind = ParentKind(r.kind)
               /\ v.runs[r.parent].finished = 0
         /\ ~Started(v, r.run)
    [] r.type = "delay_run_finish" ->
         Started(v, r.run) /\ ~Finished(v, r.run) /\ OpenChildren(v, r.run) = {}
    [] r.type = "delay_retrospective" -> Claim(v, r.run) # None /\ v.chain[r.chain] = None
    [] OTHER ->
         /\ r.predecessor # 0 /\ v.chain[r.predecessor] = PredecessorType(r.type)
         /\ v.chain[r.chain] = None

(* Mutant: the threshold is the one of the runs before the last. *)
LineOf_Late(v, r) ==
  LET run == IF r.type = "delay_run_finish" THEN v.runs[r.run] ELSE None
      threshold == CASE r.type = "delay_run_finish" ->
                          Threshold(v, run.kind, run.subject, Len(Seen) - 1)
                     [] r.type = "delay_retrospective" -> Claim(v, r.run)
                     [] OTHER -> None
  IN  [req |-> r, seq |-> Len(Seen) + 1, era |-> restores, threshold |-> threshold,
       anomaly |-> r.type = "delay_run_finish" /\ Exceeds(r.elapsed, threshold)]

LineOf(v, r) ==
  LET run == IF r.type = "delay_run_finish" THEN v.runs[r.run] ELSE None
      threshold == CASE r.type = "delay_run_finish" ->
                          Threshold(v, run.kind, run.subject, None)
                     [] r.type = "delay_retrospective" -> Claim(v, r.run)
                     [] OTHER -> None
  IN  [req |-> r, seq |-> Len(Seen) + 1, era |-> restores, threshold |-> threshold,
       anomaly |-> r.type = "delay_run_finish" /\ Exceeds(r.elapsed, threshold)]

-----------------------------------------------------------------------------
(* _delay_append *)

(* The whole line is written: it is replayed, or runs into the tail. *)
WriteWhole(e) ==
  /\ tail' = Clean
  /\ IF tail # Clean THEN spoiled' = TRUE /\ UNCHANGED <<log, view, rejected>>
     ELSE IF ReplayValid(log, view, e)
     THEN /\ log' = Append(log, e) /\ view' = Feed(view, e)
          /\ UNCHANGED <<spoiled, rejected>>
     ELSE rejected' = rejected + 1 /\ UNCHANGED <<log, view, spoiled>>
  /\ UNCHANGED <<tears, restores>>

(* The write fails, or the writer is killed, with the line not ended. *)
WriteTorn(e) ==
  /\ tears < MaxTears /\ Len(log) <= TornWithin
  /\ tears' = tears + 1
  /\ tail' \in IF tail = Clean THEN {Torn, e} ELSE {Torn}
  /\ UNCHANGED <<log, view, spoiled, rejected, restores>>

Applies(v, r) == Prepared(v, r) /\ Healthy /\ ~KnownOperation(r)

(* A call that applies: prepared from what it folded, written whole or torn. *)
Write(i, v, r) ==
  /\ Len(log) < MaxLines[restores]
  /\ Applies(v, r)
  /\ WriteWhole(LineOf(v, r)) \/ WriteTorn(LineOf(v, r))
  /\ cache' = [cache EXCEPT ![i] = Refreshed(i)]

NewRun(v) == Cardinality({r \in Runs : Started(v, r)}) + 1
NewChain(v) == Cardinality({c \in Chain : v.chain[c] # None}) + 1

DelayRunStart(i) == LET v == Folded(i) IN
  \E run \in Runs \intersect {NewRun(v)}, kind \in Kinds, s \in Subjects,
     parent \in Runs \union {0} :
    Write(i, v, [type |-> "delay_run_start", run |-> run, kind |-> kind, subject |-> s,
                 parent |-> parent])

DelayRunFinish(i) == LET v == Folded(i) IN
  \E run \in Runs, elapsed \in Elapsed, outcome \in Outcomes :
    Write(i, v, [type |-> "delay_run_finish", run |-> run, elapsed |-> elapsed,
                 outcome |-> outcome])

DelayRecordRetrospective(i) == LET v == Folded(i) IN
  \E c \in Chain \intersect {NewChain(v)}, run \in Runs :
    Write(i, v, [type |-> "delay_retrospective", chain |-> c, run |-> run,
                 predecessor |-> 0])

(* delay_record_action, delay_record_application, delay_record_verification *)
DelayChainRecord(i) == LET v == Folded(i) IN
  \E c \in Chain \intersect {NewChain(v)}, p \in Chain,
     type \in ChainTypes \ {"delay_retrospective"} :
    Write(i, v, [type |-> type, chain |-> c, run |-> 0, predecessor |-> p])

(* A call that is refused, or that finds its operation in the log. *)
Consult(i) ==
  /\ cache' = [cache EXCEPT ![i] = Refreshed(i)]
  /\ UNCHANGED <<log, view, tail, spoiled, rejected, tears, restores>>

(* The owner puts an older copy of the file back, over it or in its place. *)
Restore ==
  /\ restores < MaxRestores /\ Len(log) <= RestoreWithin
  /\ \E n \in 0 .. Len(log), replaced \in BOOLEAN :
       /\ n < Len(log) \/ tail # Clean \/ spoiled
       /\ log' = SubSeq(log, 1, n) /\ view' = Replay(EmptyView, log')
       /\ cache' = IF replaced THEN [i \in Instances |-> NoCache] ELSE cache
  /\ tail' = Clean /\ spoiled' = FALSE /\ rejected' = 0
  /\ restores' = restores + 1
  /\ UNCHANGED tears

Init ==
  /\ log = <<>> /\ view = EmptyView /\ tail = Clean /\ spoiled = FALSE /\ rejected = 0
  /\ cache = [i \in Instances |-> NoCache]
  /\ tears = 0 /\ restores = 0

Next ==
  \/ \E i \in Instances : \/ DelayRunStart(i) \/ DelayRunFinish(i)
                          \/ DelayRecordRetrospective(i) \/ DelayChainRecord(i)
                          \/ Consult(i)
  \/ Restore

Spec == Init /\ [][Next]_vars

-----------------------------------------------------------------------------
(* Properties *)

TypeOK ==
  /\ log \in Seq(Line) /\ view \in Views
  /\ tail \in Line \union {Clean, Torn} /\ spoiled \in BOOLEAN
  /\ cache \in [Instances -> Cache]
  /\ {rejected, tears, restores} \subseteq Nat

(* A process that trusts its cache works with what the file says: no append *)
(* of another process, no torn or unreadable end and no older copy that was *)
(* put back in between makes the fold it resumes from a fold of other lines.*)
CachesAgree ==
  \A i \in Instances : Matches(i) =>
    cache[i].view = Replay(EmptyView, SubSeq(log, 1, cache[i].upto))

(* A run is finished once, and after everything that was started under it;  *)
(* nothing is started under a finished run.                                 *)
FinishOf(n, r) == log[n].req.type = "delay_run_finish" /\ log[n].req.run = r
TreesCloseInwards ==
  \A n \in DOMAIN log : \A r \in Runs : FinishOf(n, r) =>
    \A m \in DOMAIN log :
      /\ FinishOf(m, r) => m = n
      /\ log[m].req.type = "delay_run_start" /\ log[m].req.parent = r =>
           \E o \in m + 1 .. n - 1 : FinishOf(o, log[m].req.run)

(* A verification rests on a chain back to a run that took longer than the  *)
(* threshold of its own time, which is the one its finish was stamped with, *)
(* however many runs ended since: a lesson is drawn from what was observed. *)
ChainOf(n, c, type) == /\ log[n].req.type \in ChainTypes /\ log[n].req.chain = c
                       /\ log[n].req.type = type
AnomalyBefore(n, r) ==
  \E m \in 1 .. n - 1 : /\ FinishOf(m, r) /\ log[m].anomaly
                        /\ log[m].req.outcome = Completed
                        /\ log[m].threshold = log[n].threshold
EvidenceRestsOnAnomalies ==
  \A n \in DOMAIN log : log[n].req.type \in ChainTypes =>
    IF log[n].req.type = "delay_retrospective" THEN AnomalyBefore(n, log[n].req.run)
    ELSE \E m \in 1 .. n - 1 :
           ChainOf(m, log[n].req.predecessor,
             CASE log[n].req.type = "delay_action" -> "delay_retrospective"
               [] log[n].req.type = "delay_application" -> "delay_action"
               [] log[n].req.type = "delay_verification" -> "delay_application")

(* Replay accepts whatever the writers accepted, thresholds included: those *)
(* two are different code, and a line only the first accepts would close    *)
(* the ledger for good.                                                     *)
WritersReplayCleanly == rejected = 0 /\ (Open => OpenIsValid)

(* What is known of a delay is what the log says, with its reasons: caches  *)
(* and log agree, trees close inwards and evidence rests on anomalies.      *)
DelaysAreExplained ==
  TypeOK /\ CachesAgree /\ TreesCloseInwards /\ EvidenceRestsOnAnomalies

=============================================================================
