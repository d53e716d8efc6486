----------------------------- MODULE FactTimeline -----------------------------
(***************************************************************************)
(* Bitemporal facts (bitemporal.py): one file of lines per entity, each    *)
(* valid over an interval and recorded at a minute.  fact_add first closes *)
(* the open facts of the key by rewriting the file, then appends its line; *)
(* fact_invalidate rewrites too.  Nothing is locked.  One entity and one   *)
(* key are modelled; lines of other keys are carried through unchanged.    *)
(***************************************************************************)
EXTENDS Naturals, Sequences, FiniteSets, SequencesExt, FiniteSetsExt

CONSTANTS
  Callers, Values,
  MaxNow,        \* bound on the clock; a minute here is also a day
  MaxCalls,      \* bound on calls
  Forever,       \* the upper bound of an open interval; above every date
  NoCall

VARIABLES
  file,          \* the fact lines, oldest first
  now,
  call,          \* per caller: the fact it adds or the day it closes at, and the file it read
  version,       \* rewrites and appends of the file
  calls,
  disturbed,     \* history: a rewrite of a stale read, or a call killed
  stated         \* history: values in the order their lines were appended

tvars == <<file, now, call, version, calls, disturbed, stated>>

Always == 0     \* valid_from absent
Fact(value, from, to, auto) ==
  [value |-> value, from |-> from, to |-> to, recorded |-> now, auto |-> auto, by |-> IF from = Always THEN now ELSE from]

\* _close_stale_facts: the open facts that have begun by the day of closing.
Closed_EveryOpen(lines, at) ==
  [i \in DOMAIN lines |-> IF lines[i].to = Forever /\ lines[i].from < at
                          THEN [lines[i] EXCEPT !.to = at, !.recorded = now] ELSE lines[i]]
Closed(lines, at) ==
  [i \in DOMAIN lines |-> IF lines[i].to = Forever /\ lines[i].from <= at
                          THEN [lines[i] EXCEPT !.to = at, !.recorded = now] ELSE lines[i]]
\* fact_invalidate closes every open fact, begun or not.
Invalidated(lines, at) ==
  [i \in DOMAIN lines |-> IF lines[i].to = Forever THEN [lines[i] EXCEPT !.to = at, !.recorded = now] ELSE lines[i]]

\* fact_at: a stable sort, latest record first.
ValidAt(day) == SelectSeq(file, LAMBDA f : f.from <= day /\ day <= f.to)
FactAt(day) ==
  LET valid == ValidAt(day)
      latest == {i \in DOMAIN valid : \A j \in DOMAIN valid : valid[j].recorded <= valid[i].recorded}
  IN IF valid = <<>> THEN {} ELSE {valid[Min(latest)].value}

-----------------------------------------------------------------------------

TInit ==
  /\ file = <<>> /\ now = 1 /\ call = [c \in Callers |-> NoCall] /\ version = 0 /\ calls = 0
  /\ disturbed = FALSE /\ stated = <<>>

\* A call that closes reads the file first; the others go straight to the append.
Begin(c, fact, at, kind) ==
  /\ call[c] = NoCall /\ calls < MaxCalls /\ calls' = calls + 1
  /\ call' = [call EXCEPT ![c] = [fact |-> fact, at |-> at, kind |-> kind, read |-> file, seen |-> version]]
  /\ UNCHANGED <<file, now, version, disturbed, stated>>

FactAdd(c, value, from, to, auto) ==
  LET fact == Fact(value, from, to, auto /\ to = Forever) IN
  /\ from <= to
  /\ Begin(c, fact, fact.by, IF fact.auto THEN "close" ELSE "append")
FactInvalidate(c, at) ==
  file # <<>> /\ Begin(c, Fact("none", Always, Forever, FALSE), at, "invalidate")

\* The rewrite happens only when it closes something.
Rewrite(c) ==
  LET k == call[c]
      lines == IF k.kind = "close" THEN Closed(k.read, k.at) ELSE Invalidated(k.read, k.at)
  IN /\ k # NoCall /\ k.kind \in {"close", "invalidate"}
     /\ IF lines = k.read THEN UNCHANGED <<file, version, disturbed>>
        ELSE /\ file' = lines /\ version' = version + 1
             /\ disturbed' = (disturbed \/ version # k.seen)
     /\ call' = [call EXCEPT ![c] = IF k.kind = "close" THEN [@ EXCEPT !.kind = "append"] ELSE NoCall]
     /\ UNCHANGED <<now, calls, stated>>

AppendFact(c) ==
  LET k == call[c] IN
  /\ k # NoCall /\ k.kind = "append"
  /\ file' = Append(file, k.fact) /\ version' = version + 1
  /\ stated' = Append(stated, k.fact.value)
  \* Another call's open fact, appended since this one read the file, stays open.
  /\ disturbed' = (disturbed \/ \E d \in Callers \ {c} : call[d] # NoCall)
  /\ call' = [call EXCEPT ![c] = NoCall] /\ UNCHANGED <<now, calls>>

\* A kill between the closing and the appending leaves the key without a fact.
KillCall(c) ==
  /\ call[c] # NoCall /\ call' = [call EXCEPT ![c] = NoCall] /\ disturbed' = TRUE
  /\ UNCHANGED <<file, now, version, calls, stated>>

TickDay == now < MaxNow /\ now' = now + 1 /\ UNCHANGED <<file, call, version, calls, disturbed, stated>>

TNext ==
  \/ TickDay
  \/ \E c \in Callers :
       \/ Rewrite(c) \/ AppendFact(c) \/ KillCall(c)
       \/ \E v \in Values, from \in 0..MaxNow, to \in (1..MaxNow) \union {Forever}, auto \in BOOLEAN : FactAdd(c, v, from, to, auto)
       \/ \E at \in 1..MaxNow : FactInvalidate(c, at)

TSpec == TInit /\ [][TNext]_tvars

-----------------------------------------------------------------------------

\* With one writer at a time nothing stated is lost, and a fact that closed the
\* key's open facts leaves open only those that begin after it.
OpenFactsBeginLater ==
  ~disturbed =>
    /\ [i \in DOMAIN file |-> file[i].value] = stated
    /\ \A i, j \in DOMAIN file :
         i < j /\ file[j].auto /\ file[i].to = Forever => file[i].from > file[j].by

\* "The most recent belief about that time" (bitemporal.py:325) is the fact just
\* stated, for today, when it is open and has begun.
NewFactIsBelieved ==
  LET last == Last(file) IN
  file # <<>> /\ ~disturbed /\ (\A c \in Callers : call[c] = NoCall)
    /\ last.recorded = now /\ last.auto /\ last.from <= now => FactAt(now) = {last.value}
-------------------------------------------------------------------------------
(***************************************************************************)
(* Sleep consolidation of a fact file (consolidation.py): duplicates are   *)
(* merged, stale facts closed, an observation written, contradictions      *)
(* closed.  Every stage reads the file and writes it back, the last one    *)
(* once per contradiction; fact_add and fact_invalidate of FactTimeline go *)
(* on meanwhile, and nothing is locked.                                    *)
(***************************************************************************)
CONSTANTS Stale   \* days after which an open fact is closed

VARIABLES
  run,        \* the consolidation under way: stage, lines read, pairs to close
  observed,   \* the observation file of the entity
  before,     \* history: the file when the run began
  calm        \* history: nobody else wrote since

cvars == <<tvars, run, observed, before, calm>>
NoObservation == "none"
Idle == [stage |-> "idle"]

Open(f) == f.to = Forever

(* ---- duplicates: the open one, then the last recorded, then the first in the file ---- *)
Later(lines, i, j) ==
  lines[i].recorded > lines[j].recorded \/ (lines[i].recorded = lines[j].recorded /\ i < j)
Better(lines, i, j) ==
  IF Open(lines[i]) # Open(lines[j]) THEN Open(lines[i])
  ELSE lines[i].recorded > lines[j].recorded \/ (lines[i].recorded = lines[j].recorded /\ i < j)
BestOf(lines, group) == CHOOSE i \in group : \A j \in group \ {i} : Better(lines, i, j)
Twins(lines, i) == {j \in DOMAIN lines : lines[j].value = lines[i].value}
Kept(lines) == {i \in DOMAIN lines : i = BestOf(lines, Twins(lines, i))}
Merged(lines) ==
  LET kept == SetToSortSeq(Kept(lines), <) IN [n \in DOMAIN kept |-> lines[kept[n]]]

(* ---- stale facts: open, dated, and begun too long ago ---- *)
IsStale(f, day) == Open(f) /\ f.from # Always /\ day >= f.from + Stale
Aged(lines, day) ==
  [i \in DOMAIN lines |-> IF IsStale(lines[i], day) THEN [lines[i] EXCEPT !.to = day, !.recorded = day] ELSE lines[i]]

(* ---- the observation: the last recorded of the facts that have not ended ---- *)
Observation(lines, day) ==
  LET valid == {i \in DOMAIN lines : lines[i].to >= day}
      latest == CHOOSE i \in valid : \A j \in valid \ {i} : Later(lines, i, j)
  IN IF valid = {} THEN NoObservation ELSE lines[latest].value

(* ---- contradictions: two values over intersecting intervals ---- *)
Overlap_Apart(f, g) == f.from <= g.to /\ g.from <= f.to /\ ~(Open(f) /\ Open(g))
Overlap(f, g) == f.from <= g.to /\ g.from <= f.to
PairKey(lines, p) == <<{lines[p[1]].value, lines[p[2]].value}, lines[p[1]].from, lines[p[2]].from>>
Contradictions(lines) ==
  LET clash(p) == lines[p[1]].value # lines[p[2]].value /\ Overlap(lines[p[1]], lines[p[2]])
      before1(p, q) == p[1] < q[1] \/ (p[1] = q[1] /\ p[2] < q[2])
      all == {p \in (DOMAIN lines) \X (DOMAIN lines) : p[1] < p[2] /\ clash(p)}
      firsts == {p \in all : \A q \in all : before1(q, p) => PairKey(lines, q) # PairKey(lines, p)}
  IN SetToSortSeq(firsts, before1)
\* The earlier line counts as the newer one when both were recorded in one minute.
Closing(lines, p, day) ==
  LET f == lines[p[1]]   g == lines[p[2]]
      newer == IF f.recorded >= g.recorded THEN f ELSE g
      older == IF f.recorded >= g.recorded THEN g ELSE f
  IN [fact |-> older, at |-> IF newer.from = Always THEN day ELSE newer.from]
Closings(lines, day) ==
  LET pairs == Contradictions(lines)
      all == [n \in DOMAIN pairs |-> Closing(lines, pairs[n], day)]
  IN SelectSeq(all, LAMBDA c : Open(c.fact))
\* _close_contradiction looks the fact up again.
Same(f, g) == f.value = g.value /\ f.from = g.from /\ f.recorded = g.recorded /\ Open(f)
Reclosed(lines, c, day) ==
  [i \in DOMAIN lines |-> IF Same(lines[i], c.fact) THEN [lines[i] EXCEPT !.to = c.at, !.recorded = day] ELSE lines[i]]

-----------------------------------------------------------------------------

CInit == TInit /\ run = Idle /\ observed = NoObservation /\ before = <<>> /\ calm = TRUE

Consolidate(dry) ==
  /\ run = Idle /\ file # <<>>
  /\ run' = [stage |-> "duplicates", dry |-> dry, did |-> "write", read |-> <<>>, todo |-> <<>>, seen |-> version, day |-> now]
  /\ before' = file /\ calm' = (\A c \in Callers : call[c] = NoCall)
  /\ UNCHANGED <<tvars, observed>>

NextStage == CASE run.stage = "duplicates" -> "stale" [] run.stage = "stale" -> "observe"
               [] run.stage = "observe" -> "contradict" [] OTHER -> "done"
\* The lines a stage writes back.
Product ==
  CASE run.stage = "duplicates" -> Merged(run.read) [] run.stage = "stale" -> Aged(run.read, run.day)
    [] run.stage = "contradict" /\ run.todo # <<>> -> Reclosed(run.read, Head(run.todo), run.day)
    [] OTHER -> run.read

Running == run # Idle /\ run.stage # "done"
\* A stage takes its date when it starts; the last one keeps it over all its readings.
ReadFile ==
  /\ Running /\ run.did = "write"
  /\ run' = [run EXCEPT !.did = "read", !.read = file, !.seen = version,
                        !.day = IF run.stage = "contradict" THEN @ ELSE now]
  /\ UNCHANGED <<tvars, observed, before, calm>>
\* The list of contradictions is drawn up from one reading, then each is closed by another.
Writes == ~run.dry /\ Product # run.read
Over == run.stage # "contradict" \/ run.todo = <<>> \/ Len(run.todo) = 1
ListPairs ==
  /\ Running /\ run.did = "read" /\ run.stage = "observe"
  /\ observed' = IF run.dry \/ Observation(run.read, run.day) = NoObservation THEN observed ELSE Observation(run.read, run.day)
  /\ run' = [run EXCEPT !.stage = "list", !.did = "write"]
  /\ UNCHANGED <<tvars, before, calm>>
DrawUp ==
  /\ Running /\ run.did = "read" /\ run.stage = "list"
  /\ LET todo == IF run.dry THEN <<>> ELSE Closings(run.read, run.day) IN
     run' = [run EXCEPT !.stage = IF todo = <<>> THEN "done" ELSE "contradict", !.did = "write", !.todo = todo]
  /\ UNCHANGED <<tvars, observed, before, calm>>
WriteFile ==
  /\ Running /\ run.did = "read" /\ run.stage \in {"duplicates", "stale", "contradict"}
  /\ IF Writes THEN /\ file' = Product /\ version' = version + 1
                    /\ disturbed' = (disturbed \/ version # run.seen)
               ELSE UNCHANGED <<file, version, disturbed>>
  /\ calm' = (calm /\ version = run.seen)
  /\ run' = [run EXCEPT !.did = "write", !.stage = IF Over THEN NextStage ELSE @,
                        !.todo = IF @ = <<>> THEN @ ELSE Tail(@)]
  /\ UNCHANGED <<now, call, calls, stated, observed, before>>

KillRun == Running /\ run' = [stage |-> "done", dry |-> TRUE] /\ UNCHANGED <<tvars, observed, before, calm>>

\* Another caller, or the clock, moves.
Meanwhile ==
  /\ TNext /\ (calm' = (calm /\ version' = version /\ now' = now))
  /\ UNCHANGED <<run, observed, before>>

CNext == Meanwhile \/ (\E dry \in BOOLEAN : Consolidate(dry)) \/ ReadFile \/ WriteFile \/ ListPairs \/ DrawUp \/ KillRun
CSpec == CInit /\ [][CNext]_cvars

-----------------------------------------------------------------------------
Ended == run # Idle /\ run.stage = "done" /\ ~run.dry /\ calm
ValuesIn(lines) == {lines[i].value : i \in DOMAIN lines}

\* A run nobody disturbed loses no value, keeps one line of each, the open one
\* if there was one, and leaves no two facts open.
ConsolidationSettlesTheFile ==
  Ended =>
    /\ ValuesIn(file) = ValuesIn(before) /\ Len(file) = Cardinality(ValuesIn(before))
    /\ Cardinality({i \in DOMAIN file : Open(file[i])}) <= 1
    /\ \A i \in DOMAIN file : file[i] \notin Range(before) => \E k \in DOMAIN before :
         Open(before[k]) /\ [before[k] EXCEPT !.to = file[i].to, !.recorded = file[i].recorded] = file[i]
    /\ \A i \in DOMAIN file : (file[i].recorded < now /\ ~Open(file[i])) =>
         \A k \in DOMAIN before : before[k].value = file[i].value => ~Open(before[k])

\* "The newest fact (by recorded_at) is kept as canonical" (consolidation.py:487):
\* the fact stated last, open and not stale, is still open after the run.
NewestIsCanonical ==
  LET last == Last(before) IN
  (/\ Ended /\ Open(last) /\ ~IsStale(last, now)
   /\ \A i \in DOMAIN before : before[i].recorded <= last.recorded /\ (before[i].value = last.value => before[i] = last))
    => \E i \in DOMAIN file : file[i].value = last.value /\ Open(file[i])
===============================================================================
