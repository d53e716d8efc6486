--------------------------- MODULE EvaluationCorpus ---------------------------
(***************************************************************************)
(* The evaluation corpus (evaluation_corpus.py): one append-only log of    *)
(* cases, labels and runs.  A write holds the governance lock, so it is    *)
(* one step.  Somebody edits the file between writes: a line is lost,      *)
(* repeated, moved or damaged.  A damaged log can be read but not written. *)
(***************************************************************************)
EXTENDS Naturals, Sequences, SequencesExt, FiniteSets, TLC

CONSTANTS
  Cases, Observations,   \* case ids; what a label or a run says
  Operations,            \* explicit operation ids callers may use
  MaxLines, MaxEdits,    \* bounds on the log and on the edits
  Garbage                \* a line no reader accepts

VARIABLES
  log,       \* evaluation/events.jsonl, line by line
  written,   \* history: the lines accepted since the log last read differently
  edits

evars == <<log, written, edits>>

Case(c, op) == [kind |-> "case", case |-> c, what |-> "registered", op |-> op]
Observed(kind, c, o, op) == [kind |-> kind, case |-> c, what |-> o, op |-> op]

-----------------------------------------------------------------------------
\* _partition: the lines left after each kind of impossibility was excluded.
Valid == {i \in DOMAIN log : log[i] # Garbage}
\* Every line of a clash is left out.
OwnSequence(S) == {i \in S : \A j \in S : log[i].seq = log[j].seq => i = j}
\* Gaps in the sequence are passed over.
Contiguous_WithGaps(S) == S
\* A clean history starts at one and has no gaps.
Contiguous(S) ==
  IF {log[i].seq : i \in S} = 1..Cardinality(S) THEN S ELSE {}
OwnOperation(S) == {i \in S : \A j \in S : log[i].op = log[j].op => i = j}
Declarations(S, c) == {i \in S : log[i].kind = "case" /\ log[i].case = c}
Accounted(S) ==
  {i \in S : LET d == Declarations(S, log[i].case) IN
     /\ Cardinality(d) = 1
     /\ log[i].kind # "case" => \A j \in d : log[j].seq < log[i].seq}

Usable == Accounted(OwnOperation(Contiguous(OwnSequence(Valid))))
Corrupt == Usable # DOMAIN log
\* The fold goes by sequence number, wherever a line stands in the file.
BySequence(S) == SetToSortSeq({log[i] : i \in S}, LAMBDA a, b : a.seq < b.seq)
Projection == BySequence(Usable)

-----------------------------------------------------------------------------
EInit == log = <<>> /\ written = <<>> /\ edits = 0

Known(r) == \E i \in Usable : log[i].op = r.op
Registered(c) == Declarations(Usable, c) # {}

\* _evaluation_append: a damaged log refuses; a known operation is answered
\* (already_applied, or a mismatch); then the guard decides.
Append1(r, guard) ==
  /\ Len(log) < MaxLines
  /\ ~Corrupt /\ ~Known(r) /\ guard
  /\ LET line == r @@ [seq |-> Cardinality(Usable) + 1]
     IN  log' = Append(log, line) /\ written' = Append(Projection, line)
  /\ UNCHANGED edits
Write ==
  \E op \in Operations, c \in Cases :
    \/ Append1(Case(c, op), ~Registered(c))
    \/ \E kind \in {"label", "run"}, o \in Observations :
         Append1(Observed(kind, c, o, op), Registered(c))

\* Edits from outside.
Edit ==
  /\ edits < MaxEdits /\ edits' = edits + 1
  /\ \E i \in DOMAIN log :
       \/ log' = RemoveAt(log, i)
       \/ log' = InsertAt(log, i, log[i]) /\ Len(log) < MaxLines
       \/ log' = ReplaceAt(log, i, Garbage)
       \/ \E j \in DOMAIN log : log' = [log EXCEPT ![i] = log[j], ![j] = log[i]]
  /\ UNCHANGED written

ENext == Write \/ Edit

ESpec == EInit /\ [][ENext]_evars

-----------------------------------------------------------------------------
\* A log that reads undamaged says what writers put there: whatever was lost,
\* repeated or moved in the file, its projection is what was accepted, or the
\* beginning of it when the latest lines were cut off.
CleanLogsAreTrue == ~Corrupt => IsPrefix(Projection, written)
=============================================================================
