----------------------------- MODULE RecordStore -----------------------------
(***************************************************************************)
(* What the JSONL envelope store of memkraft.store_core promises its       *)
(* callers, with no file, lock or process in sight: a list of visible      *)
(* record ids that grows at its end, one record at a time, and from which  *)
(* a record disappears only because a tombstone call named it, and then    *)
(* for good.                                                               *)
(***************************************************************************)
EXTENDS Sequences, Subsequences

CONSTANT Id          \* record ids (minted by uuid4, so never used twice)

VARIABLES records,   \* the ids a default read returns, in file order
          doomed     \* the ids tombstone calls named

rsVars == <<records, doomed>>

Shown == {records[n] : n \in DOMAIN records}

Init == records = <<>> /\ doomed = {}

(* A new record becomes the last one. *)
Add(i) ==
  /\ i \notin Shown \union doomed
  /\ records' = Append(records, i)
  /\ UNCHANGED doomed

(* A tombstone call has found its target; nothing is hidden yet. *)
Ask(S) ==
  /\ doomed' = doomed \union S
  /\ UNCHANGED records

(* Tombstones hide their targets and leave the rest as it was. *)
Hide(S) ==
  /\ records' = Picked(records, {n \in DOMAIN records : records[n] \notin S})
  /\ doomed' = doomed \union S

Next == \/ \E i \in Id : Add(i)
        \/ \E S \in SUBSET Id : Ask(S) \/ Hide(S)

Spec == Init /\ [][Next]_rsVars

=============================================================================
