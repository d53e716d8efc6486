---------------------------- MODULE Subsequences ----------------------------
(***************************************************************************)
(* What remains of a sequence when a loop goes over it once and keeps the  *)
(* elements at some of its places, in order: the reader and the compactor  *)
(* of the store, and the list of records they stand for, are such loops.   *)
(***************************************************************************)
EXTENDS Naturals, Sequences

(* The loop's result after each of its turns. *)
Picks(s, places) ==
  LET pick[n \in 0 .. Len(s)] ==
        IF n = 0 THEN <<>>
        ELSE IF n \in places THEN Append(pick[n - 1], s[n]) ELSE pick[n - 1]
  IN  pick

Picked(s, places) == Picks(s, places)[Len(s)]
=============================================================================
