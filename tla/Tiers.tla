-------------------------------- MODULE Tiers --------------------------------
(***************************************************************************)
(* Fading and tiers (decay.py, tiers.py): the fields kept in the           *)
(* frontmatter of a note.  Every call looks, then loads the text again,    *)
(* merges its fields into it and writes the file in place, and tombstoning *)
(* and restoring move the file besides, so that a note may be rewritten,   *)
(* moved or half written between two steps of another call.                *)
(***************************************************************************)
EXTENDS Naturals, Sequences

CONSTANTS
  Callers, Notes,
  Ceiling,       \* accesses at which frequency counts in full (20)
  MaxCalls, MaxBodies,   \* bounds on calls and on notes written under a name
  Absent, NoCall

VARIABLES
  disk,          \* per note and directory: the file
  call,          \* per caller: the call it is in
  calls,         \* calls begun
  born,          \* history: bodies written under each name
  disturbed,     \* history: notes two calls held at once, or a kill tore
  told           \* history: what the last call on a note answered

tvars == <<disk, call, calls, born, disturbed, told>>

Dirs == <<"entities", "inbox">>
Tombs == <<"tomb", "tomb.1", "tomb.2">>
Spots == {"entities", "inbox", "tomb", "tomb.1", "tomb.2"}
Alive == {"entities", "inbox"}

\* The frontmatter of a file that says nothing; body 0 is no text.  Tiers are
\* archival 0, recall 1 and core 2, weights are in quarters.
Blank == [tier |-> 1, weight |-> 4, recent |-> FALSE, accesses |-> 0, dead |-> FALSE, body |-> 0]
Merge(fields, doc) == [k \in DOMAIN doc |-> IF k \in DOMAIN fields THEN fields[k] ELSE doc[k]]

\* _resolve_memory of a bare name: the directories in order.
Found(n) == \E d \in Alive : disk[n][d] # Absent
Resolve(n) == IF disk[n]["entities"] # Absent THEN "entities" ELSE "inbox"
DocAt(n, s) == IF disk[n][s] = Absent THEN Blank ELSE disk[n][s]

-----------------------------------------------------------------------------
(* auto_tier: the score in hundredths, the tier it asks for, the move made. *)

TierScore_Reversed(tier) == (<<30, 15, 3>>)[tier + 1]
TierScore(tier) == (<<3, 15, 30>>)[tier + 1]
Score(doc) ==
  (IF doc.recent THEN 40 ELSE 0)
  + (30 * (IF doc.accesses < Ceiling THEN doc.accesses ELSE Ceiling)) \div Ceiling
  + (TierScore(doc.tier) * doc.weight) \div 4
Target(doc) == IF Score(doc) >= 70 THEN 2 ELSE IF Score(doc) >= 25 THEN 1 ELSE 0
\* A demotion moves one tier.
Retier(doc) == IF Target(doc) + 1 < doc.tier THEN doc.tier - 1 ELSE Target(doc)

\* What each call writes, of the frontmatter it looked at.
Restored_StillDead == [weight |-> 4, recent |-> TRUE]
Restored == [weight |-> 4, recent |-> TRUE, dead |-> FALSE]
Buried == [weight |-> 0, dead |-> TRUE]
Fields(op, doc) ==
  CASE op = "apply"   -> [weight |-> doc.weight \div 2, recent |-> TRUE]
    [] op = "restore" -> Restored
    [] op = "bury"    -> Buried
    [] op = "promote" -> [tier |-> IF doc.tier = 2 THEN 2 ELSE doc.tier + 1]
    [] op = "demote"  -> [tier |-> IF doc.tier = 0 THEN 0 ELSE doc.tier - 1]
    [] op = "touch"   -> [recent |-> TRUE, accesses |-> doc.accesses + 1]
    [] op = "auto"    -> [tier |-> Retier(doc)]

-----------------------------------------------------------------------------

TInit ==
  /\ disk = [n \in Notes |-> [s \in Spots |-> IF s = "entities" THEN [Blank EXCEPT !.body = 1] ELSE Absent]]
  /\ call = [c \in Callers |-> NoCall] /\ calls = 0
  /\ born = [n \in Notes |-> 1] /\ disturbed = {} /\ told = [n \in Notes |-> "nothing"]

Holds(c, n) == call[c] # NoCall /\ call[c].note = n
Enter(c, n, op, at, spot) ==
  /\ call' = [call EXCEPT ![c] = [op |-> op, note |-> n, at |-> at, spot |-> spot, doc |-> Blank, fields |-> Restored]]
  /\ disturbed' = IF \E d \in Callers \ {c} : Holds(d, n) THEN disturbed \union {n} ELSE disturbed
  /\ told' = [told EXCEPT ![n] = "nothing"]

\* A call resolves its note; one that changes nothing raises here.  decay_run
\* and auto_tier are an apply and an auto per note, of notes not marked dead.
Begin(c, n, op) ==
  /\ call[c] = NoCall /\ calls < MaxCalls /\ Found(n)
  /\ op = "auto" => ~disk[n][Resolve(n)].dead
  /\ calls' = calls + 1
  /\ Enter(c, n, op, IF op \in {"restore", "bury"} THEN "load" ELSE "look", Resolve(n))
  /\ UNCHANGED <<disk, born>>
\* decay_restore of a note that is only in the tombstones, under its own name.
BeginUnbury(c, n) ==
  /\ call[c] = NoCall /\ calls < MaxCalls /\ ~Found(n) /\ disk[n]["tomb"] # Absent
  /\ calls' = calls + 1
  /\ Enter(c, n, "restore", "unbury", "inbox")
  /\ UNCHANGED <<disk, born>>

At(c, at) == call[c] # NoCall /\ call[c].at = at
Here(c) == DocAt(call[c].note, call[c].spot)
Gone(c) == disk[call[c].note][call[c].spot] = Absent
Move(n, from, to) == disk' = [disk EXCEPT ![n][to] = disk[n][from], ![n][from] = Absent]

\* The file is moved to the inbox, over what is there.
Unbury(c) ==
  /\ At(c, "unbury") /\ disk[call[c].note]["tomb"] # Absent
  /\ Move(call[c].note, "tomb", "inbox")
  /\ call' = [call EXCEPT ![c].at = "load"]
  /\ UNCHANGED <<calls, born, disturbed, told>>
\* The new fields are computed from a first read: of nothing, when the file has
\* gone.  auto_tier writes only a tier that changed.
Look(c) ==
  /\ At(c, "look")
  /\ call' = [call EXCEPT ![c] =
       IF @.op = "auto" /\ Retier(Here(c)) = Here(c).tier THEN NoCall
       ELSE [@ EXCEPT !.fields = Fields(call[c].op, Here(c)), !.at = "load"]]
  /\ UNCHANGED <<disk, calls, born, disturbed, told>>
\* The text is read again, and the fields merged into it.  The tier calls write
\* a file that has gone anew; the decay calls raise.
Tiering(op) == op \in {"promote", "demote", "touch", "auto"}
Load(c) ==
  /\ At(c, "load") /\ (Gone(c) => Tiering(call[c].op))
  /\ call' = [call EXCEPT ![c].at = "cut",
       ![c].doc = Merge(IF call[c].op \in {"restore", "bury"} THEN Fields(call[c].op, Blank) ELSE call[c].fields, Here(c))]
  /\ UNCHANGED <<disk, calls, born, disturbed, told>>
Cut(c) ==
  /\ At(c, "cut")
  /\ disk' = [disk EXCEPT ![call[c].note][call[c].spot] = Blank]
  /\ call' = [call EXCEPT ![c].at = "write"]
  /\ UNCHANGED <<calls, born, disturbed, told>>
Answer(c) ==
  /\ call' = [call EXCEPT ![c] = NoCall]
  /\ told' = [told EXCEPT ![call[c].note] = call[c].op]
Write(c) ==
  /\ At(c, "write")
  /\ disk' = [disk EXCEPT ![call[c].note][call[c].spot] = call[c].doc]
  /\ IF call[c].op = "bury"
     THEN call' = [call EXCEPT ![c].at = "move"] /\ UNCHANGED told
     ELSE Answer(c)
  /\ UNCHANGED <<calls, born, disturbed>>
\* The first name free in the tombstones.
FreeTomb_First(n) == 1
FreeTomb(n) == CHOOSE i \in DOMAIN Tombs :
  disk[n][Tombs[i]] = Absent /\ \A j \in 1..i - 1 : disk[n][Tombs[j]] # Absent
Bury(c) ==
  /\ At(c, "move") /\ ~Gone(c)
  /\ Move(call[c].note, call[c].spot, Tombs[FreeTomb(call[c].note)])
  /\ Answer(c)
  /\ UNCHANGED <<calls, born, disturbed>>
\* A file that has gone makes the call raise.
Raise(c) ==
  /\ \/ At(c, "unbury") /\ disk[call[c].note]["tomb"] = Absent
     \/ At(c, "load") /\ Gone(c) /\ ~Tiering(call[c].op)
     \/ At(c, "move") /\ Gone(c)
  /\ call' = [call EXCEPT ![c] = NoCall]
  /\ UNCHANGED <<disk, calls, born, disturbed, told>>
\* The process dies; a file that was being written stays cut.
Kill(c) ==
  /\ call[c] # NoCall
  /\ disturbed' = IF At(c, "write") THEN disturbed \union {call[c].note} ELSE disturbed
  /\ call' = [call EXCEPT ![c] = NoCall]
  /\ UNCHANGED <<disk, calls, born, told>>
\* A note is written under the name of one that was buried.
Rewrite(n) ==
  /\ ~Found(n) /\ born[n] < MaxBodies
  /\ disk' = [disk EXCEPT ![n]["entities"] = [Blank EXCEPT !.body = born[n] + 1]]
  /\ born' = [born EXCEPT ![n] = @ + 1]
  /\ told' = [told EXCEPT ![n] = "nothing"]
  /\ disturbed' = IF \E c \in Callers : Holds(c, n) THEN disturbed \union {n} ELSE disturbed
  /\ UNCHANGED <<call, calls>>

TNext ==
  \/ \E c \in Callers :
       \/ \E n \in Notes : BeginUnbury(c, n)
            \/ \E op \in {"apply", "restore", "bury", "promote", "demote", "touch", "auto"} : Begin(c, n, op)
       \/ Unbury(c) \/ Look(c) \/ Load(c) \/ Cut(c) \/ Write(c) \/ Bury(c) \/ Raise(c) \/ Kill(c)
  \/ \E n \in Notes : Rewrite(n)

TSpec == TInit /\ [][TNext]_tvars

-----------------------------------------------------------------------------
(* Properties. *)

Quiet(n) == n \notin disturbed /\ ~\E c \in Callers : Holds(c, n)

\* "Memories don't get deleted": whatever calls faded, buried, restored or tiered
\* a note, and wherever one of them died outside of a write, every text written
\* under its name is in exactly one file.
TextsSurvive ==
  \A n \in Notes : n \notin disturbed =>
    \/ \E c \in Callers : Holds(c, n) /\ At(c, "write")
    \/ \A b \in 1..born[n] : \E s \in Spots :
         /\ disk[n][s] # Absent /\ disk[n][s].body = b
         /\ \A r \in Spots \ {s} : disk[n][r] # Absent => disk[n][r].body # b

\* A note that was buried is nowhere but in the tombstones, marked dead, and one
\* that was restored is alive at full weight, whichever step an earlier call on
\* it died at.
AnswersHold ==
  \A n \in Notes : Quiet(n) =>
    /\ told[n] = "bury" => ~Found(n)
    /\ told[n] = "restore" => Found(n) /\ disk[n][Resolve(n)].weight = 4 /\ ~disk[n][Resolve(n)].dead
    /\ \A s \in Spots \ Alive : disk[n][s] # Absent => disk[n][s].dead

\* Running auto_tier again and again on a note nobody uses comes to rest.
Retiered(doc, k) ==
  LET after[n \in 0..k] == IF n = 0 THEN doc ELSE [after[n - 1] EXCEPT !.tier = Retier(after[n - 1])] IN after[k]
AutoTierSettles ==
  \A n \in Notes, s \in Spots : disk[n][s] # Absent => Retiered(disk[n][s], 2) = Retiered(disk[n][s], 3)
=============================================================================
