------------------------------ MODULE Snapshots ------------------------------
(***************************************************************************)
(* Snapshots and time travel (core.py): snapshot() walks the notes and     *)
(* records of each its size, then a summary, then a hash, and saves one    *)
(* JSON file; snapshot_diff, time_travel and snapshot_entity read those    *)
(* files back.  Notes change while a snapshot walks, two snapshots may     *)
(* fall into one second, and a kill leaves half a file.                    *)
(***************************************************************************)
EXTENDS Naturals, FiniteSets, Sequences, SequencesExt, TLC

CONSTANTS
  Notes,        \* the notes, in the order the walk meets them (a sequence)
  MaxNow,       \* bound on instants; an instant is [day, second in it]
  SecondsADay,
  MaxVersion, MaxSnapshots,  \* bounds
  Gone,         \* a note that does not exist, or an entry a snapshot lacks
  Unreadable    \* the hash of a note that is gone when it is hashed

VARIABLES
  note,         \* the version of each note, or Gone
  now,          \* the clock, in seconds
  latest,       \* the last version any note got
  walk,         \* the snapshot being taken, or <<>>
  snaps,        \* history: the snapshots saved, in the order they were taken
  torn,         \* ranks of the snapshots a kill left half written
  ended         \* history: what a snapshot saw change while it walked

svars == <<note, now, latest, walk, snaps, torn, ended>>

Paths == ToSet(Notes)
Day(second) == second \div SecondsADay

SInit ==
  /\ note = [p \in Paths |-> Gone] /\ now = 0 /\ latest = 0
  /\ walk = <<>> /\ snaps = <<>> /\ torn = {} /\ ended = <<>>

-----------------------------------------------------------------------------
(* Taking a snapshot *)

\* The id is the second and a random suffix: uid orders ids of one second.
Begin(uid) ==
  /\ walk = <<>> /\ Len(snaps) < MaxSnapshots
  /\ \A i \in DOMAIN snaps : <<snaps[i].second, snaps[i].uid>> # <<now, uid>>
  /\ walk' = [second |-> now, uid |-> uid, at |-> 1, step |-> "stat", size |-> Gone,
              summary |-> Gone, files |-> [p \in {} |-> Gone], moved |-> {}]
  /\ UNCHANGED <<note, now, latest, snaps, torn, ended>>

Walking(step) == walk # <<>> /\ walk.at <= Len(Notes) /\ walk.step = step
Here == Notes[walk.at]
Next1 == [walk EXCEPT !.at = @ + 1, !.step = "stat"]
\* A note that is gone when it is stat'ed is skipped.
Stat ==
  /\ Walking("stat")
  /\ walk' = IF note[Here] = Gone THEN Next1
             ELSE [walk EXCEPT !.size = note[Here], !.step = "read"]
  /\ UNCHANGED <<note, now, latest, snaps, torn, ended>>
\* _safe_read answers "" for a note that is gone.
ReadNote ==
  /\ Walking("read")
  /\ walk' = [walk EXCEPT !.summary = note[Here], !.step = "hash"]
  /\ UNCHANGED <<note, now, latest, snaps, torn, ended>>
FileHash(p) == IF note[p] = Gone THEN Unreadable ELSE note[p]
Entry(size, summary, hash) == [size |-> size, summary |-> summary, hash |-> hash]
HashNote ==
  /\ Walking("hash")
  /\ walk' = [Next1 EXCEPT !.files = @ @@ (Here :> Entry(walk.size, walk.summary, FileHash(Here)))]
  /\ UNCHANGED <<note, now, latest, snaps, torn, ended>>
Save(whole) ==
  /\ walk # <<>> /\ walk.at > Len(Notes)
  /\ snaps' = Append(snaps, [second |-> walk.second, uid |-> walk.uid, files |-> walk.files])
  /\ torn' = IF whole THEN torn ELSE torn \union {Len(snaps) + 1}
  /\ ended' = Append(ended, walk.moved)
  /\ walk' = <<>>
  /\ UNCHANGED <<note, now, latest>>

-----------------------------------------------------------------------------
(* The notes and the clock *)

Moved(p) == walk' = IF walk = <<>> THEN walk ELSE [walk EXCEPT !.moved = @ \union {p}]
Edit(p) ==
  /\ latest < MaxVersion
  /\ latest' = latest + 1 /\ note' = [note EXCEPT ![p] = latest + 1]
  /\ Moved(p) /\ UNCHANGED <<now, snaps, torn, ended>>
Delete(p) ==
  /\ note[p] # Gone /\ note' = [note EXCEPT ![p] = Gone]
  /\ Moved(p) /\ UNCHANGED <<now, latest, snaps, torn, ended>>
Tick == now < MaxNow /\ now' = now + 1 /\ UNCHANGED <<note, latest, walk, snaps, torn, ended>>

SNext ==
  \/ \E uid \in 1..2 : Begin(uid)
  \/ Stat \/ ReadNote \/ HashNote \/ \E whole \in BOOLEAN : Save(whole)
  \/ \E p \in Paths : Edit(p) \/ Delete(p)
  \/ Tick

SSpec == SInit /\ [][SNext]_svars

-----------------------------------------------------------------------------
(* Reading snapshots back *)

Whole == DOMAIN snaps \ torn
\* snapshot_list and snapshot_entity order snapshots by the name of the file.
Before(i, j) == \/ snaps[i].second < snaps[j].second
                \/ snaps[i].second = snaps[j].second /\ snaps[i].uid < snaps[j].uid
ByName == SetToSortSeq(Whole, Before)

\* snapshot_diff compares hashes; against the live notes it hashes them first.
SnapshotDiff(a, b) ==
  [added    |-> DOMAIN b \ DOMAIN a,
   removed  |-> DOMAIN a \ DOMAIN b,
   modified |-> {p \in DOMAIN a \intersect DOMAIN b : a[p].hash # b[p].hash}]

\* time_travel to a date keeps the closest snapshot on or before it, over the
\* files in the order the directory lists them.
Closer_AnyOfTheDay(best, i, day) ==
  /\ Day(snaps[i].second) <= day
  /\ best = 0 \/ day - Day(snaps[i].second) < day - Day(snaps[best].second)
Closer(best, i, day) ==
  /\ Day(snaps[i].second) <= day
  /\ \/ best = 0
     \/ day - Day(snaps[i].second) < day - Day(snaps[best].second)
     \/ /\ Day(snaps[i].second) = Day(snaps[best].second)
        /\ i > best   \* the timestamps are in the order of the taking
TimeTravel(listing, day) ==
  FoldLeft(LAMBDA best, i : IF Closer(best, i, day) THEN i ELSE best, 0, listing)

\* snapshot_entity: what each snapshot says of one note, after the one before.
ChangeOf(prev, hash) ==
  IF prev = Gone THEN "new" ELSE IF hash # prev THEN "modified" ELSE "unchanged"
SnapshotEntity(p) ==
  LET Step(acc, i) ==
        IF p \in DOMAIN snaps[i].files
        THEN LET hash == snaps[i].files[p].hash
             IN  [prev |-> hash,
                  timeline |-> Append(acc.timeline, [rank |-> i, hash |-> hash,
                                                     change |-> ChangeOf(acc.prev, hash)])]
        ELSE IF acc.prev = Gone THEN acc
             ELSE [prev |-> Gone, timeline |-> Append(acc.timeline,
                                  [rank |-> i, hash |-> Gone, change |-> "deleted"])]
  IN  FoldLeft(Step, [prev |-> Gone, timeline |-> <<>>], ByName).timeline

-----------------------------------------------------------------------------
(* Properties. *)

Listings == {l \in [1..Cardinality(Whole) -> Whole] : \A i, j \in DOMAIN l : l[i] = l[j] => i = j}

\* A snapshot describes one version of every note that nobody touched while it
\* walked; whatever order the directory lists them in, time_travel to a date goes
\* to the last whole snapshot of the last day on or before it that has one; and
\* snapshot_entity calls a note new, modified or deleted exactly where snapshot_diff
\* between that snapshot and the one before it does.
SnapshotsTellThePast ==
  /\ \A i \in DOMAIN snaps : \A p \in DOMAIN snaps[i].files \ ended[i] :
       snaps[i].files[p].size = snaps[i].files[p].hash
       /\ snaps[i].files[p].summary = snaps[i].files[p].hash
  /\ \A l \in Listings, day \in 0..Day(MaxNow) :
       LET past == {i \in Whole : Day(snaps[i].second) <= day}
           best == TimeTravel(l, day)
       IN  IF past = {} THEN best = 0
           ELSE best \in past /\ \A i \in past : i <= best
  /\ \A p \in Paths, k \in 2..Len(ByName) :
       LET d == SnapshotDiff(snaps[ByName[k - 1]].files, snaps[ByName[k]].files)
           t == SnapshotEntity(p)
           here == {t[i].change : i \in {i \in DOMAIN t : t[i].rank = ByName[k]}}
       IN  /\ (p \in d.added <=> here = {"new"}) /\ (p \in d.removed <=> here = {"deleted"})
           /\ (p \in d.modified <=> here = {"modified"})
=============================================================================
