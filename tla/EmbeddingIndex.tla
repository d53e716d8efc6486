--------------------------- MODULE EmbeddingIndex ---------------------------
(***************************************************************************)
(* The embedding index (embedding.py), rebuilt from the markdown by one    *)
(* process and kept in step with it by another, which hears of changes     *)
(* through a watcher (watch.py, live_sync.py).  Every read-modify-write of *)
(* the index is under one lock and ends in an atomic replace; the markdown *)
(* changes meanwhile.  A text is its version, and the stamp (mtime, size)  *)
(* of a file tells its versions apart.                                     *)
(***************************************************************************)
EXTENDS Naturals, Sequences

CONSTANTS
  Paths,          \* markdown files
  MaxVersion,     \* bound on the changes of the files
  MaxKills,
  Nobody, Watcher, Builder

VARIABLES
  file,           \* path -> version, 0 when there is none
  blank,          \* versions with no text in them
  version,        \* how many changes there were
  index,          \* path -> [stat, text], of a version; or nothing at all: <<>>
  lock,           \* who holds index.lock
  events,         \* what the observer has not delivered yet
  sync,           \* the watcher's call
  build,          \* the builder's call
  log,            \* path -> fingerprint of its last change event
  missed,         \* an event was lost: with its process, while the first build ran, or to a clear
  kills,
  been, returned  \* history: the versions a path has held, the paths one of them came back to
mvars == <<file, blank, version, index, lock, events, sync, build, log, missed, kills, been, returned>>

NoRecord == [stat |-> 0, text |-> 0]
Absent == <<>>
Idle == [pc |-> "idle"]
Stored == IF index = Absent THEN [p \in Paths |-> NoRecord] ELSE index
Texts == {p \in Paths : file[p] # 0 /\ file[p] \notin blank}

(* ---- the markdown ---- *)
Tell(event) == events' = Append(events, event)
Calm == UNCHANGED <<index, lock, sync, build, log, missed, kills>>
Write(p, empty) ==
  /\ version < MaxVersion
  /\ version' = version + 1 /\ file' = [file EXCEPT ![p] = version + 1]
  /\ blank' = IF empty THEN blank \cup {version + 1} ELSE blank
  /\ been' = [been EXCEPT ![p] = @ \cup {version + 1}] /\ UNCHANGED returned
  /\ Tell([op |-> IF file[p] = 0 THEN "create" ELSE "modify", path |-> p, old |-> p])
  /\ Calm
Delete(p) ==
  /\ file[p] # 0 /\ version < MaxVersion /\ version' = version + 1
  /\ file' = [file EXCEPT ![p] = 0] /\ UNCHANGED <<blank, been, returned>>
  /\ Tell([op |-> "delete", path |-> p, old |-> p])
  /\ Calm
Move(p, q) ==
  /\ file[p] # 0 /\ p # q /\ version < MaxVersion /\ version' = version + 1
  /\ file' = [file EXCEPT ![p] = 0, ![q] = file[p]] /\ UNCHANGED blank
  /\ been' = [been EXCEPT ![q] = @ \cup {file[p]}]
  /\ returned' = IF file[p] \in been[q] THEN returned \cup {q} ELSE returned
  /\ Tell([op |-> "move", path |-> q, old |-> p])
  /\ Calm

(* ---- the watcher: live_sync_apply, one event at a time ---- *)
Same == UNCHANGED <<file, blank, version, been, returned>>
\* Invalidation and the envelope come first; the index is synced only when one exists.
Apply ==
  /\ sync = Idle /\ events # <<>>
  /\ LET event == Head(events) IN
     /\ log' = [log EXCEPT ![event.path] = file[event.path]]
     /\ IF index = Absent
        THEN sync' = Idle /\ missed' = (missed \/ build.pc # "idle")
        ELSE sync' = [pc |-> "wait", event |-> event] /\ UNCHANGED missed
  /\ events' = Tail(events)
  /\ UNCHANGED <<index, lock, build, kills>> /\ Same
\* Under the lock: the records from disk, without those the event took away.
Drops(event) == IF event.op = "delete" THEN {event.path} ELSE IF event.op = "move" THEN {event.old} ELSE {}
SyncBegin ==
  /\ sync.pc = "wait" /\ lock = Nobody /\ lock' = Watcher
  /\ LET event == sync.event
         records == [p \in Paths |-> IF p \in Drops(event) THEN NoRecord ELSE Stored[p]]
         canonical == event.op # "delete" /\ file[event.path] # 0
     IN sync' = [pc |-> IF canonical THEN "stat" ELSE "write", event |-> event, records |-> records,
                 changed |-> \E p \in Drops(event) : Stored[p] # NoRecord]
  /\ UNCHANGED <<index, events, build, log, missed, kills>> /\ Same
SyncStat ==
  /\ sync.pc = "stat"
  /\ sync' = IF file[sync.event.path] = 0 THEN [sync EXCEPT !.pc = "write"]
             ELSE [pc |-> "read", event |-> sync.event, records |-> sync.records, changed |-> sync.changed,
                   stat |-> file[sync.event.path]]
  /\ UNCHANGED <<index, lock, events, build, log, missed, kills>> /\ Same
\* A file that cannot be read keeps its last vector; an empty one has none.
Record(stat, text) == [stat |-> stat, text |-> text]
SyncRead ==
  /\ sync.pc = "read"
  /\ LET p == sync.event.path
         text == file[p]
         record == IF text \in blank THEN NoRecord ELSE Record(sync.stat, text)
     IN sync' = IF text = 0 THEN [sync EXCEPT !.pc = "write"]
                ELSE [sync EXCEPT !.pc = "write", !.changed = @ \/ record # NoRecord \/ sync.records[p] # NoRecord,
                                  !.records = [@ EXCEPT ![p] = record]]
  /\ UNCHANGED <<index, lock, events, build, log, missed, kills>> /\ Same
SyncWrite ==
  /\ sync.pc = "write"
  /\ index' = IF sync.changed THEN sync.records ELSE index
  /\ lock' = Nobody /\ sync' = Idle
  /\ UNCHANGED <<events, build, log, missed, kills>> /\ Same

(* ---- the builder: build_embeddings, and live_sync_repair which forces it ---- *)
BuildBegin(force) ==
  /\ build = Idle /\ lock = Nobody /\ lock' = Builder
  /\ build' = [pc |-> "stat", force |-> force, cache |-> Stored, seen |-> {}, path |-> Nobody, stat |-> 0,
               changed |-> FALSE, todo |-> {p \in Paths : file[p] # 0}]
  /\ UNCHANGED <<index, events, sync, log, missed, kills>> /\ Same
BuildStat ==
  /\ build.pc = "stat"
  /\ \E p \in build.todo :
       build' = IF file[p] = 0 THEN [build EXCEPT !.todo = @ \ {p}]
                ELSE [build EXCEPT !.pc = "read", !.path = p, !.stat = file[p], !.todo = @ \ {p}]
  /\ UNCHANGED <<index, lock, events, sync, log, missed, kills>> /\ Same
BuildRead ==
  /\ build.pc = "read"
  /\ LET p == build.path
         text == file[p]
         rest == [build EXCEPT !.pc = "stat"]
     IN build' = IF text = 0 THEN [rest EXCEPT !.seen = @ \cup {p}]
                 ELSE IF text \in blank THEN rest
                 ELSE IF ~build.force /\ build.cache[p].stat = build.stat THEN [rest EXCEPT !.seen = @ \cup {p}]
                 ELSE [rest EXCEPT !.seen = @ \cup {p}, !.changed = TRUE, !.cache = [@ EXCEPT ![p] = Record(build.stat, text)]]
  /\ UNCHANGED <<index, lock, events, sync, log, missed, kills>> /\ Same
\* Entries whose file is gone are dropped, and nothing is written when nothing changed.
Kept(cache, seen) == [p \in Paths |-> IF p \in seen THEN cache[p] ELSE NoRecord]
BuildWrite ==
  /\ build.pc = "stat" /\ build.todo = {}
  /\ LET kept == Kept(build.cache, build.seen) IN
     index' = IF build.changed \/ kept # build.cache THEN kept ELSE index
  /\ lock' = Nobody /\ build' = Idle
  /\ UNCHANGED <<events, sync, log, missed, kills>> /\ Same
\* embedding_clear takes no lock: a sync that saw an index finds none and writes its one record.
Clear ==
  /\ index # Absent /\ index' = Absent
  /\ missed' = (missed \/ sync.pc = "wait")
  /\ UNCHANGED <<lock, events, sync, build, log, kills>> /\ Same

\* A kill frees the lock and leaves the index as it was; the watcher's takes its events with it.
Kill(who) ==
  /\ kills < MaxKills /\ kills' = kills + 1
  /\ lock' = IF lock = who THEN Nobody ELSE lock
  /\ IF who = Watcher THEN sync' = Idle /\ events' = <<>> /\ missed' = TRUE /\ UNCHANGED build
     ELSE build' = Idle /\ UNCHANGED <<sync, events, missed>>
  /\ UNCHANGED <<index, log>> /\ Same

(* ---- embedding_index_state, live_sync_freshness ---- *)
Missing == {p \in Texts : Stored[p] = NoRecord}
Orphaned == {p \in Paths \ Texts : Stored[p] # NoRecord}
Stale == {p \in Texts : Stored[p] # NoRecord /\ Stored[p].stat # file[p]}
State == IF index = Absent THEN "absent" ELSE IF Missing \cup Orphaned \cup Stale # {} THEN "stale" ELSE "fresh"

MInit ==
  /\ file = [p \in Paths |-> 0] /\ blank = {} /\ version = 0 /\ index = Absent /\ lock = Nobody
  /\ events = <<>> /\ sync = Idle /\ build = Idle /\ log = [p \in Paths |-> 0] /\ missed = FALSE /\ kills = 0
  /\ been = [p \in Paths |-> {}] /\ returned = {}
Edit == \E p \in Paths : Delete(p) \/ (\E e \in BOOLEAN : Write(p, e)) \/ \E q \in Paths : Move(p, q)
Watch == Apply \/ SyncBegin \/ SyncStat \/ SyncRead \/ SyncWrite
Build == (\E f \in BOOLEAN : BuildBegin(f)) \/ BuildStat \/ BuildRead \/ BuildWrite
MNext == Edit \/ Watch \/ Build \/ Clear \/ \E who \in {Watcher, Builder} : Kill(who)
MSpec == MInit /\ [][MNext]_mvars

---------------------------------------------------------------------------
\* A record that looks current is current: what was encoded under a file's stamp is that file's text,
\* unless a file was moved away and back, which keeps its stamp, while another was read in its place.
LooksAreTrue ==
  \A p \in Paths \ returned : (Stored[p] # NoRecord /\ Stored[p].stat = file[p]) => Stored[p].text = file[p]
\* Once the watcher has drained what it heard, no build is under way and no event was dropped, the
\* index says fresh and is, and the last change event of a file carries its content.
DrainedMeansFresh ==
  (events = <<>> /\ sync = Idle /\ build = Idle /\ ~missed) =>
    /\ State \in {"fresh", "absent"}
    /\ State = "fresh" => \A p \in Texts : Stored[p].text = file[p]
    /\ \A p \in Texts : log[p] = file[p]
IndexTellsTheFiles == LooksAreTrue /\ DrainedMeansFresh
=============================================================================
