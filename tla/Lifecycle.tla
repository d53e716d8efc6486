------------------------------ MODULE Lifecycle ------------------------------
(***************************************************************************)
(* The file watcher of lifecycle.py: watch starts a thread that polls the  *)
(* file's modification time and flushes the file when it differs from the  *)
(* one it remembers; unwatch lowers a flag every such thread looks at when *)
(* it wakes.  Editors write, remove and restore the file meanwhile, and a  *)
(* flush that fails is forgotten (best effort).                            *)
(***************************************************************************)
EXTENDS Integers, Sequences, SequencesExt, FiniteSetsExt, Functions

CONSTANTS Threads, MaxVersion, MaxEdits

VARIABLES
  file,      \* [there, version, stamp]
  stamps,    \* the time each version was written at
  now,       \* the file system's clock
  watching,  \* the flag all the threads share
  loops,     \* the polling threads
  imported,  \* the flushes done: [thread |-> its name, version |-> what it read]
  edits,
  blurred    \* whether two texts bore the same time, or an old copy came back during a flush
wvars == <<file, stamps, now, watching, loops, imported, edits, blurred>>

Never == 0
Unborn == [pc |-> "unborn", seen |-> Never, mtime |-> Never, read |-> Never, failed |-> FALSE]

(* ---- the editors ---- *)
Write ==
  /\ Len(stamps) < MaxVersion /\ stamps' = Append(stamps, now)
  /\ file' = [there |-> TRUE, version |-> Len(stamps) + 1, stamp |-> now]
  /\ blurred' = (blurred \/ now \in Range(stamps))
Unlink == file.there /\ file' = [file EXCEPT !.there = FALSE] /\ UNCHANGED <<stamps, blurred>>
\* A copy brought back with its own, older time.
Restore ==
  /\ \E version \in DOMAIN stamps : file' = [there |-> TRUE, version |-> version, stamp |-> stamps[version]]
  /\ blurred' = (blurred \/ \E t \in Threads : loops[t].pc \in {"flush", "note"})
  /\ UNCHANGED stamps
Edit == /\ edits < MaxEdits /\ edits' = edits + 1
        /\ Write \/ Unlink \/ Restore
        /\ UNCHANGED <<now, watching, loops, imported>>
Tick == now <= Len(stamps) /\ now' = now + 1 /\ UNCHANGED <<file, stamps, watching, loops, imported, edits, blurred>>

(* ---- watch, unwatch ---- *)
Watch(t) ==
  /\ loops[t].pc = "unborn" /\ watching' = TRUE
  /\ loops' = [loops EXCEPT ![t].pc = "look"]
  /\ UNCHANGED <<file, stamps, now, imported, edits, blurred>>
Unwatch == watching /\ watching' = FALSE /\ UNCHANGED <<file, stamps, now, loops, imported, edits, blurred>>

(* ---- one turn of the loop ---- *)
Changed(l) == l.seen # Never /\ file.stamp # l.seen
Look(t) ==
  LET l == loops[t] IN
  /\ l.pc = "look"
  /\ loops' = [loops EXCEPT ![t] =
       IF ~watching THEN [l EXCEPT !.pc = "gone"]
       ELSE IF ~file.there THEN [l EXCEPT !.pc = "asleep"]
       ELSE IF Changed(l) THEN [l EXCEPT !.pc = "flush", !.mtime = file.stamp]
       ELSE IF l.seen = Never THEN [l EXCEPT !.pc = "asleep", !.seen = file.stamp, !.read = file.version]
       ELSE [l EXCEPT !.pc = "asleep"]]
  /\ UNCHANGED <<file, stamps, now, watching, imported, edits, blurred>>
\* The time remembered is the one read before the flush, so an edit made during it is seen next time.
Noted_After(l) == file.stamp
Noted(l) == l.mtime
Rest(t, read, failed) ==
  loops' = [loops EXCEPT ![t] = [@ EXCEPT !.pc = "note", !.read = read, !.failed = failed]]
\* flush: a missing file or a failing import is swallowed and the time noted all the same.
Flush(t) ==
  /\ loops[t].pc = "flush"
  /\ \/ /\ file.there
        /\ imported' = Append(imported, [thread |-> t, version |-> file.version])
        /\ Rest(t, file.version, FALSE)
     \/ Rest(t, loops[t].read, TRUE) /\ UNCHANGED imported
  /\ UNCHANGED <<file, stamps, now, watching, edits, blurred>>
Note(t) ==
  /\ loops[t].pc = "note"
  /\ loops' = [loops EXCEPT ![t].pc = "asleep", ![t].seen = Noted(loops[t]), ![t].mtime = Never]
  /\ UNCHANGED <<file, stamps, now, watching, imported, edits, blurred>>
Wake(t) == loops[t].pc = "asleep" /\ loops' = [loops EXCEPT ![t].pc = "look"]
           /\ UNCHANGED <<file, stamps, now, watching, imported, edits, blurred>>

WInit == /\ file = [there |-> TRUE, version |-> 1, stamp |-> 1] /\ stamps = <<1>> /\ now = 2 /\ watching = FALSE
         /\ loops = [t \in Threads |-> Unborn] /\ imported = <<>> /\ edits = 0 /\ blurred = FALSE
WNext == Edit \/ Tick \/ Unwatch \/ (\E t \in Threads : Watch(t) \/ Look(t) \/ Flush(t) \/ Note(t) \/ Wake(t))
WSpec == WInit /\ [][WNext]_wvars

---------------------------------------------------------------------------
\* A thread that remembers the file's present time has imported its present text or a later one, or
\* found it so when it started: no edit, restored copy or removal slips between reading the time and importing.
\* Excused are a flush that failed, texts that bear the same time and copies restored during a flush.
ChangesAreImported ==
  \A t \in Threads : LET l == loops[t] IN
    (l.pc = "asleep" /\ l.seen = file.stamp /\ file.there) => (l.read >= file.version \/ l.failed \/ blurred)
-------------------------------------------------------------------------------
(***************************************************************************)
(* Two sweeps of lifecycle.py over the live notes: compact, which archives *)
(* notes by age, importance and the size of the whole memory, oldest       *)
(* first, and cleanup_orphans, which archives the notes no file mentions.  *)
(* Each reads the files one by one while editors change them, and archives *)
(* with tier_set, which rewrites the note (so it is young again) and fails *)
(* on a note whose file name has capitals.                                 *)
(***************************************************************************)
CONSTANTS Pages, Capital, Ages, Limits, MaxNoteEdits, MaxSweeps

VARIABLES
  notes,    \* per note: [tier, low, age, size, mentions]
  sweep,    \* the sweep under way
  edited,   \* the notes an editor touched since it began
  verdict,  \* what it decided of each note: [by, failed, was], was the note it found at first
  noteEdits, sweeps
uvars == <<notes, sweep, edited, verdict, noteEdits, sweeps>>

Month == 1   \* ages: up to 30 days is 0, up to 90 is 1, beyond is 2
Resting == [kind |-> "none"]
Unmoved(p) == [by |-> "nothing", failed |-> FALSE, was |-> [tier |-> notes[p].tier, age |-> notes[p].age]]
Size == SumFunction([p \in Pages |-> notes[p].size])
OldestFirst_Newest == SetToSortSeq(Pages, LAMBDA p, q : notes[p].age <= notes[q].age)
OldestFirst == SetToSortSeq(Pages, LAMBDA p, q : notes[p].age >= notes[q].age)

(* ---- the editors ---- *)
EditNote ==
  /\ noteEdits < MaxNoteEdits /\ noteEdits' = noteEdits + 1
  /\ \E p \in Pages :
       /\ edited' = edited \cup {p}
       /\ \/ \E m \in SUBSET Pages : notes' = [notes EXCEPT ![p].mentions = m, ![p].age = 0]
          \/ \E t \in {"core", "recall"} : notes' = [notes EXCEPT ![p].tier = t, ![p].age = 0]
          \/ notes' = [notes EXCEPT ![p].size = @ + 1, ![p].age = 0]
  /\ UNCHANGED <<sweep, verdict, sweeps>>
Age == /\ sweep = Resting /\ noteEdits < MaxNoteEdits /\ noteEdits' = noteEdits + 1
       /\ notes' = [p \in Pages |-> [notes[p] EXCEPT !.age = IF @ = 2 THEN 2 ELSE @ + 1]]
       /\ UNCHANGED <<sweep, edited, verdict, sweeps>>

Start(s) ==
  /\ sweep = Resting /\ sweeps < MaxSweeps /\ sweeps' = sweeps + 1
  /\ sweep' = s /\ edited' = {} /\ verdict' = [p \in Pages |-> Unmoved(p)]
  /\ UNCHANGED <<notes, noteEdits>>
Finish == sweep' = Resting /\ UNCHANGED <<notes, edited, verdict, noteEdits, sweeps>>
\* tier_set: reads the note as it is now and writes it back with its new tier.
Archived(p) == IF p \in Capital THEN notes ELSE [notes EXCEPT ![p].tier = "archival", ![p].age = 0]

(* ---- compact ---- *)
Compact(max, dry) == Start([kind |-> "compact", todo |-> OldestFirst, total |-> Size, max |-> max, dry |-> dry, page |-> "none"])
Reason(n, total, max) ==
  IF n.tier = "archival" THEN "nothing"
  ELSE IF n.age > Month /\ n.tier # "core" THEN "age"
  ELSE IF n.low /\ n.age >= Month THEN "importance"
  ELSE IF total > max /\ n.tier = "recall" /\ n.age >= Month THEN "size"
  ELSE "nothing"
Judge ==
  /\ sweep.kind = "compact" /\ sweep.page = "none" /\ sweep.todo # <<>>
  /\ LET p == Head(sweep.todo)
         by == Reason(notes[p], sweep.total, sweep.max)
     IN /\ sweep' = [sweep EXCEPT !.todo = Tail(@), !.page = IF by = "nothing" \/ sweep.dry THEN "none" ELSE p,
                                  !.total = IF by = "nothing" THEN @ ELSE @ - notes[p].size]
        /\ verdict' = [verdict EXCEPT ![p].by = by]
  /\ UNCHANGED <<notes, edited, noteEdits, sweeps>>

(* ---- cleanup_orphans ---- *)
Cleanup(dry) == \E files \in SetToSeqs(Pages) :
  Start([kind |-> "scan", todo |-> files, found |-> {}, dry |-> dry, page |-> "none"])
Found_Last(found, p) == notes[p].mentions
Found(found, p) == found \cup notes[p].mentions
Scan ==
  /\ sweep.kind = "scan" /\ sweep.todo # <<>>
  /\ sweep' = [sweep EXCEPT !.todo = Tail(@), !.found = Found(@, Head(sweep.todo))]
  /\ UNCHANGED <<notes, edited, verdict, noteEdits, sweeps>>
Sort ==
  /\ sweep.kind = "scan" /\ sweep.todo = <<>>
  /\ LET orphans == Pages \ sweep.found IN
     /\ verdict' = [p \in Pages |-> [verdict[p] EXCEPT !.by = IF p \in orphans THEN "orphan" ELSE @]]
     /\ \E order \in SetToSeqs(orphans) :
          sweep' = [sweep EXCEPT !.kind = "orphans", !.todo = IF sweep.dry THEN <<>> ELSE order]
  /\ UNCHANGED <<notes, edited, noteEdits, sweeps>>
NextOrphan ==
  /\ sweep.kind = "orphans" /\ sweep.page = "none" /\ sweep.todo # <<>>
  /\ sweep' = [sweep EXCEPT !.todo = Tail(@), !.page = Head(sweep.todo)]
  /\ UNCHANGED <<notes, edited, verdict, noteEdits, sweeps>>

Archive ==
  /\ sweep # Resting /\ sweep.page # "none"
  /\ notes' = Archived(sweep.page)
  /\ verdict' = [verdict EXCEPT ![sweep.page].failed = sweep.page \in Capital]
  /\ sweep' = [sweep EXCEPT !.page = "none"]
  /\ UNCHANGED <<edited, noteEdits, sweeps>>
End == sweep # Resting /\ sweep.kind # "scan" /\ sweep.todo = <<>> /\ sweep.page = "none" /\ Finish
Kill == sweep # Resting /\ Finish

UInit == /\ notes \in [Pages -> [tier : {"core", "recall"}, low : BOOLEAN, age : Ages, size : {1}, mentions : {{}} \cup {Pages}]]
         /\ sweep = Resting /\ edited = {} /\ verdict = [p \in Pages |-> Unmoved(p)] /\ noteEdits = 0 /\ sweeps = 0
UNext == EditNote \/ Age \/ (\E max \in Limits, dry \in BOOLEAN : Compact(max, dry)) \/ (\E dry \in BOOLEAN : Cleanup(dry))
         \/ Judge \/ Scan \/ Sort \/ NextOrphan \/ Archive \/ End \/ Kill
USpec == UInit /\ [][UNext]_uvars

---------------------------------------------------------------------------
Still(p) == p \notin edited
\* compact makes room with the oldest notes: when one goes for the size of the memory alone, so does
\* every older note of the recall tier, unless somebody edited it meanwhile.
RoomIsMadeByTheOldest ==
  \A p, q \in Pages :
    (/\ verdict[p].by = "size" /\ Still(p) /\ Still(q)
     /\ verdict[q].was.tier = "recall" /\ verdict[q].was.age > verdict[p].was.age) => verdict[q].by # "nothing"
\* A note is archived as an orphan only if no file that was left alone mentions it.
OrphansAreUnmentioned ==
  \A p \in Pages : verdict[p].by = "orphan" => \A q \in Pages : Still(q) => p \notin notes[q].mentions
===============================================================================
