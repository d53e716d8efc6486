------------------------------ MODULE Registers ------------------------------
(***************************************************************************)
(* Channel contexts, the task register and agents' working memories        *)
(* (core.py): one JSON file each.  Every call loads files, changes what it *)
(* loaded and dumps it back in place: no lock, and a file that was being   *)
(* written loads as {}.  agent_handoff writes a task and a memory, and     *)
(* task_cleanup moves the file it judged, whatever it says by then.        *)
(***************************************************************************)
EXTENDS Naturals, FiniteSets, Sequences, SequencesExt

CONSTANTS
  Callers, Tasks, Agents, Channels,
  MaxCalls,     \* bound on calls
  Absent, Torn, \* no file; a file opened for writing and not yet written
  NoCall

VARIABLES
  json,         \* the files
  archive,      \* tasks/archive: the records moved there
  call,         \* per caller: the files it still has to change, what it loaded
  calls,        \* calls begun
  disturbed,    \* history: files with two calls at once or a killed one
  entered       \* history: entries the calls that returned made, by file

gvars == <<json, archive, call, calls, disturbed, entered>>

Files == Tasks \union Agents \union Channels

\* A record of any of the three kinds.  A channel's list and an agent's
\* handoff_from are entries as well, and keys are what the other fields hold.
Empty == [status |-> "none", agent |-> "", entries |-> <<>>, keys |-> {}]
Load(f) == IF json[f] \in {Absent, Torn} THEN Empty ELSE json[f]
Found(f) == Load(f) # Empty

Entered(rec, e) == [rec EXCEPT !.entries = Append(@, e)]
NewTask(e) == Entered([Empty EXCEPT !.status = "active"], e)
Delegated(rec, to, e) == Entered([rec EXCEPT !.agent = to], e)
Updated(rec, status, e) == Entered([rec EXCEPT !.status = status], e)
\* channel_save and agent_save merge into what they load a second time.
Merged_Replaces(rec, data) == data
Merged(rec, data) ==
  [data EXCEPT !.keys = @ \union rec.keys,
               !.entries = IF @ = <<>> THEN rec.entries ELSE @]

-----------------------------------------------------------------------------
(* A call is a sequence of changes of files.  A change loads its file, then  *)
(* saves it; a "merge" change loads, computes, and merges into a second load.*)

GInit ==
  /\ json = [f \in Files |-> Absent] /\ archive = {} /\ calls = 0
  /\ call = [c \in Callers |-> NoCall] /\ disturbed = {} /\ entered = [f \in Files |-> [ids |-> {}, keys |-> {}]]

Touches(c, f) == call[c] # NoCall /\ \E i \in DOMAIN call[c].todo : call[c].todo[i].file = f
Begin(c, todo) ==
  /\ call[c] = NoCall /\ calls < MaxCalls
  /\ call' = [call EXCEPT ![c] = [todo |-> todo, held |-> Empty, at |-> "load"]]
  /\ calls' = calls + 1
  /\ disturbed' = disturbed \union
       {f \in Files : (\E i \in DOMAIN todo : todo[i].file = f) /\ \E d \in Callers : Touches(d, f)}
  /\ UNCHANGED <<json, archive, entered>>

Change(f, do, arg) == [file |-> f, do |-> do, arg |-> arg, id |-> calls + 1]
TaskStart(c, t) == Begin(c, <<Change(t, "start", "")>>)
TaskUpdate(c, t, status) == Found(t) /\ Begin(c, <<Change(t, "update", status)>>)
TaskDelegate(c, t, a) == Found(t) /\ Begin(c, <<Change(t, "delegate", a)>>)
ChannelSave(c, ch, key) == Begin(c, <<Change(ch, "save", key)>>)
ChannelAppend(c, ch) == Begin(c, <<Change(ch, "append", "")>>)
AgentSave(c, a, key) == Begin(c, <<Change(a, "save", key)>>)
\* The delegation of a task nobody finds is skipped.
AgentHandoff(c, t, to) ==
  Begin(c, (IF Found(t) THEN <<Change(t, "delegate", to)>> ELSE <<>>)
           \o <<Change(to, "append", "")>>)
TaskCleanup(c, t, keep) ==
  /\ Found(t) /\ json[t].status = "completed"
  /\ Begin(c, <<Change(t, IF keep THEN "archive" ELSE "delete", "")>>)

Step(c) == Head(call[c].todo)
At(c, at) == call[c] # NoCall /\ call[c].todo # <<>> /\ call[c].at = at

Changed(rec, s) ==
  CASE s.do = "start"    -> NewTask(s.id)
    [] s.do = "update"   -> Updated(rec, s.arg, s.id)
    [] s.do = "delegate" -> Delegated(rec, s.arg, s.id)
    [] s.do = "save"     -> [Empty EXCEPT !.status = "data", !.keys = {s.arg}]
    [] s.do = "append"   -> Entered([rec EXCEPT !.status = "data"], s.id)
Merges(s) == s.do \in {"save", "append"}
Moves(s) == s.do \in {"archive", "delete"}
\* A record that is gone when the change loads it is left alone.
Skips(s) == s.do \in {"update", "delegate"} /\ ~Found(s.file)

LoadFile(c) ==
  /\ At(c, "load") /\ ~Moves(Step(c))
  /\ call' = [call EXCEPT ![c] =
       IF Skips(Step(c)) THEN [@ EXCEPT !.todo = Tail(call[c].todo)]
       ELSE [@ EXCEPT !.held = Changed(Load(Step(c).file), Step(c)),
                      !.at = IF Merges(Step(c)) THEN "merge" ELSE "open"]]
  /\ UNCHANGED <<json, archive, calls, disturbed, entered>>
MergeFile(c) ==
  /\ At(c, "merge")
  /\ call' = [call EXCEPT ![c].held = Merged(Load(Step(c).file), @), ![c].at = "open"]
  /\ UNCHANGED <<json, archive, calls, disturbed, entered>>
OpenFile(c) ==
  /\ At(c, "open")
  /\ json' = [json EXCEPT ![Step(c).file] = Torn]
  /\ call' = [call EXCEPT ![c].at = "write"]
  /\ UNCHANGED <<archive, calls, disturbed, entered>>
EnteredBy(e, s) ==
  CASE s.do = "start" -> [ids |-> {s.id}, keys |-> {}]
    [] s.do = "save"  -> [e EXCEPT !.keys = @ \union {s.arg}]
    [] OTHER          -> [e EXCEPT !.ids = @ \union {s.id}]
WriteFile(c) ==
  /\ At(c, "write")
  /\ json' = [json EXCEPT ![Step(c).file] = call[c].held]
  /\ entered' = [entered EXCEPT ![Step(c).file] = EnteredBy(@, Step(c))]
  /\ call' = [call EXCEPT ![c].todo = Tail(@), ![c].held = Empty, ![c].at = "load"]
  /\ UNCHANGED <<archive, calls, disturbed>>
\* The rename, or the unlink, of the path that was loaded.
MoveFile(c) ==
  /\ At(c, "load") /\ Moves(Step(c)) /\ json[Step(c).file] # Absent
  /\ archive' = IF Step(c).do = "archive"
                THEN {r \in archive : r.task # Step(c).file}
                       \union {[task |-> Step(c).file, was |-> Load(Step(c).file).status]}
                ELSE archive
  /\ json' = [json EXCEPT ![Step(c).file] = Absent]
  /\ entered' = [entered EXCEPT ![Step(c).file] = [ids |-> {}, keys |-> {}]]
  /\ call' = [call EXCEPT ![c].todo = Tail(@)]
  /\ UNCHANGED <<calls, disturbed>>
\* A call returns; a rename of a path that is gone raises.
Return(c) ==
  /\ call[c] # NoCall
  /\ call[c].todo # <<>> => (Moves(Step(c)) /\ json[Step(c).file] = Absent)
  /\ call' = [call EXCEPT ![c] = NoCall]
  /\ UNCHANGED <<json, archive, calls, disturbed, entered>>
KillCall(c) ==
  /\ call[c] # NoCall
  /\ disturbed' = disturbed \union {f \in Files : Touches(c, f)}
  /\ call' = [call EXCEPT ![c] = NoCall]
  /\ UNCHANGED <<json, archive, calls, entered>>

GNext ==
  \E c \in Callers :
    \/ \E t \in Tasks :
         \/ TaskStart(c, t)
         \/ \E s \in {"active", "completed"} : TaskUpdate(c, t, s)
         \/ \E a \in Agents : TaskDelegate(c, t, a) \/ AgentHandoff(c, t, a)
         \/ \E keep \in BOOLEAN : TaskCleanup(c, t, keep)
    \/ \E ch \in Channels : ChannelAppend(c, ch) \/ \E k \in {"k", "l"} : ChannelSave(c, ch, k)
    \/ \E a \in Agents : AgentSave(c, a, "k")
    \/ LoadFile(c) \/ MergeFile(c) \/ OpenFile(c) \/ WriteFile(c) \/ MoveFile(c)
    \/ Return(c) \/ KillCall(c)

GSpec == GInit /\ [][GNext]_gvars

-----------------------------------------------------------------------------
(* Properties. *)

Quiet(f) == f \notin disturbed /\ ~\E c \in Callers : Touches(c, f)
TaskList(status) == {t \in Tasks : Found(t) /\ json[t].status = status}

\* A file that no second call and no kill touched holds every entry and key the
\* calls on it made since it was started, and only completed tasks of such files
\* are in the archive.
RegistersKeepTheirEntries ==
  /\ \A f \in Files : Quiet(f) => entered[f] = [ids |-> ToSet(Load(f).entries), keys |-> Load(f).keys]
  /\ \A r \in archive : r.task \in disturbed \/ r.was = "completed"
  /\ \A t \in Tasks : Quiet(t) /\ Found(t) => t \in TaskList("active") \union TaskList("completed")
=============================================================================
