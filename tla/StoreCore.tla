------------------------------ MODULE StoreCore ------------------------------
(***************************************************************************)
(* The append-only JSONL store (src/src/memkraft/store_core.py): append,   *)
(* mark_tombstone, mark_tombstones and compact, run by processes that      *)
(* share nothing but the file system.                                      *)
(*                                                                         *)
(* A store file is a sequence of lines.  A line keeps what its reader can  *)
(* tell apart: a record or a tombstone marker and the id it names, or a    *)
(* corrupt line; and how its last byte was written: "nl" (terminated),     *)
(* "bare" (whole JSON text, newline missing) or "torn" (a strict prefix).  *)
(* flock binds to an inode and not to the path: an inode is an index of    *)
(* files, path is the one the store's name points to (0: no file).         *)
(*                                                                         *)
(* FaultyOps names the operations whose os.write may take fewer bytes than *)
(* it was given (a full disk).  A process may be killed before any step.   *)
(***************************************************************************)
EXTENDS Integers, Sequences, FiniteSets, SequencesExt, Subsequences

CONSTANTS
  Proc,        \* processes that share the store
  Id,          \* record ids
  MaxInode,    \* bound: files ever created (one per store or compaction)
  MaxLines,    \* bound: no tombstone call starts on a file this long
  FaultyOps    \* operations whose os.write may be short

ASSUME StoreAssumption ==
  /\ MaxInode \in Nat \ {0}
  /\ MaxLines \in Nat
  /\ FaultyOps \subseteq {"append", "batch", "compact"}

VARIABLES
  files,       \* files[n]: the lines of inode n
  inodes,      \* how many files there ever were: inodes 1 .. inodes
  path,        \* inode the store's name points to, 0 when there is none
  tmp,         \* <store>.compact.tmp: NoTmp or its lines
  lock,        \* the flocks held: pairs <<inode, process>>
  proc,        \* what each process is doing
  buf,         \* the lines its compact decided to keep
  minted,      \* history: ids handed to append
  acked,       \* history: ids whose append returned
  doomed,      \* history: ids a tombstone call found and named
  gone,        \* history: ids whose tombstone call returned
  tears        \* history: append calls that left a part of their line behind

vars == <<files, inodes, path, tmp, lock, proc, buf, minted, acked, doomed, gone, tears>>
history == <<minted, acked, doomed, gone, tears>>

NoTmp  == [lines |-> <<>>, there |-> FALSE]
Tmp(s) == [lines |-> s, there |-> TRUE]

Kind == {"rec", "mark", "corrupt"}
Ending == {"torn", "bare", "nl"}
Line == [kind : Kind, id : Id, tail : Ending]

Rec(i)  == [kind |-> "rec",  id |-> i, tail |-> "nl"]
Mark(i) == [kind |-> "mark", id |-> i, tail |-> "nl"]

ProcState ==
  [pc    : {"idle", "open", "unlink", "flock", "stat", "held", "rewrite", "swap"},
   op    : {"none", "append", "mark", "batch", "compact", "swapped"},
   ids   : SUBSET Id,
   fd    : Nat,
   wrote : Ending \union {"none"}]

Idle == [pc |-> "idle", op |-> "none", ids |-> {}, fd |-> 0, wrote |-> "none"]

-----------------------------------------------------------------------------
(* Reading *)

(* _parse_record_line: the line is one JSON object, its newline or not. *)
Parses(l) == l.kind # "corrupt" /\ l.tail # "torn"

Present(f)    == {f[n].id : n \in {m \in DOMAIN f : Parses(f[m]) /\ f[m].kind = "rec"}}
Tombstoned(f) == {f[n].id : n \in {m \in DOMAIN f : Parses(f[m]) /\ f[m].kind = "mark"}}

IsLive(f, l) == Parses(l) /\ l.kind = "rec" /\ l.id \notin Tombstoned(f)
LiveAt(f) == {n \in DOMAIN f : IsLive(f, f[n])}

(* read_all on the file at the path, tombstoned records hidden.  Readers   *)
(* take no lock.                                                           *)
Content == IF path = 0 THEN <<>> ELSE files[path]
IdsOf(f) == [n \in DOMAIN f |-> f[n].id]
Visible == Picked(IdsOf(Content), LiveAt(Content))

(* An unterminated last line is completed. *)
Terminated(f) == [n \in DOMAIN f |-> [f[n] EXCEPT !.tail = "nl"]]

(* Mutant: compact drops the markers and keeps what they hide. *)
Kept_DropsMarkersOnly(f) ==
  Picked(Terminated(f), {n \in DOMAIN f : Parses(f[n]) /\ f[n].kind = "rec"})

(* Mutant: compact rewrites the live lines last first. *)
Kept_Reversed(f) == Reverse(Picked(Terminated(f), LiveAt(f)))

(* The lines compact keeps. *)
Kept(f) == Picked(Terminated(f), LiveAt(f))

-----------------------------------------------------------------------------
(* Writing: what O_APPEND does to the last line of the file. *)

Unterminated(f) == f # <<>> /\ Last(f).tail # "nl"

(* The first bytes of a line.  After an unterminated line they run into    *)
(* it, and the two together parse as neither.                              *)
BeginLine(f, l, tail) ==
  IF Unterminated(f)
  THEN [f EXCEPT ![Len(f)] = [kind |-> "corrupt", id |-> Last(f).id,
                              tail |-> IF tail = "nl" THEN "nl" ELSE "torn"]]
  ELSE Append(f, [l EXCEPT !.tail = tail])

(* The following bytes of the same line. *)
ContinueLine(f, tail) ==
  [f EXCEPT ![Len(f)].tail =
     IF f[Len(f)].kind = "corrupt" /\ tail # "nl" THEN "torn" ELSE tail]

Put(f, l, wrote, tail) ==
  IF wrote = "none" THEN BeginLine(f, l, tail) ELSE ContinueLine(f, tail)

(* Several lines handed to one os.write. *)
PutAll(f, s) == IF s = <<>> THEN f ELSE BeginLine(f, s[1], s[1].tail) \o Tail(s)

(* What one os.write may take of s: all of it, or for a faulty operation   *)
(* some whole lines and perhaps a part of the next one.                    *)
Taken(s, op) ==
  {s} \union
  (IF op \in FaultyOps
   THEN {SubSeq(s, 1, n) : n \in 0 .. Len(s) - 1} \union
        {Append(SubSeq(s, 1, n - 1), [s[n] EXCEPT !.tail = t]) :
           n \in DOMAIN s, t \in {"torn", "bare"}}
   ELSE {})

-----------------------------------------------------------------------------
Init ==
  /\ files = [n \in 1 .. MaxInode |-> <<>>]
  /\ inodes = 0 /\ path = 0
  /\ tmp = NoTmp
  /\ lock = {}
  /\ proc = [p \in Proc |-> Idle]
  /\ buf = [p \in Proc |-> <<>>]
  /\ minted = {} /\ acked = {} /\ doomed = {} /\ gone = {} /\ tears = 0

Start(p, op, ids) ==
  /\ proc[p].pc = "idle"
  /\ proc' = [proc EXCEPT ![p] = [pc |-> "open", op |-> op, ids |-> ids,
                                   fd |-> 0, wrote |-> "none"]]
  /\ UNCHANGED <<buf, files, inodes, path, tmp, lock, acked, gone, tears>>

(* append: the record gets a fresh id. *)
StartAppend(p, i) ==
  /\ i \notin minted
  /\ Start(p, "append", {i})
  /\ minted' = minted \union {i}
  /\ UNCHANGED doomed

(* mark_tombstone: the target is looked up without the lock, its absence   *)
(* raises, and the marker goes through append.                             *)
StartTombstone(p, i) ==
  /\ Len(Content) < MaxLines
  /\ i \in Present(Content)
  /\ Start(p, "mark", {i})
  /\ doomed' = doomed \union {i}
  /\ UNCHANGED minted

(* mark_tombstones *)
StartBatch(p, S) ==
  /\ Len(Content) < MaxLines
  /\ S # {} /\ S \subseteq minted
  /\ Start(p, "batch", S)
  /\ UNCHANGED <<minted, doomed>>

(* compact.  MaxInode leaves room for the file of every started one. *)
StartCompact(p) ==
  /\ LET started == {q \in Proc : proc[q].op = "compact"}
         first   == IF path = 0 THEN 1 ELSE 0
     IN  inodes + first + Cardinality(started) < MaxInode
  /\ Start(p, "compact", {})
  /\ UNCHANGED <<minted, doomed>>

(* Mutant: append opens without O_CREAT and goes on when there is no file. *)
OpenStore_NoCreate(p) ==
  /\ proc[p].pc = "open"
  /\ proc' = [proc EXCEPT ![p] = [@ EXCEPT !.pc = "flock", !.fd = path]]
  /\ UNCHANGED <<buf, files, inodes, path, tmp, lock, history>>

(* os.open: append and mark_tombstones create the file, compact does not. *)
OpenStore(p) ==
  /\ proc[p].pc = "open"
  /\ proc[p].op # "compact" \/ path # 0
  /\ IF path = 0
     THEN inodes' = inodes + 1 /\ path' = inodes'
     ELSE UNCHANGED <<inodes, path>>
  /\ proc' = [proc EXCEPT ![p] = [@ EXCEPT !.pc = "flock", !.fd = path']]
  /\ UNCHANGED <<buf, files, tmp, lock, history>>

(* compact without a file: a stale temp is unlinked, with no lock held. *)
OpenMissing(p) ==
  /\ proc[p].pc = "open" /\ proc[p].op = "compact" /\ path = 0
  /\ proc' = [proc EXCEPT ![p].pc = "unlink"]
  /\ UNCHANGED <<buf, files, inodes, path, tmp, lock, history>>

UnlinkTmp(p) ==
  /\ proc[p].pc = "unlink"
  /\ tmp' = NoTmp
  /\ proc' = [proc EXCEPT ![p] = Idle]
  /\ UNCHANGED <<buf, files, inodes, path, lock, history>>

(* Mutant: a lock every process gets. *)
Flock_Shared(p) ==
  /\ proc[p].pc = "flock"
  /\ lock' = lock \union {<<proc[p].fd, p>>}
  /\ proc' = [proc EXCEPT ![p].pc = "stat"]
  /\ UNCHANGED <<buf, files, inodes, path, tmp, history>>

Flock(p) ==
  /\ proc[p].pc = "flock"
  /\ \A q \in Proc : <<proc[p].fd, q>> \notin lock
  /\ lock' = lock \union {<<proc[p].fd, p>>}
  /\ proc' = [proc EXCEPT ![p].pc = "stat"]
  /\ UNCHANGED <<buf, files, inodes, path, tmp, history>>

Unlocked(p) == lock \ {<<proc[p].fd, p>>}

(* Mutant: the path is not re-stated once the lock is there. *)
CompareInode_Trusts(p) ==
  /\ proc[p].pc = "stat"
  /\ proc' = [proc EXCEPT ![p].pc = "held"]
  /\ UNCHANGED <<buf, files, inodes, path, tmp, lock, history>>

(* The lock is worth something only on the inode the path names now;       *)
(* otherwise release and start over.                                       *)
CompareInode(p) ==
  /\ proc[p].pc = "stat"
  /\ IF proc[p].fd = path
     THEN proc' = [proc EXCEPT ![p].pc = "held"] /\ UNCHANGED lock
     ELSE /\ proc' = [proc EXCEPT ![p] = [@ EXCEPT !.pc = "open", !.fd = 0]]
          /\ lock' = Unlocked(p)
  /\ UNCHANGED <<buf, files, inodes, path, tmp, history>>

(* The line an append writes: its record, or the marker of mark_tombstone. *)
LineOf(p) == LET i == CHOOSE i \in proc[p].ids : TRUE
             IN  IF proc[p].op = "append" THEN Rec(i) ELSE Mark(i)

(* How far one os.write can take a line of which `wrote' is in the file. *)
Progress(wrote) ==
  IF "append" \notin FaultyOps THEN {"nl"}
  ELSE CASE wrote = "none" -> {"torn", "bare", "nl"}
         [] wrote = "torn" -> {"bare", "nl"}
         [] OTHER          -> {"nl"}

(* One turn of append's write loop. *)
WriteLine(p) ==
  /\ proc[p].pc = "held" /\ proc[p].op \in {"append", "mark"} /\ proc[p].wrote # "nl"
  /\ \E tail \in Progress(proc[p].wrote) :
       /\ files' = [files EXCEPT ![proc[p].fd] = Put(@, LineOf(p), proc[p].wrote, tail)]
       /\ proc' = [proc EXCEPT ![p].wrote = tail]
  /\ UNCHANGED <<buf, inodes, path, tmp, lock, history>>

Tears(p) == IF proc[p].wrote \in {"torn", "bare"} THEN 1 ELSE 0

(* os.write raises in the loop: the lock is released and what was written  *)
(* stays.                                                                  *)
WriteRaises(p) ==
  /\ "append" \in FaultyOps
  /\ proc[p].pc = "held" /\ proc[p].op \in {"append", "mark"} /\ proc[p].wrote # "nl"
  /\ tears' = tears + Tears(p)
  /\ lock' = Unlocked(p)
  /\ proc' = [proc EXCEPT ![p] = Idle]
  /\ UNCHANGED <<buf, files, inodes, path, tmp, minted, acked, doomed, gone>>

(* mark_tombstones under its lock: every target is present or nothing is   *)
(* written, and one os.write takes all the markers (its count is ignored). *)
WriteBatch(p) ==
  /\ proc[p].pc = "held" /\ proc[p].op = "batch" /\ proc[p].wrote = "none"
  /\ proc[p].ids \subseteq Present(files[proc[p].fd])
  /\ LET markers == SetToSeq(proc[p].ids)
     IN  \E s \in Taken([n \in DOMAIN markers |-> Mark(markers[n])], "batch") :
           files' = [files EXCEPT ![proc[p].fd] = PutAll(@, s)]
  /\ proc' = [proc EXCEPT ![p].wrote = "nl"]
  /\ doomed' = doomed \union proc[p].ids
  /\ UNCHANGED <<buf, inodes, path, tmp, lock, minted, acked, gone, tears>>

(* Mutant: RecordNotFoundError leaves without the finally clause. *)
BatchNotFound_KeepsLock(p) ==
  /\ proc[p].pc = "held" /\ proc[p].op = "batch" /\ proc[p].wrote = "none"
  /\ ~(proc[p].ids \subseteq Present(files[proc[p].fd]))
  /\ proc' = [proc EXCEPT ![p] = Idle]
  /\ UNCHANGED <<buf, files, inodes, path, tmp, lock, history>>

BatchNotFound(p) ==
  /\ proc[p].pc = "held" /\ proc[p].op = "batch" /\ proc[p].wrote = "none"
  /\ ~(proc[p].ids \subseteq Present(files[proc[p].fd]))
  /\ lock' = Unlocked(p)
  /\ proc' = [proc EXCEPT ![p] = Idle]
  /\ UNCHANGED <<buf, files, inodes, path, tmp, history>>

CompactRead(p) ==
  /\ proc[p].pc = "held" /\ proc[p].op = "compact"
  /\ proc' = [proc EXCEPT ![p].pc = "rewrite"]
  /\ buf' = [buf EXCEPT ![p] = Kept(files[proc[p].fd])]
  /\ UNCHANGED <<files, inodes, path, tmp, lock, history>>

(* The temp is truncated and one os.write takes the kept lines (its count  *)
(* is ignored).                                                            *)
CompactWriteTmp(p) ==
  /\ proc[p].pc = "rewrite"
  /\ \E s \in Taken(buf[p], "compact") : tmp' = Tmp(s)
  /\ buf' = [buf EXCEPT ![p] = <<>>]
  /\ proc' = [proc EXCEPT ![p].pc = "swap"]
  /\ UNCHANGED <<files, inodes, path, lock, history>>

(* os.replace; it raises when a compact that found no file unlinked the    *)
(* temp meanwhile.                                                         *)
CompactReplace(p) ==
  /\ proc[p].pc = "swap"
  /\ IF tmp.there
     THEN /\ inodes' = inodes + 1 /\ path' = inodes'
          /\ files' = [files EXCEPT ![path'] = tmp.lines]
          /\ tmp' = NoTmp
     ELSE UNCHANGED <<files, inodes, path, tmp>>
  /\ proc' = [proc EXCEPT ![p] = [@ EXCEPT !.pc = "held", !.op = "swapped"]]
  /\ UNCHANGED <<buf, lock, history>>

(* Mutant: append takes a short count for success. *)
Return_AfterShortWrite(p) ==
  /\ proc[p].pc = "held"
  /\ proc[p].wrote # "none" \/ proc[p].op = "swapped"
  /\ lock' = Unlocked(p)
  /\ acked' = IF proc[p].op = "append" THEN acked \union proc[p].ids ELSE acked
  /\ gone' = IF proc[p].op \in {"mark", "batch"} THEN gone \union proc[p].ids ELSE gone
  /\ proc' = [proc EXCEPT ![p] = Idle]
  /\ UNCHANGED <<buf, files, inodes, path, tmp, minted, doomed, tears>>

(* Unlock, close and return. *)
Return(p) ==
  /\ proc[p].pc = "held"
  /\ proc[p].wrote = "nl" \/ proc[p].op = "swapped"
  /\ lock' = Unlocked(p)
  /\ acked' = IF proc[p].op = "append" THEN acked \union proc[p].ids ELSE acked
  /\ gone' = IF proc[p].op \in {"mark", "batch"} THEN gone \union proc[p].ids ELSE gone
  /\ proc' = [proc EXCEPT ![p] = Idle]
  /\ UNCHANGED <<buf, files, inodes, path, tmp, minted, doomed, tears>>

(* The process is killed; the kernel drops its lock. *)
Crash(p) ==
  /\ proc[p].pc # "idle"
  /\ lock' = {l \in lock : l[2] # p}
  /\ tears' = tears + Tears(p)
  /\ proc' = [proc EXCEPT ![p] = Idle]
  /\ buf' = [buf EXCEPT ![p] = <<>>]
  /\ UNCHANGED <<files, inodes, path, tmp, minted, acked, doomed, gone>>

Step(p) ==
  \/ OpenStore(p) \/ OpenMissing(p) \/ UnlinkTmp(p)
  \/ Flock(p) \/ CompareInode(p)
  \/ WriteLine(p) \/ WriteBatch(p) \/ BatchNotFound(p)
  \/ CompactRead(p) \/ CompactWriteTmp(p) \/ CompactReplace(p)
  \/ Return(p)

Request(p) ==
  \/ \E i \in Id : StartAppend(p, i) \/ StartTombstone(p, i)
  \/ \E S \in SUBSET Id : StartBatch(p, S)
  \/ StartCompact(p)

Next == \E p \in Proc : Request(p) \/ Step(p) \/ WriteRaises(p) \/ Crash(p)

Spec == Init /\ [][Next]_vars


(* The scheduler runs every process; a blocking flock that is free again   *)
(* and again is granted (the kernel queues its waiters).  Nothing makes a  *)
(* caller call or a process crash.                                         *)
FairSpec ==
  /\ Spec
  /\ \A p \in Proc : WF_vars(Step(p)) /\ SF_vars(Flock(p))

-----------------------------------------------------------------------------
(* Properties *)

TypeOK ==
  /\ files \in [1 .. MaxInode -> Seq(Line)]
  /\ inodes \in 0 .. MaxInode /\ path \in 0 .. inodes
  /\ tmp.there \in BOOLEAN /\ tmp.lines \in Seq(Line)
  /\ lock \subseteq (1 .. inodes) \X Proc
  /\ proc \in [Proc -> ProcState]
  /\ buf \in [Proc -> Seq(Line)]
  /\ minted \subseteq Id /\ acked \subseteq minted
  /\ doomed \subseteq minted /\ gone \subseteq doomed
  /\ tears \in Nat

(* A process past the inode comparison holds the lock of the inode the     *)
(* path names, until its own os.replace: what it writes is what readers    *)
(* will read (the reason _lock_current_inode re-stats the path).           *)
Writing(p) == proc[p].pc \in {"held", "rewrite", "swap"} /\ proc[p].op # "swapped"
WritersOwnThePath ==
  \A p \in Proc : Writing(p) => proc[p].fd = path /\ <<path, p>> \in lock

(* A record whose append returned is in every later default read, through  *)
(* concurrent appends, compactions and crashes, unless it was tombstoned.  *)
Shows(i) == \E n \in DOMAIN Content : IsLive(Content, Content[n]) /\ Content[n].id = i
AckedStaysVisible == \A i \in acked \ doomed : Shows(i)

(* A record whose tombstone call returned is in no later read: a           *)
(* concurrent compact never separates a record from its marker.            *)
GoneStaysHidden == \A i \in gone : ~Shows(i)

(* The store implements its abstract specification: readers see records    *)
(* appear at the end and disappear by tombstones only, and a compaction    *)
(* (any step of it, a crash in it) is invisible to them.                   *)
Promise == INSTANCE RecordStore WITH records <- Visible, doomed <- doomed
ImplementsRecordStore == Promise!Spec

(* Every call that starts ends: no caller waits on the others for ever.    *)
CallsEnd == \A p \in Proc : proc[p].pc # "idle" ~> proc[p].pc = "idle"

(* A torn line costs at most one acknowledged record: the next one, whose  *)
(* line it runs into.                                                      *)
LossBoundedByTears ==
  Cardinality({i \in acked \ doomed : ~Shows(i)}) <= tears

(* compact's docstring: "Live lines keep their original bytes and order".  *)
CompactKeepsLiveLines ==
  [][\A p \in Proc : CompactReplace(p) => Visible' = Visible]_vars

(* Readers and writers agree on what the store holds: a record whose append was acknowledged is read by
   every later reader until it is tombstoned, and one whose tombstone was acknowledged is read by none,
   whatever is compacted, killed or left behind in between (append, mark_tombstone, compact). *)
StoreKeepsItsPromises == TypeOK /\ AckedStaysVisible /\ GoneStaysHidden
=============================================================================
