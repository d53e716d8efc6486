--------------------------- MODULE StoreCoreProofs ---------------------------
(***************************************************************************)
(* For any number of processes, ids and inodes:                            *)
(*                                                                         *)
(* - whoever got past the inode comparison of _lock_current_inode is alone *)
(*   in the file the store's name points to, however short writes are;     *)
(* - what an append acknowledged stays visible and what a tombstone hid    *)
(*   stays hidden, and the store implements RecordStore, when no write is  *)
(*   short;                                                                *)
(* - a short append costs at most one acknowledged record per line it      *)
(*   left unfinished.                                                      *)
(*                                                                         *)
(* The second and the third rest on one inductive invariant, Base, whose   *)
(* steps are grouped by what other calls can see of them.                  *)
(***************************************************************************)
EXTENDS StoreCore, SubsequenceProofs, FiniteSetTheorems

Holding(p) == proc[p].pc \in {"stat", "held", "rewrite", "swap"}
Opened(p)  == proc[p].pc = "flock" \/ Holding(p)

(* The part of the type invariant the argument needs. *)
LockTyped ==
  /\ inodes \in Nat
  /\ path \in 0 .. inodes
  /\ proc \in [Proc -> ProcState]
  /\ lock \subseteq Nat \X Proc

(* A flock is held on the file descriptor's inode, from flock to unlock,   *)
(* by one process.                                                         *)
FlockHeld ==
  \A p \in Proc :
    /\ Opened(p) => proc[p].fd \in 1 .. inodes
    /\ Holding(p) => <<proc[p].fd, p>> \in lock
    /\ \A n \in Nat : <<n, p>> \in lock => Holding(p) /\ n = proc[p].fd

FlockExclusive ==
  \A n \in Nat : \A p, q \in Proc :
    <<n, p>> \in lock /\ <<n, q>> \in lock => p = q

OnThePath == \A p \in Proc : Writing(p) => proc[p].fd = path

Compacting == \A p \in Proc : proc[p].pc \in {"rewrite", "swap"} => proc[p].op = "compact"

LockInv == LockTyped /\ FlockHeld /\ FlockExclusive /\ OnThePath /\ Compacting

(* The invariant says what the run checks as WritersOwnThePath. *)
LEMMA LockInvImplies == LockInv => WritersOwnThePath
BY DEF LockInv, FlockHeld, OnThePath, WritersOwnThePath, Holding, Writing

(* Nobody holds anything in the beginning. *)
LEMMA InitLockInv == Init => LockInv
BY DEF Init, LockInv, LockTyped, FlockHeld, FlockExclusive, OnThePath, Compacting, Opened, Holding,
       Writing, ProcState, Idle, Ending

(* A call that starts holds nothing. *)
LEMMA RequestKeepsLockInv ==
  ASSUME LockInv, NEW p \in Proc, Request(p) PROVE LockInv'
<1>1. PICK op \in {"append", "mark", "batch", "compact"}, ids \in SUBSET Id : Start(p, op, ids)
  BY DEF Request, StartAppend, StartTombstone, StartBatch, StartCompact
<1>2. LockTyped'
  BY <1>1 DEF LockInv, LockTyped, Start, ProcState, Ending
<1>3. /\ proc[p].pc = "idle" /\ proc'[p].pc = "open"
      /\ \A q \in Proc \ {p} : proc'[q] = proc[q]
      /\ lock' = lock /\ path' = path /\ inodes' = inodes
  BY <1>1 DEF LockInv, LockTyped, Start
<1>4. FlockHeld'
  BY <1>3 DEF LockInv, FlockHeld, Opened, Holding
<1>5. FlockExclusive' /\ OnThePath' /\ Compacting'
  BY <1>3 DEF LockInv, FlockExclusive, OnThePath, Compacting, Writing
<1>6. QED
  BY <1>2, <1>4, <1>5 DEF LockInv

(* A process that leaves, whatever it was doing, gives up its flock only.  *)
LEMMA LeaveKeepsLockInv ==
  ASSUME LockInv, NEW p \in Proc,
         inodes' = inodes, path' = path,
         proc' = [proc EXCEPT ![p] = Idle],
         lock' = Unlocked(p) \/ lock' = {l \in lock : l[2] # p}
  PROVE LockInv'
<1>1. \A n \in Nat, q \in Proc : <<n, q>> \in lock' <=> <<n, q>> \in lock /\ q # p
  <2> SUFFICES ASSUME NEW n \in Nat, NEW q \in Proc
               PROVE  <<n, q>> \in lock' <=> <<n, q>> \in lock /\ q # p
    OBVIOUS
  <2>1. <<n, q>> \in lock /\ q = p => n = proc[p].fd
    BY DEF LockInv, FlockHeld
  <2>2. CASE lock' = Unlocked(p)
    BY <2>1, <2>2 DEF Unlocked
  <2>3. CASE lock' = {l \in lock : l[2] # p}
    BY <2>3
  <2>4. QED BY <2>2, <2>3
<1>2. LockTyped'
  BY DEF LockInv, LockTyped, Unlocked, ProcState, Idle, Ending
<1>3. proc'[p] = Idle /\ \A q \in Proc \ {p} : proc'[q] = proc[q]
  BY DEF LockInv, LockTyped
<1>4. FlockHeld' /\ FlockExclusive' /\ OnThePath'
  BY <1>1, <1>2, <1>3 DEF LockInv, LockTyped, FlockHeld, FlockExclusive, OnThePath, Compacting, Opened,
     Holding, Writing, Idle
<1>5. Compacting'
  BY <1>3 DEF LockInv, Compacting, Idle
<1>6. QED BY <1>2, <1>4, <1>5 DEF LockInv

(* One step of a call: who has the store's flock, and on which inode. *)
LEMMA StepKeepsLockInv ==
  ASSUME LockInv, NEW p \in Proc, Step(p) PROVE LockInv'
<1> USE DEF LockInv, LockTyped
<1>1. CASE OpenStore(p)
  <2>1. \A q \in Proc : Writing(q) => path # 0
    <3> SUFFICES ASSUME NEW q \in Proc, Writing(q) PROVE path # 0
      OBVIOUS
    <3>1. Holding(q)
      BY DEF Holding, Writing
    <3>2. proc[q].fd \in 1 .. inodes
      BY <3>1 DEF Opened, FlockHeld
    <3>3. proc[q].fd = path
      BY DEF OnThePath
    <3>4. QED
      BY <3>2, <3>3
  <2>2. path' \in 1 .. inodes' /\ inodes' \in Nat /\ inodes <= inodes' /\ (path # 0 => path' = path)
    BY <1>1 DEF OpenStore
  <2>3. proc' \in [Proc -> ProcState]
    <3>1. [proc[p] EXCEPT !.pc = "flock", !.fd = path'] \in ProcState
      <4>1. proc[p] \in ProcState /\ path' \in Nat BY <2>2
      <4>2. QED BY <4>1 DEF ProcState
    <3>2. QED BY <1>1, <3>1 DEF OpenStore
  <2>4. /\ proc[p].pc = "open" /\ proc'[p].pc = "flock" /\ proc'[p].fd = path'
        /\ \A q \in Proc \ {p} : proc'[q] = proc[q]
        /\ lock' = lock
    BY <1>1 DEF OpenStore, ProcState
  <2>5. FlockHeld'
    <3> SUFFICES ASSUME NEW q \in Proc
                 PROVE  /\ Opened(q)' => proc'[q].fd \in 1 .. inodes'
                        /\ Holding(q)' => <<proc'[q].fd, q>> \in lock'
                        /\ \A n \in Nat : <<n, q>> \in lock' => Holding(q)' /\ n = proc'[q].fd
      BY DEF FlockHeld
    <3>1. CASE q = p
      BY <3>1, <2>2, <2>4 DEF FlockHeld, Opened, Holding
    <3>2. CASE q # p
      BY <3>2, <2>2, <2>4 DEF FlockHeld, Opened, Holding
    <3>3. QED BY <3>1, <3>2
  <2>6. OnThePath'
    BY <2>1, <2>2, <2>4 DEF OnThePath, Writing
  <2>7. QED
    BY <2>2, <2>3, <2>4, <2>5, <2>6 DEF FlockExclusive, Compacting
<1>2. CASE OpenMissing(p)
  BY <1>2 DEF OpenMissing, FlockHeld, FlockExclusive, OnThePath, Compacting, Opened, Holding, Writing, ProcState
<1>3. CASE UnlinkTmp(p)
  BY <1>3 DEF UnlinkTmp, FlockHeld, FlockExclusive, OnThePath, Compacting, Opened, Holding, Writing, ProcState,
     Idle, Ending
<1>4. CASE Flock(p)
  BY <1>4 DEF Flock, FlockHeld, FlockExclusive, OnThePath, Compacting, Opened, Holding, Writing, ProcState
<1>5. CASE CompareInode(p)
  <2>1. CASE proc[p].fd = path
    <3>1. /\ proc[p].pc = "stat" /\ proc' = [proc EXCEPT ![p].pc = "held"]
          /\ lock' = lock /\ path' = path /\ inodes' = inodes
      BY <1>5, <2>1 DEF CompareInode
    <3>2. QED
      BY <2>1, <3>1 DEF FlockHeld, FlockExclusive, OnThePath, Compacting, Opened, Holding,
         Writing, ProcState
  <2>2. CASE proc[p].fd # path
    <3>1. /\ proc[p].pc = "stat" /\ proc' = [proc EXCEPT ![p] = [@ EXCEPT !.pc = "open", !.fd = 0]]
          /\ lock' = lock \ {<<proc[p].fd, p>>} /\ path' = path /\ inodes' = inodes
      BY <1>5, <2>2 DEF CompareInode, Unlocked
    <3>2. [proc[p] EXCEPT !.pc = "open", !.fd = 0] \in ProcState
      BY DEF ProcState
    <3>3. LockTyped'
      BY <3>1, <3>2
    <3>4. /\ proc'[p].pc = "open"
          /\ \A q \in Proc \ {p} : proc'[q] = proc[q]
      BY <3>1 DEF ProcState
    <3>5. \A n \in Nat : <<n, p>> \notin lock'
      BY <3>1 DEF FlockHeld
    <3>6. FlockHeld'
      BY <3>1, <3>4, <3>5 DEF FlockHeld, Opened, Holding
    <3>7. QED
      BY <3>1, <3>3, <3>4, <3>6 DEF FlockExclusive, OnThePath, Compacting, Writing
  <2>3. QED BY <2>1, <2>2
<1>6. CASE WriteLine(p)
  BY <1>6 DEF WriteLine, Progress, FlockHeld, FlockExclusive, OnThePath, Compacting, Opened, Holding,
     Writing, ProcState, Ending
<1>7. CASE WriteBatch(p)
  BY <1>7 DEF WriteBatch, FlockHeld, FlockExclusive, OnThePath, Compacting, Opened, Holding,
     Writing, ProcState, Ending
<1>8. CASE BatchNotFound(p)
  BY <1>8, LeaveKeepsLockInv DEF BatchNotFound
<1>9. CASE CompactRead(p)
  BY <1>9 DEF CompactRead, FlockHeld, FlockExclusive, OnThePath, Compacting, Opened, Holding, Writing, ProcState
<1>10. CASE CompactWriteTmp(p)
  <2>1. /\ proc[p].pc = "rewrite" /\ proc' = [proc EXCEPT ![p].pc = "swap"]
        /\ lock' = lock /\ path' = path /\ inodes' = inodes
    BY <1>10 DEF CompactWriteTmp
  <2>2. QED
    BY <2>1 DEF FlockHeld, FlockExclusive, OnThePath, Compacting, Opened, Holding, Writing, ProcState
<1>11. CASE CompactReplace(p)
  <2>1. proc[p].pc = "swap" /\ Holding(p)
    BY <1>11 DEF CompactReplace, Holding
  <2>2. \A q \in Proc \ {p} : Writing(q) => ~Writing(p)
    <3> SUFFICES ASSUME NEW q \in Proc \ {p}, Writing(q), Writing(p) PROVE FALSE
      OBVIOUS
    <3>1. <<path, q>> \in lock /\ <<path, p>> \in lock
      BY DEF FlockHeld, OnThePath, Holding, Writing
    <3>2. QED
      BY <3>1 DEF FlockExclusive
  <2>3. Writing(p)
    BY <2>1 DEF Compacting, Writing
  <2>4. path' \in 0 .. inodes' /\ inodes' \in Nat /\ inodes <= inodes'
    BY <1>11 DEF CompactReplace
  <2>5. proc' \in [Proc -> ProcState]
    BY <1>11, ZenonT(30) DEF CompactReplace, ProcState
  <2>6. /\ proc'[p].pc = "held" /\ proc'[p].op = "swapped" /\ proc'[p].fd = proc[p].fd
        /\ \A q \in Proc \ {p} : proc'[q] = proc[q]
        /\ lock' = lock
    BY <1>11 DEF CompactReplace, ProcState
  <2>7. FlockHeld'
    BY <2>1, <2>4, <2>6 DEF FlockHeld, Opened, Holding
  <2>8. OnThePath'
    BY <2>2, <2>3, <2>6 DEF OnThePath, Writing
  <2>9. QED
    BY <2>4, <2>5, <2>6, <2>7, <2>8 DEF FlockExclusive, Compacting
<1>12. CASE Return(p)
  BY <1>12, LeaveKeepsLockInv DEF Return
<1>13. QED
  BY <1>1, <1>2, <1>3, <1>4, <1>5, <1>6, <1>7, <1>8, <1>9, <1>10, <1>11, <1>12 DEF Step

(* Whoever passed the inode comparison holds the flock of the file at the  *)
(* path and writes there: no acknowledged write goes to a replaced inode,  *)
(* and no two processes write the store at once.                           *)
THEOREM WritersOwnThePathAlways == Spec => []WritersOwnThePath
<1>1. LockInv /\ [Next]_vars => LockInv'
  <2> SUFFICES ASSUME LockInv, [Next]_vars PROVE LockInv' OBVIOUS
  <2>1. CASE UNCHANGED vars
    BY <2>1 DEF vars, history, LockInv, LockTyped, FlockHeld, FlockExclusive, OnThePath, Compacting, Opened,
       Holding, Writing
  <2>2. ASSUME NEW p \in Proc, Request(p) \/ Step(p) \/ WriteRaises(p) \/ Crash(p)
        PROVE LockInv'
    <3>1. CASE WriteRaises(p) BY <3>1, LeaveKeepsLockInv DEF WriteRaises
    <3>2. CASE Crash(p) BY <3>2, LeaveKeepsLockInv DEF Crash
    <3>3. QED BY <2>2, <3>1, <3>2, RequestKeepsLockInv, StepKeepsLockInv
  <2>3. QED BY <2>1, <2>2 DEF Next
<1>2. QED BY InitLockInv, <1>1, LockInvImplies, PTL DEF Spec

-----------------------------------------------------------------------------
(* What the writes make of a file. *)

(* What one write makes of a file: the lines before the last one stay, and the last one is the line that was
   begun, the last one that was continued, or a corrupt one. *)
OneLineOn(f, l, wrote, tail, g) ==
  /\ g \in Seq(Line) /\ g # <<>>
  /\ wrote = "none" /\ ~Unterminated(f) => g = Append(f, [kind |-> l.kind, id |-> l.id, tail |-> tail])
  /\ wrote # "none" \/ Unterminated(f) =>
       /\ f # <<>> /\ Len(g) = Len(f)
       /\ \A n \in 1 .. Len(f) - 1 : g[n] = f[n]
       /\ g[Len(f)].id = f[Len(f)].id
  /\ wrote = "none" /\ Unterminated(f) => g[Len(f)].kind = "corrupt"
  /\ wrote # "none" => g[Len(f)].kind = f[Len(f)].kind
  /\ g[Len(g)].tail = "nl" <=> tail = "nl"
  /\ wrote = "none" => g[Len(g)].kind = "corrupt" \/ (g[Len(g)].kind = l.kind /\ g[Len(g)].id = l.id)

(* append's os.write, first or continued (O_APPEND): what the file holds afterwards. *)
LEMMA PutLines ==
  ASSUME NEW f \in Seq(Line), NEW l \in Line, NEW wrote \in Ending \union {"none"}, NEW tail \in Ending,
         wrote # "none" => f # <<>>
  PROVE  OneLineOn(f, l, wrote, tail, Put(f, l, wrote, tail))
<1>0. PICK g : g = Put(f, l, wrote, tail)
  OBVIOUS
<1> SUFFICES OneLineOn(f, l, wrote, tail, g)
  BY <1>0
<1> USE DEF OneLineOn
<1>1. f # <<>> => Len(f) \in 1 .. Len(f) /\ f[Len(f)] \in Line
  OBVIOUS
<1>2. CASE wrote = "none" /\ ~Unterminated(f)
  <2> DEFINE k == [kind |-> l.kind, id |-> l.id, tail |-> tail]
  <2>0. [l EXCEPT !.tail = tail] = k
    BY DEF Line
  <2>1. g = Append(f, k)
    BY <1>0, <1>2, <2>0 DEF Put, BeginLine
  <2>2. k \in Line /\ k.tail = tail /\ k.kind = l.kind /\ k.id = l.id
    BY DEF Line
  <2> HIDE DEF k
  <2>3. g \in Seq(Line) /\ Len(g) = Len(f) + 1 /\ g[Len(f) + 1] = k /\ g # <<>>
    BY <2>1, <2>2
  <2>4. QED BY <1>2, <2>1, <2>2, <2>3 DEF k
<1>3. CASE wrote = "none" /\ Unterminated(f)
  <2> DEFINE k == [kind |-> "corrupt", id |-> f[Len(f)].id, tail |-> IF tail = "nl" THEN "nl" ELSE "torn"]
  <2>1. f # <<>> /\ g = [f EXCEPT ![Len(f)] = k]
    BY <1>0, <1>3 DEF Put, BeginLine, Unterminated, Last
  <2>2. k \in Line
    BY <1>1, <2>1 DEF Line, Kind, Ending
  <2>3. k.kind = "corrupt" /\ k.id = f[Len(f)].id /\ (k.tail = "nl" <=> tail = "nl")
    OBVIOUS
  <2> HIDE DEF k
  <2>4. g \in Seq(Line) /\ Len(g) = Len(f) /\ g[Len(f)] = k /\ \A n \in 1 .. Len(f) - 1 : g[n] = f[n]
    BY <1>1, <2>1, <2>2
  <2>5. g # <<>> /\ g[Len(g)] = k
    <3>1. Len(f) \in 1 .. Len(f)
      BY <1>1, <2>1
    <3>2. Len(g) # 0
      BY <2>4, <3>1
    <3>3. g # <<>>
      BY <3>2
    <3>4. QED BY <2>4, <3>3
  <2>6. QED BY <1>3, <2>1, <2>3, <2>4, <2>5
<1>4. CASE wrote # "none"
  <2> DEFINE t == IF f[Len(f)].kind = "corrupt" /\ tail # "nl" THEN "torn" ELSE tail
             k == [f[Len(f)] EXCEPT !.tail = t]
  <2>1. f # <<>> /\ g = [f EXCEPT ![Len(f)] = k]
    BY <1>0, <1>4 DEF Put, ContinueLine
  <2>2. t \in Ending /\ (t = "nl" <=> tail = "nl")
    BY DEF Ending
  <2> HIDE DEF t
  <2>3. k \in Line /\ k.kind = f[Len(f)].kind /\ k.id = f[Len(f)].id /\ k.tail = t
    BY <1>1, <2>1, <2>2 DEF Line
  <2> HIDE DEF k
  <2>4. g \in Seq(Line) /\ Len(g) = Len(f) /\ g[Len(f)] = k /\ \A n \in 1 .. Len(f) - 1 : g[n] = f[n]
    BY <1>1, <2>1, <2>3
  <2>5. Len(f) # 0 /\ g # <<>> /\ g[Len(g)].tail = t
    <3>1. Len(f) \in 1 .. Len(f)
      BY <1>1, <2>1
    <3>2. Len(f) # 0
      BY <3>1
    <3>3. g # <<>>
      BY <2>4, <3>2
    <3>4. QED BY <2>3, <2>4, <3>2, <3>3
  <2>6. QED BY <1>4, <2>1, <2>2, <2>3, <2>4, <2>5
<1>5. QED BY <1>2, <1>3, <1>4

(* A file whose last line was completed has the same lines otherwise. *)
LEMMA TerminatedLines ==
  ASSUME NEW f \in Seq(Line)
  PROVE  /\ Terminated(f) \in Seq(Line) /\ DOMAIN Terminated(f) = DOMAIN f
         /\ \A i \in DOMAIN f : Terminated(f)[i] = [f[i] EXCEPT !.tail = "nl"] /\ Terminated(f)[i].id = f[i].id
<1> DEFINE g == Terminated(f)
<1>1. \A l \in Line : [l EXCEPT !.tail = "nl"] \in Line
  BY DEF Line, Ending
<1>2. g \in Seq(Line) /\ Len(g) = Len(f) /\ \A i \in 1 .. Len(f) : g[i] = [f[i] EXCEPT !.tail = "nl"]
  <2>1. DOMAIN f = 1 .. Len(f) /\ Len(f) \in Nat /\ \A i \in 1 .. Len(f) : f[i] \in Line
    OBVIOUS
  <2>2. g = [i \in 1 .. Len(f) |-> [f[i] EXCEPT !.tail = "nl"]]
    BY <2>1 DEF Terminated
  <2> DEFINE m == Len(f)
             t == [l \in Line |-> [l EXCEPT !.tail = "nl"]]
  <2>3. t \in [Line -> Line] /\ \A l \in Line : t[l] = [l EXCEPT !.tail = "nl"]
    BY <1>1
  <2>4. g = [i \in 1 .. m |-> t[f[i]]]
    BY <2>1, <2>2
  <2> HIDE DEF t, m, g
  <2>5. m \in Nat /\ \A i \in 1 .. m : t[f[i]] \in Line
    BY <2>1, <2>3 DEF m
  <2>6. g \in Seq(Line) /\ Len(g) = m /\ \A i \in 1 .. m : g[i] = t[f[i]]
    BY <2>4, <2>5
  <2>7. QED BY <2>1, <2>3, <2>6 DEF m
<1> HIDE DEF g
<1>3. DOMAIN g = 1 .. Len(f) /\ DOMAIN f = 1 .. Len(f)
  BY <1>2
<1>4. \A i \in 1 .. Len(f) : g[i].id = f[i].id
  <2> SUFFICES ASSUME NEW i \in 1 .. Len(f) PROVE g[i].id = f[i].id
    OBVIOUS
  <2>1. f[i] \in Line /\ g[i] = [f[i] EXCEPT !.tail = "nl"]
    BY <1>2
  <2>2. QED BY <2>1 DEF Line
<1>5. QED BY <1>2, <1>3, <1>4 DEF g

(* What compact keeps of a file: its live lines, terminated. *)
LEMMA KeptLines ==
  ASSUME NEW f \in Seq(Line)
  PROVE  /\ Kept(f) \in Seq(Line)
         /\ \A k \in 1 .. Len(Kept(f)) : \E i \in 1 .. Len(f) :
              IsLive(f, f[i]) /\ Kept(f)[k] = [kind |-> "rec", id |-> f[i].id, tail |-> "nl"]
         /\ \A i \in 1 .. Len(f) : IsLive(f, f[i]) => \E k \in 1 .. Len(Kept(f)) :
              Kept(f)[k] = [kind |-> "rec", id |-> f[i].id, tail |-> "nl"]
<1> DEFINE g == Terminated(f)
           S == LiveAt(f)
<1>1. \A l \in Line : [l EXCEPT !.tail = "nl"] \in Line
  BY DEF Line, Ending
<1>2. g \in Seq(Line) /\ Len(g) = Len(f) /\ \A i \in 1 .. Len(f) : g[i] = [f[i] EXCEPT !.tail = "nl"]
  <2>1. g \in Seq(Line) /\ DOMAIN g = DOMAIN f /\ \A i \in DOMAIN f : g[i] = [f[i] EXCEPT !.tail = "nl"]
    BY TerminatedLines
  <2> HIDE DEF g
  <2>2. QED BY <2>1
<1>3. \A i \in 1 .. Len(f) : i \in S <=> IsLive(f, f[i])
  BY DEF LiveAt
<1>4. \A i \in 1 .. Len(f) : i \in S => g[i] = [kind |-> "rec", id |-> f[i].id, tail |-> "nl"]
  <2> SUFFICES ASSUME NEW i \in 1 .. Len(f), i \in S
               PROVE  g[i] = [kind |-> "rec", id |-> f[i].id, tail |-> "nl"]
    OBVIOUS
  <2>1. f[i] \in Line /\ f[i].kind = "rec"
    BY <1>3 DEF IsLive
  <2>2. \A l \in Line : l.kind = "rec" =>
          [l EXCEPT !.tail = "nl"] = [kind |-> "rec", id |-> l.id, tail |-> "nl"]
    BY DEF Line
  <2>3. QED BY <1>2, <2>1, <2>2
<1>5. Kept(f) = Picked(g, S)
  BY DEF Kept
<1> HIDE DEF g, S
<1>6. /\ Picked(g, S) \in Seq(Line)
      /\ \A k \in 1 .. Len(Picked(g, S)) : \E i \in 1 .. Len(g) : i \in S /\ Picked(g, S)[k] = g[i]
      /\ \A i \in 1 .. Len(g) : i \in S => \E k \in 1 .. Len(Picked(g, S)) : Picked(g, S)[k] = g[i]
  BY <1>2, PickedElements
<1> DEFINE k == Kept(f)
<1>7. /\ k \in Seq(Line)
      /\ \A j \in 1 .. Len(k) : \E i \in 1 .. Len(f) : i \in S /\ k[j] = g[i]
      /\ \A i \in 1 .. Len(f) : i \in S => \E j \in 1 .. Len(k) : k[j] = g[i]
  BY <1>2, <1>5, <1>6
<1> HIDE DEF k
<1>8. \A j \in 1 .. Len(k) : \E i \in 1 .. Len(f) :
        IsLive(f, f[i]) /\ k[j] = [kind |-> "rec", id |-> f[i].id, tail |-> "nl"]
  BY <1>3, <1>4, <1>7, SMTT(30)
<1>9. \A i \in 1 .. Len(f) : IsLive(f, f[i]) => \E j \in 1 .. Len(k) :
        k[j] = [kind |-> "rec", id |-> f[i].id, tail |-> "nl"]
  BY <1>3, <1>4, <1>7
<1>10. QED BY <1>7, <1>8, <1>9 DEF k

-----------------------------------------------------------------------------
(* The base: what every process, line and copy is, with appends that may be short. *)

(* Short writes are those of append's loop, which knows of them. *)
OnlyAppendIsShort == FaultyOps \subseteq {"append"}

Started == {q \in Proc : proc[q].op = "compact"}

(* StartCompact leaves room for the file of every compaction that started, *)
(* and a file is empty until it is created.                                *)
Bounded ==
  /\ IsFiniteSet(Started) /\ IsFiniteSet(minted)
  /\ inodes + (IF path = 0 THEN 1 ELSE 0) + Cardinality(Started) <= MaxInode
  /\ \A n \in 1 .. MaxInode : n > inodes => files[n] = <<>>

(* What a process that runs a call has to do with the ids it was given. *)
Job(p) ==
  /\ proc[p].op \in {"append", "mark"} => \E i \in minted : proc[p].ids = {i}
  /\ proc[p].op = "append" => proc[p].ids \cap acked = {}
  /\ proc[p].op = "mark" => proc[p].ids \subseteq doomed
  /\ proc[p].op = "batch" => proc[p].ids \subseteq IF proc[p].wrote = "none" THEN minted ELSE doomed
  /\ proc[p].op = "batch" => proc[p].wrote \in {"none", "nl"}
  /\ proc[p].wrote # "none" => proc[p].pc = "held" /\ proc[p].op \in {"append", "mark", "batch"}
Jobs == \A p \in Proc : Job(p)
OneAppender ==
  \A p, q \in Proc :
    proc[p].op = "append" /\ proc[q].op = "append" /\ proc[p].ids = proc[q].ids => p = q

(* Every line of the file is of an id that was handed out, every marker of one that was named. *)
NamedBy(l) == /\ l.kind = "rec" => l.id \in minted
              /\ l.kind = "mark" => l.id \in doomed
Named == \A n \in DOMAIN Content : NamedBy(Content[n])

(* A record that is still to be written is in no line, and nobody can have named it. *)
Fresh(i) == i \notin doomed /\ \A n \in DOMAIN Content : Content[n].kind = "rec" => Content[n].id # i
Pending ==
  \A p \in Proc : proc[p].op = "append" /\ proc[p].wrote = "none" => \A i \in proc[p].ids : Fresh(i)

(* What compact carries from the file to its replacement. *)
Copying ==
  \A p \in Proc :
    /\ proc[p].pc = "rewrite" => buf[p] = Kept(Content)
    /\ proc[p].pc = "swap" /\ tmp.there => tmp.lines = Kept(Content)

(* The line a process is writing is the last one, or has run into it. *)
LastLine == Content[Len(Content)]
OwnLine ==
  \A p \in Proc : proc[p].op \in {"append", "mark"} /\ proc[p].wrote # "none" =>
    /\ Content # <<>>
    /\ LastLine.kind = "corrupt" \/ (LastLine.kind = LineOf(p).kind /\ LastLine.id = LineOf(p).id)
    /\ LastLine.tail = "nl" <=> proc[p].wrote = "nl"

FileInv == Named /\ Pending /\ Copying /\ OwnLine
CallInv == Jobs /\ OneAppender
Base == LockInv /\ TypeOK /\ Bounded /\ CallInv /\ FileInv

-----------------------------------------------------------------------------

(* A process past the inode comparison holds the path's inode, and nobody else is past it. *)
LEMMA WritingAlone ==
  ASSUME LockInv, NEW p \in Proc, Writing(p)
  PROVE  /\ proc[p].fd = path /\ path \in 1 .. inodes
         /\ \A q \in Proc : Writing(q) => q = p
<1>1. \A q \in Proc : Writing(q) => proc[q].fd = path /\ <<path, q>> \in lock
  BY LockInvImplies DEF WritersOwnThePath
<1>2. Opened(p)
  BY DEF Opened, Holding, Writing
<1>3. proc[p].fd \in 1 .. inodes
  BY <1>2 DEF LockInv, FlockHeld
<1>4. path \in Nat
  BY DEF LockInv, LockTyped
<1>5. QED BY <1>1, <1>3, <1>4 DEF LockInv, FlockExclusive

(* What the path holds is a sequence of lines. *)
LEMMA ContentIsTyped == TypeOK => Content \in Seq(Line)
<1> SUFFICES ASSUME TypeOK PROVE Content \in Seq(Line)
  OBVIOUS
<1>1. CASE path = 0
  BY <1>1 DEF Content
<1>2. CASE path # 0
  <2>1. path \in 1 .. MaxInode
    BY <1>2, StoreAssumption DEF TypeOK
  <2>2. QED BY <1>2, <2>1 DEF Content, TypeOK
<1>3. QED BY <1>1, <1>2

(* A step of p, and what it leaves of p's call. *)
Moves(p) == proc' \in [Proc -> ProcState] /\ \A q \in Proc \ {p} : proc'[q] = proc[q]
SameCall(p) == proc'[p].op = proc[p].op /\ proc'[p].ids = proc[p].ids

(* What the steps do to the file, grouped by what the calls see of them. *)
Quiet(p) ==
  /\ Moves(p) /\ SameCall(p)
  /\ proc'[p].pc \in {"open", "unlink", "flock", "stat", "held"}
  /\ proc[p].wrote = "none" /\ proc'[p].wrote = "none"
  /\ Content' = Content /\ UNCHANGED <<buf, tmp, history>>

Leaves(p) ==
  /\ Moves(p) /\ proc'[p] = Idle /\ Content' = Content
  /\ UNCHANGED <<minted, doomed>>
  /\ tmp' = tmp \/ tmp' = NoTmp
  /\ \A q \in Proc \ {p} : buf'[q] = buf[q]
  /\ \/ UNCHANGED <<acked, gone>> /\ tears' = tears + Tears(p)
     \/ Return(p)

LineWritten(p) ==
  /\ Moves(p) /\ SameCall(p) /\ proc'[p].pc = "held"
  /\ proc[p].pc = "held" /\ proc[p].op \in {"append", "mark"} /\ proc[p].wrote # "nl"
  /\ proc'[p].wrote \in Progress(proc[p].wrote)
  /\ Content' = Put(Content, LineOf(p), proc[p].wrote, proc'[p].wrote)
  /\ UNCHANGED <<buf, tmp, history>>

Markers(S) == LET s == SetToSeq(S) IN [n \in DOMAIN s |-> Mark(s[n])]

BatchWritten(p) ==
  /\ Moves(p) /\ SameCall(p) /\ proc'[p].pc = "held"
  /\ proc[p].pc = "held" /\ proc[p].op = "batch" /\ proc[p].wrote = "none" /\ proc'[p].wrote = "nl"
  /\ proc[p].ids \subseteq Present(Content)
  /\ Content' = PutAll(Content, Markers(proc[p].ids))
  /\ doomed' = doomed \union proc[p].ids
  /\ UNCHANGED <<buf, tmp, minted, acked, gone, tears>>

KeptRead(p) ==
  /\ Moves(p) /\ SameCall(p) /\ proc'[p].pc = "rewrite"
  /\ proc[p].pc = "held" /\ proc[p].op = "compact"
  /\ proc[p].wrote = "none" /\ proc'[p].wrote = "none"
  /\ buf' = [buf EXCEPT ![p] = Kept(Content)]
  /\ Content' = Content /\ UNCHANGED <<tmp, history>>

KeptWritten(p) ==
  /\ Moves(p) /\ SameCall(p) /\ proc'[p].pc = "swap"
  /\ proc[p].pc = "rewrite" /\ proc[p].op = "compact"
  /\ proc[p].wrote = "none" /\ proc'[p].wrote = "none"
  /\ tmp' = Tmp(buf[p])
  /\ \A q \in Proc \ {p} : buf'[q] = buf[q]
  /\ Content' = Content /\ UNCHANGED history

KeptInstalled(p) ==
  /\ Moves(p) /\ proc'[p].pc = "held" /\ proc'[p].op = "swapped" /\ proc'[p].ids = proc[p].ids
  /\ proc[p].pc = "swap" /\ proc[p].op = "compact"
  /\ proc[p].wrote = "none" /\ proc'[p].wrote = "none"
  /\ \/ Content' = tmp.lines /\ tmp.there /\ tmp' = NoTmp
     \/ Content' = Content /\ tmp' = tmp
  /\ UNCHANGED <<buf, history>>

Begins(p) ==
  /\ Moves(p) /\ proc[p].pc = "idle" /\ proc'[p].pc = "open" /\ proc'[p].wrote = "none"
  /\ Content' = Content /\ UNCHANGED <<buf, tmp, acked, gone, tears>>
  /\ \/ /\ proc'[p].op = "append" /\ doomed' = doomed
        /\ \E i \in Id \ minted : proc'[p].ids = {i} /\ minted' = minted \union {i}
     \/ /\ proc'[p].op = "mark" /\ minted' = minted
        /\ \E i \in Present(Content) : proc'[p].ids = {i} /\ doomed' = doomed \union {i}
     \/ proc'[p].op = "batch" /\ proc'[p].ids \subseteq minted /\ UNCHANGED <<minted, doomed>>
     \/ proc'[p].op = "compact" /\ UNCHANGED <<minted, doomed>>

(* A call that starts leaves the store as it is. *)
LEMMA RequestsBegin ==
  ASSUME TypeOK, NEW p \in Proc, Request(p)
  PROVE  Begins(p)
<1>1. files' = files /\ path' = path
  BY DEF Request, StartAppend, StartTombstone, StartBatch, StartCompact, Start
<1>2. Content' = Content
  BY <1>1 DEF Content
<1>3. ASSUME NEW op \in {"append", "mark", "batch", "compact"}, NEW ids \in SUBSET Id, Start(p, op, ids)
      PROVE  /\ Moves(p) /\ proc[p].pc = "idle" /\ proc'[p].pc = "open" /\ proc'[p].wrote = "none"
             /\ proc'[p].op = op /\ proc'[p].ids = ids /\ UNCHANGED <<buf, tmp, acked, gone, tears>>
  BY <1>3 DEF Start, ProcState, Moves, TypeOK
<1>4. ASSUME NEW i \in Id, StartAppend(p, i) PROVE Begins(p)
  BY <1>2, <1>3, <1>4 DEF StartAppend, Begins
<1>5. ASSUME NEW i \in Id, StartTombstone(p, i) PROVE Begins(p)
  BY <1>2, <1>3, <1>5 DEF StartTombstone, Begins
<1>6. ASSUME NEW S \in SUBSET Id, StartBatch(p, S) PROVE Begins(p)
  BY <1>2, <1>3, <1>6 DEF StartBatch, Begins
<1>7. CASE StartCompact(p)
  BY <1>2, <1>3, <1>7 DEF StartCompact, Begins
<1>8. QED BY <1>4, <1>5, <1>6, <1>7 DEF Request

(* A step that hands the file over to whoever writes it next. *)
LEMMA StepsAreGrouped ==
  ASSUME OnlyAppendIsShort, LockInv, TypeOK, Bounded, Jobs, NEW p \in Proc,
         Step(p) \/ WriteRaises(p) \/ Crash(p)
  PROVE  \/ Quiet(p) \/ Leaves(p) \/ LineWritten(p) \/ BatchWritten(p)
         \/ KeptRead(p) \/ KeptWritten(p) \/ KeptInstalled(p)
<1>0. proc[p] \in ProcState /\ proc \in [Proc -> ProcState] /\ Job(p)
  BY DEF TypeOK, Jobs
<1>1. files' = files /\ path' = path => Content' = Content
  BY DEF Content
<1>2. Idle \in ProcState
  BY DEF Idle, ProcState
<1>3. proc[p].pc \notin {"held", "rewrite", "swap"} \/ proc[p].op \in {"compact", "swapped"} => proc[p].wrote = "none"
  BY <1>0 DEF Job
<1>4. ASSUME OpenStore(p) \/ OpenMissing(p) \/ Flock(p) \/ CompareInode(p) PROVE Quiet(p)
  <2>1. /\ proc[p].pc \in {"open", "flock", "stat"} /\ Content' = Content /\ UNCHANGED <<buf, tmp, history>>
    <3>1. CASE OpenStore(p) /\ path = 0
      <4>1. inodes' = inodes + 1 /\ path' = inodes + 1 /\ files' = files
        BY <3>1 DEF OpenStore
      <4>2. inodes \in Nat /\ MaxInode \in Nat /\ Cardinality(Started) \in Nat
        BY StoreAssumption, FS_CardinalityType DEF TypeOK, Bounded
      <4>3. inodes + 1 \in 1 .. MaxInode /\ inodes + 1 > inodes
        BY <3>1, <4>2 DEF Bounded
      <4>4. files[inodes + 1] = <<>>
        BY <4>3 DEF Bounded
      <4>5. Content' = <<>> /\ Content = <<>>
        BY <3>1, <4>1, <4>2, <4>4 DEF Content
      <4>6. QED BY <3>1, <4>5 DEF OpenStore
    <3>2. CASE OpenStore(p) /\ path # 0
      BY <1>1, <3>2 DEF OpenStore
    <3>3. QED BY <1>1, <1>4, <3>1, <3>2 DEF OpenMissing, Flock, CompareInode
  <2>2. /\ Moves(p) /\ SameCall(p) /\ proc'[p].wrote = proc[p].wrote
        /\ proc'[p].pc \in {"open", "unlink", "flock", "stat", "held"}
    <3>1. CASE OpenStore(p)
      <4>1. path' \in Nat
        BY <3>1 DEF OpenStore, TypeOK
      <4>2. proc' = [proc EXCEPT ![p] = [@ EXCEPT !.pc = "flock", !.fd = path']]
        BY <3>1 DEF OpenStore
      <4>3. QED BY <1>0, <4>1, <4>2 DEF ProcState, Moves, SameCall
    <3>2. CASE CompareInode(p) /\ proc[p].fd # path
      <4>1. proc' = [proc EXCEPT ![p] = [@ EXCEPT !.pc = "open", !.fd = 0]]
        BY <3>2 DEF CompareInode
      <4>2. QED BY <1>0, <4>1 DEF ProcState, Moves, SameCall
    <3>3. CASE OpenMissing(p) \/ Flock(p) \/ (CompareInode(p) /\ proc[p].fd = path)
      <4>1. PICK pc \in {"unlink", "stat", "held"} : proc' = [proc EXCEPT ![p].pc = pc]
        BY <3>3 DEF OpenMissing, Flock, CompareInode
      <4>2. QED BY <1>0, <4>1 DEF ProcState, Moves, SameCall
    <3>4. QED BY <1>4, <3>1, <3>2, <3>3
  <2>3. QED BY <1>3, <2>1, <2>2 DEF Quiet
<1>5. ASSUME UnlinkTmp(p) \/ BatchNotFound(p) \/ WriteRaises(p) \/ Crash(p) \/ Return(p)
      PROVE  Leaves(p)
  <2>1. Content' = Content /\ UNCHANGED <<minted, doomed>> /\ proc' = [proc EXCEPT ![p] = Idle]
    BY <1>1, <1>5 DEF UnlinkTmp, BatchNotFound, WriteRaises, Crash, Return, history
  <2>0. Moves(p) /\ proc'[p] = Idle
    BY <1>0, <1>2, <2>1 DEF Moves
  <2>2. (tmp' = tmp \/ tmp' = NoTmp) /\ \A q \in Proc \ {p} : buf'[q] = buf[q]
    BY <1>5 DEF UnlinkTmp, BatchNotFound, WriteRaises, Crash, Return, TypeOK
  <2>3. (UNCHANGED <<acked, gone>> /\ tears' = tears + Tears(p)) \/ Return(p)
    <3>1. CASE UnlinkTmp(p) \/ BatchNotFound(p)
      <4>1. tears' = tears /\ UNCHANGED <<acked, gone>>
        BY <3>1 DEF UnlinkTmp, BatchNotFound, history
      <4>2. proc[p].wrote = "none"
        BY <3>1 DEF UnlinkTmp, BatchNotFound, Jobs, Job
      <4>3. QED BY <4>1, <4>2 DEF TypeOK, Tears
    <3>2. QED BY <1>5, <3>1 DEF WriteRaises, Crash
  <2>4. QED BY <2>0, <2>1, <2>2, <2>3 DEF Leaves
<1>6. ASSUME Writing(p)
      PROVE  /\ proc[p].fd = path /\ path # 0 /\ path \in 1 .. MaxInode /\ Content = files[path]
             /\ \A f : files' = [files EXCEPT ![path] = f] /\ path' = path => Content' = f
  <2>1. proc[p].fd = path /\ path \in 1 .. inodes
    BY <1>6, WritingAlone
  <2>2. path # 0 /\ path \in 1 .. MaxInode
    BY <2>1, StoreAssumption DEF TypeOK
  <2>3. QED BY <2>1, <2>2 DEF Content, TypeOK
<1>7. ASSUME WriteLine(p) PROVE LineWritten(p)
  <2>1. Writing(p)
    BY <1>7 DEF WriteLine, Writing
  <2>2. PICK tail \in Progress(proc[p].wrote) :
          /\ files' = [files EXCEPT ![proc[p].fd] = Put(@, LineOf(p), proc[p].wrote, tail)]
          /\ proc' = [proc EXCEPT ![p].wrote = tail]
    BY <1>7 DEF WriteLine
  <2>3. tail \in Ending
    BY DEF Progress, Ending
  <2>4. files' = [files EXCEPT ![path] = Put(Content, LineOf(p), proc[p].wrote, tail)] /\ path' = path
    BY <1>6, <1>7, <2>1, <2>2 DEF WriteLine
  <2>5. Content' = Put(Content, LineOf(p), proc[p].wrote, tail)
    BY <1>6, <2>1, <2>4
  <2>6. proc[p].pc = "held" /\ proc[p].op \in {"append", "mark"} /\ proc[p].wrote # "nl"
        /\ proc[p].fd \in Nat
    BY <1>0, <1>7 DEF WriteLine, ProcState
  <2>7. Moves(p) /\ SameCall(p) /\ proc'[p].pc = "held" /\ proc'[p].wrote = tail
    BY <1>0, <2>2, <2>3, <2>6 DEF Moves, SameCall, ProcState
  <2>8. QED BY <1>7, <2>2, <2>5, <2>6, <2>7 DEF WriteLine, LineWritten
<1>8. ASSUME WriteBatch(p) PROVE BatchWritten(p)
  <2>1. Writing(p)
    BY <1>8 DEF WriteBatch, Writing
  <2>2. Taken(Markers(proc[p].ids), "batch") = {Markers(proc[p].ids)}
    BY DEF Taken, OnlyAppendIsShort
  <2>3. files' = [files EXCEPT ![proc[p].fd] = PutAll(@, Markers(proc[p].ids))]
    BY <1>8, <2>2 DEF WriteBatch, Markers
  <2>4. Content' = PutAll(Content, Markers(proc[p].ids)) /\ Content = files[proc[p].fd]
    <3>1. files' = [files EXCEPT ![path] = PutAll(Content, Markers(proc[p].ids))] /\ path' = path
      BY <1>6, <1>8, <2>1, <2>3 DEF WriteBatch
    <3>2. QED BY <1>6, <2>1, <3>1
  <2>5. proc[p].pc = "held" /\ proc[p].op = "batch" /\ proc[p].wrote = "none" /\ proc[p].fd \in Nat
        /\ proc' = [proc EXCEPT ![p].wrote = "nl"]
    BY <1>0, <1>8 DEF WriteBatch, ProcState
  <2>6. Moves(p) /\ SameCall(p) /\ proc'[p].pc = "held" /\ proc'[p].wrote = "nl"
    BY <1>0, <2>5 DEF Moves, SameCall, ProcState, Ending
  <2>7. QED BY <1>8, <2>4, <2>5, <2>6 DEF WriteBatch, BatchWritten
<1>9. ASSUME CompactRead(p) PROVE KeptRead(p)
  <2>1. Writing(p) /\ proc[p].pc = "held" /\ proc[p].op = "compact" /\ proc[p].fd \in Nat
        /\ proc' = [proc EXCEPT ![p].pc = "rewrite"]
    BY <1>0, <1>9 DEF CompactRead, Writing, ProcState
  <2>2. Moves(p) /\ SameCall(p) /\ proc'[p].pc = "rewrite" /\ proc'[p].wrote = proc[p].wrote
    BY <1>0, <2>1 DEF Moves, SameCall, ProcState
  <2>3. Content = files[proc[p].fd] /\ Content' = Content
    BY <1>1, <1>6, <1>9, <2>1 DEF CompactRead
  <2>4. QED BY <1>3, <1>9, <2>1, <2>2, <2>3 DEF CompactRead, KeptRead
<1>10. ASSUME CompactWriteTmp(p) PROVE KeptWritten(p)
  <2>1. proc[p].pc = "rewrite" /\ proc[p].op = "compact" /\ proc[p].fd \in Nat
        /\ proc' = [proc EXCEPT ![p].pc = "swap"]
    BY <1>0, <1>10 DEF CompactWriteTmp, LockInv, Compacting, ProcState
  <2>2. Moves(p) /\ SameCall(p) /\ proc'[p].pc = "swap" /\ proc'[p].wrote = proc[p].wrote
    BY <1>0, <2>1 DEF Moves, SameCall, ProcState
  <2>3. Taken(buf[p], "compact") = {buf[p]}
    BY DEF Taken, OnlyAppendIsShort
  <2>4. QED BY <1>1, <1>3, <1>10, <2>1, <2>2, <2>3 DEF CompactWriteTmp, KeptWritten, TypeOK
<1>11. ASSUME CompactReplace(p) PROVE KeptInstalled(p)
  <2>1. /\ proc[p].pc = "swap" /\ proc[p].op = "compact" /\ proc[p].fd \in Nat
        /\ proc' = [proc EXCEPT ![p] = [@ EXCEPT !.pc = "held", !.op = "swapped"]]
    BY <1>0, <1>11 DEF CompactReplace, LockInv, Compacting, ProcState
  <2>2. Moves(p) /\ proc'[p].pc = "held" /\ proc'[p].op = "swapped" /\ proc'[p].ids = proc[p].ids
        /\ proc'[p].wrote = proc[p].wrote
    BY <1>0, <2>1 DEF Moves, ProcState
  <2>3. CASE tmp.there
    <3>1. inodes' = inodes + 1 /\ path' = inodes + 1 /\ files' = [files EXCEPT ![inodes + 1] = tmp.lines]
          /\ tmp' = NoTmp
      BY <1>11, <2>3 DEF CompactReplace
    <3>2. p \in Started /\ inodes \in Nat /\ MaxInode \in Nat
      BY <2>1, StoreAssumption DEF Started, TypeOK
    <3>3. Cardinality(Started) \in Nat /\ Cardinality(Started) # 0
      BY <3>2, FS_CardinalityType, FS_EmptySet DEF Bounded
    <3>4. inodes + 1 \in 1 .. MaxInode
      BY <3>2, <3>3 DEF Bounded
    <3>5. Content' = tmp.lines
      BY <3>1, <3>2, <3>4 DEF Content, TypeOK
    <3>6. QED BY <1>3, <1>11, <2>1, <2>2, <2>3, <3>1, <3>5 DEF CompactReplace, KeptInstalled
  <2>4. CASE ~tmp.there
    <3>1. UNCHANGED <<files, inodes, path, tmp>>
      BY <1>11, <2>4 DEF CompactReplace
    <3>2. QED BY <1>1, <1>3, <1>11, <2>1, <2>2, <3>1 DEF CompactReplace, KeptInstalled
  <2>5. QED BY <2>3, <2>4
<1>12. QED BY <1>4, <1>5, <1>7, <1>8, <1>9, <1>10, <1>11 DEF Step

Grouped(p) ==
  \/ Begins(p) \/ Quiet(p) \/ Leaves(p) \/ LineWritten(p) \/ BatchWritten(p)
  \/ KeptRead(p) \/ KeptWritten(p) \/ KeptInstalled(p)

(* What a process writes for the one id its call is about. *)
LineIsOfJob(p) ==
  \E id \in minted : /\ proc[p].ids = {id} /\ LineOf(p) \in Line
                     /\ proc[p].op = "append" => LineOf(p) = Rec(id)
                     /\ proc[p].op # "append" => LineOf(p) = Mark(id)

(* append writes the record it was given, mark_tombstone the marker of the record it looked up. *)
LEMMA LineOfJob ==
  ASSUME TypeOK, NEW p \in Proc, Job(p), proc[p].op \in {"append", "mark"}
  PROVE  LineIsOfJob(p)
<1>1. PICK id \in minted : proc[p].ids = {id}
  BY DEF Job
<1> DEFINE c == CHOOSE i \in proc[p].ids : TRUE
<1>2. c = id
  <2>1. id \in proc[p].ids /\ \A j \in proc[p].ids : j = id
    BY <1>1
  <2>2. c \in proc[p].ids
    BY <2>1, Zenon
  <2> HIDE DEF c
  <2>3. QED BY <2>1, <2>2
<1>3. (proc[p].op = "append" => LineOf(p) = Rec(id)) /\ (proc[p].op # "append" => LineOf(p) = Mark(id))
  <2>1. LineOf(p) = IF proc[p].op = "append" THEN Rec(c) ELSE Mark(c)
    BY DEF LineOf
  <2> HIDE DEF c
  <2>2. QED BY <1>2, <2>1
<1>4. Rec(id) \in Line /\ Mark(id) \in Line
  <2>1. id \in Id
    BY <1>1 DEF TypeOK
  <2>2. QED BY <2>1 DEF Rec, Mark, Line, Kind, Ending
<1> HIDE DEF c
<1>5. LineOf(p) \in Line
  <2>1. CASE proc[p].op = "append"
    BY <1>3, <1>4, <2>1
  <2>2. CASE proc[p].op # "append"
    BY <1>3, <1>4, <2>2
  <2>3. QED BY <2>1, <2>2
<1>6. QED BY <1>1, <1>3, <1>5 DEF LineIsOfJob

(* os.write leaves a line torn, bare or whole. *)
LEMMA ProgressEnds ==
  ASSUME NEW wrote, NEW tail \in Progress(wrote)
  PROVE  tail \in Ending
BY DEF Progress, Ending

(* The markers of a batch: one for each of its ids. *)
LEMMA MarkersAreTerminated ==
  ASSUME NEW S \in SUBSET Id, IsFiniteSet(S)
  PROVE  /\ Markers(S) \in Seq(Line)
         /\ \A n \in 1 .. Len(Markers(S)) : \E i \in S : Markers(S)[n] = Mark(i)
         /\ \A i \in S : \E n \in 1 .. Len(Markers(S)) : Markers(S)[n] = Mark(i)
<1> DEFINE n == Cardinality(S)
           s == SetToSeq(S)
<1>1. n \in Nat
  BY FS_CardinalityType
<1>2. \E f \in [1 .. n -> S] : IsInjective(f)
  <2>1. PICK f : f \in Bijection(1 .. n, S)
    BY FS_CardinalityType DEF ExistsBijection
  <2>2. QED BY <2>1 DEF Bijection, Injection
<1>3. s \in [1 .. n -> S] /\ IsInjective(s)
  BY <1>2 DEF SetToSeq
<1>4. s \in Surjection(1 .. n, S)
  <2>1. s \in Injection(1 .. n, S)
    BY <1>3 DEF Injection
  <2>2. Cardinality(1 .. n) = n
    BY <1>1, FS_Interval
  <2>3. QED BY <2>1, <2>2, FS_Injection
<1>5. \A i \in S : \E k \in 1 .. n : s[k] = i
  BY <1>4 DEF Surjection
<1> DEFINE m == Markers(S)
<1>6. m = [k \in 1 .. n |-> Mark(s[k])]
  <2>1. DOMAIN s = 1 .. n
    BY <1>3
  <2>2. QED BY <2>1 DEF Markers
<1> HIDE DEF n, s, m
<1>7. \A k \in 1 .. n : Mark(s[k]) \in Line
  BY <1>3 DEF Mark, Line, Kind, Ending
<1>8. m \in Seq(Line) /\ Len(m) = n /\ \A k \in 1 .. n : m[k] = Mark(s[k])
  <2> DEFINE g == [k \in 1 .. n |-> Mark(s[k])]
  <2>1. g \in [1 .. n -> Line]
    BY <1>7
  <2>2. g \in Seq(Line) /\ Len(g) = n
    BY <1>1, <2>1
  <2>3. QED BY <1>6, <2>2
<1>9. QED BY <1>3, <1>5, <1>8 DEF m

(* One write of several terminated lines: the first may run into an unterminated line, the others follow. *)
LinesOn(f, s, g) ==
  /\ g \in Seq(Line)
  /\ \A n \in 1 .. Len(g) :
       \/ n \in 1 .. Len(f) /\ g[n] = f[n]
       \/ g[n].kind = "corrupt"
       \/ \E k \in 1 .. Len(s) : g[n] = s[k]
  /\ \A n \in 1 .. Len(f) : ~(Unterminated(f) /\ n = Len(f)) => n \in 1 .. Len(g) /\ g[n] = f[n]
  /\ ~Unterminated(f) => g = f \o s
  /\ s = <<>> => g = f
  /\ s # <<>> => ~Unterminated(g)

(* The one os.write of mark_tombstones: what the file holds afterwards. *)
LEMMA PutAllLines ==
  ASSUME NEW f \in Seq(Line), NEW s \in Seq(Line), \A k \in 1 .. Len(s) : s[k].tail = "nl"
  PROVE  LinesOn(f, s, PutAll(f, s))
<1>1. CASE s = <<>>
  BY <1>1 DEF PutAll, LinesOn
<1>2. CASE s # <<>>
  <2> DEFINE l == s[1]
             g == BeginLine(f, l, l.tail)
             r == Tail(s)
             h == PutAll(f, s)
  <2>1. l \in Line /\ l.tail = "nl" /\ r \in Seq(Line) /\ Len(r) = Len(s) - 1
        /\ \A k \in 1 .. Len(r) : r[k] = s[k + 1]
    BY <1>2
  <2>2. g = Put(f, l, "none", "nl")
    BY <2>1 DEF Put
  <2>3. h = g \o r
    BY <1>2 DEF PutAll
  <2>4. "nl" \in Ending /\ [kind |-> l.kind, id |-> l.id, tail |-> "nl"] = l
    BY <2>1 DEF Ending, Line
  <2> HIDE DEF g, r, h, l
  <2>5. /\ g \in Seq(Line) /\ g # <<>>
        /\ g[Len(g)].tail = "nl"
        /\ ~Unterminated(f) => g = Append(f, l)
        /\ Unterminated(f) => /\ f # <<>> /\ Len(g) = Len(f)
                              /\ \A n \in 1 .. Len(f) - 1 : g[n] = f[n]
                              /\ g[Len(f)].kind = "corrupt"
    <3>1. "none" \in Ending \union {"none"}
      OBVIOUS
    <3>2. OneLineOn(f, l, "none", "nl", g)
      BY <2>1, <2>2, <2>4, <3>1, PutLines
    <3>3. QED BY <2>4, <3>2 DEF OneLineOn
  <2>6. l = s[1] /\ 1 \in 1 .. Len(s)
    BY <1>2 DEF l
  <2>7. /\ h \in Seq(Line) /\ Len(h) = Len(g) + Len(r)
        /\ \A n \in 1 .. Len(g) : n \in 1 .. Len(h) /\ h[n] = g[n]
        /\ \A n \in 1 .. Len(h) : n > Len(g) => h[n] = r[n - Len(g)] /\ n - Len(g) \in 1 .. Len(r)
    <3>0. g \in Seq(Line) /\ r \in Seq(Line)
      BY <2>1, <2>5
    <3>1. h \in Seq(Line) /\ Len(h) = Len(g) + Len(r) /\ Len(g) \in Nat /\ Len(r) \in Nat
      BY <2>3, <3>0
    <3>2. \A n \in 1 .. Len(g) : n \in 1 .. Len(h) /\ h[n] = g[n]
      BY <2>3, <3>0, <3>1
    <3>3. \A n \in 1 .. Len(h) : n > Len(g) => h[n] = r[n - Len(g)] /\ n - Len(g) \in 1 .. Len(r)
      BY <2>3, <3>0, <3>1
    <3>4. QED BY <3>1, <3>2, <3>3
  <2>8. \A n \in 1 .. Len(h) : n > Len(g) => \E k \in 1 .. Len(s) : h[n] = s[k]
    <3> SUFFICES ASSUME NEW n \in 1 .. Len(h), n > Len(g) PROVE \E k \in 1 .. Len(s) : h[n] = s[k]
      OBVIOUS
    <3>1. n - Len(g) \in 1 .. Len(r) /\ h[n] = r[n - Len(g)]
      BY <2>7
    <3>2. PICK m \in 1 .. Len(r) : h[n] = r[m]
      BY <3>1
    <3>3. Len(s) \in Nat
      OBVIOUS
    <3>4. m + 1 \in 1 .. Len(s) /\ r[m] = s[m + 1]
      BY <2>1, <3>3
    <3>5. QED BY <3>2, <3>4
  <2>12. ~Unterminated(h)
    <3>1. Len(g) \in Nat \ {0} /\ Len(r) \in Nat
      BY <2>1, <2>5
    <3>2. h[Len(h)].tail = "nl"
      <4>1. CASE Len(r) = 0
        <5>1. Len(h) = Len(g) /\ Len(g) \in 1 .. Len(g)
          BY <2>7, <3>1, <4>1
        <5>2. QED BY <2>5, <2>7, <5>1
      <4>2. CASE Len(r) # 0
        <5>1. Len(h) \in 1 .. Len(h) /\ Len(h) > Len(g)
          BY <2>7, <3>1, <4>2
        <5>2. PICK k \in 1 .. Len(s) : h[Len(h)] = s[k]
          BY <2>8, <5>1
        <5>3. QED BY <5>2
      <4>3. QED BY <4>1, <4>2
    <3>3. QED BY <3>2 DEF Unterminated, Last
  <2>9. CASE ~Unterminated(f)
    <3>1. g = Append(f, l) /\ Len(g) = Len(f) + 1 /\ g[Len(f) + 1] = l /\ \A n \in 1 .. Len(f) : g[n] = f[n]
      BY <2>1, <2>5, <2>9
    <3>2. h = f \o s
      <4>1. f \o s \in Seq(Line) /\ Len(f \o s) = Len(f) + Len(s)
        OBVIOUS
      <4>2. Len(h) = Len(f \o s)
        BY <2>1, <2>7, <3>1, <4>1
      <4>3. \A n \in 1 .. Len(h) : h[n] = (f \o s)[n]
        <5> SUFFICES ASSUME NEW n \in 1 .. Len(h) PROVE h[n] = (f \o s)[n]
          OBVIOUS
        <5>1. CASE n <= Len(f)
          BY <2>7, <3>1, <5>1, SMTT(30)
        <5>2. CASE n = Len(f) + 1
          BY <2>6, <2>7, <3>1, <5>2
        <5>3. CASE n > Len(f) + 1
          <6>1. n - Len(g) \in 1 .. Len(r) /\ h[n] = r[n - Len(g)]
            BY <2>7, <3>1, <5>3
          <6>2. h[n] = s[n - Len(g) + 1]
            BY <2>1, <6>1
          <6>3. n - Len(g) + 1 = n - Len(f) /\ n - Len(f) \in 1 .. Len(s)
            BY <2>1, <3>1, <6>1
          <6>4. (f \o s)[n] = s[n - Len(f)]
            BY <4>1, <4>2, <5>3
          <6>5. QED BY <6>2, <6>3, <6>4
        <5>4. Len(f) \in Nat
          OBVIOUS
        <5>5. n \in Nat
          OBVIOUS
        <5>6. n <= Len(f) \/ n = Len(f) + 1 \/ n > Len(f) + 1
          BY <5>4, <5>5
        <5>7. QED BY <5>1, <5>2, <5>3, <5>6
      <4>4. QED
        <5> DEFINE fs == f \o s
        <5>1. fs \in Seq(Line) /\ h \in Seq(Line) /\ Len(h) = Len(fs) /\ \A n \in 1 .. Len(h) : h[n] = fs[n]
          BY <2>7, <4>1, <4>2, <4>3
        <5> HIDE DEF fs
        <5>2. h = fs
          BY <5>1
        <5>3. QED BY <5>2 DEF fs
    <3>3. \A n \in 1 .. Len(h) : \/ n \in 1 .. Len(f) /\ h[n] = f[n]
                                 \/ \E k \in 1 .. Len(s) : h[n] = s[k]
      <4> SUFFICES ASSUME NEW n \in 1 .. Len(h), n \notin 1 .. Len(f)
                   PROVE  \E k \in 1 .. Len(s) : h[n] = s[k]
        BY <2>7, <3>1, SMTT(30)
      <4>1. CASE n > Len(g)
        BY <2>8, <4>1
      <4>2. CASE n <= Len(g)
        <5>1. n = Len(f) + 1 /\ n \in 1 .. Len(g)
          BY <3>1, <4>2
        <5>2. h[n] = s[1]
          BY <2>6, <2>7, <3>1, <5>1
        <5>3. QED BY <2>6, <5>2
      <4>3. QED BY <2>5, <2>7, <4>1, <4>2
    <3>4. \A n \in 1 .. Len(f) : n \in 1 .. Len(h) /\ h[n] = f[n]
      BY <2>7, <3>1
    <3>5. QED BY <1>2, <2>7, <2>9, <2>12, <3>2, <3>3, <3>4 DEF h, LinesOn
  <2>10. CASE Unterminated(f)
    <3>1. \A n \in 1 .. Len(h) : \/ n \in 1 .. Len(f) /\ h[n] = f[n]
                                 \/ h[n].kind = "corrupt"
                                 \/ \E k \in 1 .. Len(s) : h[n] = s[k]
      <4> SUFFICES ASSUME NEW n \in 1 .. Len(h), n <= Len(f)
                   PROVE  h[n] = f[n] \/ h[n].kind = "corrupt"
        BY <2>5, <2>8, <2>10
      <4>1. n \in 1 .. Len(g) /\ h[n] = g[n]
        BY <2>5, <2>7, <2>10
      <4>2. QED BY <2>5, <2>10, <4>1
    <3>2. \A n \in 1 .. Len(f) : n # Len(f) => n \in 1 .. Len(h) /\ h[n] = f[n]
      BY <2>5, <2>7, <2>10
    <3>3. QED BY <1>2, <2>7, <2>10, <2>12, <3>1, <3>2 DEF h, LinesOn
  <2>11. QED BY <2>9, <2>10
<1>3. QED BY <1>1, <1>2

-----------------------------------------------------------------------------
(* Every step keeps the calls apart and the copy true. *)

(* What was handed out, and what was named, stays so; only a return acknowledges. *)
LEMMA HistoryGrows ==
  ASSUME TypeOK, NEW p \in Proc, Grouped(p)
  PROVE  /\ minted \subseteq minted' /\ doomed \subseteq doomed' /\ tears \in Nat
         /\ ~Return(p) => UNCHANGED <<acked, gone>>
<1>1. tears \in Nat
  BY DEF TypeOK
<1>2. CASE Begins(p)
  BY <1>1, <1>2 DEF Begins
<1>3. CASE BatchWritten(p)
  BY <1>1, <1>3 DEF BatchWritten
<1>4. CASE Leaves(p)
  BY <1>1, <1>4 DEF Leaves
<1>5. CASE Quiet(p) \/ LineWritten(p) \/ KeptRead(p) \/ KeptWritten(p) \/ KeptInstalled(p)
  BY <1>1, <1>5 DEF Quiet, LineWritten, KeptRead, KeptWritten, KeptInstalled, history
<1>6. QED BY <1>2, <1>3, <1>4, <1>5 DEF Grouped

(* A process that moves has a job again. *)
LEMMA MoverHasJob ==
  ASSUME TypeOK, Named, NEW p \in Proc, Job(p), Grouped(p)
  PROVE  Job(p)'
<1>1. minted \subseteq minted' /\ doomed \subseteq doomed'
  BY HistoryGrows
<1>2. CASE Begins(p)
  <2>1. CASE proc'[p].op = "append"
    <3>1. PICK i \in Id \ minted : proc'[p].ids = {i} /\ minted' = minted \union {i} /\ acked' = acked
      BY <1>2, <2>1 DEF Begins
    <3>2. i \notin acked
      BY <3>1 DEF TypeOK
    <3>3. QED BY <1>2, <2>1, <3>1, <3>2 DEF Begins, Job
  <2>2. CASE proc'[p].op = "mark"
    <3>1. PICK i \in Present(Content) : proc'[p].ids = {i} /\ doomed' = doomed \union {i} /\ minted' = minted
      BY <1>2, <2>2 DEF Begins
    <3>2. i \in minted
      BY <3>1 DEF Present, Named, NamedBy
    <3>3. QED BY <1>2, <2>2, <3>1, <3>2 DEF Begins, Job
  <2>3. CASE proc'[p].op \in {"batch", "compact"}
    BY <1>2, <2>3 DEF Begins, Job
  <2>4. QED BY <1>2, <2>1, <2>2, <2>3 DEF Begins
<1>3. CASE Leaves(p)
  BY <1>3 DEF Leaves, Job, Idle
<1>4. CASE Quiet(p)
  BY <1>1, <1>4 DEF Quiet, SameCall, Job, history
<1>5. CASE LineWritten(p)
  BY <1>1, <1>5 DEF LineWritten, SameCall, Job, history
<1>6. CASE BatchWritten(p)
  BY <1>1, <1>6 DEF BatchWritten, SameCall, Job
<1>7. CASE KeptRead(p)
  BY <1>1, <1>7 DEF KeptRead, SameCall, Job, history
<1>8. CASE KeptWritten(p)
  BY <1>1, <1>8 DEF KeptWritten, SameCall, Job, history
<1>9. CASE KeptInstalled(p)
  BY <1>1, <1>9 DEF KeptInstalled, SameCall, Job, history
<1>10. QED BY <1>2, <1>3, <1>4, <1>5, <1>6, <1>7, <1>8, <1>9 DEF Grouped

(* Nobody takes over the job of another process. *)
LEMMA CallsStayApart ==
  ASSUME TypeOK, Named, CallInv, NEW p \in Proc, Grouped(p)
  PROVE  CallInv'
<1>1. Moves(p)
  BY DEF Grouped, Begins, Quiet, Leaves, LineWritten, BatchWritten, KeptRead, KeptWritten, KeptInstalled
<1>2. /\ minted \subseteq minted' /\ doomed \subseteq doomed'
      /\ ~Return(p) => UNCHANGED <<acked, gone>>
  BY HistoryGrows
<1>3. Job(p)'
  BY MoverHasJob DEF CallInv, Jobs
<1>4. ASSUME NEW q \in Proc \ {p} PROVE Job(q)'
  <2>1. proc'[q] = proc[q] /\ Job(q)
    BY <1>1 DEF Moves, CallInv, Jobs
  <2>2. proc[q].op = "append" => proc[q].ids \cap acked' = {}
    <3> SUFFICES ASSUME proc[q].op = "append" PROVE proc[q].ids \cap acked' = {}
      OBVIOUS
    <3>1. CASE Return(p) /\ proc[p].op = "append"
      <4>1. acked' = acked \union proc[p].ids
        BY <3>1 DEF Return
      <4>2. PICK i \in minted : proc[q].ids = {i}
        BY <2>1 DEF Job
      <4>3. PICK j \in minted : proc[p].ids = {j}
        BY <3>1 DEF CallInv, Jobs, Job
      <4>4. i # j
        BY <3>1, <4>2, <4>3 DEF CallInv, OneAppender
      <4>5. QED BY <2>1, <4>1, <4>2, <4>3, <4>4 DEF Job
    <3>2. CASE ~(Return(p) /\ proc[p].op = "append")
      <4>1. acked' = acked
        BY <1>2, <3>2 DEF Return
      <4>2. QED BY <2>1, <4>1 DEF Job
    <3>3. QED BY <3>1, <3>2
  <2>3. QED BY <1>2, <2>1, <2>2 DEF Job
<1>5. ASSUME NEW q \in Proc \ {p}, proc'[p].op = "append", proc'[q].op = "append",
             proc'[p].ids = proc'[q].ids
      PROVE  FALSE
  <2>1. proc'[q] = proc[q]
    BY <1>1 DEF Moves
  <2>2. PICK i \in minted : proc[q].ids = {i}
    BY <1>5, <2>1 DEF CallInv, Jobs, Job
  <2>3. CASE Begins(p)
    BY <1>5, <2>1, <2>2, <2>3 DEF Begins
  <2>4. CASE SameCall(p)
    BY <1>5, <2>1, <2>4 DEF SameCall, CallInv, OneAppender
  <2>5. QED BY <1>5, <2>3, <2>4 DEF Grouped, Quiet, Leaves, LineWritten, BatchWritten, KeptRead, KeptWritten,
                             KeptInstalled, Idle
<1>6. OneAppender'
  <2> SUFFICES ASSUME NEW q \in Proc, NEW r \in Proc, proc'[q].op = "append", proc'[r].op = "append",
                      proc'[q].ids = proc'[r].ids, q # r
               PROVE  FALSE
    BY DEF OneAppender
  <2>1. CASE q = p \/ r = p
    BY <1>5, <2>1
  <2>2. CASE q # p /\ r # p
    BY <1>1, <2>2 DEF Moves, CallInv, OneAppender
  <2>3. QED BY <2>1, <2>2
<1>7. QED BY <1>3, <1>4, <1>6 DEF CallInv, Jobs

(* Only a process that writes the store changes what the path holds. *)
LEMMA OnlyWritersWrite ==
  ASSUME LockInv, NEW p \in Proc, Grouped(p)
  PROVE  /\ Content' # Content => Writing(p) /\ (LineWritten(p) \/ BatchWritten(p) \/ KeptInstalled(p))
         /\ Content' # Content => \A q \in Proc \ {p} : ~Writing(q)
         /\ KeptWritten(p) => \A q \in Proc \ {p} : ~Writing(q)
<1>1. LineWritten(p) \/ BatchWritten(p) \/ KeptInstalled(p) \/ KeptWritten(p) => Writing(p)
  BY DEF LineWritten, BatchWritten, KeptInstalled, KeptWritten, Writing
<1>2. Writing(p) => \A q \in Proc \ {p} : ~Writing(q)
  BY WritingAlone
<1>3. Content' = Content \/ LineWritten(p) \/ BatchWritten(p) \/ KeptInstalled(p)
  BY DEF Grouped, Begins, Quiet, Leaves, KeptRead, KeptWritten
<1>4. QED BY <1>1, <1>2, <1>3

(* Compact's copy stays the copy of the file it will replace: whoever writes the store is alone. *)
LEMMA CopyStaysTrue ==
  ASSUME LockInv, TypeOK, Copying, NEW p \in Proc, Grouped(p)
  PROVE  Copying'
<1>1. Moves(p)
  BY DEF Grouped, Begins, Quiet, Leaves, LineWritten, BatchWritten, KeptRead, KeptWritten, KeptInstalled
<1>2. ASSUME NEW q \in Proc \ {p}, proc[q].pc \in {"rewrite", "swap"}
      PROVE  Content' = Content /\ ~KeptWritten(p)
  <2>1. Writing(q)
    BY <1>2 DEF LockInv, Compacting, Writing
  <2>2. QED BY <2>1, OnlyWritersWrite
<1>3. ASSUME NEW q \in Proc \ {p}
      PROVE  /\ proc'[q].pc = "rewrite" => buf'[q] = Kept(Content)'
             /\ proc'[q].pc = "swap" /\ tmp'.there => tmp'.lines = Kept(Content)'
  <2>1. proc'[q] = proc[q]
    BY <1>1 DEF Moves
  <2>2. buf'[q] = buf[q]
    BY DEF Grouped, Begins, Quiet, Leaves, LineWritten, BatchWritten, KeptRead, KeptWritten, KeptInstalled, TypeOK
  <2>3. tmp' = tmp \/ ~tmp'.there \/ KeptWritten(p)
    BY DEF Grouped, Begins, Quiet, Leaves, LineWritten, BatchWritten, KeptRead, KeptInstalled, NoTmp
  <2>4. CASE proc[q].pc = "rewrite"
    BY <1>2, <2>1, <2>2, <2>4 DEF Copying
  <2>5. CASE proc[q].pc = "swap"
    BY <1>2, <2>1, <2>3, <2>5 DEF Copying
  <2>6. QED BY <2>1, <2>4, <2>5
<1>4. proc'[p].pc = "rewrite" => buf'[p] = Kept(Content)'
  <2> SUFFICES ASSUME proc'[p].pc = "rewrite" PROVE buf'[p] = Kept(Content)'
    OBVIOUS
  <2>1. KeptRead(p)
    BY DEF Grouped, Begins, Quiet, Leaves, LineWritten, BatchWritten, KeptWritten, KeptInstalled, Idle
  <2>2. buf'[p] = Kept(Content) /\ Content' = Content
    BY <2>1 DEF KeptRead, TypeOK
  <2>3. QED BY <2>2
<1>5. proc'[p].pc = "swap" /\ tmp'.there => tmp'.lines = Kept(Content)'
  <2> SUFFICES ASSUME proc'[p].pc = "swap" PROVE tmp'.lines = Kept(Content)'
    OBVIOUS
  <2>1. KeptWritten(p)
    BY DEF Grouped, Begins, Quiet, Leaves, LineWritten, BatchWritten, KeptRead, KeptInstalled, Idle
  <2>2. tmp'.lines = buf[p] /\ Content' = Content /\ proc[p].pc = "rewrite"
    BY <2>1 DEF KeptWritten, Tmp
  <2>3. QED BY <2>2 DEF Copying
<1>6. QED BY <1>3, <1>4, <1>5 DEF Copying

-----------------------------------------------------------------------------
(* Every step keeps the lines named. *)

(* Where the lines of a file come from when one line was written to it. *)
LEMMA LinesAreOldOrNew ==
  ASSUME NEW f \in Seq(Line), NEW l, NEW wrote, NEW tail, NEW g, OneLineOn(f, l, wrote, tail, g)
  PROVE  \A n \in 1 .. Len(g) :
           \/ g[n].kind = "corrupt"
           \/ n \in 1 .. Len(f) /\ g[n].kind = f[n].kind /\ g[n].id = f[n].id
           \/ wrote = "none" /\ n = Len(g) /\ g[n].kind = l.kind /\ g[n].id = l.id
<1> SUFFICES ASSUME NEW n \in 1 .. Len(g)
             PROVE  \/ g[n].kind = "corrupt"
                    \/ n \in 1 .. Len(f) /\ g[n].kind = f[n].kind /\ g[n].id = f[n].id
                    \/ wrote = "none" /\ n = Len(g) /\ g[n].kind = l.kind /\ g[n].id = l.id
  OBVIOUS
<1>1. CASE wrote = "none" /\ ~Unterminated(f)
  <2> DEFINE k == [kind |-> l.kind, id |-> l.id, tail |-> tail]
  <2>1. g = Append(f, k) /\ k.kind = l.kind /\ k.id = l.id
    BY <1>1 DEF OneLineOn
  <2> HIDE DEF k
  <2>2. Len(g) = Len(f) + 1 /\ g[Len(f) + 1] = k /\ \A m \in 1 .. Len(f) : g[m] = f[m]
    BY <2>1
  <2>3. n \in 1 .. Len(f) \/ n = Len(f) + 1
    BY <2>2
  <2>4. QED BY <1>1, <2>1, <2>2, <2>3
<1>2. CASE wrote # "none" \/ Unterminated(f)
  <2>1. Len(g) = Len(f) /\ (\A m \in 1 .. Len(f) - 1 : g[m] = f[m]) /\ g[Len(f)].id = f[Len(f)].id
        /\ (g[Len(f)].kind = "corrupt" \/ g[Len(f)].kind = f[Len(f)].kind)
    BY <1>2 DEF OneLineOn
  <2>2. CASE n = Len(f)
    BY <2>1, <2>2
  <2>3. CASE n # Len(f)
    <3>1. n \in 1 .. Len(f) - 1
      BY <2>1, <2>3
    <3>2. QED BY <2>1, <3>1
  <2>4. QED BY <2>2, <2>3
<1>3. QED BY <1>1, <1>2

(* One turn of append's loop, as the file sees it. *)
LEMMA LineIsWritten ==
  ASSUME TypeOK, CallInv, OwnLine, NEW p \in Proc, LineWritten(p)
  PROVE  /\ LineOf(p) \in Line /\ Content \in Seq(Line) /\ proc'[p].wrote \in Ending
         /\ OneLineOn(Content, LineOf(p), proc[p].wrote, proc'[p].wrote, Content')
<1>1. Job(p) /\ proc[p].op \in {"append", "mark"} /\ proc[p] \in ProcState
  BY DEF CallInv, Jobs, LineWritten, TypeOK
<1>2. LineOf(p) \in Line
  <2>1. LineIsOfJob(p)
    BY <1>1, LineOfJob
  <2>2. QED BY <2>1 DEF LineIsOfJob
<1>3. Content \in Seq(Line)
  BY ContentIsTyped
<1>4. proc'[p].wrote \in Progress(proc[p].wrote) /\ Content' = Put(Content, LineOf(p), proc[p].wrote, proc'[p].wrote)
  BY DEF LineWritten
<1>5. proc'[p].wrote \in Ending
  <2> DEFINE w == proc[p].wrote
             t == proc'[p].wrote
  <2>1. t \in Progress(w)
    BY <1>4
  <2> HIDE DEF w, t
  <2>2. t \in Ending
    BY <2>1, ProgressEnds
  <2>3. QED BY <2>2 DEF t
<1>6. proc[p].wrote \in Ending \union {"none"}
  BY <1>1 DEF ProcState
<1>7. proc[p].wrote # "none" => Content # <<>>
  BY <1>1 DEF OwnLine
<1>8. OneLineOn(Content, LineOf(p), proc[p].wrote, proc'[p].wrote, Content')
  <2> DEFINE w == proc[p].wrote
             t == proc'[p].wrote
             f == Content
             g == Content'
             l == LineOf(p)
  <2>1. f \in Seq(Line) /\ l \in Line /\ w \in Ending \union {"none"} /\ t \in Ending /\ (w # "none" => f # <<>>)
        /\ g = Put(f, l, w, t)
    BY <1>2, <1>3, <1>4, <1>5, <1>6, <1>7
  <2> HIDE DEF w, t, f, g, l
  <2>2. OneLineOn(f, l, w, t, g)
    BY <2>1, PutLines
  <2>3. QED BY <2>2 DEF w, t, f, g, l
<1>9. QED BY <1>2, <1>3, <1>5, <1>8

(* A batch of markers, as the file sees it. *)
LEMMA BatchIsWritten ==
  ASSUME TypeOK, Bounded, CallInv, NEW p \in Proc, BatchWritten(p)
  PROVE  /\ LinesOn(Content, Markers(proc[p].ids), Content') /\ Content \in Seq(Line)
         /\ Markers(proc[p].ids) \in Seq(Line)
         /\ \A n \in 1 .. Len(Markers(proc[p].ids)) : \E i \in proc[p].ids : Markers(proc[p].ids)[n] = Mark(i)
         /\ \A i \in proc[p].ids : \E n \in 1 .. Len(Markers(proc[p].ids)) : Markers(proc[p].ids)[n] = Mark(i)
<1>1. proc[p].ids \subseteq minted /\ minted \subseteq Id /\ IsFiniteSet(minted)
  BY DEF BatchWritten, CallInv, Jobs, Job, TypeOK, Bounded
<1> DEFINE S == proc[p].ids
           s == Markers(S)
<1>2. S \in SUBSET Id /\ IsFiniteSet(S)
  BY <1>1, FS_Subset
<1> HIDE DEF S
<1>3. /\ s \in Seq(Line)
      /\ \A n \in 1 .. Len(s) : \E i \in S : s[n] = Mark(i)
      /\ \A i \in S : \E n \in 1 .. Len(s) : s[n] = Mark(i)
  BY <1>2, MarkersAreTerminated
<1>4. Content' = PutAll(Content, s) /\ Content \in Seq(Line)
  BY ContentIsTyped DEF BatchWritten, S
<1> HIDE DEF s
<1>5. \A n \in 1 .. Len(s) : s[n].tail = "nl"
  <2> SUFFICES ASSUME NEW n \in 1 .. Len(s) PROVE s[n].tail = "nl"
    OBVIOUS
  <2>1. PICK i \in S : s[n] = Mark(i)
    BY <1>3
  <2>2. QED BY <2>1 DEF Mark
<1>6. LinesOn(Content, s, PutAll(Content, s))
  BY <1>3, <1>4, <1>5, PutAllLines
<1>7. QED BY <1>3, <1>4, <1>6 DEF s, S

(* No line is of an id nobody handed out, no marker of one nobody named. *)
LEMMA NamesStayTrue ==
  ASSUME LockInv, TypeOK, Bounded, CallInv, FileInv, NEW p \in Proc, Grouped(p)
  PROVE  Named'
<1>1. minted \subseteq minted' /\ doomed \subseteq doomed'
  BY HistoryGrows
<1>2. \A n \in DOMAIN Content : NamedBy(Content[n])
  BY DEF FileInv, Named
<1>3. Content \in Seq(Line)
  BY ContentIsTyped
<1>4. ASSUME NEW l, NEW k, NamedBy(l), k.kind = l.kind, k.id = l.id PROVE NamedBy(k)'
  BY <1>1, <1>4 DEF NamedBy
<1>5. CASE Content' = Content
  <2> SUFFICES ASSUME NEW n \in DOMAIN Content PROVE NamedBy(Content[n])'
    BY <1>5 DEF Named
  <2>1. NamedBy(Content[n])
    BY <1>2
  <2>2. QED BY <1>1, <1>5, <2>1 DEF NamedBy
<1>6. CASE LineWritten(p)
  <2> SUFFICES ASSUME NEW n \in DOMAIN Content' PROVE NamedBy(Content[n])'
    BY DEF Named
  <2>1. /\ LineOf(p) \in Line /\ OneLineOn(Content, LineOf(p), proc[p].wrote, proc'[p].wrote, Content')
    BY <1>6, LineIsWritten DEF FileInv
  <2>2. Content' \in Seq(Line) /\ n \in 1 .. Len(Content')
    BY <2>1 DEF OneLineOn
  <2>3. \/ Content'[n].kind = "corrupt"
        \/ n \in 1 .. Len(Content) /\ Content'[n].kind = Content[n].kind /\ Content'[n].id = Content[n].id
        \/ proc[p].wrote = "none" /\ n = Len(Content')
           /\ Content'[n].kind = LineOf(p).kind /\ Content'[n].id = LineOf(p).id
    BY <1>3, <2>1, <2>2, LinesAreOldOrNew
  <2>4. NamedBy(LineOf(p))
    <3>1. LineIsOfJob(p) /\ Job(p)
      BY <1>6, LineOfJob DEF LineWritten, CallInv, Jobs
    <3>2. QED BY <1>6, <3>1 DEF LineIsOfJob, Job, NamedBy, LineWritten, Rec, Mark
  <2>5. QED BY <1>1, <1>2, <1>3, <2>3, <2>4 DEF NamedBy
<1>7. CASE BatchWritten(p)
  <2> SUFFICES ASSUME NEW n \in DOMAIN Content' PROVE NamedBy(Content[n])'
    BY DEF Named
  <2>1. /\ LinesOn(Content, Markers(proc[p].ids), Content')
        /\ \A k \in 1 .. Len(Markers(proc[p].ids)) : \E i \in proc[p].ids : Markers(proc[p].ids)[k] = Mark(i)
    BY <1>7, BatchIsWritten
  <2>2. n \in 1 .. Len(Content')
    BY <2>1 DEF LinesOn
  <2>3. \/ n \in 1 .. Len(Content) /\ Content'[n] = Content[n]
        \/ Content'[n].kind = "corrupt"
        \/ \E k \in 1 .. Len(Markers(proc[p].ids)) : Content'[n] = Markers(proc[p].ids)[k]
    BY <2>1, <2>2 DEF LinesOn
  <2>4. \/ n \in 1 .. Len(Content) /\ Content'[n] = Content[n]
        \/ Content'[n].kind = "corrupt"
        \/ \E i \in proc[p].ids : Content'[n] = Mark(i)
    BY <2>1, <2>3
  <2>5. proc[p].ids \subseteq doomed'
    BY <1>7 DEF BatchWritten
  <2>6. QED BY <1>1, <1>2, <1>3, <2>4, <2>5 DEF NamedBy, Mark
<1>8. CASE KeptInstalled(p) /\ Content' # Content
  <2> SUFFICES ASSUME NEW n \in DOMAIN Content' PROVE NamedBy(Content[n])'
    BY DEF Named
  <2>1. Content' = Kept(Content)
    BY <1>8 DEF KeptInstalled, FileInv, Copying
  <2>2. n \in 1 .. Len(Kept(Content))
    BY <1>3, <2>1, KeptLines
  <2>3. PICK i \in 1 .. Len(Content) :
          IsLive(Content, Content[i]) /\ Kept(Content)[n] = [kind |-> "rec", id |-> Content[i].id, tail |-> "nl"]
    BY <1>3, <2>2, KeptLines
  <2>4. Content[i].kind = "rec" /\ NamedBy(Content[i])
    BY <1>2, <1>3, <2>3 DEF IsLive
  <2>5. QED BY <1>1, <2>1, <2>3, <2>4 DEF NamedBy
<1>9. QED BY <1>5, <1>6, <1>7, <1>8, OnlyWritersWrite

(* A record whose line is still to be begun is in no line and named by nobody, whoever moves. *)
LEMMA PendingStaysFresh ==
  ASSUME LockInv, TypeOK, Bounded, CallInv, FileInv, NEW p \in Proc, Grouped(p)
  PROVE  Pending'
<1>1. Moves(p)
  BY DEF Grouped, Begins, Quiet, Leaves, LineWritten, BatchWritten, KeptRead, KeptWritten, KeptInstalled
<1>2. Content \in Seq(Line)
  BY ContentIsTyped
<1>3. ASSUME NEW q \in Proc, NEW i \in Id, proc'[q].op = "append", proc'[q].wrote = "none", proc'[q].ids = {i},
             ~Begins(p) \/ q # p
      PROVE  /\ proc[q].op = "append" /\ proc[q].wrote = "none" /\ proc[q].ids = {i} /\ Fresh(i)
  <2>1. CASE q # p
    BY <1>1, <1>3, <2>1 DEF Moves, FileInv, Pending
  <2>2. CASE q = p
    <3>1. proc[q].op = "append" /\ proc[q].ids = {i}
      BY <1>3, <2>2 DEF Grouped, Quiet, Leaves, LineWritten, BatchWritten, KeptRead, KeptWritten, KeptInstalled,
         SameCall, Idle
    <3>2. ~LineWritten(p)
      BY <1>3, <2>2, LineIsWritten DEF FileInv, Ending
    <3>3. proc[q].wrote = "none"
      BY <1>3, <2>2, <3>1, <3>2 DEF Grouped, Quiet, Leaves, BatchWritten, KeptRead, KeptWritten, KeptInstalled, Idle
    <3>4. QED BY <3>1, <3>3 DEF FileInv, Pending
  <2>3. QED BY <2>1, <2>2
<1>4. ASSUME NEW i \in Id, Fresh(i), i \notin doomed', Content' = Content PROVE Fresh(i)'
  BY <1>4 DEF Fresh
<1>5. ASSUME NEW q \in Proc, NEW i \in Id, proc'[q].op = "append", proc'[q].wrote = "none", proc'[q].ids = {i},
             q # p
      PROVE  i \notin doomed'
  <2>1. Fresh(i)
    BY <1>3, <1>5
  <2>2. \A j \in Present(Content) : j # i
    BY <2>1 DEF Fresh, Present
  <2>3. doomed' = doomed \/ (\E j \in Present(Content) : doomed' = doomed \union {j})
        \/ \E S \in SUBSET Present(Content) : doomed' = doomed \union S
    BY DEF Grouped, Begins, Quiet, Leaves, LineWritten, BatchWritten, KeptRead, KeptWritten, KeptInstalled, history
  <2>4. QED BY <2>1, <2>2, <2>3 DEF Fresh
<1>6. ASSUME NEW q \in Proc, NEW i \in Id, proc'[q].op = "append", proc'[q].wrote = "none", proc'[q].ids = {i}
      PROVE  Fresh(i)'
  <2>1. CASE Begins(p) /\ q = p
    <3>1. i \notin minted /\ doomed' = doomed /\ Content' = Content
      BY <1>6, <2>1 DEF Begins
    <3>2. Fresh(i)
      BY <3>1 DEF Fresh, FileInv, Named, NamedBy, TypeOK
    <3>3. QED BY <1>4, <3>1, <3>2 DEF Fresh
  <2>2. CASE ~Begins(p) \/ q # p
    <3>1. proc[q].op = "append" /\ proc[q].wrote = "none" /\ proc[q].ids = {i} /\ Fresh(i)
      BY <1>3, <1>6, <2>2
    <3>2. i \notin doomed'
      <4>1. CASE q # p
        BY <1>5, <1>6, <4>1
      <4>2. CASE q = p
        BY <2>2, <3>1, <4>2 DEF Grouped, Quiet, Leaves, LineWritten, BatchWritten, KeptRead, KeptWritten,
           KeptInstalled, history, Fresh
      <4>3. QED BY <4>1, <4>2
    <3>3. CASE Content' = Content
      BY <1>4, <3>1, <3>2, <3>3
    <3>4. CASE LineWritten(p)
      <4>1. q # p
        BY <1>6, <3>4, LineIsWritten DEF FileInv, Ending
      <4>2. LineOf(p).kind = "rec" => LineOf(p).id # i
        <5>1. LineIsOfJob(p)
          BY <3>4, LineOfJob DEF LineWritten, CallInv, Jobs
        <5>2. proc[p].op = "append" => proc[p].ids # {i}
          BY <3>1, <4>1 DEF CallInv, OneAppender
        <5>3. QED BY <5>1, <5>2 DEF LineIsOfJob, Rec, Mark
      <4>3. OneLineOn(Content, LineOf(p), proc[p].wrote, proc'[p].wrote, Content')
        BY <3>4, LineIsWritten DEF FileInv
      <4>4. Content' \in Seq(Line)
        BY <4>3 DEF OneLineOn
      <4>5. \A n \in 1 .. Len(Content') :
              \/ Content'[n].kind = "corrupt"
              \/ n \in 1 .. Len(Content) /\ Content'[n].kind = Content[n].kind /\ Content'[n].id = Content[n].id
              \/ proc[p].wrote = "none" /\ n = Len(Content')
                 /\ Content'[n].kind = LineOf(p).kind /\ Content'[n].id = LineOf(p).id
        BY <1>2, <4>3, LinesAreOldOrNew
      <4>6. \A n \in 1 .. Len(Content') : Content'[n].kind = "rec" => Content'[n].id # i
        BY <1>2, <3>1, <4>2, <4>5 DEF Fresh
      <4>7. QED BY <3>2, <4>4, <4>6 DEF Fresh
    <3>5. CASE BatchWritten(p)
      <4>1. /\ LinesOn(Content, Markers(proc[p].ids), Content')
            /\ \A k \in 1 .. Len(Markers(proc[p].ids)) : \E j \in proc[p].ids : Markers(proc[p].ids)[k] = Mark(j)
        BY <3>5, BatchIsWritten
      <4>2. Content' \in Seq(Line)
        BY <4>1 DEF LinesOn
      <4>3. \A n \in 1 .. Len(Content') :
              \/ n \in 1 .. Len(Content) /\ Content'[n] = Content[n]
              \/ Content'[n].kind = "corrupt"
              \/ \E k \in 1 .. Len(Markers(proc[p].ids)) : Content'[n] = Markers(proc[p].ids)[k]
        BY <4>1 DEF LinesOn
      <4>4. \A n \in 1 .. Len(Content') : Content'[n].kind = "rec" => Content'[n].id # i
        <5> SUFFICES ASSUME NEW n \in 1 .. Len(Content'), Content'[n].kind = "rec" PROVE Content'[n].id # i
          OBVIOUS
        <5>1. ~ \E k \in 1 .. Len(Markers(proc[p].ids)) : Content'[n] = Markers(proc[p].ids)[k]
          <6> SUFFICES ASSUME NEW k \in 1 .. Len(Markers(proc[p].ids)), Content'[n] = Markers(proc[p].ids)[k]
                       PROVE  FALSE
            OBVIOUS
          <6>1. PICK j \in proc[p].ids : Markers(proc[p].ids)[k] = Mark(j)
            BY <4>1
          <6>2. QED BY <6>1 DEF Mark
        <5>2. n \in 1 .. Len(Content) /\ Content'[n] = Content[n]
          BY <4>3, <5>1
        <5>3. QED BY <1>2, <3>1, <5>2 DEF Fresh
      <4>5. QED BY <3>2, <4>2, <4>4 DEF Fresh
    <3>6. CASE KeptInstalled(p) /\ Content' # Content
      <4>1. Content' = Kept(Content)
        BY <3>6 DEF KeptInstalled, FileInv, Copying
      <4> DEFINE k == Kept(Content)
      <4>2. /\ k \in Seq(Line)
            /\ \A n \in 1 .. Len(k) : \E m \in 1 .. Len(Content) :
                 IsLive(Content, Content[m]) /\ k[n] = [kind |-> "rec", id |-> Content[m].id, tail |-> "nl"]
        BY <1>2, KeptLines
      <4> HIDE DEF k
      <4>3. \A n \in 1 .. Len(k) : k[n].id # i
        <5> SUFFICES ASSUME NEW n \in 1 .. Len(k) PROVE k[n].id # i
          OBVIOUS
        <5>1. PICK m \in 1 .. Len(Content) :
                 IsLive(Content, Content[m]) /\ k[n] = [kind |-> "rec", id |-> Content[m].id, tail |-> "nl"]
          BY <4>2
        <5>2. QED BY <1>2, <3>1, <5>1 DEF Fresh, IsLive
      <4>4. Content' = k
        BY <4>1 DEF k
      <4>5. QED BY <3>2, <4>2, <4>3, <4>4 DEF Fresh
    <3>7. QED BY <3>3, <3>4, <3>5, <3>6, OnlyWritersWrite
  <2>3. QED BY <2>1, <2>2
<1>7. QED
  <2> SUFFICES ASSUME NEW q \in Proc, proc'[q].op = "append", proc'[q].wrote = "none", NEW i \in proc'[q].ids
               PROVE  Fresh(i)'
    BY DEF Pending
  <2>1. Job(q)' /\ minted' \subseteq Id
    <3>1. CallInv'
      BY CallsStayApart DEF FileInv
    <3>2. minted' \subseteq Id
      BY DEF TypeOK, Grouped, Begins, Quiet, Leaves, LineWritten, BatchWritten, KeptRead, KeptWritten, KeptInstalled,
         history
    <3>3. QED BY <3>1, <3>2 DEF CallInv, Jobs
  <2>2. PICK j \in minted' : proc'[q].ids = {j}
    BY <2>1 DEF Job
  <2>3. i = j /\ i \in Id
    BY <2>1, <2>2
  <2>4. QED BY <1>6, <2>2, <2>3

-----------------------------------------------------------------------------
(* Every step keeps the types and the bounds. *)

(* What a call writes depends on the call. *)
LEMMA SameLine ==
  ASSUME NEW p \in Proc, proc'[p].op = proc[p].op, proc'[p].ids = proc[p].ids
  PROVE  LineOf(p)' = LineOf(p)
BY DEF LineOf

(* Between two turns of append's loop nothing is written after its line: it holds the lock. *)
LEMMA OwnLineStaysLast ==
  ASSUME LockInv, TypeOK, CallInv, OwnLine, NEW p \in Proc, Grouped(p)
  PROVE  OwnLine'
<1> SUFFICES ASSUME NEW q \in Proc, proc'[q].op \in {"append", "mark"}, proc'[q].wrote # "none"
             PROVE  /\ Content' # <<>>
                    /\ \/ LastLine'.kind = "corrupt"
                       \/ LastLine'.kind = LineOf(q)'.kind /\ LastLine'.id = LineOf(q)'.id
                    /\ LastLine'.tail = "nl" <=> proc'[q].wrote = "nl"
  BY DEF OwnLine
<1>1. CASE q # p
  <2>1. proc'[q] = proc[q]
    BY <1>1 DEF Grouped, Begins, Quiet, Leaves, LineWritten, BatchWritten, KeptRead, KeptWritten, KeptInstalled, Moves
  <2>2. Writing(q)
    BY <2>1 DEF CallInv, Jobs, Job, Writing
  <2>3. Content' = Content
    BY <1>1, <2>2, OnlyWritersWrite
  <2>4. LineOf(q)' = LineOf(q) /\ LastLine' = LastLine
    BY <2>1, <2>3, SameLine DEF LastLine
  <2>5. QED BY <2>1, <2>3, <2>4 DEF OwnLine
<1>2. CASE q = p
  <2>1. LineWritten(p)
    BY <1>2 DEF Grouped, Begins, Quiet, Leaves, BatchWritten, KeptRead, KeptWritten, KeptInstalled, SameCall, Idle
  <2>2. OneLineOn(Content, LineOf(p), proc[p].wrote, proc'[p].wrote, Content')
    BY <2>1, LineIsWritten
  <2>3. LineOf(p)' = LineOf(p)
    BY <2>1, SameLine DEF LineWritten, SameCall
  <2>4. LastLine' = Content'[Len(Content')]
    BY DEF LastLine
  <2>5. Content' # <<>> /\ (LastLine'.tail = "nl" <=> proc'[p].wrote = "nl")
    BY <2>2, <2>4 DEF OneLineOn
  <2>6. CASE proc[p].wrote = "none"
    BY <1>2, <2>2, <2>3, <2>4, <2>5, <2>6 DEF OneLineOn
  <2>7. CASE proc[p].wrote # "none"
    <3>1. LastLine.kind = "corrupt" \/ (LastLine.kind = LineOf(p).kind /\ LastLine.id = LineOf(p).id)
      BY <2>1, <2>7 DEF OwnLine, LineWritten
    <3>2. LastLine'.kind = LastLine.kind /\ LastLine'.id = LastLine.id
      BY <2>2, <2>4, <2>7 DEF OneLineOn, LastLine
    <3>3. QED BY <1>2, <2>3, <2>5, <3>1, <3>2
  <2>8. QED BY <2>6, <2>7
<1>3. QED BY <1>1, <1>2

(* Flocks are on inodes that exist. *)
LEMMA LocksAreOfFiles == LockInv => lock \subseteq (1 .. inodes) \X Proc
<1> SUFFICES ASSUME LockInv, NEW l \in lock PROVE l \in (1 .. inodes) \X Proc
  OBVIOUS
<1>1. PICK n \in Nat, p \in Proc : l = <<n, p>>
  BY DEF LockInv, LockTyped
<1>2. Holding(p) /\ n = proc[p].fd
  BY <1>1 DEF LockInv, FlockHeld
<1>3. n \in 1 .. inodes
  BY <1>2 DEF LockInv, FlockHeld, Opened
<1>4. QED BY <1>1, <1>3

(* The histories stay within each other. *)
LEMMA HistoriesStayTyped ==
  ASSUME TypeOK, Bounded, CallInv, Named, NEW p \in Proc, Grouped(p)
  PROVE  /\ minted' \subseteq Id /\ acked' \subseteq minted' /\ doomed' \subseteq minted'
         /\ gone' \subseteq doomed' /\ tears' \in Nat /\ IsFiniteSet(minted')
<1>1. /\ minted \subseteq Id /\ acked \subseteq minted /\ doomed \subseteq minted /\ gone \subseteq doomed
      /\ tears \in Nat /\ IsFiniteSet(minted)
  BY DEF TypeOK, Bounded
<1>2. Present(Content) \subseteq minted
  BY DEF Present, Named, NamedBy
<1>3. Job(p)
  BY DEF CallInv, Jobs
<1>4. CASE Begins(p)
  <2>1. CASE proc'[p].op = "append"
    <3>1. PICK i \in Id : minted' = minted \union {i}
      BY <1>4, <2>1 DEF Begins
    <3>2. IsFiniteSet(minted')
      BY <1>1, <3>1, FS_AddElement
    <3>3. QED BY <1>1, <1>4, <2>1, <3>1, <3>2 DEF Begins
  <2>2. CASE proc'[p].op # "append"
    BY <1>1, <1>2, <1>4, <2>2 DEF Begins
  <2>3. QED BY <2>1, <2>2
<1>5. CASE BatchWritten(p)
  BY <1>1, <1>2, <1>5 DEF BatchWritten
<1>6. CASE Leaves(p)
  <2>1. CASE Return(p)
    <3>1. proc[p].wrote = "nl" \/ proc[p].op = "swapped"
      BY <2>1 DEF Return
    <3>2. /\ proc[p].op = "append" => proc[p].ids \subseteq minted
          /\ proc[p].op \in {"mark", "batch"} => proc[p].ids \subseteq doomed
      BY <1>3, <3>1 DEF Job
    <3>3. QED BY <1>1, <2>1, <3>2 DEF Return
  <2>2. CASE ~Return(p)
    <3>1. tears + Tears(p) \in Nat
      BY <1>1 DEF Tears
    <3>2. QED BY <1>1, <1>6, <2>2, <3>1 DEF Leaves
  <2>3. QED BY <2>1, <2>2
<1>7. CASE Quiet(p) \/ LineWritten(p) \/ KeptRead(p) \/ KeptWritten(p) \/ KeptInstalled(p)
  BY <1>1, <1>7 DEF Quiet, LineWritten, KeptRead, KeptWritten, KeptInstalled, history
<1>8. QED BY <1>4, <1>5, <1>6, <1>7 DEF Grouped

Taking(p) == Request(p) \/ Step(p) \/ WriteRaises(p) \/ Crash(p)

(* The files keep their type and stay within the bound. *)
LEMMA FilesStayBounded ==
  ASSUME OnlyAppendIsShort, LockInv, TypeOK, Bounded, CallInv, FileInv, NEW p \in Proc, Taking(p), Grouped(p),
         IsFiniteSet(minted')
  PROVE  /\ files' \in [1 .. MaxInode -> Seq(Line)] /\ inodes' \in 0 .. MaxInode /\ path' \in 0 .. inodes'
         /\ tmp'.there \in BOOLEAN /\ tmp'.lines \in Seq(Line) /\ buf' \in [Proc -> Seq(Line)]
         /\ Bounded'
<1>1. /\ inodes \in Nat /\ MaxInode \in Nat /\ Cardinality(Started) \in Nat /\ IsFiniteSet(Started)
      /\ inodes <= MaxInode /\ path \in 0 .. inodes /\ proc \in [Proc -> ProcState]
  BY StoreAssumption, FS_CardinalityType DEF TypeOK, Bounded
<1>2. Moves(p)
  BY DEF Grouped, Begins, Quiet, Leaves, LineWritten, BatchWritten, KeptRead, KeptWritten, KeptInstalled
<1>3. Content \in Seq(Line)
  BY ContentIsTyped
<1>4. ASSUME proc'[p].op # "compact" \/ proc[p].op = "compact"
      PROVE  IsFiniteSet(Started') /\ Cardinality(Started') \in Nat /\ Cardinality(Started') <= Cardinality(Started)
  <2>1. Started' \subseteq Started
    BY <1>2, <1>4 DEF Started, Moves
  <2>2. QED BY <1>1, <2>1, FS_Subset, FS_CardinalityType
<1>5. ASSUME NEW n \in Nat, inodes' = inodes + n, path' \in 1 .. inodes',
             inodes' + Cardinality(Started') <= MaxInode, IsFiniteSet(Started'), Cardinality(Started') \in Nat,
             NEW f \in Seq(Line), files' = [files EXCEPT ![path'] = f]
      PROVE  files' \in [1 .. MaxInode -> Seq(Line)] /\ inodes' \in 0 .. MaxInode /\ path' \in 0 .. inodes' /\ Bounded'
  <2>1. inodes' \in 0 .. MaxInode /\ path' \in 1 .. MaxInode /\ path' # 0
    BY <1>1, <1>5
  <2>2. files' \in [1 .. MaxInode -> Seq(Line)]
    BY <1>5, <2>1 DEF TypeOK
  <2>3. \A m \in 1 .. MaxInode : m > inodes' => files'[m] = <<>>
    <3> SUFFICES ASSUME NEW m \in 1 .. MaxInode, m > inodes' PROVE files'[m] = <<>>
      OBVIOUS
    <3>1. m > inodes /\ m # path'
      BY <1>1, <1>5, <2>1
    <3>2. files[m] = <<>>
      BY <3>1 DEF Bounded
    <3>3. QED BY <1>5, <3>1, <3>2 DEF TypeOK
  <2>4. QED BY <1>5, <2>1, <2>2, <2>3 DEF Bounded
<1>6. ASSUME UNCHANGED <<files, inodes, path>>, proc'[p].op # "compact" \/ proc[p].op = "compact" \/ StartCompact(p)
      PROVE  files' \in [1 .. MaxInode -> Seq(Line)] /\ inodes' \in 0 .. MaxInode /\ path' \in 0 .. inodes' /\ Bounded'
  <2>1. IsFiniteSet(Started') /\ inodes + (IF path = 0 THEN 1 ELSE 0) + Cardinality(Started') <= MaxInode
    <3>1. CASE StartCompact(p)
      <4>1. Started' \subseteq Started \union {p}
        BY <1>2 DEF Started, Moves
      <4>2. IsFiniteSet(Started \union {p}) /\ Cardinality(Started \union {p}) <= Cardinality(Started) + 1
        <5>1. IsFiniteSet(Started \cup {p}) /\ Cardinality(Started \cup {p}) =
                IF p \in Started THEN Cardinality(Started) ELSE Cardinality(Started) + 1
          BY <1>1, FS_AddElement
        <5>2. QED BY <1>1, <5>1
      <4>3. IsFiniteSet(Started') /\ Cardinality(Started') <= Cardinality(Started) + 1 /\ Cardinality(Started') \in Nat
        <5>1. IsFiniteSet(Started') /\ Cardinality(Started') <= Cardinality(Started \union {p})
          BY <4>1, <4>2, FS_Subset
        <5>2. Cardinality(Started') \in Nat /\ Cardinality(Started \union {p}) \in Nat
          BY <4>2, <5>1, FS_CardinalityType
        <5>3. QED BY <1>1, <4>2, <5>1, <5>2
      <4>4. inodes + (IF path = 0 THEN 1 ELSE 0) + Cardinality(Started) < MaxInode
        BY <3>1 DEF StartCompact, Started
      <4>5. QED BY <1>1, <4>3, <4>4
    <3>2. CASE proc'[p].op # "compact" \/ proc[p].op = "compact"
      BY <1>1, <1>4, <3>2 DEF Bounded
    <3>3. QED BY <1>6, <3>1, <3>2
  <2>2. QED BY <1>1, <1>6, <2>1 DEF Bounded, TypeOK
<1>7. tmp'.there \in BOOLEAN /\ tmp'.lines \in Seq(Line) /\ buf' \in [Proc -> Seq(Line)]
  <2>1. tmp' = tmp \/ tmp' = NoTmp \/ tmp' = Tmp(buf[p])
    BY DEF Grouped, Begins, Quiet, Leaves, LineWritten, BatchWritten, KeptRead, KeptWritten, KeptInstalled
  <2>2. tmp'.there \in BOOLEAN /\ tmp'.lines \in Seq(Line)
    <3>1. tmp.there \in BOOLEAN /\ tmp.lines \in Seq(Line) /\ buf[p] \in Seq(Line)
      BY DEF TypeOK
    <3>2. NoTmp.there \in BOOLEAN /\ NoTmp.lines \in Seq(Line)
      BY DEF NoTmp
    <3>3. Tmp(buf[p]).there \in BOOLEAN /\ Tmp(buf[p]).lines \in Seq(Line)
      BY <3>1 DEF Tmp
    <3>4. QED BY <2>1, <3>1, <3>2, <3>3
  <2>3. buf' = buf \/ buf' = [buf EXCEPT ![p] = <<>>] \/ buf' = [buf EXCEPT ![p] = Kept(Content)]
    <3>1. CASE KeptRead(p)
      BY <3>1 DEF KeptRead
    <3>2. CASE Request(p)
      BY <3>2 DEF Request, StartAppend, StartTombstone, StartBatch, StartCompact, Start
    <3>3. CASE CompactRead(p)
      <4>1. Writing(p)
        BY <3>3 DEF CompactRead, Writing
      <4>2. proc[p].fd = path /\ path \in 1 .. inodes
        BY <4>1, WritingAlone
      <4>3. Content = files[proc[p].fd]
        BY <1>1, <4>2 DEF Content
      <4>4. QED BY <3>3, <4>3 DEF CompactRead
    <3>4. CASE (Step(p) /\ ~CompactRead(p)) \/ WriteRaises(p) \/ Crash(p)
      BY <3>4 DEF Step, OpenStore, OpenMissing, UnlinkTmp, Flock, CompareInode, WriteLine, WriteBatch,
         BatchNotFound, CompactWriteTmp, CompactReplace, Return, WriteRaises, Crash
    <3>5. QED BY <3>2, <3>3, <3>4 DEF Taking
  <2>4. Kept(Content) \in Seq(Line)
    BY <1>3, KeptLines
  <2>5. buf \in [Proc -> Seq(Line)]
    BY DEF TypeOK
  <2>6. buf' \in [Proc -> Seq(Line)]
    <3>1. CASE buf' = [buf EXCEPT ![p] = <<>>]
      <4>1. <<>> \in Seq(Line)
        OBVIOUS
      <4>2. QED BY <2>5, <3>1, <4>1
    <3>2. CASE buf' = [buf EXCEPT ![p] = Kept(Content)]
      BY <2>4, <2>5, <3>2
    <3>3. QED BY <2>3, <2>5, <3>1, <3>2
  <2>7. QED BY <2>2, <2>6
<1>8. CASE UNCHANGED <<files, inodes, path>>
  <2>1. proc'[p].op # "compact" \/ proc[p].op = "compact" \/ StartCompact(p)
    <3>1. CASE Request(p)
      BY <1>1, <3>1 DEF Request, StartAppend, StartTombstone, StartBatch, Start
    <3>2. CASE ~Request(p)
      <4>1. ~Begins(p)
        BY <3>2 DEF Taking, Begins, Step, OpenStore, OpenMissing, UnlinkTmp, Flock, CompareInode, WriteLine, WriteBatch,
         BatchNotFound, CompactRead, CompactWriteTmp, CompactReplace, Return, WriteRaises, Crash
      <4>2. QED BY <4>1 DEF Grouped, Quiet, Leaves, LineWritten, BatchWritten, KeptRead, KeptWritten, KeptInstalled,
                        SameCall, Idle
    <3>3. QED BY <3>1, <3>2
  <2>2. QED BY <1>6, <1>7, <1>8, <2>1
<1>9. CASE OpenStore(p) /\ path = 0
  <2>1. inodes' = inodes + 1 /\ path' = inodes + 1 /\ files' = files
    BY <1>9 DEF OpenStore
  <2>2. proc'[p].op # "compact"
    BY <1>1, <1>9 DEF OpenStore, ProcState
  <2>3. IsFiniteSet(Started') /\ Cardinality(Started') \in Nat /\ Cardinality(Started') <= Cardinality(Started)
    BY <1>4, <2>2
  <2>4. inodes + 1 + Cardinality(Started) <= MaxInode
    BY <1>1, <1>9 DEF Bounded
  <2>5. inodes + 1 \in 1 .. MaxInode
    BY <1>1, <2>4
  <2>6. files[inodes + 1] = <<>>
    BY <1>1, <2>5 DEF Bounded
  <2>7. files' = [files EXCEPT ![inodes + 1] = <<>>]
    <3>1. PICK k \in 1 .. MaxInode : k = inodes + 1
      BY <2>5
    <3>2. files = [files EXCEPT ![k] = files[k]]
      BY DEF TypeOK
    <3>3. files[k] = <<>>
      BY <2>6, <3>1
    <3>4. files = [files EXCEPT ![k] = <<>>]
      BY <3>2, <3>3
    <3>5. files' = [files EXCEPT ![k] = <<>>]
      BY <2>1, <3>4
    <3>6. QED BY <3>1, <3>5
  <2>8. path' \in 1 .. inodes' /\ inodes' + Cardinality(Started') <= MaxInode
    BY <1>1, <2>1, <2>3, <2>4
  <2>9. <<>> \in Seq(Line) /\ files' = [files EXCEPT ![path'] = <<>>]
    <3>1. <<>> \in Seq(Line)
      OBVIOUS
    <3>2. QED BY <2>1, <2>7, <3>1
  <2>10. QED BY <1>5, <1>7, <2>1, <2>3, <2>8, <2>9
<1>10. CASE WriteLine(p) \/ WriteBatch(p)
  <2>1. Writing(p)
    BY <1>10 DEF WriteLine, WriteBatch, Writing
  <2>2. proc[p].fd = path /\ path \in 1 .. inodes /\ inodes' = inodes /\ path' = path
    BY <1>10, <2>1, WritingAlone DEF WriteLine, WriteBatch
  <2>3. PICK f : files' = [files EXCEPT ![path] = f]
    BY <1>10, <2>2 DEF WriteLine, WriteBatch
  <2>4. Content' = f
    BY <1>1, <2>2, <2>3 DEF Content, TypeOK
  <2>5. Content' \in Seq(Line)
    <3>1. LineWritten(p) \/ BatchWritten(p) \/ Content' = Content \/ KeptInstalled(p)
      BY DEF Grouped, Begins, Quiet, Leaves, KeptRead, KeptWritten
    <3>2. LineWritten(p) => Content' \in Seq(Line)
      BY LineIsWritten DEF FileInv, OneLineOn
    <3>3. BatchWritten(p) => Content' \in Seq(Line)
      BY BatchIsWritten DEF LinesOn
    <3>4. QED BY <1>3, <3>1, <3>2, <3>3 DEF KeptInstalled, TypeOK
  <2>6. proc'[p].op # "compact" \/ proc[p].op = "compact"
    BY <1>1, <1>10 DEF WriteLine, WriteBatch, ProcState
  <2>7. QED
    <3>1. IsFiniteSet(Started') /\ Cardinality(Started') \in Nat /\ Cardinality(Started') <= Cardinality(Started)
      BY <1>4, <2>6
    <3>2. inodes + Cardinality(Started') <= MaxInode
      BY <1>1, <3>1 DEF Bounded
    <3>3. files' = [files EXCEPT ![path'] = f] /\ f \in Seq(Line) /\ inodes' = inodes + 0 /\ path' \in 1 .. inodes'
      BY <1>1, <2>2, <2>3, <2>4, <2>5
    <3>4. inodes' + Cardinality(Started') <= MaxInode
      BY <2>2, <3>2
    <3>5. QED BY <1>5, <1>7, <3>1, <3>3, <3>4
<1>11. CASE CompactReplace(p) /\ tmp.there
  <2>1. inodes' = inodes + 1 /\ path' = inodes + 1 /\ files' = [files EXCEPT ![path'] = tmp.lines]
    BY <1>11 DEF CompactReplace
  <2>2. p \in Started
    BY <1>11 DEF CompactReplace, LockInv, Compacting, Started
  <2>3. proc'[p].op = "swapped"
    BY <1>1, <1>11 DEF CompactReplace, ProcState
  <2>4. IsFiniteSet(Started') /\ Cardinality(Started') \in Nat /\ Cardinality(Started') + 1 <= Cardinality(Started)
    <3>1. Started' \subseteq Started \ {p}
      BY <1>2, <2>3 DEF Started, Moves
    <3>2. IsFiniteSet(Started \ {p}) /\ Cardinality(Started \ {p}) = Cardinality(Started) - 1
      BY <1>1, <2>2, FS_RemoveElement
    <3>3. IsFiniteSet(Started') /\ Cardinality(Started') <= Cardinality(Started \ {p})
      BY <3>1, <3>2, FS_Subset
    <3>4. Cardinality(Started') \in Nat
      BY <3>3, FS_CardinalityType
    <3>5. QED BY <1>1, <3>2, <3>3, <3>4
  <2>5. inodes + Cardinality(Started) <= MaxInode
    BY <1>1 DEF Bounded
  <2>6. inodes' + Cardinality(Started') <= MaxInode
    BY <1>1, <2>1, <2>4, <2>5
  <2>7. tmp.lines \in Seq(Line) /\ path' \in 1 .. inodes'
    BY <1>1, <2>1 DEF TypeOK
  <2>8. QED BY <1>5, <1>7, <2>1, <2>4, <2>6, <2>7
<1>12. QED
  <2>1. \/ UNCHANGED <<files, inodes, path>>
        \/ OpenStore(p) /\ path = 0
        \/ WriteLine(p) \/ WriteBatch(p)
        \/ CompactReplace(p) /\ tmp.there
    BY DEF Taking, Request, StartAppend, StartTombstone, StartBatch, StartCompact, Start, Step, OpenStore, OpenMissing,
       UnlinkTmp, Flock, CompareInode, BatchNotFound, CompactRead, CompactWriteTmp, CompactReplace, Return, WriteRaises,
       Crash
  <2>2. QED BY <1>8, <1>9, <1>10, <1>11, <2>1

(* An empty store, nobody running. *)
LEMMA InitBase == Init => Base
<1> SUFFICES ASSUME Init PROVE Base
  OBVIOUS
<1>1. LockInv
  BY InitLockInv
<1>2. TypeOK
  BY <1>1, StoreAssumption DEF Init, TypeOK, LockInv, LockTyped, NoTmp
<1>3. Bounded
  <2>1. Started = {}
    BY DEF Init, Started, Idle
  <2>2. QED BY <2>1, FS_EmptySet, StoreAssumption DEF Init, Bounded
<1>4. Content = <<>>
  BY DEF Init, Content
<1>5. CallInv
  BY DEF Init, CallInv, Jobs, Job, OneAppender, Idle
<1>6. FileInv
  BY <1>4 DEF Init, FileInv, Named, Pending, Copying, OwnLine, Idle
<1>7. QED BY <1>1, <1>2, <1>3, <1>5, <1>6 DEF Base

(* A step of a process is one of the eight the calls can tell apart. *)
LEMMA StepsGroup ==
  ASSUME OnlyAppendIsShort, Base, NEW p \in Proc, Taking(p)
  PROVE  Grouped(p)
BY RequestsBegin, StepsAreGrouped DEF Base, CallInv, Taking, Grouped

(* Every step keeps the base of the invariants. *)
LEMMA TakingKeepsBase ==
  ASSUME OnlyAppendIsShort, Base, NEW p \in Proc, Taking(p)
  PROVE  Base'
<1>1. Grouped(p)
  BY StepsGroup
<1>2. LockInv'
  <2>1. CASE Request(p)
    BY <2>1, RequestKeepsLockInv DEF Base
  <2>2. CASE Step(p)
    BY <2>2, StepKeepsLockInv DEF Base
  <2>3. CASE WriteRaises(p)
    BY <2>3, LeaveKeepsLockInv DEF Base, WriteRaises
  <2>4. CASE Crash(p)
    BY <2>4, LeaveKeepsLockInv DEF Base, Crash
  <2>5. QED BY <2>1, <2>2, <2>3, <2>4 DEF Taking
<1>3. CallInv'
  BY <1>1, CallsStayApart DEF Base, FileInv
<1>4. FileInv'
  BY <1>1, NamesStayTrue, PendingStaysFresh, CopyStaysTrue, OwnLineStaysLast DEF Base, FileInv
<1>5. /\ minted' \subseteq Id /\ acked' \subseteq minted' /\ doomed' \subseteq minted'
      /\ gone' \subseteq doomed' /\ tears' \in Nat /\ IsFiniteSet(minted')
  BY <1>1, HistoriesStayTyped DEF Base, FileInv
<1>6. /\ files' \in [1 .. MaxInode -> Seq(Line)] /\ inodes' \in 0 .. MaxInode /\ path' \in 0 .. inodes'
      /\ tmp'.there \in BOOLEAN /\ tmp'.lines \in Seq(Line) /\ buf' \in [Proc -> Seq(Line)]
      /\ Bounded'
  BY <1>1, <1>5, FilesStayBounded DEF Base
<1>7. (lock \subseteq (1 .. inodes) \X Proc)'
  BY <1>2, LocksAreOfFiles, PTL
<1>8. TypeOK'
  BY <1>2, <1>5, <1>6, <1>7 DEF TypeOK, LockInv, LockTyped
<1>9. QED BY <1>2, <1>3, <1>4, <1>6, <1>8 DEF Base

(* The base holds for any number of processes, ids and inodes, and with appends that may be short. *)
LEMMA BaseAlways ==
  ASSUME OnlyAppendIsShort PROVE Spec => []Base
<1>1. Base /\ [Next]_vars => Base'
  <2> SUFFICES ASSUME Base, [Next]_vars PROVE Base'
    OBVIOUS
  <2>1. CASE UNCHANGED vars
    <3>1. Content' = Content
      BY <2>1 DEF vars, history, Content
    <3>2. LockInv'
      BY <2>1 DEF vars, history, Base, LockInv, LockTyped, FlockHeld, FlockExclusive, OnThePath, Compacting, Opened,
         Holding, Writing
    <3>3. TypeOK' /\ Bounded'
      BY <2>1 DEF vars, history, Base, TypeOK, Bounded, Started
    <3>4. CallInv'
      BY <2>1 DEF vars, history, Base, CallInv, Jobs, Job, OneAppender
    <3>5. FileInv'
      <4>1. proc' = proc /\ buf' = buf /\ tmp' = tmp /\ minted' = minted /\ doomed' = doomed
        BY <2>1 DEF vars, history
      <4>2. Named' /\ Pending'
        BY <3>1, <4>1 DEF Base, FileInv, Named, NamedBy, Pending, Fresh
      <4>3. Copying'
        BY <3>1, <4>1 DEF Base, FileInv, Copying
      <4>4. OwnLine'
        <5>1. LastLine' = LastLine /\ \A p \in Proc : LineOf(p)' = LineOf(p)
          BY <3>1, <4>1, SameLine DEF LastLine
        <5>2. QED BY <3>1, <4>1, <5>1 DEF Base, FileInv, OwnLine
      <4>5. QED BY <4>2, <4>3, <4>4 DEF FileInv
    <3>6. QED BY <3>2, <3>3, <3>4, <3>5 DEF Base
  <2>2. CASE Next
    BY <2>2, TakingKeepsBase DEF Next, Taking
  <2>3. QED BY <2>1, <2>2
<1>2. QED BY InitBase, <1>1, PTL DEF Spec

-----------------------------------------------------------------------------
(* What a default read returns. *)

(* What a default read of the file f returns. *)
View(f) == Picked(IdsOf(f), LiveAt(f))

(* The ids of the lines. *)
LEMMA IdsAreTyped ==
  ASSUME NEW f \in Seq(Line)
  PROVE  IdsOf(f) \in Seq(Id) /\ Len(IdsOf(f)) = Len(f) /\ \A n \in 1 .. Len(f) : IdsOf(f)[n] = f[n].id
<1> DEFINE m == Len(f)
           g == [n \in 1 .. m |-> f[n].id]
<1>1. m \in Nat /\ DOMAIN f = 1 .. m
  OBVIOUS
<1>2. IdsOf(f) = g
  BY <1>1 DEF IdsOf
<1>3. \A n \in 1 .. m : f[n].id \in Id
  <2>1. \A n \in 1 .. m : f[n] \in Line
    OBVIOUS
  <2>2. \A l \in Line : l.id \in Id
    BY DEF Line
  <2>3. QED BY <2>1, <2>2
<1> HIDE DEF m
<1>4. g \in Seq(Id) /\ Len(g) = m /\ \A n \in 1 .. m : g[n] = f[n].id
  BY <1>1, <1>3
<1>5. QED BY <1>2, <1>4 DEF m

(* A read returns the ids of the live lines. *)
LEMMA ViewShows ==
  ASSUME NEW f \in Seq(Line)
  PROVE  /\ View(f) \in Seq(Id)
         /\ \A i : (\E n \in 1 .. Len(f) : IsLive(f, f[n]) /\ f[n].id = i)
                     <=> \E k \in 1 .. Len(View(f)) : View(f)[k] = i
<1> DEFINE ids == IdsOf(f)
           L == LiveAt(f)
           v == View(f)
<1>1. ids \in Seq(Id) /\ Len(ids) = Len(f) /\ \A n \in 1 .. Len(f) : ids[n] = f[n].id
  BY IdsAreTyped
<1>2. \A n \in 1 .. Len(f) : n \in L <=> IsLive(f, f[n])
  BY DEF LiveAt
<1>3. v = Picked(ids, L)
  BY DEF View
<1> HIDE DEF ids, L, v
<1>4. /\ v \in Seq(Id)
      /\ \A k \in 1 .. Len(v) : \E n \in 1 .. Len(ids) : n \in L /\ v[k] = ids[n]
      /\ \A n \in 1 .. Len(ids) : n \in L => \E k \in 1 .. Len(v) : v[k] = ids[n]
  <2>1. /\ Picked(ids, L) \in Seq(Id)
        /\ \A k \in 1 .. Len(Picked(ids, L)) : \E n \in 1 .. Len(ids) : n \in L /\ Picked(ids, L)[k] = ids[n]
        /\ \A n \in 1 .. Len(ids) : n \in L => \E k \in 1 .. Len(Picked(ids, L)) : Picked(ids, L)[k] = ids[n]
    BY <1>1, PickedElements
  <2>2. QED BY <1>3, <2>1
<1>5. ASSUME NEW i, NEW n \in 1 .. Len(f), IsLive(f, f[n]), f[n].id = i
      PROVE  \E k \in 1 .. Len(v) : v[k] = i
  <2>1. n \in 1 .. Len(ids) /\ n \in L /\ ids[n] = i
    BY <1>1, <1>2, <1>5
  <2>2. QED BY <1>4, <2>1
<1>6. ASSUME NEW i, NEW k \in 1 .. Len(v), v[k] = i
      PROVE  \E n \in 1 .. Len(f) : IsLive(f, f[n]) /\ f[n].id = i
  BY <1>1, <1>2, <1>4, <1>6
<1>7. QED BY <1>4, <1>5, <1>6 DEF v

(* A record that is written at the end of the file is the last one that is read. *)
LEMMA ViewOfRecord ==
  ASSUME NEW f \in Seq(Line), NEW i \in Id, i \notin Tombstoned(f)
  PROVE  View(Append(f, Rec(i))) = Append(View(f), i)
<1> DEFINE r == Rec(i)
           g == Append(f, r)
           n == Len(f) + 1
<1>1. r \in Line /\ r.id = i /\ r.kind = "rec" /\ Parses(r)
  BY DEF Rec, Line, Kind, Ending, Parses
<1> HIDE DEF r
<1>2. /\ g \in Seq(Line) /\ Len(g) = Len(f) + 1 /\ g[Len(f) + 1] = r
      /\ \A k \in 1 .. Len(f) : g[k] = f[k]
  BY <1>1
<1>3. DOMAIN g = 1 .. Len(f) + 1 /\ DOMAIN f = 1 .. Len(f)
  BY <1>2
<1> HIDE DEF g
<1>4. Tombstoned(g) = Tombstoned(f)
  <2>1. \A k \in DOMAIN g : Parses(g[k]) /\ g[k].kind = "mark" => k \in DOMAIN f /\ g[k] = f[k]
    BY <1>1, <1>2, <1>3
  <2>2. \A k \in DOMAIN f : k \in DOMAIN g /\ g[k] = f[k]
    BY <1>2, <1>3
  <2>3. QED BY <2>1, <2>2 DEF Tombstoned
<1>5. \A l : IsLive(g, l) <=> IsLive(f, l)
  BY <1>4 DEF IsLive
<1>6. Len(f) + 1 \in LiveAt(g) /\ \A k \in 1 .. Len(f) : k \in LiveAt(g) <=> k \in LiveAt(f)
  BY <1>1, <1>2, <1>3, <1>5 DEF LiveAt, IsLive
<1> DEFINE s == IdsOf(f)
           t == IdsOf(g)
<1>7. s \in Seq(Id) /\ Len(s) = Len(f) /\ \A k \in 1 .. Len(f) : s[k] = f[k].id
  BY IdsAreTyped
<1>8. t \in Seq(Id) /\ Len(t) = Len(f) + 1 /\ \A k \in 1 .. Len(f) + 1 : t[k] = g[k].id
  BY <1>2, IdsAreTyped
<1> HIDE DEF s, t
<1>9. t = Append(s, i)
  <2> DEFINE u == Append(s, i)
  <2>1. u \in Seq(Id) /\ Len(u) = Len(f) + 1 /\ u[Len(f) + 1] = i /\ \A k \in 1 .. Len(f) : u[k] = s[k]
    BY <1>7
  <2> HIDE DEF u
  <2>2. \A k \in 1 .. Len(f) + 1 : t[k] = u[k]
    BY <1>1, <1>2, <1>7, <1>8, <2>1, SMTT(30)
  <2>3. t = u
    BY <1>8, <2>1, <2>2
  <2>4. QED BY <2>3 DEF u
<1>10. Picked(t, LiveAt(g)) = Append(Picked(s, LiveAt(g)), i)
  BY <1>6, <1>7, <1>9, PickedAppend
<1>11. Picked(s, LiveAt(g)) = Picked(s, LiveAt(f))
  <2>1. Agree(s, LiveAt(f), s, LiveAt(g))
    BY <1>6, <1>7 DEF Agree
  <2>2. QED BY <1>7, <2>1, PickedSame
<1>12. QED BY <1>10, <1>11 DEF View, s, t, g, r

(* Markers at the end of the file hide the records they name, and leave the others in their order. *)
LEMMA ViewOfMarkers ==
  ASSUME NEW f \in Seq(Line), NEW s \in Seq(Line), NEW S \in SUBSET Id,
         \A n \in 1 .. Len(s) : \E i \in S : s[n] = Mark(i),
         \A i \in S : \E n \in 1 .. Len(s) : s[n] = Mark(i)
  PROVE  View(f \o s) = Picked(View(f), {k \in DOMAIN View(f) : View(f)[k] \notin S})
<1> DEFINE g == f \o s
<1>1. /\ g \in Seq(Line) /\ Len(g) = Len(f) + Len(s)
      /\ \A k \in 1 .. Len(f) : g[k] = f[k]
      /\ \A k \in 1 .. Len(s) : g[Len(f) + k] = s[k]
      /\ DOMAIN g = 1 .. Len(f) + Len(s) /\ DOMAIN f = 1 .. Len(f)
  OBVIOUS
<1> HIDE DEF g
<1>2. \A k \in DOMAIN g : k \in 1 .. Len(f) \/ \E n \in 1 .. Len(s) : k = Len(f) + n
  <2> SUFFICES ASSUME NEW k \in DOMAIN g, k \notin 1 .. Len(f) PROVE \E n \in 1 .. Len(s) : k = Len(f) + n
    OBVIOUS
  <2>1. k - Len(f) \in 1 .. Len(s) /\ k = Len(f) + (k - Len(f))
    BY <1>1
  <2>2. QED BY <2>1
<1>3. \A k \in DOMAIN g : k \in 1 .. Len(f) \/ \E i \in S : g[k] = Mark(i)
  <2> SUFFICES ASSUME NEW k \in DOMAIN g, k \notin 1 .. Len(f) PROVE \E i \in S : g[k] = Mark(i)
    OBVIOUS
  <2>1. PICK n \in 1 .. Len(s) : k = Len(f) + n
    BY <1>2
  <2>2. g[k] = s[n]
    BY <1>1, <2>1
  <2>3. QED BY <2>2
<1>4. Tombstoned(g) = Tombstoned(f) \union S
  <2>1. ASSUME NEW i \in Tombstoned(g) PROVE i \in Tombstoned(f) \union S
    <3>1. PICK k \in DOMAIN g : Parses(g[k]) /\ g[k].kind = "mark" /\ g[k].id = i
      BY <2>1 DEF Tombstoned
    <3>2. CASE k \in 1 .. Len(f)
      BY <1>1, <3>1, <3>2 DEF Tombstoned
    <3>3. CASE k \notin 1 .. Len(f)
      BY <1>3, <3>1, <3>3 DEF Mark
    <3>4. QED BY <3>2, <3>3
  <2>2. ASSUME NEW i \in Tombstoned(f) PROVE i \in Tombstoned(g)
    <3>1. PICK k \in DOMAIN f : Parses(f[k]) /\ f[k].kind = "mark" /\ f[k].id = i
      BY <2>2 DEF Tombstoned
    <3>2. k \in DOMAIN g /\ g[k] = f[k]
      BY <1>1, <3>1
    <3>3. QED BY <3>1, <3>2 DEF Tombstoned
  <2>3. ASSUME NEW i \in S PROVE i \in Tombstoned(g)
    <3>1. PICK n \in 1 .. Len(s) : s[n] = Mark(i)
      BY <2>3
    <3>2. Len(f) + n \in DOMAIN g /\ g[Len(f) + n] = Mark(i)
      <4>1. Len(f) + n \in 1 .. Len(f) + Len(s)
        OBVIOUS
      <4>2. g[Len(f) + n] = s[n]
        BY <1>1
      <4>3. QED BY <1>1, <3>1, <4>1, <4>2
    <3>3. Parses(Mark(i)) /\ Mark(i).kind = "mark" /\ Mark(i).id = i
      BY DEF Mark, Parses
    <3>4. QED BY <3>2, <3>3 DEF Tombstoned
  <2>4. QED BY <2>1, <2>2, <2>3
<1>5. \A k \in DOMAIN g : k \in LiveAt(g) <=> k \in 1 .. Len(f) /\ k \in LiveAt(f) /\ f[k].id \notin S
  BY <1>1, <1>3, <1>4 DEF LiveAt, IsLive, Mark
<1> DEFINE a == IdsOf(f)
           b == IdsOf(g)
           L == LiveAt(f)
           M == LiveAt(g)
           D == Id \ S
           here == L \cap Those(a, D)
<1>6. a \in Seq(Id) /\ Len(a) = Len(f) /\ \A k \in 1 .. Len(f) : a[k] = f[k].id
  BY IdsAreTyped
<1>7. b \in Seq(Id) /\ Len(b) = Len(g) /\ \A k \in 1 .. Len(g) : b[k] = g[k].id
  BY <1>1, IdsAreTyped
<1>15. \A k \in 1 .. Len(g) : k \in M <=> k \in 1 .. Len(f) /\ k \in L /\ f[k].id \notin S
  BY <1>1, <1>5
<1> HIDE DEF a, b, L, M, D
<1>8. \A k \in 1 .. Len(a) : a[k] = b[k] /\ (k \in here <=> k \in M)
  <2> SUFFICES ASSUME NEW k \in 1 .. Len(a) PROVE a[k] = b[k] /\ (k \in here <=> k \in M)
    OBVIOUS
  <2>1. k \in 1 .. Len(f) /\ k \in 1 .. Len(g)
    BY <1>1, <1>6
  <2>2. a[k] = f[k].id /\ b[k] = f[k].id /\ a[k] \in Id
    BY <1>1, <1>6, <1>7, <2>1
  <2>3. k \in here <=> k \in L /\ a[k] \notin S
    BY <1>6, <2>1, <2>2 DEF D, Those
  <2>4. QED BY <1>15, <2>1, <2>2, <2>3
<1>9. Len(a) <= Len(b) /\ \A k \in Len(a) + 1 .. Len(b) : k \notin M
  <2>1. Len(f) \in Nat /\ Len(s) \in Nat
    OBVIOUS
  <2>2. QED BY <1>1, <1>6, <1>7, <1>15, <2>1
<1>16. Picked(Picked(a, L), Those(Picked(a, L), D)) = Picked(a, here)
  BY <1>6, PickedTwice
<1> HIDE DEF here
<1>10. Picked(b, M) = Picked(a, here)
  <2>1. Agree(a, here, b, M)
    BY <1>8, <1>9 DEF Agree
  <2>2. QED BY <1>6, <1>7, <2>1, PickedSame
<1> DEFINE v == Picked(a, L)
<1>11. Picked(v, Those(v, D)) = Picked(a, here)
  BY <1>16
<1>12. Those(v, D) = {k \in DOMAIN v : v[k] \notin S}
  <2>1. v \in Seq(Id)
    BY <1>6, PickedElements
  <2> HIDE DEF v
  <2>2. QED BY <2>1 DEF D, Those
<1>13. v = View(f) /\ Picked(b, M) = View(g)
  BY DEF View, a, b, L, M
<1> HIDE DEF v
<1>14. QED BY <1>10, <1>11, <1>12, <1>13 DEF g

(* Readers cannot tell a compacted file from the one it replaced. *)
LEMMA ViewOfKept ==
  ASSUME NEW f \in Seq(Line)
  PROVE  View(Kept(f)) = View(f)
<1> DEFINE t == Terminated(f)
           L == LiveAt(f)
           k == Kept(f)
           name == [l \in Line |-> l.id]
<1>1. name \in [Line -> Id] /\ \A l \in Line : name[l] = l.id
  BY DEF Line
<1>2. t \in Seq(Line) /\ DOMAIN t = DOMAIN f /\ \A n \in DOMAIN f : t[n].id = f[n].id
  BY TerminatedLines
<1>3. k = Picked(t, L)
  BY DEF Kept
<1>4. /\ k \in Seq(Line)
      /\ \A n \in 1 .. Len(k) : k[n].kind = "rec" /\ k[n].tail = "nl"
  <2>1. \A n \in 1 .. Len(k) : \E i \in 1 .. Len(f) :
          IsLive(f, f[i]) /\ k[n] = [kind |-> "rec", id |-> f[i].id, tail |-> "nl"]
    BY KeptLines
  <2>2. k \in Seq(Line)
    BY KeptLines
  <2> HIDE DEF k
  <2>3. ASSUME NEW n \in 1 .. Len(k) PROVE k[n].kind = "rec" /\ k[n].tail = "nl"
    <3>1. PICK i \in 1 .. Len(f) : k[n] = [kind |-> "rec", id |-> f[i].id, tail |-> "nl"]
      BY <2>1
    <3>2. QED BY <3>1
  <2>4. QED BY <2>2, <2>3
<1> HIDE DEF t, L, k, name
<1>5. Picked(Mapped(t, name), L) = Mapped(k, name)
  <2>1. t \in Seq(Line) /\ Takes(name, Line, Id)
    BY <1>1, <1>2 DEF Takes
  <2>2. Picked(Mapped(t, name), L) = Mapped(Picked(t, L), name)
    BY <2>1, PickedMap
  <2>3. QED BY <1>3, <2>2
<1>6. Mapped(t, name) = IdsOf(f)
  <2>1. \A n \in DOMAIN f : name[t[n]] = f[n].id
    BY <1>1, <1>2
  <2>2. QED BY <1>2, <2>1 DEF IdsOf, Mapped
<1>7. Mapped(k, name) = IdsOf(k)
  <2>1. \A n \in DOMAIN k : name[k[n]] = k[n].id
    BY <1>1, <1>4
  <2>2. QED BY <2>1 DEF IdsOf, Mapped
<1>8. View(f) = IdsOf(k)
  BY <1>5, <1>6, <1>7 DEF View, L
<1>9. 1 .. Len(k) \subseteq LiveAt(k)
  <2>1. Tombstoned(k) = {}
    BY <1>4 DEF Tombstoned
  <2>2. QED BY <1>4, <2>1 DEF LiveAt, IsLive, Parses
<1>10. IdsOf(k) \in Seq(Id) /\ Len(IdsOf(k)) = Len(k)
  BY <1>4, IdsAreTyped
<1>11. View(k) = IdsOf(k)
  BY <1>9, <1>10, PickedAll DEF View
<1>12. QED BY <1>8, <1>11 DEF k

-----------------------------------------------------------------------------
(* No short writes: what is acknowledged stays visible, what is tombstoned stays hidden. *)

(* No write is short. *)
NoShortWrites == FaultyOps = {}

Whole == \A n \in DOMAIN Content : Content[n].kind # "corrupt" /\ Content[n].tail = "nl"
Untorn == \A p \in Proc : proc[p].wrote \in {"none", "nl"}

(* What one step does to the list of records a reader gets. *)
Hidden(s, S) == Picked(s, {k \in DOMAIN s : s[k] \notin S})

Adds(p) ==
  /\ proc[p].op = "append" /\ proc'[p].wrote = "nl" /\ LineWritten(p)
  /\ \E i \in Id : /\ proc[p].ids = {i} /\ i \notin doomed
                   /\ \A k \in 1 .. Len(Visible) : Visible[k] # i
                   /\ Visible' = Append(Visible, i)

Hides(p) ==
  /\ proc[p].op \in {"mark", "batch"} /\ proc'[p].wrote = "nl"
  /\ LineWritten(p) \/ BatchWritten(p)
  /\ doomed' = doomed \union proc[p].ids
  /\ Visible' = Hidden(Visible, proc[p].ids)

Shuts(p) ==
  /\ ~LineWritten(p) /\ ~BatchWritten(p)
  /\ Visible' = Visible

VisibleStep(p) == Adds(p) \/ Hides(p) \/ Shuts(p)

(* A record shows when a default read returns it. *)
LEMMA VisibleIsTheView ==
  ASSUME TypeOK
  PROVE  /\ Visible = View(Content) /\ Content \in Seq(Line) /\ Visible \in Seq(Id)
         /\ \A i : Shows(i) <=> \E k \in 1 .. Len(Visible) : Visible[k] = i
<1>1. Content \in Seq(Line)
  BY ContentIsTyped
<1>2. Visible = View(Content)
  BY DEF Visible, View
<1>3. DOMAIN Content = 1 .. Len(Content)
  BY <1>1
<1>4. \A i : Shows(i) <=> \E n \in 1 .. Len(Content) : IsLive(Content, Content[n]) /\ Content[n].id = i
  BY <1>3 DEF Shows
<1>5. /\ View(Content) \in Seq(Id)
      /\ \A i : (\E n \in 1 .. Len(Content) : IsLive(Content, Content[n]) /\ Content[n].id = i)
                     <=> \E k \in 1 .. Len(View(Content)) : View(Content)[k] = i
  BY <1>1, ViewShows
<1>6. QED BY <1>1, <1>2, <1>4, <1>5

(* A file of whole lines ends with one. *)
LEMMA WholeIsTerminated ==
  ASSUME Whole, Content \in Seq(Line)
  PROVE  ~Unterminated(Content)
<1> SUFFICES ASSUME Content # <<>> PROVE Content[Len(Content)].tail = "nl"
  BY DEF Unterminated, Last
<1>1. Len(Content) \in DOMAIN Content
  OBVIOUS
<1>2. QED BY <1>1 DEF Whole

(* Without short writes the one turn of append's loop adds its line. *)
LEMMA LinesAreWhole ==
  ASSUME NoShortWrites, Base, Whole, Untorn, NEW p \in Proc, LineWritten(p)
  PROVE  /\ Content' = Append(Content, LineOf(p)) /\ LineOf(p).tail = "nl" /\ LineOf(p).kind # "corrupt"
         /\ proc[p].wrote = "none" /\ proc'[p].wrote = "nl"
<1>1. /\ LineOf(p) \in Line /\ Content \in Seq(Line)
      /\ OneLineOn(Content, LineOf(p), proc[p].wrote, proc'[p].wrote, Content')
  BY LineIsWritten DEF Base, FileInv
<1>2. proc[p].wrote = "none" /\ proc'[p].wrote = "nl"
  BY DEF LineWritten, Untorn, Progress, NoShortWrites
<1>3. ~Unterminated(Content)
  BY <1>1, WholeIsTerminated
<1>4. LineIsOfJob(p)
  BY LineOfJob DEF Base, CallInv, Jobs, LineWritten
<1>5. LineOf(p).tail = "nl" /\ LineOf(p).kind # "corrupt"
  BY <1>4 DEF LineIsOfJob, Rec, Mark
<1>6. [kind |-> LineOf(p).kind, id |-> LineOf(p).id, tail |-> "nl"] = LineOf(p)
  BY <1>1, <1>5 DEF Line
<1>7. Content' = Append(Content, [kind |-> LineOf(p).kind, id |-> LineOf(p).id, tail |-> "nl"])
  BY <1>1, <1>2, <1>3 DEF OneLineOn
<1>8. QED BY <1>2, <1>5, <1>6, <1>7

(* Without short writes before it, mark_tombstones adds its markers. *)
LEMMA BatchesAreWhole ==
  ASSUME Base, Whole, NEW p \in Proc, BatchWritten(p)
  PROVE  Content' = Content \o Markers(proc[p].ids)
<1>1. LinesOn(Content, Markers(proc[p].ids), Content') /\ Content \in Seq(Line)
  BY BatchIsWritten DEF Base
<1>2. ~Unterminated(Content)
  BY <1>1, WholeIsTerminated
<1>3. QED BY <1>1, <1>2 DEF LinesOn

(* compact installs what it kept of the file it replaces. *)
LEMMA CopiesAreKept ==
  ASSUME Base, NEW p \in Proc, KeptInstalled(p)
  PROVE  Content' = Content \/ Content' = Kept(Content)
BY DEF Base, FileInv, Copying, KeptInstalled

(* The tombstoned ids were named. *)
LEMMA TombstonedWereNamed ==
  ASSUME Named PROVE Tombstoned(Content) \subseteq doomed
BY DEF Named, NamedBy, Tombstoned

(* Every step adds a record at the end, hides the named ones, or is not seen by a reader. *)
LEMMA VisibleSteps ==
  ASSUME NoShortWrites, Base, Whole, Untorn, NEW p \in Proc, Grouped(p)
  PROVE  VisibleStep(p)
<1>1. /\ Visible = View(Content) /\ Content \in Seq(Line) /\ Visible \in Seq(Id)
      /\ \A i : Shows(i) <=> \E k \in 1 .. Len(Visible) : Visible[k] = i
  BY VisibleIsTheView DEF Base
<1>2. Visible' = View(Content')
  BY DEF Visible, View
<1>3. \A i : Fresh(i) => i \notin doomed /\ ~Shows(i)
  BY DEF Fresh, Shows, IsLive
<1>4. CASE LineWritten(p)
  <2>1. Content' = Append(Content, LineOf(p)) /\ proc[p].wrote = "none" /\ proc'[p].wrote = "nl"
    BY <1>4, LinesAreWhole
  <2>2. LineIsOfJob(p) /\ proc[p].op \in {"append", "mark"} /\ doomed' = doomed
    BY <1>4, LineOfJob DEF Base, CallInv, Jobs, LineWritten, history
  <2>3. PICK i \in minted : /\ proc[p].ids = {i}
                            /\ proc[p].op = "append" => LineOf(p) = Rec(i)
                            /\ proc[p].op # "append" => LineOf(p) = Mark(i)
    BY <2>2 DEF LineIsOfJob
  <2>4. i \in Id
    BY DEF Base, TypeOK
  <2>5. CASE proc[p].op = "append"
    <3>1. Fresh(i)
      BY <2>1, <2>3, <2>5 DEF Base, FileInv, Pending
    <3>2. i \notin Tombstoned(Content)
      BY <1>3, <3>1, TombstonedWereNamed DEF Base, FileInv
    <3>3. View(Append(Content, Rec(i))) = Append(View(Content), i)
      BY <1>1, <2>4, <3>2, ViewOfRecord
    <3>4. Visible' = Append(Visible, i)
      BY <1>1, <1>2, <2>1, <2>3, <2>5, <3>3
    <3>5. QED BY <1>1, <1>3, <1>4, <2>1, <2>3, <2>4, <2>5, <3>1, <3>4 DEF VisibleStep, Adds
  <2>6. CASE proc[p].op = "mark"
    <3> DEFINE s == <<Mark(i)>>
    <3>1. s \in Seq(Line) /\ Len(s) = 1 /\ s[1] = Mark(i)
      BY <2>4 DEF Mark, Line, Kind, Ending
    <3>2. Content' = Content \o s
      BY <1>1, <2>1, <2>3, <2>6, <3>1
    <3> HIDE DEF s
    <3>3. (\A n \in 1 .. Len(s) : \E j \in {i} : s[n] = Mark(j))
          /\ \A j \in {i} : \E n \in 1 .. Len(s) : s[n] = Mark(j)
      BY <3>1
    <3>4. {i} \in SUBSET Id
      BY <2>4
    <3>5. View(Content \o s) = Picked(View(Content), {k \in DOMAIN View(Content) : View(Content)[k] \notin {i}})
      BY <1>1, <3>1, <3>3, <3>4, ViewOfMarkers
    <3>6. Visible' = Hidden(Visible, {i})
      BY <1>1, <1>2, <3>2, <3>5 DEF Hidden
    <3>7. doomed' = doomed \union {i}
      BY <2>2, <2>3, <2>6 DEF Base, CallInv, Jobs, Job
    <3>8. QED BY <1>4, <2>1, <2>3, <2>6, <3>6, <3>7 DEF VisibleStep, Hides
  <2>7. QED BY <2>2, <2>5, <2>6
<1>5. CASE BatchWritten(p)
  <2> DEFINE S == proc[p].ids
             s == Markers(S)
  <2>1. Content' = Content \o s
    BY <1>5, BatchesAreWhole
  <2>2. /\ s \in Seq(Line)
        /\ \A n \in 1 .. Len(s) : \E j \in S : s[n] = Mark(j)
        /\ \A j \in S : \E n \in 1 .. Len(s) : s[n] = Mark(j)
    BY <1>5, BatchIsWritten DEF Base
  <2>3. S \in SUBSET Id
    BY DEF Base, TypeOK, ProcState
  <2>4. doomed' = doomed \union S /\ proc[p].op = "batch" /\ proc'[p].wrote = "nl"
    BY <1>5 DEF BatchWritten
  <2> HIDE DEF S, s
  <2>5. View(Content \o s) = Picked(View(Content), {k \in DOMAIN View(Content) : View(Content)[k] \notin S})
    BY <1>1, <2>2, <2>3, ViewOfMarkers
  <2>6. Visible' = Hidden(Visible, S)
    BY <1>1, <1>2, <2>1, <2>5 DEF Hidden
  <2>7. QED BY <1>5, <2>4, <2>6 DEF VisibleStep, Hides, S
<1>6. CASE ~LineWritten(p) /\ ~BatchWritten(p)
  <2>1. Content' = Content \/ Content' = Kept(Content)
    BY <1>6, OnlyWritersWrite, CopiesAreKept DEF Base
  <2>2. Visible' = Visible
    BY <1>1, <1>2, <2>1, ViewOfKept
  <2>3. QED BY <1>6, <2>2 DEF VisibleStep, Shuts
<1>7. QED BY <1>4, <1>5, <1>6

(* A record that is in the file is read until it is named, before its append returns too; one whose marker is in
   the file is not. *)
Told ==
  \A p \in Proc : proc[p].op = "append" /\ proc[p].wrote = "nl" =>
    \A i \in proc[p].ids : i \notin doomed => Shows(i)
Hid ==
  \A p \in Proc : proc[p].op \in {"mark", "batch"} /\ proc[p].wrote = "nl" =>
    \A i \in proc[p].ids : i \in doomed /\ ~Shows(i)

HiddenInv == Whole /\ Untorn /\ Told /\ Hid /\ AckedStaysVisible /\ GoneStaysHidden

(* Without short writes no line is ever unfinished or corrupt. *)
LEMMA LinesStayWhole ==
  ASSUME NoShortWrites, Base, Whole, Untorn, NEW p \in Proc, Grouped(p)
  PROVE  Whole' /\ Untorn'
<1>1. Content \in Seq(Line)
  BY ContentIsTyped DEF Base
<1>2. Untorn'
  <2>1. proc'[p].wrote \in {"none", "nl"} \/ proc'[p].wrote = proc[p].wrote
    <3>1. CASE LineWritten(p)
      BY <3>1, LinesAreWhole
    <3>2. CASE ~LineWritten(p)
      BY <3>2 DEF Grouped, Begins, Quiet, Leaves, BatchWritten, KeptRead, KeptWritten, KeptInstalled, Idle
    <3>3. QED BY <3>1, <3>2
  <2>2. Moves(p)
    BY DEF Grouped, Begins, Quiet, Leaves, LineWritten, BatchWritten, KeptRead, KeptWritten, KeptInstalled
  <2>3. QED BY <2>1, <2>2 DEF Untorn, Moves
<1>3. CASE LineWritten(p)
  <2> DEFINE l == LineOf(p)
  <2>1. Content' = Append(Content, l) /\ l.tail = "nl" /\ l.kind # "corrupt"
    BY <1>3, LinesAreWhole
  <2>2. l \in Line
    BY <1>3, LineIsWritten DEF Base, FileInv
  <2> HIDE DEF l
  <2> DEFINE g == Append(Content, l)
  <2>3. /\ DOMAIN g = 1 .. Len(Content) + 1 /\ g[Len(Content) + 1] = l
        /\ \A n \in 1 .. Len(Content) : n \in DOMAIN Content /\ g[n] = Content[n]
    BY <1>1, <2>2
  <2> HIDE DEF g
  <2>4. \A n \in DOMAIN g : g[n].kind # "corrupt" /\ g[n].tail = "nl"
    <3> SUFFICES ASSUME NEW n \in DOMAIN g PROVE g[n].kind # "corrupt" /\ g[n].tail = "nl"
      OBVIOUS
    <3>1. n = Len(Content) + 1 \/ n \in 1 .. Len(Content)
      BY <1>1, <2>3
    <3>2. QED BY <2>1, <2>3, <3>1 DEF Whole
  <2>5. Content' = g
    BY <2>1 DEF g
  <2>6. QED BY <1>2, <2>4, <2>5 DEF Whole
<1>4. CASE BatchWritten(p)
  <2> DEFINE s == Markers(proc[p].ids)
  <2>1. Content' = Content \o s
    BY <1>4, BatchesAreWhole
  <2>2. s \in Seq(Line) /\ \A n \in 1 .. Len(s) : \E i \in proc[p].ids : s[n] = Mark(i)
    BY <1>4, BatchIsWritten DEF Base
  <2> HIDE DEF s
  <2>3. \A n \in 1 .. Len(s) : s[n].kind # "corrupt" /\ s[n].tail = "nl"
    <3> SUFFICES ASSUME NEW n \in 1 .. Len(s) PROVE s[n].kind # "corrupt" /\ s[n].tail = "nl"
      OBVIOUS
    <3>1. PICK i \in proc[p].ids : s[n] = Mark(i)
      BY <2>2
    <3>2. QED BY <3>1 DEF Mark
  <2> DEFINE g == Content \o s
  <2>4. /\ DOMAIN g = 1 .. Len(Content) + Len(s)
        /\ \A n \in 1 .. Len(Content) : n \in DOMAIN Content /\ g[n] = Content[n]
        /\ \A n \in 1 .. Len(Content) + Len(s) : n > Len(Content) =>
             n - Len(Content) \in 1 .. Len(s) /\ g[n] = s[n - Len(Content)]
    BY <1>1, <2>2
  <2> HIDE DEF g
  <2>5. \A n \in DOMAIN g : g[n].kind # "corrupt" /\ g[n].tail = "nl"
    <3> SUFFICES ASSUME NEW n \in DOMAIN g PROVE g[n].kind # "corrupt" /\ g[n].tail = "nl"
      OBVIOUS
    <3>1. n > Len(Content) \/ n \in 1 .. Len(Content)
      BY <1>1, <2>2, <2>4
    <3>2. QED BY <2>3, <2>4, <3>1 DEF Whole
  <2>6. Content' = g
    BY <2>1 DEF g
  <2>7. QED BY <1>2, <2>5, <2>6 DEF Whole
<1>5. CASE ~LineWritten(p) /\ ~BatchWritten(p)
  <2>1. Content' = Content \/ Content' = Kept(Content)
    BY <1>5, OnlyWritersWrite, CopiesAreKept DEF Base
  <2>2. \A n \in DOMAIN Kept(Content) : Kept(Content)[n].kind # "corrupt" /\ Kept(Content)[n].tail = "nl"
    <3> DEFINE k == Kept(Content)
    <3>1. /\ k \in Seq(Line)
          /\ \A n \in 1 .. Len(k) : \E i \in 1 .. Len(Content) :
               IsLive(Content, Content[i]) /\ k[n] = [kind |-> "rec", id |-> Content[i].id, tail |-> "nl"]
      BY <1>1, KeptLines
    <3> HIDE DEF k
    <3>2. \A n \in DOMAIN k : k[n].kind # "corrupt" /\ k[n].tail = "nl"
      <4> SUFFICES ASSUME NEW n \in DOMAIN k PROVE k[n].kind # "corrupt" /\ k[n].tail = "nl"
        OBVIOUS
      <4>1. n \in 1 .. Len(k)
        BY <3>1
      <4>2. PICK i \in 1 .. Len(Content) : k[n] = [kind |-> "rec", id |-> Content[i].id, tail |-> "nl"]
        BY <3>1, <4>1
      <4>3. QED BY <4>2
    <3>3. QED BY <3>2 DEF k
  <2>3. QED BY <1>2, <2>1, <2>2 DEF Whole
<1>6. QED BY <1>3, <1>4, <1>5

(* What a step does to the records that are read, one by one. *)
ShownLater(p) ==
  /\ \A i : Shows(i)' => Shows(i) \/ (Adds(p) /\ i \in proc[p].ids)
  /\ \A i : Shows(i) => Shows(i)' \/ i \in doomed'
  /\ Adds(p) => \A i \in proc[p].ids : Shows(i)'
  /\ Hides(p) => \A i \in proc[p].ids : ~Shows(i)'

(* What one such step means for each record. *)
LEMMA RecordsAreShownLater ==
  ASSUME Base, TypeOK', NEW p \in Proc, VisibleStep(p)
  PROVE  ShownLater(p)
<1>1. Visible \in Seq(Id) /\ \A i : Shows(i) <=> \E k \in 1 .. Len(Visible) : Visible[k] = i
  BY VisibleIsTheView DEF Base
<1>2. (Visible \in Seq(Id) /\ \A i : Shows(i) <=> \E k \in 1 .. Len(Visible) : Visible[k] = i)'
  BY VisibleIsTheView, PTL
<1> DEFINE v == Visible
           w == Visible'
<1>3. v \in Seq(Id) /\ \A i : Shows(i) <=> \E k \in 1 .. Len(v) : v[k] = i
  BY <1>1
<1>4. w \in Seq(Id) /\ \A i : Shows(i)' <=> \E k \in 1 .. Len(w) : w[k] = i
  BY <1>2
<1>5. CASE Adds(p)
  <2>1. PICK i \in Id : proc[p].ids = {i} /\ w = Append(v, i)
    BY <1>5 DEF Adds
  <2> HIDE DEF v, w
  <2>2. Len(w) = Len(v) + 1 /\ w[Len(v) + 1] = i /\ \A k \in 1 .. Len(v) : w[k] = v[k]
    BY <1>3, <2>1
  <2>3. \A j : Shows(j)' <=> Shows(j) \/ j = i
    <3>1. ASSUME NEW j, Shows(j)' PROVE Shows(j) \/ j = i
      <4>1. PICK k \in 1 .. Len(w) : w[k] = j
        BY <1>4, <3>1
      <4>2. k \in 1 .. Len(v) \/ k = Len(v) + 1
        BY <1>3, <2>2
      <4>3. QED BY <1>3, <2>2, <4>1, <4>2
    <3>2. ASSUME NEW j, Shows(j) PROVE Shows(j)'
      <4>1. PICK k \in 1 .. Len(v) : v[k] = j
        BY <1>3, <3>2
      <4>2. k \in 1 .. Len(w)
        BY <1>3, <2>2
      <4>3. QED BY <1>4, <2>2, <4>1, <4>2
    <3>3. Shows(i)'
      <4>1. Len(v) + 1 \in 1 .. Len(w)
        BY <1>3, <2>2
      <4>2. QED BY <1>4, <2>2, <4>1
    <3>4. QED BY <3>1, <3>2, <3>3
  <2>4. ~Hides(p)
    BY <1>5 DEF Adds, Hides
  <2>5. QED BY <1>5, <2>1, <2>3, <2>4 DEF ShownLater
<1>6. CASE Hides(p)
  <2> DEFINE S == proc[p].ids
             D == {k \in DOMAIN v : v[k] \notin S}
  <2>1. w = Picked(v, D) /\ doomed' = doomed \union S
    BY <1>6 DEF Hides, Hidden
  <2>2. \A k \in 1 .. Len(v) : k \in D <=> v[k] \notin S
    BY <1>3
  <2> HIDE DEF v, w, D, S
  <2>3. /\ \A k \in 1 .. Len(w) : \E n \in 1 .. Len(v) : n \in D /\ w[k] = v[n]
        /\ \A n \in 1 .. Len(v) : n \in D => \E k \in 1 .. Len(w) : w[k] = v[n]
    <3>1. /\ \A k \in 1 .. Len(Picked(v, D)) : \E n \in 1 .. Len(v) : n \in D /\ Picked(v, D)[k] = v[n]
          /\ \A n \in 1 .. Len(v) : n \in D => \E k \in 1 .. Len(Picked(v, D)) : Picked(v, D)[k] = v[n]
      <4>1. v \in Seq(Id)
        BY <1>3
      <4>2. QED BY <4>1, PickedElements
    <3>2. QED BY <2>1, <3>1
  <2>4. \A j : Shows(j)' <=> Shows(j) /\ j \notin S
    <3>1. ASSUME NEW j, Shows(j)' PROVE Shows(j) /\ j \notin S
      <4>1. PICK k \in 1 .. Len(w) : w[k] = j
        BY <1>4, <3>1
      <4>2. PICK n \in 1 .. Len(v) : n \in D /\ w[k] = v[n]
        BY <2>3
      <4>3. QED BY <1>3, <2>2, <4>1, <4>2
    <3>2. ASSUME NEW j, Shows(j), j \notin S PROVE Shows(j)'
      <4>1. PICK n \in 1 .. Len(v) : v[n] = j
        BY <1>3, <3>2
      <4>2. PICK k \in 1 .. Len(w) : w[k] = v[n]
        BY <2>2, <2>3, <3>2, <4>1
      <4>3. QED BY <1>4, <4>1, <4>2
    <3>3. QED BY <3>1, <3>2
  <2>5. ~Adds(p)
    BY <1>6 DEF Adds, Hides
  <2>6. QED BY <2>1, <2>4, <2>5 DEF ShownLater, S
<1>7. CASE Shuts(p)
  <2>1. v = w
    BY <1>7 DEF Shuts
  <2> HIDE DEF v, w
  <2>2. \A j : Shows(j)' <=> Shows(j)
    BY <1>3, <1>4, <2>1
  <2>3. ~Adds(p) /\ ~Hides(p)
    BY <1>7 DEF Adds, Hides, Shuts
  <2>4. QED BY <2>2, <2>3 DEF ShownLater
<1>8. QED BY <1>5, <1>6, <1>7 DEF VisibleStep

(* Every step keeps what was acknowledged visible and what was tombstoned hidden. *)
LEMMA HiddenStays ==
  ASSUME NoShortWrites, Base, Base', HiddenInv, NEW p \in Proc, Grouped(p)
  PROVE  HiddenInv'
<1>1. VisibleStep(p)
  BY VisibleSteps DEF HiddenInv
<1>2. ShownLater(p)
  BY <1>1, RecordsAreShownLater DEF Base
<1>3. Whole' /\ Untorn'
  BY LinesStayWhole DEF HiddenInv
<1>4. Moves(p)
  BY DEF Grouped, Begins, Quiet, Leaves, LineWritten, BatchWritten, KeptRead, KeptWritten, KeptInstalled
<1>5. minted \subseteq minted' /\ doomed \subseteq doomed' /\ (~Return(p) => UNCHANGED <<acked, gone>>)
  BY HistoryGrows DEF Base
<1>6. \A i \in doomed : ~Shows(i) => ~Shows(i)'
  BY <1>2 DEF ShownLater, Adds
<1>7. \A i : Shows(i) => Shows(i)' \/ i \in doomed'
  BY <1>2 DEF ShownLater
<1>8. Told'
  <2> SUFFICES ASSUME NEW q \in Proc, proc'[q].op = "append", proc'[q].wrote = "nl",
                      NEW i \in proc'[q].ids, i \notin doomed'
               PROVE  Shows(i)'
    BY DEF Told
  <2>1. CASE Adds(p) /\ q = p
    <3>1. proc'[p].ids = proc[p].ids
      BY <2>1 DEF Adds, LineWritten, SameCall
    <3>2. QED BY <1>2, <2>1, <3>1 DEF ShownLater
  <2>2. CASE proc'[q] = proc[q]
    BY <1>5, <1>7, <2>2 DEF HiddenInv, Told
  <2>3. CASE q = p /\ ~Adds(p)
    <3>1. ~LineWritten(p)
      BY <1>1, <2>3 DEF VisibleStep, Hides, Shuts, LineWritten, SameCall
    <3>2. QED BY <2>3, <3>1 DEF Grouped, Begins, Quiet, Leaves, BatchWritten, KeptRead, KeptWritten, KeptInstalled,
                  SameCall, Idle
  <2>4. QED BY <1>4, <2>1, <2>2, <2>3 DEF Moves
<1>9. Hid'
  <2> SUFFICES ASSUME NEW q \in Proc, proc'[q].op \in {"mark", "batch"}, proc'[q].wrote = "nl",
                      NEW i \in proc'[q].ids
               PROVE  i \in doomed' /\ ~Shows(i)'
    BY DEF Hid
  <2>1. CASE Hides(p) /\ q = p
    <3>1. proc'[p].ids = proc[p].ids
      BY <2>1 DEF Hides, LineWritten, BatchWritten, SameCall
    <3>2. QED BY <1>2, <2>1, <3>1 DEF ShownLater, Hides
  <2>2. CASE proc'[q] = proc[q]
    BY <1>5, <1>6, <2>2 DEF HiddenInv, Hid
  <2>3. CASE q = p /\ ~Hides(p)
    <3>1. ~LineWritten(p) /\ ~BatchWritten(p)
      BY <1>1, <2>3 DEF VisibleStep, Adds, Shuts, LineWritten, SameCall
    <3>2. QED BY <2>3, <3>1 DEF Grouped, Begins, Quiet, Leaves, KeptRead, KeptWritten, KeptInstalled,
                  SameCall, Idle
  <2>4. QED BY <1>4, <2>1, <2>2, <2>3 DEF Moves
<1>10. \A i \in acked \ doomed' : Shows(i)'
  BY <1>5, <1>7 DEF HiddenInv, AckedStaysVisible
<1>11. \A i \in gone : ~Shows(i)'
  BY <1>6 DEF HiddenInv, GoneStaysHidden, Base, TypeOK
<1>12. AckedStaysVisible' /\ GoneStaysHidden'
  <2>1. CASE ~Return(p)
    BY <1>5, <1>10, <1>11, <2>1 DEF AckedStaysVisible, GoneStaysHidden
  <2>2. CASE Return(p)
    <3>1. /\ proc[p].wrote = "nl" \/ proc[p].op = "swapped"
          /\ acked' = IF proc[p].op = "append" THEN acked \union proc[p].ids ELSE acked
          /\ gone' = IF proc[p].op \in {"mark", "batch"} THEN gone \union proc[p].ids ELSE gone
          /\ doomed' = doomed
      BY <2>2 DEF Return
    <3>2. \A i \in acked' \ doomed' : Shows(i)'
      BY <1>7, <1>10, <3>1 DEF HiddenInv, Told
    <3>3. \A i \in gone' : ~Shows(i)'
      BY <1>6, <1>11, <3>1 DEF HiddenInv, Hid
    <3>4. QED BY <3>2, <3>3 DEF AckedStaysVisible, GoneStaysHidden
  <2>3. QED BY <2>1, <2>2
<1>13. QED BY <1>3, <1>8, <1>9, <1>12 DEF HiddenInv

(* Nothing was acknowledged in the beginning. *)
LEMMA InitHidden == Init => HiddenInv
<1> SUFFICES ASSUME Init PROVE HiddenInv
  OBVIOUS
<1>1. Content = <<>>
  BY DEF Init, Content
<1>2. QED
  BY <1>1 DEF Init, HiddenInv, Whole, Untorn, Told, Hid, AckedStaysVisible, GoneStaysHidden, Idle

(* The same of the next-state relation. *)
LEMMA NextKeepsHidden ==
  ASSUME NoShortWrites, Base, Base', HiddenInv, [Next]_vars
  PROVE  HiddenInv'
<1>1. CASE UNCHANGED vars
  <2>1. /\ Content' = Content /\ proc' = proc /\ acked' = acked /\ gone' = gone /\ doomed' = doomed
    BY <1>1 DEF vars, history, Content
  <2>2. \A i : Shows(i)' <=> Shows(i)
    BY <2>1 DEF Shows
  <2>3. QED BY <2>1, <2>2 DEF HiddenInv, Whole, Untorn, Told, Hid, AckedStaysVisible, GoneStaysHidden
<1>2. CASE Next
  <2>1. PICK p \in Proc : Taking(p)
    BY <1>2 DEF Next, Taking
  <2>2. OnlyAppendIsShort
    BY DEF NoShortWrites, OnlyAppendIsShort
  <2>3. Grouped(p)
    BY <2>1, <2>2, StepsGroup
  <2>4. QED BY <2>3, HiddenStays
<1>3. QED BY <1>1, <1>2

(* The base and what it keeps visible and hidden hold always. *)
LEMMA HiddenAlways ==
  ASSUME NoShortWrites PROVE Spec => [](Base /\ HiddenInv)
<1>1. OnlyAppendIsShort
  BY DEF NoShortWrites, OnlyAppendIsShort
<1>2. Spec => []Base
  BY <1>1, BaseAlways
<1>3. Base /\ Base' /\ HiddenInv /\ [Next]_vars => HiddenInv'
  BY NextKeepsHidden
<1>4. QED BY <1>2, <1>3, InitHidden, PTL DEF Spec

(* append, mark_tombstone, mark_tombstones and compact, whole writes, kills anywhere: a record whose append
   returned is in every later read until a tombstone names it, and one whose tombstone returned is in none. *)
THEOREM StoreKeepsItsPromisesAlways ==
  ASSUME NoShortWrites PROVE Spec => []StoreKeepsItsPromises
<1>1. Base /\ HiddenInv => StoreKeepsItsPromises
  BY DEF Base, HiddenInv, StoreKeepsItsPromises
<1>2. QED BY <1>1, HiddenAlways, PTL

-----------------------------------------------------------------------------
(* The store implements the list of records. *)

(* The abstract specification picks as the store does. *)
LEMMA PromisePicked ==
  ASSUME NEW s, NEW places PROVE Promise!Picked(s, places) = Picked(s, places)
BY DEF Promise!Picked, Promise!Picks, Picked, Picks

(* An empty store is an empty list. *)
LEMMA InitPromise == Init => Promise!Init
<1> SUFFICES ASSUME Init PROVE Promise!Init
  OBVIOUS
<1>1. Content = <<>>
  BY DEF Init, Content
<1> DEFINE f == Content
           s == IdsOf(f)
           L == LiveAt(f)
<1>2. f \in Seq(Line) /\ Len(f) = 0
  BY <1>1
<1>6. Visible = Picked(s, L)
  BY DEF Visible
<1> HIDE DEF f
<1>7. s \in Seq(Id) /\ Len(s) = Len(f)
  BY <1>2, IdsAreTyped
<1> HIDE DEF s, L
<1>8. 1 .. Len(s) \subseteq L
  BY <1>2, <1>7
<1>3. Picked(s, L) = s
  BY <1>7, <1>8, PickedAll
<1>4. Visible = <<>>
  BY <1>2, <1>3, <1>6, <1>7
<1>5. QED BY <1>4 DEF Init, Promise!Init

(* Every step of the store is a step of the list of records, or none. *)
LEMMA StepsArePromised ==
  ASSUME NoShortWrites, Base, HiddenInv, NEW p \in Proc, Grouped(p)
  PROVE  [Promise!Next]_(Promise!rsVars)
<1>1. VisibleStep(p)
  BY VisibleSteps DEF HiddenInv
<1>2. Visible \in Seq(Id)
  BY VisibleIsTheView DEF Base
<1>3. CASE Adds(p)
  <2>1. PICK i \in Id : /\ i \notin doomed
                        /\ \A k \in 1 .. Len(Visible) : Visible[k] # i
                        /\ Visible' = Append(Visible, i)
    BY <1>3 DEF Adds
  <2>2. doomed' = doomed
    BY <1>3 DEF Adds, LineWritten, history
  <2>3. DOMAIN Visible = 1 .. Len(Visible)
    BY <1>2
  <2>4. i \notin Promise!Shown
    BY <2>1, <2>3 DEF Promise!Shown
  <2>5. Promise!Add(i)
    BY <2>1, <2>2, <2>4 DEF Promise!Add
  <2>6. QED BY <2>5 DEF Promise!Next
<1>4. CASE Hides(p)
  <2> DEFINE S == proc[p].ids
  <2>1. Visible' = Picked(Visible, {n \in DOMAIN Visible : Visible[n] \notin S}) /\ doomed' = doomed \union S
    BY <1>4 DEF Hides, Hidden
  <2>2. S \in SUBSET Id
    BY DEF Base, TypeOK, ProcState
  <2> HIDE DEF S
  <2>3. Promise!Hide(S)
    BY <2>1, PromisePicked DEF Promise!Hide
  <2>4. QED BY <2>2, <2>3 DEF Promise!Next
<1>5. CASE Shuts(p)
  <2>1. Visible' = Visible
    BY <1>5 DEF Shuts
  <2>2. CASE doomed' = doomed
    BY <2>1, <2>2 DEF Promise!rsVars
  <2>3. CASE doomed' # doomed
    <3>1. Begins(p)
      BY <1>5, <2>3 DEF Shuts, Grouped, Quiet, Leaves, KeptRead, KeptWritten, KeptInstalled, history
    <3>2. PICK i \in Present(Content) : doomed' = doomed \union {i}
      BY <2>3, <3>1 DEF Begins
    <3>3. doomed' \subseteq Id
      <4>1. doomed' \subseteq minted' /\ minted' \subseteq Id
        BY HistoriesStayTyped DEF Base, FileInv
      <4>2. QED BY <4>1
    <3>4. {i} \in SUBSET Id /\ Promise!Ask({i})
      BY <2>1, <3>2, <3>3 DEF Promise!Ask
    <3>5. QED BY <3>4 DEF Promise!Next
  <2>4. QED BY <2>2, <2>3
<1>6. QED BY <1>1, <1>3, <1>4, <1>5 DEF VisibleStep

(* The store implements the list of records it promises: a process that writes a line adds or hides, and no step
   of a compaction or of a kill is seen by a reader. *)
THEOREM StoreImplementsRecordStore ==
  ASSUME NoShortWrites PROVE Spec => ImplementsRecordStore
<1>1. Base /\ HiddenInv /\ [Next]_vars => [Promise!Next]_(Promise!rsVars)
  <2> SUFFICES ASSUME Base, HiddenInv, [Next]_vars PROVE [Promise!Next]_(Promise!rsVars)
    OBVIOUS
  <2>1. CASE UNCHANGED vars
    <3>1. Content' = Content /\ doomed' = doomed
      BY <2>1 DEF vars, history, Content
    <3>2. Visible' = Visible
      BY <3>1 DEF Visible
    <3>3. QED BY <3>1, <3>2 DEF Promise!rsVars
  <2>2. CASE Next
    <3>1. PICK p \in Proc : Taking(p)
      BY <2>2 DEF Next, Taking
    <3>2. OnlyAppendIsShort
      BY DEF NoShortWrites, OnlyAppendIsShort
    <3>3. Grouped(p)
      BY <3>1, <3>2, StepsGroup
    <3>4. QED BY <3>3, StepsArePromised
  <2>3. QED BY <2>1, <2>2
<1>2. QED BY <1>1, HiddenAlways, InitPromise, PTL DEF Spec, ImplementsRecordStore, Promise!Spec

(* The os.replace of compact leaves every reader the records, and their order, that it had ("Live lines keep
   their original bytes and order"), with appends that may be short. *)
THEOREM CompactKeepsLiveLinesAlways ==
  ASSUME OnlyAppendIsShort PROVE Spec => CompactKeepsLiveLines
<1>1. ASSUME Base, NEW p \in Proc, CompactReplace(p)
      PROVE  Visible' = Visible
  <2>1. Grouped(p)
    BY <1>1, StepsGroup DEF Taking, Step
  <2>2. proc[p].pc = "swap" /\ proc'[p].op = "swapped"
    BY <1>1 DEF CompactReplace, Base, TypeOK, ProcState
  <2>3. ~LineWritten(p) /\ ~BatchWritten(p)
    BY <2>2 DEF LineWritten, BatchWritten
  <2>4. Content' = Content \/ Content' = Kept(Content)
    BY <2>1, <2>3, <1>1, OnlyWritersWrite, CopiesAreKept DEF Base
  <2>5. Visible = View(Content) /\ Content \in Seq(Line) /\ Visible' = View(Content')
    BY <1>1, VisibleIsTheView DEF Base, Visible, View
  <2>6. QED BY <2>4, <2>5, ViewOfKept
<1>2. Base /\ [Next]_vars => [\A p \in Proc : CompactReplace(p) => Visible' = Visible]_vars
  BY <1>1
<1>3. QED BY <1>2, BaseAlways, PTL DEF Spec, CompactKeepsLiveLines

-----------------------------------------------------------------------------
(* Short writes: what they cost. *)

(* The acknowledged records that are read no more. *)
Lost == {i \in acked \ doomed : ~Shows(i)}

(* A line was left unfinished and the next one will run into it, or has: the record of that one is lost when its
   append returns. *)
OwnLineIsLost == \E p \in Proc : proc[p].op = "append" /\ proc[p].wrote # "none" /\ LastLine.kind = "corrupt"
LineIsAbandoned ==
  Unterminated(Content) /\ \A p \in Proc : proc[p].op \in {"append", "mark"} => proc[p].wrote = "none"
AtRisk == OwnLineIsLost \/ LineIsAbandoned

(* An unfinished line is nobody's acknowledged record. *)
Exposed == Unterminated(Content) => (LastLine.kind = "rec" => LastLine.id \notin acked)

Counted == Cardinality(Lost) + (IF AtRisk THEN 1 ELSE 0) <= tears
LossInv == Exposed /\ Counted

(* There are as many lost records as can be counted. *)
LEMMA LostIsFinite ==
  ASSUME TypeOK, Bounded
  PROVE  IsFiniteSet(Lost) /\ Cardinality(Lost) \in Nat
<1>1. Lost \subseteq minted /\ IsFiniteSet(minted)
  BY DEF Lost, TypeOK, Bounded
<1>2. IsFiniteSet(Lost)
  BY <1>1, FS_Subset
<1>3. QED BY <1>2, FS_CardinalityType

(* Of the processes that write, the one that moves is the only one. *)
LEMMA OneWriter ==
  ASSUME Base, NEW p \in Proc, Writing(p), NEW q \in Proc, q # p
  PROVE  proc[q].wrote = "none" \/ proc[q].op = "swapped"
<1>1. ~Writing(q)
  BY WritingAlone DEF Base
<1>2. QED BY <1>1 DEF Writing, Base, CallInv, Jobs, Job

(* A compaction that replaced the file has no line in it. *)
LEMMA SwappedWroteNothing ==
  ASSUME Base, NEW p \in Proc, proc[p].op = "swapped"
  PROVE  proc[p].wrote = "none"
BY DEF Base, CallInv, Jobs, Job

(* compact terminates the lines it keeps. *)
LEMMA CopiesAreTerminated ==
  ASSUME NEW f \in Seq(Line) PROVE ~Unterminated(Kept(f))
<1> DEFINE k == Kept(f)
<1>1. /\ k \in Seq(Line)
      /\ \A n \in 1 .. Len(k) : \E i \in 1 .. Len(f) :
           IsLive(f, f[i]) /\ k[n] = [kind |-> "rec", id |-> f[i].id, tail |-> "nl"]
  BY KeptLines
<1> HIDE DEF k
<1>2. k # <<>> => k[Len(k)].tail = "nl"
  <2> SUFFICES ASSUME k # <<>> PROVE k[Len(k)].tail = "nl"
    OBVIOUS
  <2>1. Len(k) \in 1 .. Len(k)
    BY <1>1
  <2>2. PICK i \in 1 .. Len(f) : k[Len(k)] = [kind |-> "rec", id |-> f[i].id, tail |-> "nl"]
    BY <1>1, <2>1
  <2>3. QED BY <2>2
<1>3. QED BY <1>2 DEF Unterminated, Last, k

(* What a step leaves of the risk: a line that was written to, or left where it was. *)
LEMMA ExposedStays ==
  ASSUME Base, Base', Exposed, NEW p \in Proc, Grouped(p)
  PROVE  Exposed'
<1>1. CASE Content' = Content /\ acked' = acked
  BY <1>1 DEF Exposed, LastLine
<1>2. CASE Return(p)
  <2>1. CASE proc[p].op = "append"
    <3>1. proc[p].wrote = "nl"
      BY <1>2, <2>1 DEF Return
    <3>2. Content # <<>> /\ LastLine.tail = "nl"
      BY <2>1, <3>1 DEF Base, FileInv, OwnLine
    <3>3. ~Unterminated(Content)
      BY <3>2 DEF Unterminated, Last, LastLine
    <3>4. Content' = Content
      BY <1>2 DEF Return, Content
    <3>5. QED BY <3>3, <3>4 DEF Exposed
  <2>2. CASE proc[p].op # "append"
    <3>1. Content' = Content /\ acked' = acked
      BY <1>2, <2>2 DEF Return, Content
    <3>2. QED BY <1>1, <3>1
  <2>3. QED BY <2>1, <2>2
<1>3. CASE LineWritten(p)
  <2>1. acked' = acked /\ proc'[p].op \in {"append", "mark"} /\ proc'[p].wrote # "none"
    <3>1. proc'[p].wrote \in Ending
      BY <1>3, LineIsWritten DEF Base, FileInv
    <3>2. QED BY <1>3, <3>1 DEF LineWritten, SameCall, history, Ending
  <2>2. LastLine'.kind = "corrupt" \/ (LastLine'.kind = LineOf(p)'.kind /\ LastLine'.id = LineOf(p)'.id)
    BY <2>1 DEF Base, FileInv, OwnLine
  <2>3. LineOf(p)' = LineOf(p)
    BY <1>3, SameLine DEF LineWritten, SameCall
  <2>4. LineIsOfJob(p)
    BY <1>3, LineOfJob DEF Base, CallInv, Jobs, LineWritten
  <2>5. LineOf(p).kind = "rec" => LineOf(p).id \notin acked
    BY <1>3, <2>4 DEF LineIsOfJob, Rec, Mark, Base, CallInv, Jobs, Job, LineWritten
  <2>6. QED BY <2>1, <2>2, <2>3, <2>5 DEF Exposed
<1>4. CASE BatchWritten(p)
  <2>1. LinesOn(Content, Markers(proc[p].ids), Content') /\ acked' = acked
    BY <1>4, BatchIsWritten DEF Base, BatchWritten
  <2>2. Content' = Content \/ ~Unterminated(Content')
    BY <2>1 DEF LinesOn
  <2>3. QED BY <1>1, <2>1, <2>2 DEF Exposed
<1>5. CASE KeptInstalled(p) /\ Content' # Content
  <2>1. Content' = Kept(Content)
    BY <1>5, CopiesAreKept
  <2>2. ~Unterminated(Kept(Content))
    BY ContentIsTyped, CopiesAreTerminated DEF Base
  <2>3. QED BY <2>1, <2>2 DEF Exposed
<1>6. Content' = Content \/ LineWritten(p) \/ BatchWritten(p) \/ KeptInstalled(p)
  BY OnlyWritersWrite DEF Base
<1>7. acked' = acked \/ Return(p)
  BY HistoryGrows DEF Base
<1>8. QED BY <1>1, <1>2, <1>3, <1>4, <1>5, <1>6, <1>7

(* An acknowledged record that is read stays read until it is named. *)
LEMMA AckedRecordsStay ==
  ASSUME Base, Base', Exposed, NEW p \in Proc, Grouped(p),
         NEW i \in acked, i \notin doomed', Shows(i)
  PROVE  Shows(i)'
<1>0. Content \in Seq(Line) /\ DOMAIN Content = 1 .. Len(Content)
  <2>1. Content \in Seq(Line)
    BY ContentIsTyped DEF Base
  <2>2. QED BY <2>1
<1>1. (Content \in Seq(Line))'
  <2>1. TypeOK'
    BY DEF Base
  <2>2. QED BY <2>1, ContentIsTyped, PTL
<1>2. i \notin Tombstoned(Content)'
  <2>1. Named'
    BY DEF Base, FileInv
  <2>2. (Tombstoned(Content) \subseteq doomed)'
    BY <2>1, TombstonedWereNamed, PTL
  <2>3. QED BY <2>2
<1>3. PICK n \in 1 .. Len(Content) : IsLive(Content, Content[n]) /\ Content[n].id = i
  BY <1>0 DEF Shows
<1>4. ASSUME NEW k \in DOMAIN Content', Content'[k].kind = "rec", Content'[k].id = i, Content'[k].tail # "torn"
      PROVE  Shows(i)'
  BY <1>2, <1>4 DEF Shows, IsLive, Parses
<1>5. Content[n].kind = "rec" /\ Content[n].tail # "torn"
  BY <1>3 DEF IsLive, Parses
<1>6. CASE n \in DOMAIN Content' /\ Content'[n] = Content[n]
  BY <1>3, <1>4, <1>5, <1>6
<1>7. Unterminated(Content) => n # Len(Content)
  BY <1>3, <1>5 DEF Exposed, LastLine
<1>8. CASE LineWritten(p)
  <2>1. OneLineOn(Content, LineOf(p), proc[p].wrote, proc'[p].wrote, Content')
    BY <1>8, LineIsWritten DEF Base, FileInv
  <2>2. CASE proc[p].wrote = "none" /\ ~Unterminated(Content)
    <3> DEFINE l == [kind |-> LineOf(p).kind, id |-> LineOf(p).id, tail |-> proc'[p].wrote]
               g == Append(Content, l)
    <3>1. Content' = g
      BY <2>1, <2>2 DEF OneLineOn
    <3> HIDE DEF l
    <3>2. n \in DOMAIN g /\ g[n] = Content[n]
      BY <1>0
    <3>3. QED BY <1>6, <3>1, <3>2
  <2>3. CASE proc[p].wrote # "none"
    <3>1. LastLine.kind = "corrupt" \/ (LastLine.kind = LineOf(p).kind /\ LastLine.id = LineOf(p).id)
      BY <1>8, <2>3 DEF LineWritten, Base, FileInv, OwnLine
    <3>2. LineIsOfJob(p)
      BY <1>8, LineOfJob DEF Base, CallInv, Jobs, LineWritten
    <3>3. LineOf(p).kind = "rec" => LineOf(p).id \notin acked
      BY <1>8, <3>2 DEF LineIsOfJob, Rec, Mark, Base, CallInv, Jobs, Job, LineWritten
    <3>4. n # Len(Content)
      BY <1>3, <1>5, <3>1, <3>3 DEF LastLine
    <3>5. Len(Content') = Len(Content) /\ \A k \in 1 .. Len(Content) - 1 : Content'[k] = Content[k]
      BY <2>1, <2>3 DEF OneLineOn
    <3>6. n \in 1 .. Len(Content) - 1 /\ n \in 1 .. Len(Content')
      BY <1>0, <3>4, <3>5
    <3>7. DOMAIN Content' = 1 .. Len(Content')
      BY <1>1
    <3>8. QED BY <1>6, <3>5, <3>6, <3>7
  <2>4. CASE proc[p].wrote = "none" /\ Unterminated(Content)
    <3>1. Len(Content') = Len(Content) /\ \A k \in 1 .. Len(Content) - 1 : Content'[k] = Content[k]
      BY <2>1, <2>4 DEF OneLineOn
    <3>2. n \in 1 .. Len(Content) - 1 /\ n \in 1 .. Len(Content')
      <4>1. n # Len(Content)
        BY <1>7, <2>4
      <4>2. Len(Content) \in Nat /\ Len(Content') = Len(Content) /\ n \in 1 .. Len(Content)
        BY <1>0, <3>1
      <4>3. QED BY <4>1, <4>2
    <3>3. DOMAIN Content' = 1 .. Len(Content')
      BY <1>1
    <3>4. QED BY <1>6, <3>1, <3>2, <3>3
  <2>5. QED BY <2>2, <2>3, <2>4
<1>9. CASE BatchWritten(p)
  <2>1. LinesOn(Content, Markers(proc[p].ids), Content')
    BY <1>9, BatchIsWritten DEF Base
  <2>2. n \in 1 .. Len(Content') /\ Content'[n] = Content[n]
    BY <1>7, <2>1 DEF LinesOn
  <2>3. DOMAIN Content' = 1 .. Len(Content')
    BY <1>1
  <2>4. QED BY <1>6, <2>2, <2>3
<1>10. CASE KeptInstalled(p) /\ Content' # Content
  <2> DEFINE k == Kept(Content)
  <2>1. Content' = k
    BY <1>10, CopiesAreKept
  <2>2. k \in Seq(Line) /\ \E j \in 1 .. Len(k) : k[j] = [kind |-> "rec", id |-> Content[n].id, tail |-> "nl"]
    BY <1>0, <1>3, KeptLines
  <2> HIDE DEF k
  <2>3. PICK j \in 1 .. Len(k) : k[j] = [kind |-> "rec", id |-> i, tail |-> "nl"]
    BY <1>3, <2>2
  <2>4. j \in DOMAIN k /\ k[j].kind = "rec" /\ k[j].id = i /\ k[j].tail # "torn"
    BY <2>2, <2>3
  <2>5. QED BY <1>4, <2>1, <2>4
<1>11. CASE Content' = Content
  BY <1>0, <1>6, <1>11
<1>12. QED BY <1>8, <1>9, <1>10, <1>11, OnlyWritersWrite DEF Base

(* The risk does not appear but by a line that is left unfinished. *)
LEMMA RiskIsCounted ==
  ASSUME OnlyAppendIsShort, Base, Base', NEW p \in Proc, Grouped(p)
  PROVE  AtRisk' => AtRisk \/ tears' = tears + 1
<1> SUFFICES ASSUME AtRisk', ~(tears' = tears + 1) PROVE AtRisk
  OBVIOUS
<1>1. Moves(p)
  BY DEF Grouped, Begins, Quiet, Leaves, LineWritten, BatchWritten, KeptRead, KeptWritten, KeptInstalled
<1>2. \A q \in Proc \ {p} : proc'[q] = proc[q]
  BY <1>1 DEF Moves
<1>3. CASE Content' = Content /\ proc[p].wrote = "none" /\ proc'[p].wrote = "none"
  <2>1. LastLine' = LastLine
    BY <1>3 DEF LastLine
  <2>2. \A q \in Proc : proc'[q].wrote = proc[q].wrote /\ (proc[q].wrote # "none" => proc'[q].op = proc[q].op)
    BY <1>2, <1>3
  <2>3. OwnLineIsLost' => OwnLineIsLost
    BY <2>1, <2>2 DEF OwnLineIsLost
  <2>4. LineIsAbandoned' => LineIsAbandoned
    BY <1>3, <2>2 DEF LineIsAbandoned
  <2>5. QED BY <2>3, <2>4 DEF AtRisk
<1>4. CASE Leaves(p) /\ proc[p].wrote # "none"
  <2>1. Content' = Content /\ LastLine' = LastLine /\ proc'[p].wrote = "none"
    BY <1>4 DEF Leaves, LastLine, Idle
  <2>2. proc[p].wrote = "nl"
    <3>1. CASE Return(p)
      BY <1>4, <3>1, SwappedWroteNothing DEF Return
    <3>2. CASE ~Return(p)
      <4>1. tears' = tears + Tears(p) /\ tears \in Nat
        BY <1>4, <3>2 DEF Leaves, Base, TypeOK
      <4>2. proc[p].wrote \notin {"torn", "bare"}
        BY <4>1 DEF Tears
      <4>3. QED BY <1>4, <4>2 DEF Base, TypeOK, ProcState, Ending
    <3>3. QED BY <3>1, <3>2
  <2>3. OwnLineIsLost' => OwnLineIsLost
    BY <1>2, <2>1 DEF OwnLineIsLost
  <2>4. LineIsAbandoned' => LineIsAbandoned
    <3> SUFFICES ASSUME LineIsAbandoned' PROVE LineIsAbandoned
      OBVIOUS
    <3>1. Unterminated(Content)
      BY <2>1 DEF LineIsAbandoned
    <3>2. proc[p].op \notin {"append", "mark"}
      <4> SUFFICES ASSUME proc[p].op \in {"append", "mark"} PROVE FALSE
        OBVIOUS
      <4>1. LastLine.tail = "nl"
        BY <2>2 DEF Base, FileInv, OwnLine
      <4>2. QED BY <3>1, <4>1 DEF Unterminated, Last, LastLine
    <3>3. QED BY <1>2, <3>1, <3>2 DEF LineIsAbandoned
  <2>5. QED BY <2>3, <2>4 DEF AtRisk
<1>5. ASSUME Writing(p), OwnLineIsLost', proc'[p].op # "append" PROVE FALSE
  <2>1. PICK q \in Proc : proc'[q].op = "append" /\ proc'[q].wrote # "none"
    BY <1>5 DEF OwnLineIsLost
  <2>2. q # p /\ proc[q].op = "append" /\ proc[q].wrote # "none"
    BY <1>2, <1>5, <2>1
  <2>3. QED BY <1>5, <2>2, OneWriter
<1>6. CASE LineWritten(p)
  <2>1. /\ OneLineOn(Content, LineOf(p), proc[p].wrote, proc'[p].wrote, Content') /\ LineOf(p) \in Line
        /\ Content \in Seq(Line) /\ proc'[p].wrote \in Ending
    BY <1>6, LineIsWritten DEF Base, FileInv
  <2>2. Writing(p) /\ proc[p].op \in {"append", "mark"} /\ proc'[p].op = proc[p].op
    BY <1>6 DEF LineWritten, Writing, SameCall
  <2>3. ~LineIsAbandoned'
    BY <2>1, <2>2 DEF LineIsAbandoned, Ending
  <2>4. OwnLineIsLost' /\ proc[p].op = "append" /\ LastLine'.kind = "corrupt"
    BY <1>5, <2>2, <2>3 DEF AtRisk, OwnLineIsLost
  <2>5. CASE proc[p].wrote # "none"
    <3>1. Len(Content') = Len(Content) /\ Content'[Len(Content)].kind = Content[Len(Content)].kind
      BY <2>1, <2>5 DEF OneLineOn
    <3>2. LastLine.kind = "corrupt"
      BY <2>4, <3>1 DEF LastLine
    <3>3. QED BY <2>4, <2>5, <3>2 DEF AtRisk, OwnLineIsLost
  <2>6. CASE proc[p].wrote = "none" /\ Unterminated(Content)
    <3>1. \A q \in Proc : proc[q].op \in {"append", "mark"} => proc[q].wrote = "none"
      BY <2>2, <2>6, OneWriter
    <3>2. QED BY <2>6, <3>1 DEF AtRisk, LineIsAbandoned
  <2>7. CASE proc[p].wrote = "none" /\ ~Unterminated(Content)
    <3> DEFINE l == [kind |-> LineOf(p).kind, id |-> LineOf(p).id, tail |-> proc'[p].wrote]
               g == Append(Content, l)
    <3>1. Content' = g
      BY <2>1, <2>7 DEF OneLineOn
    <3>2. LineOf(p).kind = "rec"
      <4>1. LineIsOfJob(p)
        BY <2>2, LineOfJob DEF Base, CallInv, Jobs
      <4>2. QED BY <2>4, <4>1 DEF LineIsOfJob, Rec
    <3>3. l \in Line /\ l.kind = "rec"
      BY <2>1, <3>2 DEF Line
    <3> HIDE DEF l
    <3>4. g[Len(g)] = l
      BY <2>1, <3>3
    <3>5. QED BY <2>4, <3>1, <3>3, <3>4 DEF LastLine
  <2>8. QED BY <2>5, <2>6, <2>7
<1>7. CASE BatchWritten(p)
  <2>1. Writing(p) /\ proc'[p].op = "batch" /\ proc[p].op = "batch"
    BY <1>7 DEF BatchWritten, Writing, SameCall
  <2>2. LineIsAbandoned'
    BY <1>5, <2>1 DEF AtRisk
  <2>3. LinesOn(Content, Markers(proc[p].ids), Content')
    BY <1>7, BatchIsWritten DEF Base
  <2>4. Unterminated(Content)
    BY <2>2, <2>3 DEF LinesOn, LineIsAbandoned
  <2>5. \A q \in Proc : proc[q].op \in {"append", "mark"} => proc[q].wrote = "none"
    BY <2>1, OneWriter
  <2>6. QED BY <2>4, <2>5 DEF AtRisk, LineIsAbandoned
<1>8. CASE KeptInstalled(p) /\ Content' # Content
  <2>1. Writing(p) /\ proc'[p].op = "swapped"
    BY <1>8 DEF KeptInstalled, Writing
  <2>2. LineIsAbandoned'
    BY <1>5, <2>1 DEF AtRisk
  <2>3. Content' = Kept(Content) /\ Content \in Seq(Line)
    BY <1>8, CopiesAreKept, ContentIsTyped DEF Base
  <2>4. QED BY <2>2, <2>3, CopiesAreTerminated DEF LineIsAbandoned
<1>9. CASE Begins(p)
  <2>1. proc[p].wrote = "none"
    BY <1>9 DEF Begins, Base, CallInv, Jobs, Job
  <2>2. QED BY <1>3, <1>9, <2>1 DEF Begins
<1>10. CASE Leaves(p) /\ proc[p].wrote = "none"
  BY <1>3, <1>10 DEF Leaves, Idle
<1>11. CASE Quiet(p) \/ KeptRead(p) \/ KeptWritten(p)
  BY <1>3, <1>11 DEF Quiet, KeptRead, KeptWritten
<1>12. CASE KeptInstalled(p) /\ Content' = Content
  BY <1>3, <1>12 DEF KeptInstalled
<1>13. QED
  BY <1>4, <1>6, <1>7, <1>8, <1>9, <1>10, <1>11, <1>12 DEF Grouped

(* Between two steps, an acknowledged record is lost where the line of its append was at risk. *)
LEMMA LossIsCounted ==
  ASSUME OnlyAppendIsShort, Base, Base', LossInv, NEW p \in Proc, Grouped(p)
  PROVE  Counted'
<1>1. /\ IsFiniteSet(Lost) /\ Cardinality(Lost) \in Nat
  BY LostIsFinite DEF Base
<1>2. (IsFiniteSet(Lost) /\ Cardinality(Lost) \in Nat)'
  BY LostIsFinite, PTL DEF Base
<1>3. doomed \subseteq doomed' /\ tears \in Nat /\ (~Return(p) => UNCHANGED <<acked, gone>>)
  BY HistoryGrows DEF Base
<1>4. AtRisk' => AtRisk \/ tears' = tears + 1
  BY RiskIsCounted
<1>5. ASSUME NEW i \in acked, i \in Lost' PROVE i \in Lost
  <2>1. i \notin doomed' /\ ~Shows(i)'
    BY <1>5 DEF Lost
  <2>2. ~Shows(i)
    BY <2>1, AckedRecordsStay DEF LossInv
  <2>3. QED BY <1>3, <2>1, <2>2 DEF Lost
<1>6. tears' = tears \/ tears' = tears + 1
  <2>1. tears' = tears \/ tears' = tears + Tears(p)
    BY DEF Grouped, Begins, Quiet, Leaves, LineWritten, BatchWritten, KeptRead, KeptWritten, KeptInstalled,
       Return, history
  <2>2. QED BY <1>3, <2>1 DEF Tears
<1>7. CASE Lost' \subseteq Lost
  <2>1. Cardinality(Lost') <= Cardinality(Lost)
    BY <1>1, <1>7, FS_Subset
  <2>2. QED BY <1>1, <1>2, <1>3, <1>4, <1>6, <2>1 DEF LossInv, Counted
<1>8. CASE ~(Lost' \subseteq Lost)
  <2>1. PICK i : i \in Lost' /\ i \notin Lost
    BY <1>8
  <2>2. i \in acked' /\ i \notin acked /\ ~Shows(i)' /\ i \notin doomed'
    BY <1>5, <2>1 DEF Lost
  <2>3. Return(p) /\ proc[p].op = "append"
    <3>1. Return(p)
      BY <1>3, <2>2
    <3>2. QED BY <2>2, <3>1 DEF Return
  <2>4. Content' = Content /\ tears' = tears /\ proc[p].wrote = "nl"
    BY <2>3 DEF Return, Content
  <2>5. PICK j \in minted : /\ proc[p].ids = {j} /\ LineOf(p) = Rec(j)
    <3>1. LineIsOfJob(p)
      BY <2>3, LineOfJob DEF Base, CallInv, Jobs
    <3>2. QED BY <2>3, <3>1 DEF LineIsOfJob
  <2>6. acked' = acked \union {j}
    BY <2>3, <2>5 DEF Return
  <2>7. j = i
    BY <2>2, <2>6
  <2>8. LastLine.tail = "nl" /\ Content # <<>>
        /\ (LastLine.kind = "corrupt" \/ (LastLine.kind = "rec" /\ LastLine.id = i))
    BY <2>3, <2>4, <2>5, <2>7 DEF Base, FileInv, OwnLine, Rec
  <2>9. LastLine.kind = "corrupt"
    <3> SUFFICES ASSUME LastLine.kind = "rec", LastLine.id = i PROVE FALSE
      BY <2>8
    <3>1. Content \in Seq(Line)
      BY ContentIsTyped DEF Base
    <3>2. Len(Content) \in DOMAIN Content
      BY <2>8, <3>1
    <3>3. Tombstoned(Content) \subseteq doomed
      BY TombstonedWereNamed DEF Base, FileInv
    <3>4. i \notin Tombstoned(Content)
      BY <1>3, <2>2, <3>3
    <3>5. Shows(i)
      BY <2>8, <3>2, <3>4 DEF Shows, IsLive, Parses, LastLine
    <3>6. Shows(i)' <=> Shows(i)
      BY <2>4 DEF Shows
    <3>7. QED BY <2>2, <3>5, <3>6
  <2>10. AtRisk
    BY <2>3, <2>4, <2>9 DEF AtRisk, OwnLineIsLost
  <2>11. ~AtRisk'
    <3>1. Writing(p)
      BY <2>3 DEF Return, Writing
    <3>2. \A q \in Proc : proc'[q].op = "append" => proc'[q].wrote = "none"
      <4>1. proc' = [proc EXCEPT ![p] = Idle]
        BY <2>3 DEF Return
      <4>2. proc \in [Proc -> ProcState]
        BY DEF Base, TypeOK
      <4>3. \A q \in Proc : q # p /\ proc[q].op = "append" => proc[q].wrote = "none"
        BY <3>1, OneWriter
      <4>4. QED BY <4>1, <4>2, <4>3 DEF Idle
    <3>3. ~Unterminated(Content)
      BY <2>8 DEF Unterminated, Last, LastLine
    <3>4. QED BY <2>4, <3>2, <3>3 DEF AtRisk, OwnLineIsLost, LineIsAbandoned
  <2>12. Cardinality(Lost') <= Cardinality(Lost) + 1
    <3>1. Lost' \subseteq Lost \cup {i}
      BY <1>5, <2>6, <2>7 DEF Lost
    <3>2. /\ IsFiniteSet(Lost \cup {i})
          /\ Cardinality(Lost \cup {i}) = IF i \in Lost THEN Cardinality(Lost) ELSE Cardinality(Lost) + 1
      BY <1>1, FS_AddElement
    <3>3. Cardinality(Lost \cup {i}) = Cardinality(Lost) + 1
      BY <2>1, <3>2
    <3>4. Cardinality(Lost') <= Cardinality(Lost \cup {i})
      BY <3>1, <3>2, FS_Subset
    <3>5. QED BY <3>3, <3>4
  <2>13. QED BY <1>1, <1>2, <1>3, <2>4, <2>10, <2>11, <2>12 DEF LossInv, Counted
<1>9. QED BY <1>7, <1>8

(* Nothing is lost in the beginning. *)
LEMMA InitLoss == Init => LossInv
<1> SUFFICES ASSUME Init PROVE LossInv
  OBVIOUS
<1>1. Content = <<>> /\ Lost = {} /\ tears = 0
  BY DEF Init, Content, Lost
<1>2. ~AtRisk
  BY <1>1 DEF Init, AtRisk, OwnLineIsLost, LineIsAbandoned, Unterminated, Idle
<1>3. Cardinality(Lost) = 0
  BY <1>1, FS_EmptySet
<1>4. QED BY <1>1, <1>2, <1>3 DEF LossInv, Exposed, Counted, Unterminated

(* The same of the next-state relation. *)
LEMMA NextKeepsLoss ==
  ASSUME OnlyAppendIsShort, Base, Base', LossInv, [Next]_vars
  PROVE  LossInv'
<1>1. CASE UNCHANGED vars
  <2>1. /\ Content' = Content /\ proc' = proc /\ acked' = acked /\ doomed' = doomed /\ tears' = tears
    BY <1>1 DEF vars, history, Content
  <2>2. \A i : Shows(i)' <=> Shows(i)
    BY <2>1 DEF Shows
  <2>3. Lost' = Lost
    BY <2>1, <2>2 DEF Lost
  <2>4. LastLine' = LastLine
    BY <2>1 DEF LastLine
  <2>5. AtRisk' <=> AtRisk
    BY <2>1, <2>4 DEF AtRisk, OwnLineIsLost, LineIsAbandoned
  <2>6. QED BY <2>1, <2>3, <2>4, <2>5 DEF LossInv, Exposed, Counted
<1>2. CASE Next
  <2>1. PICK p \in Proc : Taking(p)
    BY <1>2 DEF Next, Taking
  <2>2. Grouped(p)
    BY <2>1, StepsGroup
  <2>3. QED BY <2>2, ExposedStays, LossIsCounted DEF LossInv
<1>3. QED BY <1>1, <1>2

(* On a disk that fills up, however the appends are cut short or killed: no more acknowledged records are lost
   than lines were left unfinished. *)
THEOREM LossBoundedByTearsAlways ==
  ASSUME OnlyAppendIsShort PROVE Spec => []LossBoundedByTears
<1>1. Base /\ Base' /\ LossInv /\ [Next]_vars => LossInv'
  BY NextKeepsLoss
<1>2. Base /\ LossInv => LossBoundedByTears
  <2> SUFFICES ASSUME Base, LossInv PROVE LossBoundedByTears
    OBVIOUS
  <2>1. Cardinality(Lost) \in Nat /\ tears \in Nat
    BY LostIsFinite DEF Base, TypeOK
  <2>2. Cardinality(Lost) <= tears
    BY <2>1 DEF LossInv, Counted
  <2>3. QED BY <2>2 DEF LossBoundedByTears, Lost
<1>3. QED BY <1>1, <1>2, BaseAlways, InitLoss, PTL DEF Spec
=============================================================================
