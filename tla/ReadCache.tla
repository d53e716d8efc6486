------------------------------ MODULE ReadCache ------------------------------
(***************************************************************************)
(* The cache of file contents behind every search (_read_cache.py), with   *)
(* its two policies: LRU, with one resident key a path, and ARC, with two  *)
(* resident lists, two ghost lists and a target for the first.  A key is   *)
(* the path and what stat() said (mtime and size); the file is read        *)
(* between two holdings of the lock.                                       *)
(***************************************************************************)
EXTENDS Naturals, Sequences, Subsequences

CONSTANTS
  Readers, Paths, Capacity,
  MaxStat, MaxReads,   \* bounds: stats a file may get, reads
  Idle, Unread

VARIABLES
  policy,       \* "lru" or "arc", fixed when the singleton is built
  file,         \* per path: its stat and its text
  t1, t2,       \* resident entries, oldest first; LRU keeps t1 only
  b1, b2,       \* ghost keys
  target,       \* _p: how long ARC lets t1 be
  pathKeys,     \* LRU: the resident key of each path
  reader,
  reads,        \* reads begun
  unreported,   \* paths written under an unchanged stat, invalidate() to come
  raced,        \* history: paths where such a write met a reader at work
  crowded,      \* history: a store met a cache that others filled meanwhile
  stale         \* history: paths of other hits that answered an old text

cacheVars == <<t1, t2, b1, b2, target, pathKeys>>
evars == <<policy, file, cacheVars, reader, reads, unreported, raced, crowded, stale>>

EInit ==
  /\ policy \in {"lru", "arc"}
  /\ file = [p \in Paths |-> [stat |-> 0, text |-> 0]]
  /\ t1 = <<>> /\ t2 = <<>> /\ b1 = <<>> /\ b2 = <<>> /\ target = 0
  /\ pathKeys = [p \in Paths |-> Unread]
  /\ reader = [r \in Readers |-> Idle] /\ reads = 0
  /\ unreported = {} /\ raced = {} /\ crowded = FALSE /\ stale = {}

-----------------------------------------------------------------------------
(* Lists of entries *)

Entry(key, text) == [key |-> key, text |-> text]
In(list, key) == \E i \in DOMAIN list : list[i].key = key
TextOf(list, key) == list[CHOOSE i \in DOMAIN list : list[i].key = key].text
Drop(list, key) == Picked(list, {i \in DOMAIN list : list[i].key # key})
DropPath(list, p) == Picked(list, {i \in DOMAIN list : list[i].key.path # p})
DropOthers(list, key) == Picked(list, {i \in DOMAIN list : list[i].key.path # key.path \/ list[i].key = key})
Put(list, key, text) == Append(Drop(list, key), Entry(key, text))
\* An OrderedDict keeps the place of a key that is assigned again.
Assign(list, key, text) ==
  IF In(list, key)
  THEN [i \in DOMAIN list |-> IF list[i].key = key THEN Entry(key, text) ELSE list[i]]
  ELSE Append(list, Entry(key, text))
Newest(list, n) == SubSeq(list, IF Len(list) > n THEN Len(list) - n + 1 ELSE 1, Len(list))
Larger(x, y) == IF x > y THEN x ELSE y
Smaller(x, y) == IF x < y THEN x ELSE y

\* ARC _replace: one resident entry, if any, becomes a ghost.
FromT1(key, p) == t1 # <<>> /\ (Len(t1) > p \/ (In(b2, key) /\ Len(t1) = p))
Ghost(e) == Entry(e.key, Unread)
Replaced(key, p) ==
  IF FromT1(key, p)
  THEN [t1 |-> Tail(t1), t2 |-> t2, b1 |-> Assign(b1, Head(t1).key, Unread), b2 |-> b2]
  ELSE IF t2 # <<>>
  THEN [t1 |-> t1, t2 |-> Tail(t2), b1 |-> b1, b2 |-> Assign(b2, Head(t2).key, Unread)]
  ELSE [t1 |-> t1, t2 |-> t2, b1 |-> b1, b2 |-> b2]

-----------------------------------------------------------------------------
(* get_or_read: stat and look; read; store *)

Key(p) == [path |-> p, stat |-> file[p].stat]
Busy(p) == \E r \in Readers : reader[r] # Idle /\ reader[r].key.path = p
Current(p, text) ==
  stale' = IF text = file[p].text \/ p \in unreported \union raced THEN stale ELSE stale \union {p}
Begin == reads < MaxReads /\ reads' = reads + 1

Hit(r, p) ==
  /\ reader[r] = Idle /\ Begin
  /\ \/ /\ In(t1, Key(p)) /\ policy = "lru"
        /\ t1' = Put(t1, Key(p), TextOf(t1, Key(p))) /\ t2' = t2
        /\ Current(p, TextOf(t1, Key(p)))
     \/ /\ In(t1, Key(p)) /\ policy = "arc"
        /\ t1' = Drop(t1, Key(p))
        /\ t2' = Assign(t2, Key(p), TextOf(t1, Key(p)))
        /\ Current(p, TextOf(t1, Key(p)))
     \/ /\ In(t2, Key(p)) /\ ~In(t1, Key(p))
        /\ t2' = Put(t2, Key(p), TextOf(t2, Key(p))) /\ t1' = t1
        /\ Current(p, TextOf(t2, Key(p)))
  /\ UNCHANGED <<policy, file, b1, b2, target, pathKeys, reader, unreported, raced, crowded>>

Reading(r, p, rescued) ==
  reader' = [reader EXCEPT ![r] = [key |-> Key(p), text |-> Unread, rescued |-> rescued]]
Become(lists, ghosts1, ghosts2) ==
  t1' = lists.t1 /\ t2' = lists.t2 /\ b1' = ghosts1 /\ b2' = ghosts2
MissLru(r, p) ==
  /\ policy = "lru" /\ reader[r] = Idle /\ Begin /\ ~In(t1, Key(p))
  /\ Reading(r, p, FALSE)
  /\ UNCHANGED <<policy, file, cacheVars, unreported, raced, crowded, stale>>
\* A ghost moves the target, makes room, and will be stored in t2.
MissArc(r, p) ==
  LET key == Key(p)
      grown == Smaller(Capacity, target + Larger(1, Len(b2) \div Larger(1, Len(b1))))
      step == Larger(1, Len(b1) \div Larger(1, Len(b2)))
      shrunk == IF step > target THEN 0 ELSE target - step
  IN  /\ policy = "arc" /\ reader[r] = Idle /\ Begin /\ ~In(t1, key) /\ ~In(t2, key)
      /\ Reading(r, p, In(b1, key) \/ In(b2, key))
      /\ IF In(b1, key)
         THEN LET l == Replaced(key, grown)
              IN  target' = grown /\ Become(l, Drop(l.b1, key), l.b2)
         ELSE IF In(b2, key)
         THEN LET l == Replaced(key, shrunk)
              IN  target' = shrunk /\ Become(l, l.b1, Drop(l.b2, key))
         ELSE /\ target' = target
              /\ IF Len(t1) + Len(t2) >= Capacity
                 THEN LET l == Replaced(key, target) IN Become(l, l.b1, l.b2)
                 ELSE UNCHANGED <<t1, t2, b1, b2>>
      /\ UNCHANGED <<policy, file, pathKeys, unreported, raced, crowded, stale>>

ReadText(r) ==
  /\ reader[r] # Idle /\ reader[r].text = Unread
  /\ reader' = [reader EXCEPT ![r].text = file[reader[r].key.path].text]
  /\ UNCHANGED <<policy, file, cacheVars, reads, unreported, raced, crowded, stale>>

Evicted_KeepsPathKey(kept) == pathKeys
\* An evicted key takes the key of its path with it.
Evicted(kept) ==
  [p \in Paths |-> IF \E i \in DOMAIN kept : kept[i].key.path = p THEN pathKeys[p] ELSE Unread]
StoreLru(r) ==
  /\ policy = "lru" /\ reader[r] # Idle /\ reader[r].text # Unread
  /\ LET key == reader[r].key
         old == pathKeys[key.path]
         kept == Newest(Put(IF old # Unread THEN Drop(t1, old) ELSE t1, key, reader[r].text), Capacity)
     IN  t1' = kept /\ pathKeys' = [Evicted(kept) EXCEPT ![key.path] = key]
  /\ reader' = [reader EXCEPT ![r] = Idle]
  /\ UNCHANGED <<policy, file, t2, b1, b2, target, reads, unreported, raced, crowded, stale>>
StoreArc(r) ==
  /\ policy = "arc" /\ reader[r] # Idle /\ reader[r].text # Unread
  /\ LET key == reader[r].key
         own1 == DropOthers(t1, key)
         own2 == DropOthers(t2, key)
     IN  IF reader[r].rescued
         THEN t1' = own1 /\ t2' = Assign(own2, key, reader[r].text)
         ELSE t1' = Assign(own1, key, reader[r].text) /\ t2' = own2
  /\ b1' = Newest(b1, Capacity) /\ b2' = Newest(b2, Capacity)
  /\ crowded' = (crowded \/ \E q \in Readers : q # r /\ reader[q] # Idle)
  /\ reader' = [reader EXCEPT ![r] = Idle]
  /\ UNCHANGED <<policy, file, target, pathKeys, reads, unreported, raced, stale>>

-----------------------------------------------------------------------------
(* Writers of the files *)

\* A write that stat() shows; stats are never used again.
WriteSeen(p) ==
  /\ file[p].stat < MaxStat
  /\ file' = [file EXCEPT ![p] = [stat |-> @.stat + 1, text |-> @.text + 1]]
  /\ unreported' = unreported \ {p} /\ raced' = raced \ {p}
  /\ UNCHANGED <<policy, cacheVars, reader, reads, crowded, stale>>
\* One of the same size within one tick of the clock; its writer invalidates.
WriteUnseen(p) ==
  /\ file[p].text < MaxStat /\ p \notin unreported
  /\ file' = [file EXCEPT ![p].text = @ + 1]
  /\ unreported' = unreported \union {p}
  /\ UNCHANGED <<policy, cacheVars, reader, reads, raced, crowded, stale>>
Invalidate(p) ==
  /\ p \in unreported /\ unreported' = unreported \ {p}
  /\ raced' = IF Busy(p) THEN raced \union {p} ELSE raced
  /\ t1' = DropPath(t1, p) /\ t2' = DropPath(t2, p)
  /\ b1' = DropPath(b1, p) /\ b2' = DropPath(b2, p)
  /\ pathKeys' = [pathKeys EXCEPT ![p] = Unread]
  /\ UNCHANGED <<policy, file, target, reader, reads, crowded, stale>>

ENext ==
  \/ \E r \in Readers :
       \/ \E p \in Paths : Hit(r, p) \/ MissLru(r, p) \/ MissArc(r, p)
       \/ ReadText(r) \/ StoreLru(r) \/ StoreArc(r)
  \/ \E p \in Paths : WriteSeen(p) \/ WriteUnseen(p) \/ Invalidate(p)

ESpec == EInit /\ [][ENext]_evars

-----------------------------------------------------------------------------
(* Properties. *)

Resident == {t1[i].key : i \in DOMAIN t1} \union {t2[i].key : i \in DOMAIN t2}
Keys(list) == {list[i].key : i \in DOMAIN list}

\* A hit answers the text of the file, except after a write that stat() does not
\* show and before its invalidate, or when that invalidate met a reader between
\* its stat and its store.  LRU keeps one key a path, the one its index names,
\* within capacity.
HitsAreCurrent ==
  /\ stale = {}
  /\ policy = "lru" =>
       /\ Len(t1) <= Capacity
       /\ Keys(t1) = {pathKeys[p] : p \in {p \in Paths : pathKeys[p] # Unread}}

\* "total resident size bounded by ``capacity``" (_ARCReadCache).
ResidentWithinCapacity == Len(t1) + Len(t2) <= Capacity
=============================================================================
