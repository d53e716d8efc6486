----------------------------- MODULE SearchCache -----------------------------
(***************************************************************************)
(* The cache of search results (cache.py, used by core.search, search_v2   *)
(* and search_smart): entries live under a key that holds the generation   *)
(* read when the search began.  The wrapped mutations bump the generation  *)
(* once they return, by a read and a write without a lock; other writers   *)
(* of the notes are seen when the entry outlives its ttl or is evicted.    *)
(***************************************************************************)
EXTENDS Naturals, Sequences, Subsequences

CONSTANTS
  Searchers,    \* threads that search; one key each stands for one query
  Mutators,     \* threads in a wrapped mutation
  Queries, Capacity, Ttl,
  MaxVersion, MaxNow, MaxMeddles, MaxAnswers, \* bounds
  Idle, NoHits

VARIABLES
  version,      \* what a search of the notes would find
  gen,          \* _cache_generation_counter
  store,        \* the entries, least recently used first
  now,          \* time.monotonic
  searcher, mutator,
  returned,     \* history: the last version whose mutation returned
  backwards,    \* history: a bump overwrote a later one
  handed,       \* history: results that callers hold, as they were answered
  meddles       \* history: results their callers emptied

hvars == <<version, gen, store, now, searcher, mutator, returned, backwards, handed, meddles>>

HInit ==
  /\ version = 0 /\ gen = 0 /\ store = <<>> /\ now = 0
  /\ searcher = [s \in Searchers |-> Idle] /\ mutator = [m \in Mutators |-> Idle]
  /\ returned = 0 /\ backwards = FALSE /\ handed = <<>> /\ meddles = 0

-----------------------------------------------------------------------------
(* A search *)

Key(q) == [query |-> q, gen |-> gen]
At(key) == {i \in DOMAIN store : store[i].key = key}
Without(key) == Picked(store, {i \in DOMAIN store : store[i].key # key})
Fresh(e) == now - e.at <= Ttl

\* An answer: its version, what the search was owed, the entry it shares its list
\* with (0 when the list is the caller's own).
Answer(s, value, owed, shares) ==
  /\ Len(handed) < MaxAnswers
  /\ searcher' = [searcher EXCEPT ![s] = Idle]
  /\ handed' = Append(handed, [value |-> value, owed |-> owed, shares |-> shares])

\* _SearchCache.get: an expired entry is dropped, a hit moves to the end and
\* answers a copy of the list.
Hit(s, q) ==
  /\ searcher[s] = Idle
  /\ \E i \in At(Key(q)) :
       /\ Fresh(store[i])
       /\ store' = Append(Without(Key(q)), store[i])
       /\ Answer(s, store[i].value, returned, 0)
  /\ UNCHANGED <<version, gen, now, mutator, returned, backwards, meddles>>
Miss(s, q) ==
  /\ searcher[s] = Idle
  /\ \A i \in At(Key(q)) : ~Fresh(store[i])
  /\ store' = Without(Key(q))
  /\ searcher' = [searcher EXCEPT ![s] = [key |-> Key(q), value |-> Idle, owed |-> returned]]
  /\ UNCHANGED <<version, gen, now, mutator, returned, backwards, handed, meddles>>
Compute(s) ==
  /\ searcher[s] # Idle /\ searcher[s].value = Idle
  /\ searcher' = [searcher EXCEPT ![s].value = version]
  /\ UNCHANGED <<version, gen, store, now, mutator, returned, backwards, handed, meddles>>
\* _SearchCache.set; what it stores is the list it goes on to answer.
Bounded(s) == SubSeq(s, IF Len(s) > Capacity THEN Len(s) - Capacity + 1 ELSE 1, Len(s))
Put(s) ==
  /\ searcher[s] # Idle /\ searcher[s].value # Idle
  /\ store' = Bounded(Append(Without(searcher[s].key),
                [key |-> searcher[s].key, at |-> now, value |-> searcher[s].value,
                 list |-> Len(handed) + 1]))
  /\ Answer(s, searcher[s].value, searcher[s].owed, Len(handed) + 1)
  /\ UNCHANGED <<version, gen, now, mutator, returned, backwards, meddles>>

\* A caller empties a list it was answered.
Meddle(k) ==
  /\ k \in DOMAIN handed /\ meddles < MaxMeddles /\ meddles' = meddles + 1
  /\ store' = [i \in DOMAIN store |->
                IF handed[k].shares # 0 /\ store[i].list = handed[k].shares
                THEN [store[i] EXCEPT !.value = NoHits] ELSE store[i]]
  /\ UNCHANGED <<version, gen, now, searcher, mutator, returned, backwards, handed>>

-----------------------------------------------------------------------------
(* Mutations and time *)

\* The wrapped method runs, then the generation is read, then written.
Mutate(m) ==
  /\ mutator[m] = Idle /\ version < MaxVersion
  /\ version' = version + 1
  /\ mutator' = [mutator EXCEPT ![m] = [wrote |-> version + 1, read |-> Idle]]
  /\ UNCHANGED <<gen, store, now, searcher, returned, backwards, handed, meddles>>
BumpRead(m) ==
  /\ mutator[m] # Idle /\ mutator[m].read = Idle
  /\ mutator' = [mutator EXCEPT ![m].read = gen]
  /\ UNCHANGED <<version, gen, store, now, searcher, returned, backwards, handed, meddles>>
Bumped_Keeps(read) == read
Bumped(read) == read + 1
BumpWrite(m) ==
  /\ mutator[m] # Idle /\ mutator[m].read # Idle
  /\ gen' = Bumped(mutator[m].read)
  /\ backwards' = (backwards \/ Bumped(mutator[m].read) < gen)
  /\ returned' = IF mutator[m].wrote > returned THEN mutator[m].wrote ELSE returned
  /\ mutator' = [mutator EXCEPT ![m] = Idle]
  /\ UNCHANGED <<version, store, now, searcher, handed, meddles>>
\* A writer that bumps nothing: another process, an unwrapped method, a hand.
WriteElsewhere ==
  /\ version < MaxVersion /\ version' = version + 1
  /\ UNCHANGED <<gen, store, now, searcher, mutator, returned, backwards, handed, meddles>>
Tick ==
  /\ now < MaxNow /\ now' = now + 1
  /\ UNCHANGED <<version, gen, store, searcher, mutator, returned, backwards, handed, meddles>>
\* cache_clear
Clear ==
  /\ store # <<>> /\ store' = <<>>
  /\ UNCHANGED <<version, gen, now, searcher, mutator, returned, backwards, handed, meddles>>

HNext ==
  \/ \E s \in Searchers : (\E q \in Queries : Hit(s, q) \/ Miss(s, q)) \/ Compute(s) \/ Put(s)
  \/ \E m \in Mutators : Mutate(m) \/ BumpRead(m) \/ BumpWrite(m)
  \/ \E k \in 1..MaxAnswers : Meddle(k)
  \/ WriteElsewhere \/ Tick \/ Clear

HSpec == HInit /\ [][HNext]_hvars

-----------------------------------------------------------------------------
(* Properties. *)

\* A search that began after a mutation returned answers at least what it wrote,
\* unless two bumps overlapped and the generation went back to one whose entries
\* still live; the cache never outgrows its capacity, one entry a key.
SearchesSeeReturnedMutations ==
  /\ ~backwards /\ meddles = 0 => \A k \in DOMAIN handed : handed[k].value >= handed[k].owed
  /\ Len(store) <= Capacity
  /\ \A i, j \in DOMAIN store : store[i].key = store[j].key => i = j

\* "Returned values are shallow-copied so callers can safely mutate the outer list
\* without polluting the cache" (cache.py): an entry is what its search found.
CallersCannotPolluteTheCache == \A i \in DOMAIN store : store[i].value # NoHits

\* "a generation counter that mutation methods bump to trigger automatic
\* invalidation": the counter never returns to a generation it left.
GenerationsOnlyGrow == ~backwards
=============================================================================
