---------------------------- MODULE TimingProofs ----------------------------
(***************************************************************************)
(* What DelayLedger promises, for any number of processes, runs, lines and *)
(* torn or restored files.                                                 *)
(*                                                                         *)
(* The invariant DelayInv says of every beginning of the log that it agrees*)
(* with its replay (Agrees): the view has the starts and the ends that the *)
(* lines tell of, the threshold of a finish is still the one that the runs *)
(* ended before it give, a run ends after the runs under it, and evidence  *)
(* goes back to an anomaly.  It has to hold of every beginning, and not of *)
(* the log alone, because the owner may put back any of them.  A line that *)
(* replay accepts keeps it (FeedAgrees), and what a writer prepares, replay*)
(* accepts (LineIsWritten), since the fold that the writer works with is   *)
(* the replay of the file (FoldedIsView).  For that a cache is either right*)
(* or will not be trusted: the lines appended after a restore are of an era*)
(* that no guard of an older cache names (CacheAgrees).                    *)
(*                                                                         *)
(* Why the turns of the Hermes provider reach the delay ledger, whole and  *)
(* in the order they ended, for any number of providers that write one log.*)
(*                                                                         *)
(* HermesInv says where every thread is: the queue holds the turns that    *)
(* ended last, by number, and the turn that is being written is the one    *)
(* before them (QueueIsInOrder); the task a thread has started is open in  *)
(* the ledger, is its own, and has no open child but the phase the thread  *)
(* started last (IsAt).  So the next call of a thread is one the ledger    *)
(* accepts (NeverRefused), another provider's call is about other runs     *)
(* (OthersUndisturbed), and a turn is done when its thread believes so.    *)
(* All of it is said of the lines that are ended and of what is read when  *)
(* the last line is open, because a torn line may come and go as a record. *)
(* DelayInv holds beside it: HNext writes through the ledger's own calls.   *)
(***************************************************************************)
EXTENDS HermesTiming, SubsequenceProofs, FiniteSetTheorems, TLAPS

-----------------------------------------------------------------------------
(* The fold of a log *)

(* One line of a fold. *)
Fed(v, lines, after, n) == IF n = 0 THEN v ELSE Feed(after[n - 1], lines[n])

(* The fold is a function: there is a view after every line. *)
LEMMA ReplayedLines ==
  ASSUME NEW X, NEW lines \in Seq(X), NEW v
  PROVE  Replayed(v, lines) = [n \in 0 .. Len(lines) |-> Fed(v, lines, Replayed(v, lines), n)]
<1> DEFINE Folds(k, f) == f = [n \in 0 .. k |-> Fed(v, lines, f, n)]
           m == Len(lines)
           G == {k \in 0 .. m : \E f : Folds(k, f)}
<1>1. m \in Nat
  OBVIOUS
<1>2. 0 \in G
  <2>1. Folds(0, [n \in 0 .. 0 |-> v])
    BY DEF Fed
  <2> QED BY <1>1, <2>1
<1>3. ASSUME NEW n \in 0 .. m - 1, n \in G PROVE n + 1 \in G
  <2>1. PICK f : Folds(n, f)
    BY <1>3
  <2> DEFINE k == n + 1
             h == [j \in 0 .. k |-> IF j = k THEN Fed(v, lines, f, k) ELSE f[j]]
  <2>2. ASSUME NEW j \in 0 .. k PROVE h[j] = Fed(v, lines, h, j)
    <3>1. CASE j = k
      BY <3>1, <1>1 DEF Fed
    <3>2. CASE j # k
      <4>1. j \in 0 .. n /\ h[j] = f[j] /\ f[j] = Fed(v, lines, f, j)
        BY <2>1, <3>2
      <4>2. j # 0 => h[j - 1] = f[j - 1]
        BY <3>2
      <4> QED BY <4>1, <4>2 DEF Fed
    <3> QED BY <3>1, <3>2
  <2>3. Folds(k, h)
    <3>1. h = [j \in 0 .. k |-> h[j]]
      OBVIOUS
    <3> HIDE DEF h
    <3> QED BY <2>2, <3>1
  <2>4. k \in 0 .. m
    BY <1>1
  <2> QED BY <2>3, <2>4
<1>4. m \in G
  <2> HIDE DEF G
  <2>1. 0 .. m \subseteq G
    BY <1>1, <1>2, <1>3, TurnByTurn
  <2> QED BY <1>1, <2>1
<1>5. PICK f : Folds(m, f)
  BY <1>4
<1>6. Replayed(v, lines) = CHOOSE g : Folds(m, g)
  BY DEF Replayed, Fed
<1> HIDE DEF Folds
<1>7. Folds(m, Replayed(v, lines))
  BY <1>5, <1>6
<1> QED BY <1>7 DEF Folds

(* What a view is after one line more. *)
LEMMA ReplayedLine ==
  ASSUME NEW X, NEW lines \in Seq(X), NEW v
  PROVE  /\ Replayed(v, lines)[0] = v
         /\ \A n \in 0 .. Len(lines) - 1 :
              Replayed(v, lines)[n + 1] = Feed(Replayed(v, lines)[n], lines[n + 1])
<1> DEFINE P == Replayed(v, lines)
<1>1. P = [n \in 0 .. Len(lines) |-> Fed(v, lines, P, n)]
  BY ReplayedLines
<1> HIDE DEF P
<1>2. \A n \in 0 .. Len(lines) : P[n] = Fed(v, lines, P, n)
  BY <1>1
<1>3. P[0] = v
  BY <1>2 DEF Fed
<1>4. ASSUME NEW n \in 0 .. Len(lines) - 1
      PROVE  P[n + 1] = Feed(P[n], lines[n + 1])
  <2>1. n + 1 \in 0 .. Len(lines) /\ n + 1 # 0 /\ (n + 1) - 1 = n
    OBVIOUS
  <2> QED BY <1>2, <2>1 DEF Fed
<1> QED BY <1>3, <1>4 DEF P

(* Folding some lines and then those that follow them is folding them all:  *)
(* what a process does with the lines appended since its last call.         *)
LEMMA FoldsCompose ==
  ASSUME NEW X, NEW lines \in Seq(X), NEW more \in Seq(X), NEW v, NEW k \in Nat,
         k + Len(more) <= Len(lines), \A i \in 1 .. Len(more) : more[i] = lines[k + i]
  PROVE  Replay(Replayed(v, lines)[k], more) = Replayed(v, lines)[k + Len(more)]
<1> DEFINE P == Replayed(v, lines)
           Q == Replayed(P[k], more)
           G == {n \in 0 .. Len(more) : Q[n] = P[k + n]}
<1>1. /\ P[0] = v /\ \A n \in 0 .. Len(lines) - 1 : P[n + 1] = Feed(P[n], lines[n + 1])
      /\ Q[0] = P[k] /\ \A n \in 0 .. Len(more) - 1 : Q[n + 1] = Feed(Q[n], more[n + 1])
  BY ReplayedLine
<1>2. Len(more) \in Nat /\ Len(lines) \in Nat
  OBVIOUS
<1> HIDE DEF P, Q
<1>3. 0 \in G
  BY <1>1, <1>2
<1>4. ASSUME NEW n \in 0 .. Len(more) - 1, n \in G PROVE n + 1 \in G
  <2>1. /\ k + n \in 0 .. Len(lines) - 1 /\ n + 1 \in 1 .. Len(more)
        /\ (k + n) + 1 = k + (n + 1)
    BY <1>2
  <2>2. Q[n + 1] = Feed(P[k + n], lines[k + (n + 1)])
    BY <1>1, <1>4, <2>1
  <2>3. P[k + (n + 1)] = Feed(P[k + n], lines[k + (n + 1)])
    BY <1>1, <2>1
  <2> QED BY <2>1, <2>2, <2>3
<1>5. Len(more) \in G
  <2> HIDE DEF G
  <2>1. 0 .. Len(more) \subseteq G
    BY <1>2, <1>3, <1>4, TurnByTurn
  <2> QED BY <1>2, <2>1
<1> QED BY <1>5 DEF Q, P, Replay

(* Nothing is folded, nothing changes. *)
LEMMA ReplayEmpty ==
  ASSUME NEW v
  PROVE  Replay(v, <<>>) = v
<1>1. <<>> \in Seq({}) /\ Len(<<>>) = 0
  OBVIOUS
<1> QED BY <1>1, ReplayedLine DEF Replay

(* The view after some of the lines is the replay of these. *)
LEMMA ReplayPrefix ==
  ASSUME NEW X, NEW lines \in Seq(X), NEW some \in Seq(X), NEW v,
         Len(some) <= Len(lines), \A i \in 1 .. Len(some) : some[i] = lines[i]
  PROVE  Replay(v, some) = Replayed(v, lines)[Len(some)]
<1>1. /\ 0 \in Nat /\ 0 + Len(some) = Len(some) /\ \A i \in 1 .. Len(some) : some[i] = lines[0 + i]
  OBVIOUS
<1>2. Replayed(v, lines)[0] = v
  BY ReplayedLine
<1>3. Replay(Replayed(v, lines)[0], some) = Replayed(v, lines)[0 + Len(some)]
  BY <1>1, FoldsCompose
<1> QED BY <1>1, <1>2, <1>3

(* The replay of a log and one line more. *)
LEMMA ReplayAppend ==
  ASSUME NEW X, NEW lines \in Seq(X), NEW e \in X, NEW v
  PROVE  Replay(v, Append(lines, e)) = Feed(Replay(v, lines), e)
<1> DEFINE L == Append(lines, e)
<1>1. /\ L \in Seq(X) /\ Len(L) = Len(lines) + 1 /\ Len(lines) \in Nat
      /\ L[Len(lines) + 1] = e /\ \A i \in 1 .. Len(lines) : lines[i] = L[i]
  OBVIOUS
<1> HIDE DEF L
<1>2. Replay(v, lines) = Replayed(v, L)[Len(lines)]
  BY <1>1, ReplayPrefix
<1>3. Len(lines) \in 0 .. Len(L) - 1
  BY <1>1
<1>4. Replayed(v, L)[Len(lines) + 1] = Feed(Replayed(v, L)[Len(lines)], L[Len(lines) + 1])
  BY <1>1, <1>3, ReplayedLine
<1> QED BY <1>1, <1>2, <1>4 DEF L, Replay

(* A cache of a prefix and the lines since then give the whole replay. *)
LEMMA ReplaySince ==
  ASSUME NEW X, NEW lines \in Seq(X), NEW n \in 0 .. Len(lines), NEW v
  PROVE  Replay(Replay(v, SubSeq(lines, 1, n)), SubSeq(lines, n + 1, Len(lines)))
           = Replay(v, lines)
<1> DEFINE a == SubSeq(lines, 1, n)
           b == SubSeq(lines, n + 1, Len(lines))
<1>1. /\ a \in Seq(X) /\ Len(a) = n /\ \A i \in 1 .. n : a[i] = lines[i]
      /\ b \in Seq(X) /\ Len(b) = Len(lines) - n
      /\ \A i \in 1 .. Len(lines) - n : b[i] = lines[n + i]
      /\ n \in Nat /\ Len(lines) \in Nat
  OBVIOUS
<1> HIDE DEF a, b
<1>2. Replay(v, a) = Replayed(v, lines)[n]
  <2>1. a \in Seq(X) /\ Len(a) <= Len(lines) /\ \A i \in 1 .. Len(a) : a[i] = lines[i]
    BY <1>1
  <2>2. Replay(v, a) = Replayed(v, lines)[Len(a)]
    BY <2>1, ReplayPrefix
  <2> QED BY <1>1, <2>2
<1>3. n + Len(b) <= Len(lines) /\ \A i \in 1 .. Len(b) : b[i] = lines[n + i]
  BY <1>1
<1>4. Replay(Replayed(v, lines)[n], b) = Replayed(v, lines)[n + Len(b)]
  <2>1. b \in Seq(X) /\ n \in Nat
    BY <1>1
  <2> QED BY <1>3, <2>1, FoldsCompose
<1>5. n + Len(b) = Len(lines)
  BY <1>1
<1> QED BY <1>2, <1>4, <1>5 DEF Replay, a, b

-----------------------------------------------------------------------------
(* Thresholds *)

(* A finite set of numbers has a greatest one: a bound of the set to begin with. *)
LEMMA GreatestOfAFiniteSet ==
  ASSUME NEW S \in SUBSET Nat, S # {}, IsFiniteSet(S)
  PROVE  \E m \in S : \A x \in S : x <= m
<1>1. PICK k \in Nat : \E h : h \in Bijection(1 .. k, S)
  BY FS_CardinalityType DEF ExistsBijection
<1>0. PICK g : g \in Bijection(1 .. k, S)
  BY <1>1
<1>2. /\ \A i \in 1 .. k : g[i] \in Nat
      /\ \A x \in S : \E i \in 1 .. k : g[i] = x
  BY <1>0 DEF Bijection, Surjection, Injection
<1> DEFINE Bounds(j, b) == \A i \in 1 .. j : g[i] <= b
           G == {j \in 0 .. k : \E b \in Nat : Bounds(j, b)}
           B == {b \in Nat : Bounds(k, b)}
<1>3. 0 \in G
  <2>1. Bounds(0, 0)
    OBVIOUS
  <2> QED BY <2>1
<1>4. ASSUME NEW j \in 0 .. k - 1, j \in G PROVE j + 1 \in G
  <2>1. PICK b \in Nat : Bounds(j, b)
    BY <1>4
  <2>2. g[j + 1] \in Nat
    BY <1>2
  <2> DEFINE c == IF g[j + 1] > b THEN g[j + 1] ELSE b
  <2>3. c \in Nat /\ b <= c /\ g[j + 1] <= c
    BY <2>2
  <2> HIDE DEF c
  <2>4. ASSUME NEW i \in 1 .. j + 1 PROVE g[i] <= c
    <3>1. CASE i = j + 1
      BY <2>3, <3>1
    <3>2. CASE i # j + 1
      <4>1. i \in 1 .. j /\ i \in 1 .. k
        BY <3>2
      <4>2. g[i] <= b /\ g[i] \in Nat
        BY <1>2, <2>1, <4>1
      <4> QED BY <2>3, <4>2
    <3> QED BY <3>1, <3>2
  <2>5. Bounds(j + 1, c)
    BY <2>4
  <2> QED BY <2>3, <2>5
<1>5. B # {}
  <2> HIDE DEF G, B
  <2>1. 0 .. k \subseteq G
    BY <1>1, <1>3, <1>4, TurnByTurn
  <2>2. k \in G
    BY <1>1, <2>1
  <2> QED BY <2>2 DEF G, B
<1>6. PICK l \in B : \A n \in B : l <= n
  <2>1. B \in SUBSET Nat
    OBVIOUS
  <2> HIDE DEF B
  <2> QED BY <1>5, <2>1, LeastNumber
<1>7. \A x \in S : x <= l
  BY <1>2, <1>6
<1>8. l \in S
  <2> SUFFICES ASSUME l \notin S PROVE FALSE
    OBVIOUS
  <2>1. PICK x \in S : TRUE
    OBVIOUS
  <2>2. l # 0
    BY <1>7, <2>1
  <2>3. l - 1 \in Nat
    BY <1>6, <2>2
  <2>4. ASSUME NEW i \in 1 .. k PROVE g[i] <= l - 1
    <3>1. g[i] \in S /\ g[i] \in Nat
      BY <1>0, <1>2 DEF Bijection, Surjection, Injection
    <3>2. g[i] <= l /\ g[i] # l
      BY <1>7, <3>1
    <3> QED BY <1>6, <3>1, <3>2
  <2>5. l - 1 \in B
    BY <2>3, <2>4
  <2> QED BY <1>6, <2>3, <2>5
<1> QED BY <1>7, <1>8

(* Some value is reached by half of the samples: the median exists. *)
LEMMA MedianIsANumber ==
  ASSUME NEW S, IsFiniteSet(S), S # {}, NEW f \in [S -> Nat]
  PROVE  Median(f) \in Nat
<1> DEFINE Reaches(m) == 2 * Cardinality({x \in DOMAIN f : f[x] <= m}) >= Cardinality(DOMAIN f)
           R == {m \in Range(f) : Reaches(m)}
<1>1. DOMAIN f = S /\ Range(f) \subseteq Nat /\ Range(f) # {}
  BY DEF Range
<1>2. IsFiniteSet(Range(f))
  <2>1. f \in Surjection(S, Range(f))
    BY DEF Surjection, Range
  <2> QED BY <2>1, FS_Surjection
<1>3. PICK top \in Range(f) : \A x \in Range(f) : x <= top
  BY <1>1, <1>2, GreatestOfAFiniteSet
<1>4. Reaches(top)
  <2>1. \A x \in S : f[x] <= top
    BY <1>1, <1>3 DEF Range
  <2>2. {x \in DOMAIN f : f[x] <= top} = DOMAIN f
    BY <1>1, <2>1
  <2>3. Cardinality(DOMAIN f) \in Nat
    BY <1>1, FS_CardinalityType
  <2>4. 2 * Cardinality(DOMAIN f) >= Cardinality(DOMAIN f)
    BY <2>3
  <2> QED BY <2>2, <2>4
<1>5. PICK low \in R : \A n \in R : low <= n
  <2>1. R \in SUBSET Nat /\ R # {}
    BY <1>1, <1>3, <1>4
  <2> HIDE DEF R
  <2> QED BY <2>1, LeastNumber
<1>6. \E m \in Range(f) : Reaches(m) /\ \A n \in Range(f) : Reaches(n) => m <= n
  BY <1>5
<1>7. Median(f) = CHOOSE m \in Range(f) : Reaches(m) /\ \A n \in Range(f) : Reaches(n) => m <= n
  BY DEF Median
<1> DEFINE Is(m) == Reaches(m) /\ \A n \in Range(f) : Reaches(n) => m <= n
<1>8. Median(f) \in Range(f)
  <2>1. \E m \in Range(f) : Is(m)
    BY <1>6
  <2>2. Median(f) = CHOOSE m \in Range(f) : Is(m)
    BY <1>7
  <2> HIDE DEF Is
  <2> QED BY <2>1, <2>2, Zenon
<1> QED BY <1>1, <1>8

(* A run of a view *)
LEMMA RunFields ==
  ASSUME NEW v \in Views, NEW r \in Runs, Started(v, r)
  PROVE  /\ v.runs[r] \in Run /\ v.runs[r].finished \in Nat
         /\ v.runs[r].elapsed \in Nat /\ v.runs[r].parent \in Runs \union {0}
<1>1. v.runs[r] \in Run
  BY DEF Views, Started
<1>2. Elapsed \subseteq Nat
  BY DelayAssumption
<1> DEFINE run == v.runs[r]
<1> HIDE DEF run
<1>3. run \in Run
  BY <1>1 DEF run
<1>4. run.finished \in Nat /\ run.elapsed \in Elapsed \union {0} /\ run.parent \in Runs \union {0}
  BY <1>3 DEF Run
<1>5. run.elapsed \in Nat
  <2>1. run.elapsed \in Elapsed \/ run.elapsed = 0
    BY <1>4
  <2>2. run.elapsed \in Elapsed => run.elapsed \in Nat
    BY <1>2
  <2> QED BY <2>1, <2>2
<1> QED BY <1>3, <1>4, <1>5 DEF run

(* Samples are runs that were started. *)
LEMMA SamplesAreFinite ==
  ASSUME NEW v, NEW kind, NEW subject, NEW through
  PROVE  /\ Samples(v, kind, subject, through) \subseteq Runs
         /\ IsFiniteSet(Samples(v, kind, subject, through))
         /\ \A r \in Samples(v, kind, subject, through) : Started(v, r)
<1>1. Samples(v, kind, subject, through) \subseteq Runs
  BY DEF Samples, Completions
<1>2. IsFiniteSet(Runs)
  BY DelayAssumption, FS_Interval DEF Runs
<1>3. \A r \in Samples(v, kind, subject, through) : Started(v, r)
  BY DEF Samples, Completions, Finished
<1> QED BY <1>1, <1>2, <1>3, FS_Subset

(* A threshold is a number, or there is none. *)
LEMMA ThresholdIsANumber ==
  ASSUME NEW v \in Views, NEW kind, NEW subject, NEW through
  PROVE  Threshold(v, kind, subject, through) \in Nat \union {None}
<1> DEFINE S == Samples(v, kind, subject, through)
           f == [r \in S |-> v.runs[r].elapsed]
           p50 == Median(f)
           g == [r \in S |-> IF v.runs[r].elapsed < p50 THEN p50 - v.runs[r].elapsed
                             ELSE v.runs[r].elapsed - p50]
           mad == Median(g)
<1>1. Threshold(v, kind, subject, through)
        = IF Cardinality(S) < MinSamples THEN None ELSE p50 + 4 * mad
  BY DEF Threshold
<1>2. S \subseteq Runs /\ IsFiniteSet(S) /\ \A r \in S : Started(v, r)
  BY SamplesAreFinite
<1>3. \A r \in S : v.runs[r].elapsed \in Nat
  BY <1>2, RunFields
<1> HIDE DEF S
<1>4. ASSUME ~(Cardinality(S) < MinSamples) PROVE p50 + 4 * mad \in Nat
  <2>1. S # {}
    <3>1. Cardinality({}) = 0 /\ MinSamples \in Nat \ {0}
      BY FS_EmptySet, DelayAssumption
    <3> QED BY <1>4, <3>1
  <2>2. p50 \in Nat
    <3>1. f \in [S -> Nat]
      BY <1>3
    <3> HIDE DEF f
    <3> QED BY <1>2, <2>1, <3>1, MedianIsANumber
  <2>3. mad \in Nat
    <3> HIDE DEF p50
    <3>1. g \in [S -> Nat]
      BY <1>3, <2>2
    <3> HIDE DEF g
    <3> QED BY <1>2, <2>1, <3>1, MedianIsANumber
  <2> HIDE DEF p50, mad
  <2> QED BY <2>2, <2>3
<1> HIDE DEF p50, mad
<1> QED BY <1>1, <1>4

(* Equal samples of equal durations give equal thresholds. *)
LEMMA ThresholdOfSamples ==
  ASSUME NEW v, NEW w, NEW kind, NEW subject, NEW through, NEW since,
         Samples(v, kind, subject, through) = Samples(w, kind, subject, since),
         \A r \in Samples(v, kind, subject, through) : v.runs[r].elapsed = w.runs[r].elapsed
  PROVE  Threshold(v, kind, subject, through) = Threshold(w, kind, subject, since)
<1> DEFINE S == Samples(v, kind, subject, through)
           T == Samples(w, kind, subject, since)
           p == Median([r \in S |-> v.runs[r].elapsed])
           q == Median([r \in T |-> w.runs[r].elapsed])
           a == [r \in S |-> IF v.runs[r].elapsed < p THEN p - v.runs[r].elapsed
                             ELSE v.runs[r].elapsed - p]
           b == [r \in T |-> IF w.runs[r].elapsed < q THEN q - w.runs[r].elapsed
                             ELSE w.runs[r].elapsed - q]
<1>1. S = T
  OBVIOUS
<1>2. /\ Threshold(v, kind, subject, through)
           = IF Cardinality(S) < MinSamples THEN None ELSE p + 4 * Median(a)
      /\ Threshold(w, kind, subject, since)
           = IF Cardinality(T) < MinSamples THEN None ELSE q + 4 * Median(b)
  BY DEF Threshold
<1>3. \A r \in S : v.runs[r].elapsed = w.runs[r].elapsed
  OBVIOUS
<1> HIDE DEF S, T
<1>4. [r \in S |-> v.runs[r].elapsed] = [r \in T |-> w.runs[r].elapsed]
  BY <1>1, <1>3
<1>5. p = q
  BY <1>4
<1> HIDE DEF p, q
<1>6. a = b
  BY <1>1, <1>3, <1>5
<1> HIDE DEF a, b
<1> QED BY <1>1, <1>2, <1>5, <1>6

-----------------------------------------------------------------------------
(* Lines and views *)

(* Lines of one run *)
StartsRun(l, r) == l.req.type = "delay_run_start" /\ l.req.run = r
EndsRun(l, r) == l.req.type = "delay_run_finish" /\ l.req.run = r

(* A run of the view is the one its lines tell of. *)
StartsAreRecorded(lines, v) ==
  \A r \in Runs :
    /\ Started(v, r) => \E i \in DOMAIN lines : StartsRun(lines[i], r)
    /\ \A i \in DOMAIN lines : StartsRun(lines[i], r) =>
         Started(v, r) /\ v.runs[r].parent = lines[i].req.parent
EndsAreRecorded(lines, v) ==
  \A r \in Runs :
    /\ Finished(v, r) => /\ v.runs[r].finished \in DOMAIN lines
                         /\ EndsRun(lines[v.runs[r].finished], r)
                         /\ lines[v.runs[r].finished].req.elapsed = v.runs[r].elapsed
                         /\ lines[v.runs[r].finished].req.outcome = v.runs[r].outcome
    /\ \A i \in DOMAIN lines : EndsRun(lines[i], r) =>
         Finished(v, r) /\ v.runs[r].finished = i

(* A finish carries the threshold that the runs before it give, even now. *)
StampsAreTrue(lines, v) ==
  \A n \in DOMAIN lines : \A r \in Runs : EndsRun(lines[n], r) =>
    /\ lines[n].threshold = Threshold(v, v.runs[r].kind, v.runs[r].subject, n - 1)
    /\ lines[n].anomaly = Exceeds(lines[n].req.elapsed, lines[n].threshold)

ChainIsRecorded(lines, v) ==
  \A c \in Chain : v.chain[c] # None =>
    \E m \in DOMAIN lines : lines[m].req.type \in ChainTypes /\ lines[m].req.chain = c
                            /\ lines[m].req.type = v.chain[c]

(* A run ends after the runs started under it, and starts before it ends. *)
ClosesInwards(v) ==
  \A r \in Runs : \A c \in Runs : Started(v, c) /\ v.runs[c].parent = r =>
    /\ Started(v, r)
    /\ Finished(v, r) => Finished(v, c) /\ v.runs[c].finished < v.runs[r].finished
StartsComeFirst(lines) ==
  \A i \in DOMAIN lines : \A j \in DOMAIN lines : \A r \in Runs :
    StartsRun(lines[i], r) /\ EndsRun(lines[j], r) => i < j

(* EvidenceRestsOnAnomalies, of any lines *)
RestsOnAnomaly(lines, n, r) ==
  \E m \in 1 .. n - 1 : /\ EndsRun(lines[m], r) /\ lines[m].anomaly
                        /\ lines[m].req.outcome = Completed
                        /\ lines[m].threshold = lines[n].threshold
RestsOnChain(lines, n) ==
  \E m \in 1 .. n - 1 :
    /\ lines[m].req.type \in ChainTypes /\ lines[m].req.chain = lines[n].req.predecessor
    /\ lines[m].req.type = PredecessorType(lines[n].req.type)
Rests(lines, n) ==
  IF lines[n].req.type = "delay_retrospective"
  THEN RestsOnAnomaly(lines, n, lines[n].req.run) ELSE RestsOnChain(lines, n)
AllRest(lines) == \A n \in DOMAIN lines : lines[n].req.type \in ChainTypes => Rests(lines, n)

Agrees(lines, v) ==
  /\ lines \in Seq(Line) /\ v \in Views
  /\ StartsAreRecorded(lines, v) /\ EndsAreRecorded(lines, v) /\ StampsAreTrue(lines, v)
  /\ ChainIsRecorded(lines, v)
  /\ ClosesInwards(v) /\ StartsComeFirst(lines) /\ AllRest(lines)

EveryPrefixAgrees(lines) ==
  \A n \in 0 .. Len(lines) :
    Agrees(SubSeq(lines, 1, n), Replay(EmptyView, SubSeq(lines, 1, n)))

(* A cache that may be trusted is right, and one that may not will not be:  *)
(* the lines that are appended are of an era that none of its guards is of. *)
CacheAgrees(c, lines, era) ==
  /\ c \in Cache
  /\ IF c.upto = 0 THEN c.view = EmptyView
     ELSE /\ c.tail <= era
          /\ IF c.upto > Len(lines) THEN c.tail < era
             ELSE lines[c.upto].era = c.tail =>
                    c.view = Replay(EmptyView, SubSeq(lines, 1, c.upto))

DelayInv ==
  /\ log \in Seq(Line) /\ EveryPrefixAgrees(log)
  /\ view = Replay(EmptyView, log)
  /\ \A i \in DOMAIN log : log[i].era <= restores
  /\ tail \in Line \union {Clean, Torn} /\ (Open => OpenIsValid)
  /\ spoiled \in BOOLEAN /\ rejected = 0 /\ tears \in Nat /\ restores \in Nat
  /\ cache \in [Instances -> Cache] /\ \A i \in Instances : CacheAgrees(cache[i], log, restores)
-----------------------------------------------------------------------------
(* What a line does to a view *)

(* The type of a request says what it is. *)
LEMMA RequestsByType ==
  ASSUME NEW r \in Request
  PROVE  /\ r.type = "delay_run_start" <=> r \in Start
         /\ r.type = "delay_run_finish" <=> r \in Finish
         /\ r.type \in ChainTypes <=> r \in Evidence
         /\ r.type = "delay_run_start" \/ r.type = "delay_run_finish" \/ r.type \in ChainTypes
<1>1. \A x \in Start : x.type = "delay_run_start"
  BY DEF Start
<1>2. \A x \in Finish : x.type = "delay_run_finish"
  BY DEF Finish
<1>3. \A x \in Evidence : x.type \in ChainTypes
  BY DEF Evidence, ChainTypes
<1>4. "delay_run_start" \notin ChainTypes /\ "delay_run_finish" \notin ChainTypes
  BY DEF ChainTypes
<1>5. r \in Start \/ r \in Finish \/ r \in Evidence
  BY DEF Request
<1> QED BY <1>1, <1>2, <1>3, <1>4, <1>5

(* The fields of a line. *)
LEMMA LineFields ==
  ASSUME NEW e \in Line
  PROVE  e.req \in Request /\ e.seq \in Nat /\ e.era \in Nat
         /\ e.threshold \in Nat \union {None} /\ e.anomaly \in BOOLEAN
  BY DEF Line

OtherRunsStay(v, w, r) == \A c \in Runs : c # r => w.runs[c] = v.runs[c]

StartFed(v, w, q) ==
  /\ q.run \in Runs /\ q.parent \in Runs \union {0} /\ OtherRunsStay(v, w, q.run)
  /\ w.chain = v.chain /\ Started(w, q.run) /\ ~Finished(w, q.run)
  /\ w.runs[q.run].parent = q.parent /\ w.runs[q.run].kind = q.kind
(* A run that starts is added to the view, and nothing else changes. *)
LEMMA FeedStart ==
  ASSUME NEW v \in Views, NEW e \in Line, e.req.type = "delay_run_start"
  PROVE  Feed(v, e) \in Views /\ StartFed(v, Feed(v, e), e.req)
<1> DEFINE q == e.req
           new == [kind |-> q.kind, subject |-> q.subject, parent |-> q.parent,
                   finished |-> 0, elapsed |-> 0, outcome |-> None]
           w == [v EXCEPT !.runs[q.run] = new]
<1>1. q \in Start
  BY LineFields, RequestsByType
<1>2. q.run \in Runs /\ q.kind \in Kinds /\ q.subject \in Subjects /\ q.parent \in Runs \union {0}
  BY <1>1 DEF Start
<1>3. Feed(v, e) = w
  BY DEF Feed
<1>4. new \in Run /\ new # None /\ new.finished = 0 /\ new.parent = q.parent /\ new.kind = q.kind
  <2>1. new \in Run
    BY <1>2 DEF Run
  <2>2. None \notin Run
    BY DelayAssumption
  <2> QED BY <2>1, <2>2
<1> HIDE DEF new
<1>5. /\ v.runs \in [Runs -> Run \union {None}]
      /\ v = [runs |-> v.runs, chain |-> v.chain]
  BY DEF Views
<1>6. /\ w.runs = [v.runs EXCEPT ![q.run] = new] /\ w.chain = v.chain
      /\ w = [runs |-> w.runs, chain |-> w.chain]
  BY <1>5
<1>7. w.runs \in [Runs -> Run \union {None}]
  BY <1>4, <1>5, <1>6
<1>8. w \in Views
  BY <1>6, <1>7 DEF Views
<1>9. w.runs[q.run] = new /\ \A c \in Runs : c # q.run => w.runs[c] = v.runs[c]
  BY <1>2, <1>5, <1>6
<1> HIDE DEF w, q
<1>10. StartFed(v, w, q)
  BY <1>2, <1>4, <1>6, <1>9 DEF StartFed, OtherRunsStay, Started, Finished
<1> QED BY <1>3, <1>8, <1>10 DEF q

(* A run that ends *)
Ended(x, a, b, c) == [x EXCEPT !.finished = a, !.elapsed = b, !.outcome = c]
EndedFrom(x, y, a, b, c) ==
  /\ y \in Run /\ y.finished = a /\ y.elapsed = b /\ y.outcome = c
  /\ y.kind = x.kind /\ y.subject = x.subject /\ y.parent = x.parent
(* A run that ends keeps what it was started as. *)
LEMMA RunEnded ==
  ASSUME NEW x \in Run, NEW a \in Nat, NEW b \in Elapsed, NEW c \in Outcomes
  PROVE  EndedFrom(x, Ended(x, a, b, c), a, b, c)
  BY DEF Run, Ended, EndedFrom

EndedIn(v, k, a, b, c) ==
  [v EXCEPT !.runs[k].finished = a, !.runs[k].elapsed = b, !.runs[k].outcome = c]
(* Three updates of one run of a view are one. *)
LEMMA RunUpdated ==
  ASSUME NEW R, NEW C, NEW k \in DOMAIN R, NEW a, NEW b, NEW c
  PROVE  EndedIn([runs |-> R, chain |-> C], k, a, b, c)
           = [runs |-> [R EXCEPT ![k] = Ended(R[k], a, b, c)], chain |-> C]
<1> DEFINE R1 == [R EXCEPT ![k].finished = a]
           R2 == [R1 EXCEPT ![k].elapsed = b]
           R3 == [R2 EXCEPT ![k].outcome = c]
<1>1. [[runs |-> R, chain |-> C] EXCEPT !.runs[k].finished = a] = [runs |-> R1, chain |-> C]
  OBVIOUS
<1>2. [[runs |-> R1, chain |-> C] EXCEPT !.runs[k].elapsed = b] = [runs |-> R2, chain |-> C]
  <2> HIDE DEF R1
  <2> QED OBVIOUS
<1>3. [[runs |-> R2, chain |-> C] EXCEPT !.runs[k].outcome = c] = [runs |-> R3, chain |-> C]
  <2> HIDE DEF R2
  <2> QED OBVIOUS
<1>4. R3 = [R EXCEPT ![k] = Ended(R[k], a, b, c)]
  BY DEF Ended
<1>5. EndedIn([runs |-> R, chain |-> C], k, a, b, c) = [runs |-> R3, chain |-> C]
  <2> HIDE DEF R1, R2, R3
  <2> QED BY <1>1, <1>2, <1>3 DEF EndedIn
<1> QED BY <1>4, <1>5
FinishFed(v, w, e) ==
  /\ e.req.run \in Runs /\ OtherRunsStay(v, w, e.req.run) /\ w.chain = v.chain
  /\ Started(w, e.req.run) /\ w.runs[e.req.run].finished = e.seq
  /\ w.runs[e.req.run].elapsed = e.req.elapsed /\ w.runs[e.req.run].outcome = e.req.outcome
  /\ w.runs[e.req.run].kind = v.runs[e.req.run].kind
  /\ w.runs[e.req.run].subject = v.runs[e.req.run].subject
  /\ w.runs[e.req.run].parent = v.runs[e.req.run].parent
(* A run that ends is ended in the view, and nothing else changes. *)
LEMMA FeedFinish ==
  ASSUME NEW v \in Views, NEW e \in Line, e.req.type = "delay_run_finish",
         Started(v, e.req.run)
  PROVE  Feed(v, e) \in Views /\ FinishFed(v, Feed(v, e), e)
<1> DEFINE q == e.req
           old == v.runs[q.run]
           new == Ended(old, e.seq, q.elapsed, q.outcome)
           w == EndedIn(v, q.run, e.seq, q.elapsed, q.outcome)
<1>1. q \in Finish
  BY LineFields, RequestsByType
<1>2. q.run \in Runs /\ q.elapsed \in Elapsed /\ q.outcome \in Outcomes /\ e.seq \in Nat
  BY <1>1, LineFields DEF Finish
<1>3. Feed(v, e) = w
  BY DEF Feed, EndedIn
<1>4. old \in Run
  BY <1>2, RunFields
<1>5. /\ new \in Run /\ new.finished = e.seq /\ new.elapsed = q.elapsed
      /\ new.outcome = q.outcome /\ new.kind = old.kind /\ new.subject = old.subject
      /\ new.parent = old.parent
  <2> HIDE DEF old, q
  <2>1. EndedFrom(old, new, e.seq, q.elapsed, q.outcome)
    BY <1>2, <1>4, RunEnded
  <2> QED BY <2>1 DEF EndedFrom
<1>6. new # None
  BY <1>5, DelayAssumption
<1>7. /\ v.runs \in [Runs -> Run \union {None}]
      /\ v = [runs |-> v.runs, chain |-> v.chain]
  BY DEF Views
<1>8. w = [runs |-> [v.runs EXCEPT ![q.run] = new], chain |-> v.chain]
  <2> DEFINE R == v.runs
             C == v.chain
  <2>1. q.run \in DOMAIN R
    BY <1>2, <1>7
  <2>2. new = Ended(R[q.run], e.seq, q.elapsed, q.outcome)
    OBVIOUS
  <2>3. v = [runs |-> R, chain |-> C]
    BY <1>7
  <2> HIDE DEF R, C, q, new
  <2>4. w = [runs |-> [R EXCEPT ![q.run] = Ended(R[q.run], e.seq, q.elapsed, q.outcome)],
             chain |-> C]
    BY <2>1, <2>3, RunUpdated
  <2> QED BY <2>2, <2>4 DEF R, C
<1> HIDE DEF new, w
<1>9. w.runs \in [Runs -> Run \union {None}]
  BY <1>5, <1>7, <1>8
<1>10. w \in Views
  BY <1>8, <1>9 DEF Views
<1>11. w.runs[q.run] = new /\ \A c \in Runs : c # q.run => w.runs[c] = v.runs[c]
  BY <1>2, <1>7, <1>8
<1> HIDE DEF old, q
<1>12. OtherRunsStay(v, w, q.run) /\ Started(w, q.run)
  BY <1>6, <1>11 DEF OtherRunsStay, Started
<1>13. FinishFed(v, w, e)
  BY <1>2, <1>5, <1>8, <1>11, <1>12 DEF FinishFed, q, old
<1> QED BY <1>3, <1>10, <1>13

EvidenceFed(v, w, q) ==
  /\ q.chain \in Chain /\ w.runs = v.runs /\ w.chain[q.chain] = q.type
  /\ \A c \in Chain : c # q.chain => w.chain[c] = v.chain[c]
(* Evidence is added to the chain, and no run changes. *)
LEMMA FeedEvidence ==
  ASSUME NEW v \in Views, NEW e \in Line, e.req.type \in ChainTypes
  PROVE  Feed(v, e) \in Views /\ EvidenceFed(v, Feed(v, e), e.req)
<1> DEFINE q == e.req
           w == [v EXCEPT !.chain[q.chain] = q.type]
<1>1. q \in Evidence
  BY LineFields, RequestsByType
<1>2. q.chain \in Chain /\ q.type \in ChainTypes
  BY <1>1 DEF Evidence
<1>3. Feed(v, e) = w
  BY DEF Feed, ChainTypes
<1>4. /\ v.chain \in [Chain -> ChainTypes \union {None}]
      /\ v = [runs |-> v.runs, chain |-> v.chain]
  BY DEF Views
<1>5. /\ w.chain = [v.chain EXCEPT ![q.chain] = q.type] /\ w.runs = v.runs
      /\ w = [runs |-> w.runs, chain |-> w.chain]
  BY <1>4
<1>6. w \in Views
  <2>1. w.chain \in [Chain -> ChainTypes \union {None}]
    BY <1>2, <1>4, <1>5
  <2> QED BY <1>5, <2>1 DEF Views
<1>7. EvidenceFed(v, w, q)
  BY <1>2, <1>4, <1>5 DEF EvidenceFed
<1> QED BY <1>3, <1>6, <1>7

-----------------------------------------------------------------------------
(* A line that replay accepts keeps lines and view in agreement *)

(* Equal completions of equal runs give equal thresholds. *)
LEMMA ThresholdOfCompletions ==
  ASSUME NEW v, NEW w, NEW kind, NEW subject, NEW through, NEW since,
         Completions(v, kind, subject, through) = Completions(w, kind, subject, since),
         \A r \in Completions(v, kind, subject, through) : v.runs[r] = w.runs[r]
  PROVE  Threshold(v, kind, subject, through) = Threshold(w, kind, subject, since)
<1> DEFINE S == Completions(v, kind, subject, through)
           T == Completions(w, kind, subject, since)
           Later(u, C, r) == {q \in C : u.runs[q].finished > u.runs[r].finished}
<1>1. S = T /\ \A r \in S : v.runs[r] = w.runs[r]
  OBVIOUS
<1>2. /\ Samples(v, kind, subject, through)
           = {r \in S : Cardinality(Later(v, S, r)) < Window}
      /\ Samples(w, kind, subject, since)
           = {r \in T : Cardinality(Later(w, T, r)) < Window}
  BY DEF Samples
<1> HIDE DEF S, T
<1>3. ASSUME NEW r \in S PROVE Later(v, S, r) = Later(w, T, r)
  BY <1>1
<1> HIDE DEF Later
<1>4. Samples(v, kind, subject, through) = Samples(w, kind, subject, since)
  BY <1>1, <1>2, <1>3
<1>5. \A r \in Samples(v, kind, subject, through) : v.runs[r].elapsed = w.runs[r].elapsed
  BY <1>1, <1>2
<1> QED BY <1>4, <1>5, ThresholdOfSamples

(* Two views that differ in a run that counts in neither have the same completions. *)
LEMMA SameRuns ==
  ASSUME NEW v, NEW w, NEW kind, NEW subject, NEW through, NEW since, NEW x,
         x \notin Completions(v, kind, subject, through),
         x \notin Completions(w, kind, subject, since),
         \A c \in Runs : c # x => (c \in Completions(v, kind, subject, through)
                                   <=> c \in Completions(w, kind, subject, since))
  PROVE  Completions(v, kind, subject, through) = Completions(w, kind, subject, since)
<1> DEFINE A == Completions(v, kind, subject, through)
           B == Completions(w, kind, subject, since)
<1>1. A \subseteq Runs /\ B \subseteq Runs
  BY DEF Completions
<1>2. x \notin A /\ x \notin B /\ \A c \in Runs : c # x => (c \in A <=> c \in B)
  OBVIOUS
<1> HIDE DEF A, B
<1>3. A = B
  BY <1>1, <1>2
<1> QED BY <1>3 DEF A, B

(* Whatever ends later, the runs that had ended before a line stay what they *)
(* were: no threshold of the past changes.                                   *)
LEMMA StampsStay ==
  ASSUME NEW lines \in Seq(Line), NEW v \in Views, NEW w \in Views, NEW x \in Runs,
         EndsAreRecorded(lines, v), StampsAreTrue(lines, v), OtherRunsStay(v, w, x),
         ~Finished(v, x), Finished(w, x) => w.runs[x].finished = Len(lines) + 1,
         NEW n \in DOMAIN lines, NEW r \in Runs, EndsRun(lines[n], r)
  PROVE  /\ lines[n].threshold = Threshold(w, w.runs[r].kind, w.runs[r].subject, n - 1)
         /\ lines[n].anomaly = Exceeds(lines[n].req.elapsed, lines[n].threshold)
<1> DEFINE k == v.runs[r].kind
           s == v.runs[r].subject
<1>1. Finished(v, r) /\ r # x
  BY DEF EndsAreRecorded
<1>2. w.runs[r] = v.runs[r]
  BY <1>1 DEF OtherRunsStay
<1>3. /\ lines[n].threshold = Threshold(v, k, s, n - 1)
      /\ lines[n].anomaly = Exceeds(lines[n].req.elapsed, lines[n].threshold)
  BY DEF StampsAreTrue
<1>4. n \in Nat /\ n - 1 \in Nat /\ n <= Len(lines) /\ Len(lines) \in Nat /\ n - 1 # None
  BY DelayAssumption
<1> HIDE DEF k, s
<1>5. \A c \in Runs : c # x => v.runs[c] = w.runs[c]
  BY DEF OtherRunsStay
<1>6. x \notin Completions(v, k, s, n - 1)
  BY DEF Completions
<1>7. x \notin Completions(w, k, s, n - 1)
  BY <1>4 DEF Completions
<1>8. ASSUME NEW c \in Runs, c # x
      PROVE  c \in Completions(v, k, s, n - 1) <=> c \in Completions(w, k, s, n - 1)
  BY <1>5, <1>8 DEF Completions, Finished, Started
<1>9. Completions(v, k, s, n - 1) = Completions(w, k, s, n - 1)
  BY <1>6, <1>7, <1>8, SameRuns
<1>10. \A c \in Completions(v, k, s, n - 1) : v.runs[c] = w.runs[c]
  <2>1. Completions(v, k, s, n - 1) \subseteq Runs
    BY DEF Completions
  <2> QED BY <1>5, <1>6, <2>1
<1>11. Threshold(v, k, s, n - 1) = Threshold(w, k, s, n - 1)
  BY <1>9, <1>10, ThresholdOfCompletions
<1> QED BY <1>2, <1>3, <1>11 DEF k, s

(* The threshold of a run that ends now is that of all that ended before it. *)
LEMMA StampNow ==
  ASSUME NEW lines \in Seq(Line), NEW v \in Views, NEW w \in Views, NEW x \in Runs,
         EndsAreRecorded(lines, v), OtherRunsStay(v, w, x), ~Finished(v, x),
         w.runs[x].finished = Len(lines) + 1, NEW k, NEW s
  PROVE  Threshold(v, k, s, None) = Threshold(w, k, s, Len(lines))
<1>1. Len(lines) \in Nat /\ Len(lines) # None
  BY DelayAssumption
<1>2. \A c \in Runs : c # x => v.runs[c] = w.runs[c]
  BY DEF OtherRunsStay
<1>3. x \notin Completions(v, k, s, None)
  BY DEF Completions
<1>4. x \notin Completions(w, k, s, Len(lines))
  BY <1>1 DEF Completions
<1>5. ASSUME NEW c \in Runs, c # x
      PROVE  c \in Completions(v, k, s, None) <=> c \in Completions(w, k, s, Len(lines))
  <2>1. Finished(v, c) => v.runs[c].finished <= Len(lines)
    BY DEF EndsAreRecorded
  <2> QED BY <1>1, <1>2, <1>5, <2>1 DEF Completions, Finished, Started
<1>6. Completions(v, k, s, None) = Completions(w, k, s, Len(lines))
  BY <1>3, <1>4, <1>5, SameRuns
<1>7. \A c \in Completions(v, k, s, None) : v.runs[c] = w.runs[c]
  <2>1. Completions(v, k, s, None) \subseteq Runs
    BY DEF Completions
  <2> QED BY <1>2, <1>3, <2>1
<1> QED BY <1>6, <1>7, ThresholdOfCompletions

(* A log and one line more *)
OneMore(lines, L, e) ==
  /\ L \in Seq(Line) /\ Len(lines) \in Nat /\ DOMAIN lines = 1 .. Len(lines)
  /\ Len(L) = Len(lines) + 1 /\ DOMAIN L = 1 .. Len(lines) + 1
  /\ L[Len(lines) + 1] = e /\ \A i \in 1 .. Len(lines) : L[i] = lines[i]
(* Appending adds one line. *)
LEMMA AppendLine ==
  ASSUME NEW lines \in Seq(Line), NEW e \in Line
  PROVE  OneMore(lines, Append(lines, e), e)
  BY DEF OneMore

(* What a line of evidence rests on stays before it. *)
LEMMA RestsStays ==
  ASSUME NEW lines \in Seq(Line), NEW e \in Line, NEW L, OneMore(lines, L, e),
         NEW n \in DOMAIN lines, Rests(lines, n)
  PROVE  Rests(L, n)
<1>1. n \in 1 .. Len(lines) /\ Len(lines) \in Nat /\ \A i \in 1 .. Len(lines) : L[i] = lines[i]
  BY DEF OneMore
<1>2. L[n] = lines[n] /\ \A m \in 1 .. n - 1 : L[m] = lines[m]
  BY <1>1
<1> QED BY <1>2 DEF Rests, RestsOnAnomaly, RestsOnChain

(* A start keeps the agreement: the new run is open and has no children.   *)
LEMMA StartAgrees ==
  ASSUME NEW lines, NEW v, NEW e \in Line, Agrees(lines, v), e.seq = Len(lines) + 1,
         FeedValid(v, e), e.req.type = "delay_run_start"
  PROVE  Agrees(Append(lines, e), Feed(v, e))
<1> DEFINE L == Append(lines, e)
           w == Feed(v, e)
           q == e.req
           N == Len(lines)
<1>1. /\ lines \in Seq(Line) /\ v \in Views /\ StartsAreRecorded(lines, v)
      /\ EndsAreRecorded(lines, v) /\ StampsAreTrue(lines, v) /\ ChainIsRecorded(lines, v)
      /\ ClosesInwards(v) /\ StartsComeFirst(lines) /\ AllRest(lines)
  BY DEF Agrees
<1>2. w \in Views /\ StartFed(v, w, q)
  BY <1>1, FeedStart
<1>3. OneMore(lines, L, e)
  BY <1>1, AppendLine
<1>4. ~Started(v, q.run) /\ (q.parent # 0 => Started(v, q.parent) /\ ~Finished(v, q.parent))
  BY DEF FeedValid
<1>5. /\ StartsRun(e, q.run) /\ (\A r : ~EndsRun(e, r)) /\ (\A r : StartsRun(e, r) => r = q.run)
      /\ q.type \notin ChainTypes
  BY DEF StartsRun, EndsRun, ChainTypes
<1> HIDE DEF L, w, q
<1>6. /\ q.run \in Runs /\ q.parent \in Runs \union {0} /\ Started(w, q.run) /\ ~Finished(w, q.run)
      /\ w.runs[q.run].parent = q.parent /\ w.chain = v.chain
      /\ \A c \in Runs : c # q.run => w.runs[c] = v.runs[c]
  BY <1>2 DEF StartFed, OtherRunsStay
<1>7. /\ L \in Seq(Line) /\ N \in Nat /\ DOMAIN lines = 1 .. N /\ DOMAIN L = 1 .. N + 1
      /\ L[N + 1] = e /\ \A i \in 1 .. N : L[i] = lines[i]
  BY <1>3 DEF OneMore
<1> HIDE DEF N
<1>8. q = e.req
  BY DEF q
<1>9. \A c \in Runs : c # q.run => /\ Started(w, c) <=> Started(v, c)
                                   /\ Finished(w, c) <=> Finished(v, c)
  BY <1>6 DEF Started, Finished
<1>10. ASSUME NEW i \in DOMAIN L, NEW r \in Runs, StartsRun(L[i], r)
       PROVE  (r = q.run /\ i = N + 1) \/ (r # q.run /\ i \in 1 .. N /\ StartsRun(lines[i], r))
  <2>1. CASE i = N + 1
    BY <1>5, <1>7, <1>10, <2>1
  <2>2. CASE i # N + 1
    <3>1. i \in 1 .. N /\ StartsRun(lines[i], r)
      BY <1>7, <1>10, <2>2
    <3>2. Started(v, r)
      BY <1>1, <1>7, <3>1 DEF StartsAreRecorded
    <3> QED BY <1>4, <3>1, <3>2
  <2> QED BY <2>1, <2>2
<1>11. ASSUME NEW i \in DOMAIN L, NEW r \in Runs, EndsRun(L[i], r)
       PROVE  i \in 1 .. N /\ EndsRun(lines[i], r) /\ r # q.run /\ Finished(v, r) /\ v.runs[r].finished = i
  <2>1. i \in 1 .. N /\ EndsRun(lines[i], r)
    BY <1>5, <1>7, <1>11
  <2>2. Finished(v, r) /\ v.runs[r].finished = i
    BY <1>1, <1>7, <2>1 DEF EndsAreRecorded
  <2> QED BY <1>4, <2>1, <2>2 DEF Finished
<1>12. StartsAreRecorded(L, w)
  <2>1. ASSUME NEW r \in Runs, Started(w, r) PROVE \E i \in DOMAIN L : StartsRun(L[i], r)
    <3>1. CASE r = q.run
      BY <1>5, <1>7, <3>1
    <3>2. CASE r # q.run
      <4>1. PICK i \in DOMAIN lines : StartsRun(lines[i], r)
        BY <1>1, <1>9, <2>1, <3>2 DEF StartsAreRecorded
      <4> QED BY <1>7, <4>1
    <3> QED BY <3>1, <3>2
  <2>2. ASSUME NEW r \in Runs, NEW i \in DOMAIN L, StartsRun(L[i], r)
        PROVE  Started(w, r) /\ w.runs[r].parent = L[i].req.parent
    <3>1. CASE r = q.run /\ i = N + 1
      BY <1>6, <1>7, <1>8, <3>1
    <3>2. CASE r # q.run /\ i \in 1 .. N /\ StartsRun(lines[i], r)
      BY <1>1, <1>6, <1>7, <1>9, <3>2 DEF StartsAreRecorded
    <3> QED BY <1>10, <2>2, <3>1, <3>2
  <2> QED BY <2>1, <2>2 DEF StartsAreRecorded
<1>13. EndsAreRecorded(L, w)
  <2>1. ASSUME NEW r \in Runs, Finished(w, r)
        PROVE  /\ w.runs[r].finished \in DOMAIN L /\ EndsRun(L[w.runs[r].finished], r)
               /\ L[w.runs[r].finished].req.elapsed = w.runs[r].elapsed
               /\ L[w.runs[r].finished].req.outcome = w.runs[r].outcome
    <3>1. r # q.run
      BY <1>6, <2>1
    <3>2. w.runs[r] = v.runs[r] /\ Finished(v, r)
      BY <1>6, <1>9, <2>1, <3>1
    <3>3. /\ v.runs[r].finished \in 1 .. N /\ EndsRun(lines[v.runs[r].finished], r)
          /\ lines[v.runs[r].finished].req.elapsed = v.runs[r].elapsed
          /\ lines[v.runs[r].finished].req.outcome = v.runs[r].outcome
      BY <1>1, <1>7, <3>2 DEF EndsAreRecorded
    <3> QED BY <1>7, <3>2, <3>3
  <2>2. ASSUME NEW r \in Runs, NEW i \in DOMAIN L, EndsRun(L[i], r)
        PROVE  Finished(w, r) /\ w.runs[r].finished = i
    <3>1. r # q.run /\ Finished(v, r) /\ v.runs[r].finished = i
      BY <1>11, <2>2
    <3> QED BY <1>6, <1>9, <3>1
  <2> QED BY <2>1, <2>2 DEF EndsAreRecorded
<1>14. StampsAreTrue(L, w)
  <2> SUFFICES ASSUME NEW n \in DOMAIN L, NEW r \in Runs, EndsRun(L[n], r)
               PROVE  /\ L[n].threshold = Threshold(w, w.runs[r].kind, w.runs[r].subject, n - 1)
                      /\ L[n].anomaly = Exceeds(L[n].req.elapsed, L[n].threshold)
    BY DEF StampsAreTrue
  <2>1. n \in DOMAIN lines /\ EndsRun(lines[n], r) /\ L[n] = lines[n]
    BY <1>7, <1>11
  <2>2. ~Finished(v, q.run) /\ OtherRunsStay(v, w, q.run)
    BY <1>4, <1>6 DEF Finished, OtherRunsStay
  <2> QED BY <1>1, <1>2, <1>6, <2>1, <2>2, StampsStay
<1>15. ChainIsRecorded(L, w)
  <2> SUFFICES ASSUME NEW c \in Chain, w.chain[c] # None
               PROVE  \E m \in DOMAIN L : L[m].req.type \in ChainTypes /\ L[m].req.chain = c
                                          /\ L[m].req.type = w.chain[c]
    BY DEF ChainIsRecorded
  <2>1. PICK m \in DOMAIN lines : lines[m].req.type \in ChainTypes /\ lines[m].req.chain = c
                                  /\ lines[m].req.type = v.chain[c]
    BY <1>1, <1>6 DEF ChainIsRecorded
  <2> QED BY <1>6, <1>7, <2>1
<1>16. ClosesInwards(w)
  <2> SUFFICES ASSUME NEW r \in Runs, NEW c \in Runs, Started(w, c), w.runs[c].parent = r
               PROVE  /\ Started(w, r)
                      /\ Finished(w, r) => Finished(w, c) /\ w.runs[c].finished < w.runs[r].finished
    BY DEF ClosesInwards
  <2>1. CASE c = q.run
    <3>1. r = q.parent /\ r # 0
      BY <1>6, <2>1, DelayAssumption DEF Runs
    <3>2. Started(v, r) /\ ~Finished(v, r) /\ r # q.run
      BY <1>4, <3>1
    <3> QED BY <1>9, <3>2
  <2>2. CASE c # q.run
    <3>1. Started(v, c) /\ v.runs[c].parent = r /\ w.runs[c] = v.runs[c]
      BY <1>6, <1>9, <2>2
    <3>2. /\ Started(v, r)
          /\ Finished(v, r) => Finished(v, c) /\ v.runs[c].finished < v.runs[r].finished
      BY <1>1, <3>1 DEF ClosesInwards
    <3>3. r # q.run
      BY <1>4, <3>2
    <3> QED BY <1>6, <1>9, <2>2, <3>1, <3>2, <3>3
  <2> QED BY <2>1, <2>2
<1>17. StartsComeFirst(L)
  <2> SUFFICES ASSUME NEW i \in DOMAIN L, NEW j \in DOMAIN L, NEW r \in Runs,
                      StartsRun(L[i], r), EndsRun(L[j], r)
               PROVE  i < j
    BY DEF StartsComeFirst
  <2>1. j \in 1 .. N /\ EndsRun(lines[j], r) /\ r # q.run
    BY <1>11
  <2>2. i \in 1 .. N /\ StartsRun(lines[i], r)
    BY <1>10, <2>1
  <2> QED BY <1>1, <1>7, <2>1, <2>2 DEF StartsComeFirst
<1>18. AllRest(L)
  <2> SUFFICES ASSUME NEW n \in DOMAIN L, L[n].req.type \in ChainTypes PROVE Rests(L, n)
    BY DEF AllRest
  <2>1. n \in DOMAIN lines /\ L[n] = lines[n]
    BY <1>5, <1>7, <1>8
  <2>2. Rests(lines, n)
    BY <1>1, <2>1 DEF AllRest
  <2> QED BY <1>1, <1>3, <2>1, <2>2, RestsStays
<1>19. Agrees(L, w)
  BY <1>2, <1>7, <1>12, <1>13, <1>14, <1>15, <1>16, <1>17, <1>18 DEF Agrees
<1> QED BY <1>19 DEF L, w

-----------------------------------------------------------------------------
(* A finish keeps the agreement: it closes inwards, and its threshold is true. *)
LEMMA FinishAgrees ==
  ASSUME NEW lines, NEW v, NEW e \in Line, Agrees(lines, v), e.seq = Len(lines) + 1,
         FeedValid(v, e), e.req.type = "delay_run_finish"
  PROVE  Agrees(Append(lines, e), Feed(v, e))
<1> DEFINE L == Append(lines, e)
           w == Feed(v, e)
           q == e.req
           x == e.req.run
           N == Len(lines)
<1>1. /\ lines \in Seq(Line) /\ v \in Views /\ StartsAreRecorded(lines, v)
      /\ EndsAreRecorded(lines, v) /\ StampsAreTrue(lines, v) /\ ChainIsRecorded(lines, v)
      /\ ClosesInwards(v) /\ StartsComeFirst(lines) /\ AllRest(lines)
  BY DEF Agrees
<1>2. /\ Started(v, x) /\ ~Finished(v, x) /\ OpenChildren(v, x) = {}
      /\ e.threshold = Threshold(v, v.runs[x].kind, v.runs[x].subject, None)
      /\ e.anomaly = Exceeds(q.elapsed, e.threshold)
  BY DEF FeedValid
<1>3. w \in Views /\ FinishFed(v, w, e)
  BY <1>1, <1>2, FeedFinish
<1>4. OneMore(lines, L, e)
  BY <1>1, AppendLine
<1>5. /\ EndsRun(e, x) /\ (\A r : ~StartsRun(e, r)) /\ (\A r : EndsRun(e, r) => r = x)
      /\ q.type \notin ChainTypes
  BY DEF StartsRun, EndsRun, ChainTypes
<1>6. /\ L \in Seq(Line) /\ N \in Nat /\ DOMAIN lines = 1 .. N /\ DOMAIN L = 1 .. N + 1
      /\ L[N + 1] = e /\ \A i \in 1 .. N : L[i] = lines[i]
  BY <1>4 DEF OneMore
<1>7. /\ x \in Runs /\ OtherRunsStay(v, w, x) /\ w.chain = v.chain
      /\ Started(w, x) /\ w.runs[x].finished = N + 1
      /\ w.runs[x].elapsed = q.elapsed /\ w.runs[x].outcome = q.outcome
      /\ w.runs[x].kind = v.runs[x].kind /\ w.runs[x].subject = v.runs[x].subject
      /\ w.runs[x].parent = v.runs[x].parent
  BY <1>3 DEF FinishFed
<1> HIDE DEF L, w, N, x
<1>8. q = e.req
  OBVIOUS
<1> HIDE DEF q
<1>9. Finished(w, x)
  BY <1>6, <1>7 DEF Finished
<1>10. \A c \in Runs : c # x => w.runs[c] = v.runs[c]
  BY <1>7 DEF OtherRunsStay
<1>11. /\ \A c \in Runs : Started(w, c) <=> Started(v, c)
       /\ \A c \in Runs : c # x => (Finished(w, c) <=> Finished(v, c))
       /\ \A c \in Runs : Started(v, c) => w.runs[c].parent = v.runs[c].parent
  <2>1. ASSUME NEW c \in Runs, c # x
        PROVE  (Started(w, c) <=> Started(v, c)) /\ (Finished(w, c) <=> Finished(v, c))
    BY <1>10, <2>1 DEF Started, Finished
  <2> QED BY <1>2, <1>7, <1>10, <2>1
<1>12. ASSUME NEW i \in DOMAIN L, NEW r \in Runs, StartsRun(L[i], r)
       PROVE  i \in 1 .. N /\ StartsRun(lines[i], r)
  <2>1. i # N + 1
    BY <1>5, <1>6, <1>12
  <2> QED BY <1>6, <1>12, <2>1
<1>13. ASSUME NEW i \in DOMAIN L, NEW r \in Runs, EndsRun(L[i], r)
       PROVE  (r = x /\ i = N + 1)
              \/ (r # x /\ i \in 1 .. N /\ EndsRun(lines[i], r) /\ Finished(v, r) /\ v.runs[r].finished = i)
  <2>1. CASE i = N + 1
    BY <1>5, <1>6, <1>13, <2>1
  <2>2. CASE i # N + 1
    <3>1. i \in 1 .. N /\ EndsRun(lines[i], r)
      BY <1>6, <1>13, <2>2
    <3>2. Finished(v, r) /\ v.runs[r].finished = i
      BY <1>1, <1>6, <3>1 DEF EndsAreRecorded
    <3> QED BY <1>2, <3>1, <3>2
  <2> QED BY <2>1, <2>2
<1>14. StartsAreRecorded(L, w)
  <2>1. ASSUME NEW r \in Runs, Started(w, r) PROVE \E i \in DOMAIN L : StartsRun(L[i], r)
    <3>1. PICK i \in DOMAIN lines : StartsRun(lines[i], r)
      BY <1>1, <1>11, <2>1 DEF StartsAreRecorded
    <3> QED BY <1>6, <3>1
  <2>2. ASSUME NEW r \in Runs, NEW i \in DOMAIN L, StartsRun(L[i], r)
        PROVE  Started(w, r) /\ w.runs[r].parent = L[i].req.parent
    <3>1. i \in 1 .. N /\ StartsRun(lines[i], r)
      BY <1>12, <2>2
    <3>2. Started(v, r) /\ v.runs[r].parent = lines[i].req.parent
      BY <1>1, <1>6, <3>1 DEF StartsAreRecorded
    <3> QED BY <1>6, <1>11, <3>1, <3>2
  <2> QED BY <2>1, <2>2 DEF StartsAreRecorded
<1>15. EndsAreRecorded(L, w)
  <2>1. ASSUME NEW r \in Runs, Finished(w, r)
        PROVE  /\ w.runs[r].finished \in DOMAIN L /\ EndsRun(L[w.runs[r].finished], r)
               /\ L[w.runs[r].finished].req.elapsed = w.runs[r].elapsed
               /\ L[w.runs[r].finished].req.outcome = w.runs[r].outcome
    <3>1. CASE r = x
      BY <1>5, <1>6, <1>7, <1>8, <3>1
    <3>2. CASE r # x
      <4>1. w.runs[r] = v.runs[r] /\ Finished(v, r)
        BY <1>10, <1>11, <2>1, <3>2
      <4>2. /\ v.runs[r].finished \in 1 .. N /\ EndsRun(lines[v.runs[r].finished], r)
            /\ lines[v.runs[r].finished].req.elapsed = v.runs[r].elapsed
            /\ lines[v.runs[r].finished].req.outcome = v.runs[r].outcome
        BY <1>1, <1>6, <4>1 DEF EndsAreRecorded
      <4> QED BY <1>6, <4>1, <4>2
    <3> QED BY <3>1, <3>2
  <2>2. ASSUME NEW r \in Runs, NEW i \in DOMAIN L, EndsRun(L[i], r)
        PROVE  Finished(w, r) /\ w.runs[r].finished = i
    <3>1. CASE r = x /\ i = N + 1
      BY <1>7, <1>9, <3>1
    <3>2. CASE r # x /\ Finished(v, r) /\ v.runs[r].finished = i
      BY <1>10, <1>11, <3>2
    <3> QED BY <1>13, <2>2, <3>1, <3>2
  <2> QED BY <2>1, <2>2 DEF EndsAreRecorded
<1>16. StampsAreTrue(L, w)
  <2> SUFFICES ASSUME NEW n \in DOMAIN L, NEW r \in Runs, EndsRun(L[n], r)
               PROVE  /\ L[n].threshold = Threshold(w, w.runs[r].kind, w.runs[r].subject, n - 1)
                      /\ L[n].anomaly = Exceeds(L[n].req.elapsed, L[n].threshold)
    BY DEF StampsAreTrue
  <2>1. CASE r = x /\ n = N + 1
    <3> DEFINE k == v.runs[x].kind
               s == v.runs[x].subject
    <3>1. w.runs[r].kind = k /\ w.runs[r].subject = s
      BY <1>7, <2>1
    <3>2. e.threshold = Threshold(v, k, s, None) /\ e.anomaly = Exceeds(e.req.elapsed, e.threshold)
      BY <1>2, <1>8
    <3> HIDE DEF k, s
    <3>3. Threshold(v, k, s, None) = Threshold(w, k, s, N)
      <4>1. w.runs[x].finished = Len(lines) + 1
        BY <1>7 DEF N
      <4>2. Threshold(v, k, s, None) = Threshold(w, k, s, Len(lines))
        BY <1>1, <1>2, <1>3, <1>7, <4>1, StampNow
      <4> QED BY <4>2 DEF N
    <3>4. n - 1 = N /\ L[n] = e
      BY <1>6, <2>1
    <3> QED BY <3>1, <3>2, <3>3, <3>4
  <2>2. CASE r # x /\ n \in 1 .. N /\ EndsRun(lines[n], r)
    <3>1. n \in DOMAIN lines /\ L[n] = lines[n]
      BY <1>6, <2>2
    <3>2. Finished(w, x) => w.runs[x].finished = Len(lines) + 1
      BY <1>7 DEF N
    <3>3. /\ lines[n].threshold = Threshold(w, w.runs[r].kind, w.runs[r].subject, n - 1)
          /\ lines[n].anomaly = Exceeds(lines[n].req.elapsed, lines[n].threshold)
      BY <1>1, <1>2, <1>3, <1>7, <2>2, <3>1, <3>2, StampsStay
    <3> QED BY <3>1, <3>3
  <2> QED BY <1>13, <2>1, <2>2
<1>17. ChainIsRecorded(L, w)
  <2> SUFFICES ASSUME NEW c \in Chain, w.chain[c] # None
               PROVE  \E m \in DOMAIN L : L[m].req.type \in ChainTypes /\ L[m].req.chain = c
                                          /\ L[m].req.type = w.chain[c]
    BY DEF ChainIsRecorded
  <2>1. PICK m \in DOMAIN lines : lines[m].req.type \in ChainTypes /\ lines[m].req.chain = c
                                  /\ lines[m].req.type = v.chain[c]
    BY <1>1, <1>7 DEF ChainIsRecorded
  <2> QED BY <1>6, <1>7, <2>1
<1>18. ClosesInwards(w)
  <2> SUFFICES ASSUME NEW r \in Runs, NEW c \in Runs, Started(w, c), w.runs[c].parent = r
               PROVE  /\ Started(w, r)
                      /\ Finished(w, r) => Finished(w, c) /\ w.runs[c].finished < w.runs[r].finished
    BY DEF ClosesInwards
  <2>1. Started(v, c) /\ v.runs[c].parent = r
    BY <1>11
  <2>2. /\ Started(v, r)
        /\ Finished(v, r) => Finished(v, c) /\ v.runs[c].finished < v.runs[r].finished
    BY <1>1, <2>1 DEF ClosesInwards
  <2>3. CASE r = x
    <3>1. Finished(v, c)
      BY <1>2, <2>1, <2>3 DEF OpenChildren
    <3>2. c # x
      BY <1>2, <3>1
    <3>3. v.runs[c].finished \in 1 .. N
      BY <1>1, <1>6, <3>1 DEF EndsAreRecorded
    <3> QED BY <1>6, <1>7, <1>10, <1>11, <2>3, <3>1, <3>2, <3>3
  <2>4. CASE r # x
    <3>1. Finished(w, r) => Finished(v, r) /\ Finished(v, c)
      BY <1>11, <2>2, <2>4
    <3>2. Finished(v, c) => c # x
      BY <1>2
    <3> QED BY <1>10, <1>11, <2>2, <2>4, <3>1, <3>2
  <2> QED BY <2>3, <2>4
<1>19. StartsComeFirst(L)
  <2> SUFFICES ASSUME NEW i \in DOMAIN L, NEW j \in DOMAIN L, NEW r \in Runs,
                      StartsRun(L[i], r), EndsRun(L[j], r)
               PROVE  i < j
    BY DEF StartsComeFirst
  <2>1. i \in 1 .. N /\ StartsRun(lines[i], r)
    BY <1>12
  <2>2. CASE j = N + 1
    BY <1>6, <2>1, <2>2
  <2>3. CASE j \in 1 .. N /\ EndsRun(lines[j], r)
    BY <1>1, <1>6, <2>1, <2>3 DEF StartsComeFirst
  <2> QED BY <1>13, <2>2, <2>3
<1>20. AllRest(L)
  <2> SUFFICES ASSUME NEW n \in DOMAIN L, L[n].req.type \in ChainTypes PROVE Rests(L, n)
    BY DEF AllRest
  <2>1. n # N + 1
    BY <1>5, <1>6, <1>8
  <2>2. n \in DOMAIN lines /\ L[n] = lines[n]
    BY <1>6, <2>1
  <2>3. Rests(lines, n)
    BY <1>1, <2>2 DEF AllRest
  <2> QED BY <1>1, <1>4, <2>2, <2>3, RestsStays
<1>21. Agrees(L, w)
  BY <1>3, <1>6, <1>14, <1>15, <1>16, <1>17, <1>18, <1>19, <1>20 DEF Agrees
<1> QED BY <1>21 DEF L, w

(* Evidence keeps the agreement: it rests on an anomaly or on its predecessor. *)
LEMMA EvidenceAgrees ==
  ASSUME NEW lines, NEW v, NEW e \in Line, Agrees(lines, v), e.seq = Len(lines) + 1,
         FeedValid(v, e), e.req.type \in ChainTypes
  PROVE  Agrees(Append(lines, e), Feed(v, e))
<1> DEFINE L == Append(lines, e)
           w == Feed(v, e)
           q == e.req
           N == Len(lines)
<1>1. /\ lines \in Seq(Line) /\ v \in Views /\ StartsAreRecorded(lines, v)
      /\ EndsAreRecorded(lines, v) /\ StampsAreTrue(lines, v) /\ ChainIsRecorded(lines, v)
      /\ ClosesInwards(v) /\ StartsComeFirst(lines) /\ AllRest(lines)
  BY DEF Agrees
<1>2. /\ q.type = "delay_retrospective" => Claim(v, q.run) # None /\ e.threshold = Claim(v, q.run)
      /\ q.type # "delay_retrospective" =>
           q.predecessor # 0 /\ v.chain[q.predecessor] = PredecessorType(q.type)
  BY DEF FeedValid, ChainTypes
<1>3. w \in Views /\ EvidenceFed(v, w, q)
  BY <1>1, FeedEvidence
<1>4. OneMore(lines, L, e)
  BY <1>1, AppendLine
<1>5. (\A r : ~StartsRun(e, r)) /\ (\A r : ~EndsRun(e, r))
  BY DEF StartsRun, EndsRun, ChainTypes
<1>6. /\ L \in Seq(Line) /\ N \in Nat /\ DOMAIN lines = 1 .. N /\ DOMAIN L = 1 .. N + 1
      /\ L[N + 1] = e /\ \A i \in 1 .. N : L[i] = lines[i]
  BY <1>4 DEF OneMore
<1>7. q \in Evidence
  BY LineFields, RequestsByType
<1>8. /\ q.chain \in Chain /\ w.runs = v.runs /\ w.chain[q.chain] = q.type
      /\ \A c \in Chain : c # q.chain => w.chain[c] = v.chain[c]
  BY <1>3 DEF EvidenceFed
<1> HIDE DEF L, w, N
<1>9. q = e.req /\ q.type \in ChainTypes
  OBVIOUS
<1> HIDE DEF q
<1>10. \A i \in DOMAIN L : \A r \in Runs :
         /\ StartsRun(L[i], r) => i \in 1 .. N /\ StartsRun(lines[i], r)
         /\ EndsRun(L[i], r) => i \in 1 .. N /\ EndsRun(lines[i], r)
  <2> SUFFICES ASSUME NEW i \in DOMAIN L, NEW r \in Runs, StartsRun(L[i], r) \/ EndsRun(L[i], r)
               PROVE  i \in 1 .. N
    BY <1>6
  <2>1. i # N + 1
    BY <1>5, <1>6
  <2> QED BY <1>6, <2>1
<1>11. \A r \in Runs : (Started(w, r) <=> Started(v, r)) /\ (Finished(w, r) <=> Finished(v, r))
  BY <1>8 DEF Started, Finished
<1>12. StartsAreRecorded(L, w)
  <2>1. ASSUME NEW r \in Runs, Started(w, r) PROVE \E i \in DOMAIN L : StartsRun(L[i], r)
    <3>1. PICK i \in DOMAIN lines : StartsRun(lines[i], r)
      BY <1>1, <1>11, <2>1 DEF StartsAreRecorded
    <3> QED BY <1>6, <3>1
  <2>2. ASSUME NEW r \in Runs, NEW i \in DOMAIN L, StartsRun(L[i], r)
        PROVE  Started(w, r) /\ w.runs[r].parent = L[i].req.parent
    <3>1. i \in 1 .. N /\ StartsRun(lines[i], r)
      BY <1>10, <2>2
    <3>2. Started(v, r) /\ v.runs[r].parent = lines[i].req.parent
      BY <1>1, <1>6, <3>1 DEF StartsAreRecorded
    <3> QED BY <1>6, <1>8, <1>11, <3>1, <3>2
  <2> QED BY <2>1, <2>2 DEF StartsAreRecorded
<1>13. EndsAreRecorded(L, w)
  <2>1. ASSUME NEW r \in Runs, Finished(w, r)
        PROVE  /\ w.runs[r].finished \in DOMAIN L /\ EndsRun(L[w.runs[r].finished], r)
               /\ L[w.runs[r].finished].req.elapsed = w.runs[r].elapsed
               /\ L[w.runs[r].finished].req.outcome = w.runs[r].outcome
    <3>1. w.runs[r] = v.runs[r] /\ Finished(v, r)
      BY <1>8, <1>11, <2>1
    <3>2. /\ v.runs[r].finished \in 1 .. N /\ EndsRun(lines[v.runs[r].finished], r)
          /\ lines[v.runs[r].finished].req.elapsed = v.runs[r].elapsed
          /\ lines[v.runs[r].finished].req.outcome = v.runs[r].outcome
      BY <1>1, <1>6, <3>1 DEF EndsAreRecorded
    <3> QED BY <1>6, <3>1, <3>2
  <2>2. ASSUME NEW r \in Runs, NEW i \in DOMAIN L, EndsRun(L[i], r)
        PROVE  Finished(w, r) /\ w.runs[r].finished = i
    <3>1. i \in 1 .. N /\ EndsRun(lines[i], r)
      BY <1>10, <2>2
    <3>2. Finished(v, r) /\ v.runs[r].finished = i
      BY <1>1, <1>6, <3>1 DEF EndsAreRecorded
    <3> QED BY <1>8, <1>11, <3>2
  <2> QED BY <2>1, <2>2 DEF EndsAreRecorded
<1>14. \A k, s, t : Threshold(v, k, s, t) = Threshold(w, k, s, t)
  <2> SUFFICES ASSUME NEW k, NEW s, NEW t PROVE Threshold(v, k, s, t) = Threshold(w, k, s, t)
    OBVIOUS
  <2>1. Completions(v, k, s, t) = Completions(w, k, s, t)
    BY <1>8 DEF Completions, Finished, Started
  <2>2. \A r \in Completions(v, k, s, t) : v.runs[r] = w.runs[r]
    BY <1>8
  <2> QED BY <2>1, <2>2, ThresholdOfCompletions
<1>15. StampsAreTrue(L, w)
  <2> SUFFICES ASSUME NEW n \in DOMAIN L, NEW r \in Runs, EndsRun(L[n], r)
               PROVE  /\ L[n].threshold = Threshold(w, w.runs[r].kind, w.runs[r].subject, n - 1)
                      /\ L[n].anomaly = Exceeds(L[n].req.elapsed, L[n].threshold)
    BY DEF StampsAreTrue
  <2>1. n \in 1 .. N /\ EndsRun(lines[n], r) /\ L[n] = lines[n]
    BY <1>6, <1>10
  <2>2. /\ lines[n].threshold = Threshold(v, v.runs[r].kind, v.runs[r].subject, n - 1)
        /\ lines[n].anomaly = Exceeds(lines[n].req.elapsed, lines[n].threshold)
    BY <1>1, <1>6, <2>1 DEF StampsAreTrue
  <2> QED BY <1>8, <1>14, <2>1, <2>2
<1>16. ChainIsRecorded(L, w)
  <2> SUFFICES ASSUME NEW c \in Chain, w.chain[c] # None
               PROVE  \E m \in DOMAIN L : L[m].req.type \in ChainTypes /\ L[m].req.chain = c
                                          /\ L[m].req.type = w.chain[c]
    BY DEF ChainIsRecorded
  <2>1. CASE c = q.chain
    BY <1>6, <1>8, <1>9, <2>1
  <2>2. CASE c # q.chain
    <3>1. PICK m \in DOMAIN lines : lines[m].req.type \in ChainTypes /\ lines[m].req.chain = c
                                    /\ lines[m].req.type = v.chain[c]
      BY <1>1, <1>8, <2>2 DEF ChainIsRecorded
    <3> QED BY <1>6, <1>8, <2>2, <3>1
  <2> QED BY <2>1, <2>2
<1>17. ClosesInwards(w)
  <2> SUFFICES ASSUME NEW r \in Runs, NEW c \in Runs, Started(w, c), w.runs[c].parent = r
               PROVE  /\ Started(w, r)
                      /\ Finished(w, r) => Finished(w, c) /\ w.runs[c].finished < w.runs[r].finished
    BY DEF ClosesInwards
  <2>1. Started(v, c) /\ v.runs[c].parent = r
    BY <1>8, <1>11
  <2>2. /\ Started(v, r)
        /\ Finished(v, r) => Finished(v, c) /\ v.runs[c].finished < v.runs[r].finished
    BY <1>1, <2>1 DEF ClosesInwards
  <2> QED BY <1>8, <1>11, <2>2
<1>18. StartsComeFirst(L)
  <2> SUFFICES ASSUME NEW i \in DOMAIN L, NEW j \in DOMAIN L, NEW r \in Runs,
                      StartsRun(L[i], r), EndsRun(L[j], r)
               PROVE  i < j
    BY DEF StartsComeFirst
  <2>1. i \in 1 .. N /\ StartsRun(lines[i], r) /\ j \in 1 .. N /\ EndsRun(lines[j], r)
    BY <1>10
  <2> QED BY <1>1, <1>6, <2>1 DEF StartsComeFirst
<1>19. Rests(L, N + 1)
  <2>1. CASE q.type = "delay_retrospective"
    <3> DEFINE x == q.run
               m == v.runs[q.run].finished
               t == Threshold(v, v.runs[q.run].kind, v.runs[q.run].subject, m - 1)
    <3>1. /\ v.runs[x] # None /\ m # 0 /\ v.runs[x].outcome = Completed
          /\ Exceeds(v.runs[x].elapsed, t) /\ Claim(v, x) = t
      BY <1>2, <2>1 DEF Claim
    <3>3. x \in Runs
      BY <1>7, <2>1 DEF Evidence
    <3>4. Finished(v, x)
      BY <3>1 DEF Finished, Started
    <3>5. /\ m \in 1 .. N /\ EndsRun(lines[m], x) /\ lines[m].req.elapsed = v.runs[x].elapsed
          /\ lines[m].req.outcome = v.runs[x].outcome
      BY <1>1, <1>6, <3>3, <3>4 DEF EndsAreRecorded
    <3>6. lines[m].threshold = t /\ lines[m].anomaly = Exceeds(lines[m].req.elapsed, lines[m].threshold)
      BY <1>1, <1>6, <3>3, <3>5 DEF StampsAreTrue
    <3>7. e.threshold = t
      BY <1>2, <2>1, <3>1
    <3> HIDE DEF m, t
    <3>8. m \in 1 .. (N + 1) - 1 /\ L[m] = lines[m]
      BY <1>6, <3>5
    <3>9. RestsOnAnomaly(L, N + 1, x)
      BY <1>6, <3>1, <3>5, <3>6, <3>7, <3>8 DEF RestsOnAnomaly
    <3> QED BY <1>6, <1>9, <2>1, <3>9 DEF Rests
  <2>2. CASE q.type # "delay_retrospective"
    <3>1. q.predecessor \in Chain /\ v.chain[q.predecessor] = PredecessorType(q.type)
      BY <1>2, <1>7, <2>2 DEF Evidence
    <3>2. PredecessorType(q.type) \in ChainTypes
      BY <1>9, <2>2 DEF PredecessorType, ChainTypes
    <3>3. v.chain[q.predecessor] # None
      BY <3>1, <3>2, DelayAssumption
    <3>4. PICK m \in DOMAIN lines : /\ lines[m].req.type \in ChainTypes
                                    /\ lines[m].req.chain = q.predecessor
                                    /\ lines[m].req.type = v.chain[q.predecessor]
      BY <1>1, <3>1, <3>3 DEF ChainIsRecorded
    <3>5. m \in 1 .. (N + 1) - 1 /\ L[m] = lines[m] /\ L[N + 1].req = q
      BY <1>6, <1>9, <3>4
    <3>6. RestsOnChain(L, N + 1)
      BY <3>1, <3>4, <3>5 DEF RestsOnChain
    <3> QED BY <2>2, <3>5, <3>6 DEF Rests
  <2> QED BY <2>1, <2>2
<1>20. AllRest(L)
  <2> SUFFICES ASSUME NEW n \in DOMAIN L, L[n].req.type \in ChainTypes PROVE Rests(L, n)
    BY DEF AllRest
  <2>1. CASE n = N + 1
    BY <1>19, <2>1
  <2>2. CASE n # N + 1
    <3>1. n \in DOMAIN lines /\ L[n] = lines[n]
      BY <1>6, <2>2
    <3>2. Rests(lines, n)
      BY <1>1, <3>1 DEF AllRest
    <3> QED BY <1>1, <1>4, <3>1, <3>2, RestsStays
  <2> QED BY <2>1, <2>2
<1>21. Agrees(L, w)
  BY <1>3, <1>6, <1>12, <1>13, <1>15, <1>16, <1>17, <1>18, <1>20 DEF Agrees
<1> QED BY <1>21 DEF L, w

-----------------------------------------------------------------------------
(* A line that replay accepts keeps the agreement, whatever it tells of. *)
LEMMA FeedAgrees ==
  ASSUME NEW lines, NEW v, NEW e \in Line, Agrees(lines, v), ReplayValid(lines, v, e)
  PROVE  Agrees(Append(lines, e), Feed(v, e))
<1>1. e.seq = Len(lines) + 1 /\ FeedValid(v, e)
  BY DEF ReplayValid
<1>2. e.req.type = "delay_run_start" \/ e.req.type = "delay_run_finish" \/ e.req.type \in ChainTypes
  BY LineFields, RequestsByType
<1>3. CASE e.req.type = "delay_run_start"
  BY <1>1, <1>3, StartAgrees
<1>4. CASE e.req.type = "delay_run_finish"
  BY <1>1, <1>4, FinishAgrees
<1>5. CASE e.req.type \in ChainTypes
  BY <1>1, <1>5, EvidenceAgrees
<1> QED BY <1>2, <1>3, <1>4, <1>5

(* The empty log agrees with the empty view. *)
LEMMA EmptyAgrees == Agrees(<<>>, EmptyView)
<1>1. EmptyView \in Views /\ \A r \in Runs : ~Started(EmptyView, r) /\ ~Finished(EmptyView, r)
  BY DEF EmptyView, Views, Started, Finished
<1>2. \A c \in Chain : EmptyView.chain[c] = None
  BY DEF EmptyView
<1>3. <<>> \in Seq(Line) /\ DOMAIN <<>> = {}
  OBVIOUS
<1>4. StartsAreRecorded(<<>>, EmptyView) /\ EndsAreRecorded(<<>>, EmptyView)
  BY <1>1, <1>3 DEF StartsAreRecorded, EndsAreRecorded
<1>5. StampsAreTrue(<<>>, EmptyView) /\ ChainIsRecorded(<<>>, EmptyView)
  BY <1>2, <1>3 DEF StampsAreTrue, ChainIsRecorded
<1>6. ClosesInwards(EmptyView) /\ StartsComeFirst(<<>>) /\ AllRest(<<>>)
  BY <1>1, <1>3 DEF ClosesInwards, StartsComeFirst, AllRest
<1> QED BY <1>1, <1>3, <1>4, <1>5, <1>6 DEF Agrees

(* Beginnings of a log *)
LEMMA Beginnings ==
  ASSUME NEW lines \in Seq(Line), NEW n \in 0 .. Len(lines)
  PROVE  /\ SubSeq(lines, 1, n) \in Seq(Line) /\ Len(SubSeq(lines, 1, n)) = n
         /\ \A i \in 1 .. n : SubSeq(lines, 1, n)[i] = lines[i]
         /\ \A m \in 0 .. n : SubSeq(SubSeq(lines, 1, n), 1, m) = SubSeq(lines, 1, m)
  OBVIOUS
(* All of a log is a beginning of it. *)
LEMMA WholeLog ==
  ASSUME NEW lines \in Seq(Line)
  PROVE  SubSeq(lines, 1, Len(lines)) = lines
  OBVIOUS
(* The beginnings of a log stay when a line is added. *)
LEMMA BeginningsAppend ==
  ASSUME NEW lines \in Seq(Line), NEW e \in Line, NEW n \in 0 .. Len(lines)
  PROVE  SubSeq(Append(lines, e), 1, n) = SubSeq(lines, 1, n)
<1> DEFINE L == Append(lines, e)
<1>1. L \in Seq(Line) /\ Len(L) = Len(lines) + 1 /\ \A i \in 1 .. Len(lines) : L[i] = lines[i]
  OBVIOUS
<1> HIDE DEF L
<1> QED BY <1>1

(* An older copy of the file agrees as the file did. *)
LEMMA PrefixesCut ==
  ASSUME NEW lines \in Seq(Line), EveryPrefixAgrees(lines), NEW n \in 0 .. Len(lines)
  PROVE  EveryPrefixAgrees(SubSeq(lines, 1, n))
<1> SUFFICES ASSUME NEW m \in 0 .. n
             PROVE  Agrees(SubSeq(SubSeq(lines, 1, n), 1, m),
                           Replay(EmptyView, SubSeq(SubSeq(lines, 1, n), 1, m)))
  BY Beginnings DEF EveryPrefixAgrees
<1>1. SubSeq(SubSeq(lines, 1, n), 1, m) = SubSeq(lines, 1, m) /\ m \in 0 .. Len(lines)
  BY Beginnings
<1> QED BY <1>1 DEF EveryPrefixAgrees

(* A line that replay accepts keeps the agreement of every beginning. *)
LEMMA PrefixesAppend ==
  ASSUME NEW lines \in Seq(Line), EveryPrefixAgrees(lines), NEW e \in Line,
         ReplayValid(lines, Replay(EmptyView, lines), e)
  PROVE  EveryPrefixAgrees(Append(lines, e))
<1> DEFINE L == Append(lines, e)
<1>1. L \in Seq(Line) /\ Len(L) = Len(lines) + 1 /\ Len(lines) \in Nat
  OBVIOUS
<1>2. Agrees(lines, Replay(EmptyView, lines))
  <2>1. Len(lines) \in 0 .. Len(lines)
    BY <1>1
  <2> QED BY <2>1, WholeLog DEF EveryPrefixAgrees
<1>3. Agrees(L, Replay(EmptyView, L))
  <2>1. Replay(EmptyView, L) = Feed(Replay(EmptyView, lines), e)
    BY ReplayAppend
  <2> QED BY <1>2, <2>1, FeedAgrees
<1> SUFFICES ASSUME NEW n \in 0 .. Len(L)
             PROVE  Agrees(SubSeq(L, 1, n), Replay(EmptyView, SubSeq(L, 1, n)))
  BY DEF EveryPrefixAgrees
<1>4. CASE n = Len(L)
  BY <1>1, <1>3, <1>4, WholeLog
<1>5. CASE n # Len(L)
  <2>1. n \in 0 .. Len(lines)
    BY <1>1, <1>5
  <2>2. SubSeq(L, 1, n) = SubSeq(lines, 1, n)
    BY <2>1, BeginningsAppend
  <2> QED BY <2>1, <2>2 DEF EveryPrefixAgrees
<1> QED BY <1>4, <1>5

-----------------------------------------------------------------------------
(* Caches *)

(* No cache is right of any log. *)
LEMMA NoCacheAgrees ==
  ASSUME NEW lines, NEW era
  PROVE  CacheAgrees(NoCache, lines, era)
<1>1. EmptyView \in Views
  BY EmptyAgrees DEF Agrees
<1>2. NoCache \in Cache /\ NoCache.upto = 0 /\ NoCache.view = EmptyView
  BY <1>1 DEF NoCache, Cache
<1> QED BY <1>2 DEF CacheAgrees

(* The fields of a cache. *)
LEMMA CacheFields ==
  ASSUME NEW c \in Cache
  PROVE  c.upto \in Nat /\ c.head \in Nat /\ c.tail \in Nat /\ c.view \in Views
  BY DEF Cache

(* A line of this era makes no cache wrong that is trusted. *)
LEMMA CacheAgreesAppend ==
  ASSUME NEW lines \in Seq(Line), NEW era \in Nat, NEW c, CacheAgrees(c, lines, era),
         NEW e \in Line, e.era = era
  PROVE  CacheAgrees(c, Append(lines, e), era)
<1> DEFINE L == Append(lines, e)
<1>1. /\ L \in Seq(Line) /\ Len(L) = Len(lines) + 1 /\ Len(lines) \in Nat
      /\ L[Len(lines) + 1] = e /\ \A i \in 1 .. Len(lines) : L[i] = lines[i]
  OBVIOUS
<1>2. c \in Cache /\ c.upto \in Nat /\ c.tail \in Nat
  BY CacheFields DEF CacheAgrees
<1>3. \A n \in 0 .. Len(lines) : SubSeq(L, 1, n) = SubSeq(lines, 1, n)
  BY BeginningsAppend
<1> SUFFICES CacheAgrees(c, L, era)
  OBVIOUS
<1> HIDE DEF L
<1>4. CASE c.upto = 0
  BY <1>4 DEF CacheAgrees
<1>5. CASE c.upto # 0 /\ c.upto <= Len(lines)
  <2>1. c.upto \in 1 .. Len(lines) /\ c.upto \in 0 .. Len(lines)
    BY <1>1, <1>2, <1>5
  <2>2. c.tail <= era /\ (lines[c.upto].era = c.tail =>
                            c.view = Replay(EmptyView, SubSeq(lines, 1, c.upto)))
    BY <1>1, <1>2, <1>5 DEF CacheAgrees
  <2>3. ~(c.upto > Len(L)) /\ L[c.upto] = lines[c.upto]
        /\ SubSeq(L, 1, c.upto) = SubSeq(lines, 1, c.upto)
    BY <1>1, <1>3, <2>1
  <2> QED BY <1>2, <1>5, <2>2, <2>3 DEF CacheAgrees
<1>6. CASE c.upto # 0 /\ c.upto > Len(lines)
  <2>1. c.tail < era /\ c.tail <= era
    BY <1>2, <1>6 DEF CacheAgrees
  <2>2. ~(c.upto > Len(L)) => L[c.upto].era # c.tail
    BY <1>1, <1>2, <1>6, <2>1
  <2> QED BY <1>2, <1>6, <2>1, <2>2 DEF CacheAgrees
<1> QED BY <1>1, <1>2, <1>4, <1>5, <1>6

(* Nor does an older copy of the file that is put back. *)
LEMMA CacheAgreesCut ==
  ASSUME NEW lines \in Seq(Line), NEW era \in Nat, NEW c, CacheAgrees(c, lines, era),
         NEW n \in 0 .. Len(lines)
  PROVE  CacheAgrees(c, SubSeq(lines, 1, n), era + 1)
<1> DEFINE L == SubSeq(lines, 1, n)
<1>1. /\ L \in Seq(Line) /\ Len(L) = n /\ \A i \in 1 .. n : L[i] = lines[i]
      /\ \A m \in 0 .. n : SubSeq(L, 1, m) = SubSeq(lines, 1, m)
      /\ n \in Nat /\ Len(lines) \in Nat
  BY Beginnings
<1>2. c \in Cache /\ c.upto \in Nat /\ c.tail \in Nat
  BY CacheFields DEF CacheAgrees
<1> SUFFICES CacheAgrees(c, L, era + 1)
  OBVIOUS
<1> HIDE DEF L
<1>3. CASE c.upto = 0
  BY <1>3 DEF CacheAgrees
<1>4. CASE c.upto # 0
  <2>1. c.tail <= era
    BY <1>4 DEF CacheAgrees
  <2>2. c.tail <= era + 1 /\ c.tail < era + 1
    BY <1>2, <2>1
  <2>3. ~(c.upto > n) /\ L[c.upto].era = c.tail => c.view = Replay(EmptyView, SubSeq(L, 1, c.upto))
    <3> SUFFICES ASSUME ~(c.upto > n), L[c.upto].era = c.tail
                 PROVE  c.view = Replay(EmptyView, SubSeq(L, 1, c.upto))
      OBVIOUS
    <3>1. c.upto \in 1 .. n /\ c.upto \in 0 .. n /\ ~(c.upto > Len(lines))
      BY <1>1, <1>2, <1>4
    <3>2. L[c.upto] = lines[c.upto] /\ SubSeq(L, 1, c.upto) = SubSeq(lines, 1, c.upto)
      BY <1>1, <3>1
    <3> QED BY <1>4, <3>1, <3>2 DEF CacheAgrees
  <2> QED BY <1>1, <1>2, <1>4, <2>2, <2>3 DEF CacheAgrees
<1> QED BY <1>3, <1>4

(* The log agrees with its replay. *)
LEMMA LogAgrees ==
  ASSUME DelayInv
  PROVE  Agrees(log, view)
<1>1. log \in Seq(Line) /\ EveryPrefixAgrees(log) /\ view = Replay(EmptyView, log)
  BY DEF DelayInv
<1>2. Len(log) \in 0 .. Len(log)
  BY <1>1
<1> QED BY <1>1, <1>2, WholeLog DEF EveryPrefixAgrees

(* So does what a writer reads, an open last line included. *)
LEMMA SeenAgrees ==
  ASSUME DelayInv
  PROVE  Agrees(Seen, View)
<1>1. Agrees(log, view)
  BY LogAgrees
<1>2. CASE OpenIsValid
  <2>1. tail \in Line /\ ReplayValid(log, view, tail)
    BY <1>2 DEF DelayInv, OpenIsValid, Open
  <2> QED BY <1>1, <1>2, <2>1, FeedAgrees DEF Seen, View
<1>3. CASE ~OpenIsValid
  BY <1>1, <1>3 DEF Seen, View
<1> QED BY <1>2, <1>3

(* A call works with what the file says, whatever it remembers. *)
LEMMA FoldedIsView ==
  ASSUME DelayInv, NEW i \in Instances
  PROVE  Folded(i) = View /\ CacheAgrees(Refreshed(i), log, restores)
<1>1. /\ log \in Seq(Line) /\ view = Replay(EmptyView, log) /\ restores \in Nat
      /\ \A n \in DOMAIN log : log[n].era <= restores
      /\ CacheAgrees(cache[i], log, restores)
  BY DEF DelayInv
<1>2. CASE ~Plain
  BY <1>2, NoCacheAgrees DEF Folded, Refreshed
<1>3. CASE Plain
  <2>1. View = view /\ Folded(i) = Refreshed(i).view
    BY <1>3 DEF Plain, View, OpenIsValid, Open, Folded
  <2>2. CASE log = <<>>
    <3>1. Refreshed(i) = NoCache
      BY <2>2 DEF Refreshed
    <3>2. NoCache.view = EmptyView
      BY DEF NoCache
    <3>3. Replay(EmptyView, log) = EmptyView
      BY <2>2, ReplayEmpty
    <3> QED BY <1>1, <2>1, <3>1, <3>2, <3>3, NoCacheAgrees
  <2>3. CASE log # <<>>
    <3> DEFINE b == IF Matches(i) THEN cache[i] ELSE NoCache
    <3>1. Refreshed(i) = [upto |-> Len(log), head |-> log[1].era, tail |-> log[Len(log)].era,
                          view |-> Replay(b.view, SubSeq(log, b.upto + 1, Len(log)))]
      BY <1>3, <2>3 DEF Refreshed
    <3>2. b.upto \in 0 .. Len(log) /\ b.view = Replay(EmptyView, SubSeq(log, 1, b.upto))
      <4>1. CASE b.upto = 0
        <5>1. b.view = EmptyView
          BY <1>1, <4>1 DEF CacheAgrees, NoCache
        <5>2. SubSeq(log, 1, 0) = <<>> /\ 0 \in 0 .. Len(log)
          BY <1>1
        <5> QED BY <4>1, <5>1, <5>2, ReplayEmpty
      <4>2. CASE b.upto # 0
        <5>1. Matches(i) /\ b = cache[i]
          BY <4>2 DEF NoCache
        <5>2. b.upto <= Len(log) /\ log[b.upto].era = b.tail
          BY <4>2, <5>1 DEF Matches
        <5>3. b \in Cache /\ b.upto \in Nat
          BY <1>1, <5>1, CacheFields DEF CacheAgrees
        <5> HIDE DEF b
        <5>4. b.upto \in 0 .. Len(log) /\ ~(b.upto > Len(log))
          BY <1>1, <5>2, <5>3
        <5> QED BY <1>1, <4>2, <5>1, <5>2, <5>4 DEF CacheAgrees
      <4> QED BY <4>1, <4>2
    <3>3. Replay(b.view, SubSeq(log, b.upto + 1, Len(log))) = view
      <4> DEFINE k == b.upto
      <4>1. k \in 0 .. Len(log) /\ b.view = Replay(EmptyView, SubSeq(log, 1, k))
        BY <3>2
      <4> HIDE DEF k
      <4>2. Replay(Replay(EmptyView, SubSeq(log, 1, k)), SubSeq(log, k + 1, Len(log)))
              = Replay(EmptyView, log)
        BY <1>1, <4>1, ReplaySince
      <4> QED BY <1>1, <4>1, <4>2 DEF k
    <3> HIDE DEF b
    <3>4. Refreshed(i) = [upto |-> Len(log), head |-> log[1].era,
                          tail |-> log[Len(log)].era, view |-> view]
      BY <3>1, <3>3
    <3>5. Len(log) \in 1 .. Len(log) /\ Len(log) \in Nat
      BY <1>1, <2>3
    <3>6. view \in Views
      BY LogAgrees DEF Agrees
    <3>7. log[1].era \in Nat /\ log[Len(log)].era \in Nat /\ log[Len(log)].era <= restores
      <4>1. \A n \in 1 .. Len(log) : log[n] \in Line
        BY <1>1
      <4>2. 1 \in 1 .. Len(log)
        BY <3>5
      <4> QED BY <1>1, <3>5, <4>1, <4>2, LineFields
    <3>8. Refreshed(i) \in Cache
      BY <3>4, <3>5, <3>6, <3>7 DEF Cache
    <3>9. view = Replay(EmptyView, SubSeq(log, 1, Len(log)))
      BY <1>1, WholeLog
    <3>10. Refreshed(i).view = view
      BY <3>4
    <3>11. CacheAgrees(Refreshed(i), log, restores)
      BY <3>4, <3>5, <3>7, <3>8, <3>9 DEF CacheAgrees
    <3> QED BY <2>1, <3>10, <3>11
  <2> QED BY <2>2, <2>3
<1> QED BY <1>2, <1>3

-----------------------------------------------------------------------------
(* What a writer prepares, replay accepts *)

(* A claim is the threshold that was exceeded, or there is none. *)
LEMMA ClaimIsANumber ==
  ASSUME NEW v \in Views, NEW r
  PROVE  Claim(v, r) \in Nat \union {None}
<1> DEFINE t == Threshold(v, v.runs[r].kind, v.runs[r].subject, v.runs[r].finished - 1)
<1>1. t \in Nat \union {None}
  BY ThresholdIsANumber
<1>2. Claim(v, r) = t \/ Claim(v, r) = None
  BY DEF Claim
<1> HIDE DEF t
<1> QED BY <1>1, <1>2

(* A prepared request is a line that replay accepts. *)
LEMMA LineIsWritten ==
  ASSUME NEW v \in Views, NEW r \in Request, Prepared(v, r), Len(Seen) \in Nat, restores \in Nat
  PROVE  /\ LineOf(v, r) \in Line /\ FeedValid(v, LineOf(v, r))
         /\ LineOf(v, r).req = r /\ LineOf(v, r).seq = Len(Seen) + 1
         /\ LineOf(v, r).era = restores
<1> DEFINE e == LineOf(v, r)
<1>1. /\ e.req = r /\ e.seq = Len(Seen) + 1 /\ e.era = restores
      /\ e.anomaly = (r.type = "delay_run_finish" /\ Exceeds(r.elapsed, e.threshold))
  BY DEF LineOf
<1>2. e = [req |-> e.req, seq |-> e.seq, era |-> e.era, threshold |-> e.threshold,
           anomaly |-> e.anomaly]
  BY DEF LineOf
<1>3. /\ r.type = "delay_run_finish" =>
           e.threshold = Threshold(v, v.runs[r.run].kind, v.runs[r.run].subject, None)
      /\ r.type = "delay_retrospective" => e.threshold = Claim(v, r.run)
      /\ r.type \notin {"delay_run_finish", "delay_retrospective"} => e.threshold = None
  BY DEF LineOf
<1> HIDE DEF e
<1>4. e.threshold \in Nat \union {None}
  BY <1>3, ThresholdIsANumber, ClaimIsANumber
<1>5. e.anomaly \in BOOLEAN
  BY <1>1
<1>6. e \in Line
  <2>1. e.req \in Request /\ e.seq \in Nat /\ e.era \in Nat
    BY <1>1
  <2> QED BY <1>2, <1>4, <1>5, <2>1 DEF Line
<1>7. FeedValid(v, e)
  <2>1. CASE r.type = "delay_run_start"
    <3>1. /\ ~Started(v, r.run)
          /\ \/ r.kind = "task" /\ r.parent = 0
             \/ /\ r.kind # "task" /\ r.parent # 0 /\ Started(v, r.parent)
                /\ v.runs[r.parent].kind = ParentKind(r.kind)
                /\ v.runs[r.parent].finished = 0
      BY <2>1 DEF Prepared
    <3> QED BY <1>1, <2>1, <3>1 DEF FeedValid, Finished
  <2>2. CASE r.type = "delay_run_finish"
    <3>1. Started(v, r.run) /\ ~Finished(v, r.run) /\ OpenChildren(v, r.run) = {}
      BY <2>2 DEF Prepared
    <3>2. e.anomaly = Exceeds(r.elapsed, e.threshold)
      BY <1>1, <2>2 DEF Exceeds
    <3> QED BY <1>1, <1>3, <2>2, <3>1, <3>2 DEF FeedValid
  <2>3. CASE r.type = "delay_retrospective"
    <3>1. Claim(v, r.run) # None /\ v.chain[r.chain] = None
      BY <2>3 DEF Prepared
    <3> QED BY <1>1, <1>3, <2>3, <3>1 DEF FeedValid
  <2>4. CASE r.type \notin {"delay_run_start", "delay_run_finish", "delay_retrospective"}
    <3>1. /\ r.predecessor # 0 /\ v.chain[r.predecessor] = PredecessorType(r.type)
          /\ v.chain[r.chain] = None
      BY <2>4 DEF Prepared
    <3> QED BY <1>1, <2>4, <3>1 DEF FeedValid
  <2> QED BY <2>1, <2>2, <2>3, <2>4
<1> QED BY <1>1, <1>6, <1>7 DEF e

-----------------------------------------------------------------------------
(* The steps *)

(* A call that writes keeps the invariant, whole or torn. *)
LEMMA WriteStep ==
  ASSUME DelayInv, NEW i \in Instances, NEW r \in Request, Write(i, View, r)
  PROVE  DelayInv'
<1> DEFINE e == LineOf(View, r)
<1>1. /\ log \in Seq(Line) /\ EveryPrefixAgrees(log) /\ view = Replay(EmptyView, log)
      /\ \A n \in DOMAIN log : log[n].era <= restores
      /\ tail \in Line \union {Clean, Torn} /\ (Open => OpenIsValid)
      /\ spoiled \in BOOLEAN /\ rejected = 0 /\ tears \in Nat /\ restores \in Nat
      /\ cache \in [Instances -> Cache]
      /\ \A j \in Instances : CacheAgrees(cache[j], log, restores)
  BY DEF DelayInv
<1>2. /\ Prepared(View, r) /\ ~KnownOperation(r)
      /\ WriteWhole(e) \/ WriteTorn(e)
      /\ cache' = [cache EXCEPT ![i] = Refreshed(i)]
  BY DEF Write, Applies
<1>3. Seen \in Seq(Line) /\ View \in Views
  BY SeenAgrees DEF Agrees
<1>4. /\ e \in Line /\ FeedValid(View, e) /\ e.req = r /\ e.seq = Len(Seen) + 1 /\ e.era = restores
  <2>1. Len(Seen) \in Nat
    BY <1>3
  <2> QED BY <1>1, <1>2, <1>3, <2>1, LineIsWritten
<1>5. ReplayValid(Seen, View, e)
  BY <1>2, <1>4 DEF ReplayValid, KnownOperation
<1> HIDE DEF e
<1>6. tail = Clean => ReplayValid(log, view, e)
  BY <1>5 DEF Seen, View, OpenIsValid, Open
<1>7. cache' \in [Instances -> Cache] /\ \A j \in Instances : CacheAgrees(cache'[j], log, restores)
  <2>1. CacheAgrees(Refreshed(i), log, restores)
    BY FoldedIsView
  <2>2. Refreshed(i) \in Cache
    BY <2>1 DEF CacheAgrees
  <2> QED BY <1>1, <1>2, <2>1, <2>2
<1>8. CASE log' = log /\ view' = view /\ restores' = restores /\ spoiled' \in BOOLEAN
           /\ rejected' = rejected /\ tears' \in Nat
           /\ (tail' \in {Clean, Torn} \/ (tail' = e /\ tail = Clean))
  <2>1. Open' => OpenIsValid'
    <3> SUFFICES ASSUME Open' PROVE OpenIsValid'
      OBVIOUS
    <3>1. tail' = e /\ tail = Clean
      BY <1>8 DEF Open
    <3> QED BY <1>6, <1>8, <3>1 DEF OpenIsValid
  <2> QED BY <1>1, <1>4, <1>7, <1>8, <2>1 DEF DelayInv
<1>9. CASE tail = Clean /\ log' = Append(log, e) /\ view' = Feed(view, e) /\ restores' = restores
           /\ spoiled' = spoiled /\ rejected' = rejected /\ tears' = tears /\ tail' = Clean
  <2>1. log' \in Seq(Line) /\ EveryPrefixAgrees(log')
    BY <1>1, <1>4, <1>6, <1>9, PrefixesAppend
  <2>2. view' = Replay(EmptyView, log')
    BY <1>1, <1>4, <1>9, ReplayAppend
  <2>3. \A n \in DOMAIN log' : log'[n].era <= restores'
    BY <1>1, <1>4, <1>9
  <2>4. ~Open'
    BY <1>9 DEF Open
  <2>5. \A j \in Instances : CacheAgrees(cache'[j], log', restores')
    BY <1>1, <1>4, <1>7, <1>9, CacheAgreesAppend
  <2> QED BY <1>1, <1>7, <1>9, <2>1, <2>2, <2>3, <2>4, <2>5 DEF DelayInv
<1>10. CASE WriteWhole(e)
  <2>1. CASE tail # Clean
    BY <1>1, <1>8, <1>10, <2>1 DEF WriteWhole
  <2>2. CASE tail = Clean
    BY <1>6, <1>9, <1>10, <2>2 DEF WriteWhole
  <2> QED BY <2>1, <2>2
<1>11. CASE WriteTorn(e)
  BY <1>1, <1>8, <1>11 DEF WriteTorn
<1> QED BY <1>2, <1>10, <1>11

(* A call that only reads keeps it. *)
LEMMA ConsultStep ==
  ASSUME DelayInv, NEW i \in Instances, Consult(i)
  PROVE  DelayInv'
<1>1. CacheAgrees(Refreshed(i), log, restores)
  BY FoldedIsView
<1>2. Refreshed(i) \in Cache
  BY <1>1 DEF CacheAgrees
<1>3. /\ log' = log /\ view' = view /\ tail' = tail /\ spoiled' = spoiled
      /\ rejected' = rejected /\ tears' = tears /\ restores' = restores
      /\ cache' = [cache EXCEPT ![i] = Refreshed(i)]
  BY DEF Consult
<1>4. /\ cache' \in [Instances -> Cache]
      /\ \A j \in Instances : CacheAgrees(cache'[j], log', restores')
  BY <1>1, <1>2, <1>3 DEF DelayInv
<1>5. Open' => OpenIsValid'
  BY <1>3 DEF DelayInv, Open, OpenIsValid
<1> QED BY <1>3, <1>4, <1>5 DEF DelayInv

(* The owner who puts back an older copy keeps it. *)
LEMMA RestoreStep ==
  ASSUME DelayInv, Restore
  PROVE  DelayInv'
<1>1. /\ log \in Seq(Line) /\ EveryPrefixAgrees(log)
      /\ \A n \in DOMAIN log : log[n].era <= restores
      /\ restores \in Nat /\ tears \in Nat
      /\ cache \in [Instances -> Cache]
      /\ \A j \in Instances : CacheAgrees(cache[j], log, restores)
  BY DEF DelayInv
<1>2. PICK n \in 0 .. Len(log), replaced \in BOOLEAN :
        /\ log' = SubSeq(log, 1, n) /\ view' = Replay(EmptyView, log')
        /\ cache' = IF replaced THEN [i \in Instances |-> NoCache] ELSE cache
  BY DEF Restore
<1>3. /\ tail' = Clean /\ spoiled' = FALSE /\ rejected' = 0 /\ restores' = restores + 1
      /\ tears' = tears
  BY DEF Restore
<1>4. log' \in Seq(Line) /\ Len(log') = n /\ \A i \in 1 .. n : log'[i] = log[i]
  BY <1>1, <1>2, Beginnings
<1>5. EveryPrefixAgrees(log')
  BY <1>1, <1>2, PrefixesCut
<1>6. \A i \in DOMAIN log' : log'[i].era <= restores'
  <2> SUFFICES ASSUME NEW i \in DOMAIN log' PROVE log'[i].era <= restores'
    OBVIOUS
  <2>1. i \in 1 .. n /\ i \in DOMAIN log /\ log'[i] = log[i]
    BY <1>1, <1>4
  <2>2. log[i].era \in Nat /\ log[i].era <= restores
    BY <1>1, <2>1, LineFields
  <2> QED BY <1>1, <1>3, <2>1, <2>2
<1>7. ASSUME NEW j \in Instances
      PROVE  cache'[j] \in Cache /\ CacheAgrees(cache'[j], log', restores')
  <2>1. CASE replaced
    <3>1. cache'[j] = NoCache
      BY <1>2, <2>1
    <3> QED BY <3>1, NoCacheAgrees DEF CacheAgrees
  <2>2. CASE ~replaced
    <3>1. CacheAgrees(cache[j], SubSeq(log, 1, n), restores + 1)
      BY <1>1, CacheAgreesCut
    <3> QED BY <1>2, <1>3, <2>2, <3>1 DEF CacheAgrees
  <2> QED BY <2>1, <2>2
<1>8. cache' \in [Instances -> Cache]
  <2>1. cache' = [j \in Instances |-> cache'[j]]
    BY <1>1, <1>2
  <2> QED BY <1>7, <2>1
<1>9. ~Open'
  BY <1>3 DEF Open
<1>10. /\ tail' \in Line \union {Clean, Torn} /\ (Open' => OpenIsValid') /\ spoiled' \in BOOLEAN
       /\ tears' \in Nat /\ restores' \in Nat
  <2>1. restores' \in Nat /\ tears' \in Nat
    BY <1>1, <1>3
  <2>2. tail' \in Line \union {Clean, Torn} /\ spoiled' \in BOOLEAN
    BY <1>3
  <2> QED BY <1>9, <2>1, <2>2
<1> QED BY <1>2, <1>3, <1>4, <1>5, <1>6, <1>7, <1>8, <1>10 DEF DelayInv

(* The empty ledger has it. *)
LEMMA InitDelayInv == Init => DelayInv
<1> SUFFICES ASSUME Init PROVE DelayInv
  OBVIOUS
<1>1. /\ log = <<>> /\ view = EmptyView /\ tail = Clean /\ spoiled = FALSE /\ rejected = 0
      /\ cache = [i \in Instances |-> NoCache] /\ tears = 0 /\ restores = 0
  BY DEF Init
<1>2. EveryPrefixAgrees(log) /\ log \in Seq(Line)
  <2>1. log \in Seq(Line) /\ Len(log) = 0
    BY <1>1
  <2>2. \A n \in 0 .. Len(log) : SubSeq(log, 1, n) = <<>>
    BY <1>1, <2>1
  <2> QED BY <2>1, <2>2, EmptyAgrees, ReplayEmpty DEF EveryPrefixAgrees
<1>3. view = Replay(EmptyView, log)
  BY <1>1, ReplayEmpty
<1>4. \A i \in Instances : cache[i] \in Cache /\ CacheAgrees(cache[i], log, restores)
  BY <1>1, NoCacheAgrees DEF CacheAgrees
<1>5. cache \in [Instances -> Cache]
  BY <1>1, <1>4
<1>6. /\ tail \in Line \union {Clean, Torn} /\ (Open => OpenIsValid) /\ spoiled \in BOOLEAN
      /\ rejected = 0 /\ tears \in Nat /\ restores \in Nat
  BY <1>1 DEF Open
<1>7. \A n \in DOMAIN log : log[n].era <= restores
  BY <1>1
<1> QED BY <1>2, <1>3, <1>4, <1>5, <1>6, <1>7 DEF DelayInv

(* Every step keeps it. *)
LEMMA NextDelayInv == DelayInv /\ [Next]_vars => DelayInv'
<1> SUFFICES ASSUME DelayInv, [Next]_vars PROVE DelayInv'
  OBVIOUS
<1>1. CASE UNCHANGED vars
  <2>1. DelayInv
    OBVIOUS
  <2> QED BY <1>1 DEF vars, DelayInv, Open, OpenIsValid
<1>2. ASSUME NEW i \in Instances, DelayRunStart(i) PROVE DelayInv'
  <2>1. Folded(i) = View
    BY FoldedIsView
  <2>2. PICK run \in Runs, kind \in Kinds, s \in Subjects, parent \in Runs \union {0} :
          Write(i, View, [type |-> "delay_run_start", run |-> run, kind |-> kind,
                          subject |-> s, parent |-> parent])
    BY <1>2, <2>1 DEF DelayRunStart
  <2>3. [type |-> "delay_run_start", run |-> run, kind |-> kind, subject |-> s,
         parent |-> parent] \in Request
    BY DEF Request, Start
  <2> QED BY <2>2, <2>3, WriteStep
<1>3. ASSUME NEW i \in Instances, DelayRunFinish(i) PROVE DelayInv'
  <2>1. Folded(i) = View
    BY FoldedIsView
  <2>2. PICK run \in Runs, elapsed \in Elapsed, outcome \in Outcomes :
          Write(i, View, [type |-> "delay_run_finish", run |-> run, elapsed |-> elapsed,
                          outcome |-> outcome])
    BY <1>3, <2>1 DEF DelayRunFinish
  <2>3. [type |-> "delay_run_finish", run |-> run, elapsed |-> elapsed,
         outcome |-> outcome] \in Request
    BY DEF Request, Finish
  <2> QED BY <2>2, <2>3, WriteStep
<1>4. ASSUME NEW i \in Instances, DelayRecordRetrospective(i) PROVE DelayInv'
  <2>1. Folded(i) = View
    BY FoldedIsView
  <2>2. PICK c \in Chain, run \in Runs :
          Write(i, View, [type |-> "delay_retrospective", chain |-> c, run |-> run,
                          predecessor |-> 0])
    BY <1>4, <2>1 DEF DelayRecordRetrospective
  <2>3. [type |-> "delay_retrospective", chain |-> c, run |-> run, predecessor |-> 0] \in Request
    BY DEF Request, Evidence
  <2> QED BY <2>2, <2>3, WriteStep
<1>5. ASSUME NEW i \in Instances, DelayChainRecord(i) PROVE DelayInv'
  <2>1. Folded(i) = View
    BY FoldedIsView
  <2>2. PICK c \in Chain, p \in Chain, type \in ChainTypes \ {"delay_retrospective"} :
          Write(i, View, [type |-> type, chain |-> c, run |-> 0, predecessor |-> p])
    BY <1>5, <2>1 DEF DelayChainRecord
  <2>3. [type |-> type, chain |-> c, run |-> 0, predecessor |-> p] \in Request
    BY DEF Request, Evidence
  <2> QED BY <2>2, <2>3, WriteStep
<1> QED BY <1>1, <1>2, <1>3, <1>4, <1>5, ConsultStep, RestoreStep DEF Next

(* It always holds. *)
LEMMA DelayInvariant == Spec => []DelayInv
  BY InitDelayInv, NextDelayInv, PTL DEF Spec

-----------------------------------------------------------------------------
(* Types of the variables, with an invariant of the fold. *)
THEOREM TypesAlwaysFit == Spec => []TypeOK
<1>1. DelayInv => TypeOK
  <2> SUFFICES ASSUME DelayInv PROVE TypeOK
    OBVIOUS
  <2>1. view \in Views
    BY LogAgrees DEF Agrees
  <2> QED BY <2>1 DEF DelayInv, TypeOK
<1> QED BY <1>1, DelayInvariant, PTL

(* A process that trusts what it folded works with what the file says, for  *)
(* any number of processes, torn lines and older copies that are put back.  *)
THEOREM CachesAlwaysAgree == Spec => []CachesAgree
<1>1. DelayInv => CachesAgree
  <2> SUFFICES ASSUME DelayInv, NEW i \in Instances, Matches(i)
               PROVE  cache[i].view = Replay(EmptyView, SubSeq(log, 1, cache[i].upto))
    BY DEF CachesAgree
  <2>1. CacheAgrees(cache[i], log, restores) /\ log \in Seq(Line)
    BY DEF DelayInv
  <2>2. CASE cache[i].upto = 0
    <3>1. cache[i].view = EmptyView
      BY <2>1, <2>2 DEF CacheAgrees
    <3>2. SubSeq(log, 1, 0) = <<>>
      BY <2>1
    <3> QED BY <2>2, <3>1, <3>2, ReplayEmpty
  <2>3. CASE cache[i].upto # 0
    <3>1. cache[i].upto <= Len(log) /\ log[cache[i].upto].era = cache[i].tail
      BY <2>3 DEF Matches
    <3>2. cache[i].upto \in Nat
      BY <2>1, CacheFields DEF CacheAgrees
    <3>3. ~(cache[i].upto > Len(log))
      BY <2>1, <3>1, <3>2
    <3> QED BY <2>1, <2>3, <3>1, <3>3 DEF CacheAgrees
  <2> QED BY <2>2, <2>3
<1> QED BY <1>1, DelayInvariant, PTL

(* Replay accepts every line that a writer accepted: the ledger never closes *)
(* on what its own calls wrote.                                              *)
THEOREM WritersAlwaysReplayCleanly == Spec => []WritersReplayCleanly
<1>1. DelayInv => WritersReplayCleanly
  BY DEF DelayInv, WritersReplayCleanly
<1> QED BY <1>1, DelayInvariant, PTL

(* A run is finished once, and after everything that was started under it.  *)
THEOREM TreesAlwaysCloseInwards == Spec => []TreesCloseInwards
<1>1. DelayInv => TreesCloseInwards
  <2> SUFFICES ASSUME DelayInv, NEW n \in DOMAIN log, NEW r \in Runs, FinishOf(n, r),
                      NEW m \in DOMAIN log
               PROVE  /\ FinishOf(m, r) => m = n
                      /\ log[m].req.type = "delay_run_start" /\ log[m].req.parent = r =>
                           \E o \in m + 1 .. n - 1 : FinishOf(o, log[m].req.run)
    BY DEF TreesCloseInwards
  <2>1. /\ log \in Seq(Line) /\ StartsAreRecorded(log, view) /\ EndsAreRecorded(log, view)
        /\ ClosesInwards(view) /\ StartsComeFirst(log)
    BY LogAgrees DEF Agrees
  <2>2. EndsRun(log[n], r) /\ \A k : FinishOf(k, r) => EndsRun(log[k], r)
    BY DEF FinishOf, EndsRun
  <2>3. Finished(view, r) /\ view.runs[r].finished = n
    BY <2>1, <2>2 DEF EndsAreRecorded
  <2>4. FinishOf(m, r) => m = n
    BY <2>1, <2>2, <2>3 DEF EndsAreRecorded
  <2>5. ASSUME log[m].req.type = "delay_run_start", log[m].req.parent = r
        PROVE  \E o \in m + 1 .. n - 1 : FinishOf(o, log[m].req.run)
    <3> DEFINE c == log[m].req.run
    <3>1. c \in Runs
      <4>1. log[m] \in Line
        BY <2>1
      <4>2. log[m].req \in Start
        BY <2>5, <4>1, LineFields, RequestsByType
      <4> QED BY <4>2 DEF Start
    <3>2. StartsRun(log[m], c)
      BY <2>5 DEF StartsRun
    <3> HIDE DEF c
    <3>3. Started(view, c) /\ view.runs[c].parent = r
      BY <2>1, <2>5, <3>1, <3>2 DEF StartsAreRecorded
    <3>4. Finished(view, c) /\ view.runs[c].finished < n
      BY <2>1, <2>3, <3>1, <3>3 DEF ClosesInwards
    <3> DEFINE o == view.runs[c].finished
    <3>5. o \in DOMAIN log /\ EndsRun(log[o], c)
      BY <2>1, <3>1, <3>4 DEF EndsAreRecorded
    <3>6. m < o
      BY <2>1, <3>1, <3>2, <3>5 DEF StartsComeFirst
    <3>7. o < n
      BY <3>4
    <3> HIDE DEF o
    <3>8. o \in m + 1 .. n - 1 /\ FinishOf(o, c)
      BY <2>1, <3>5, <3>6, <3>7 DEF FinishOf, EndsRun
    <3> QED BY <3>8 DEF c
  <2> QED BY <2>4, <2>5
<1> QED BY <1>1, DelayInvariant, PTL

(* Whatever is recorded of a delay goes back to a run that took longer than *)
(* the threshold of its own time, however many runs ended since.            *)
THEOREM EvidenceAlwaysRestsOnAnomalies == Spec => []EvidenceRestsOnAnomalies
<1>1. DelayInv => EvidenceRestsOnAnomalies
  <2> SUFFICES ASSUME DelayInv, NEW n \in DOMAIN log, log[n].req.type \in ChainTypes
               PROVE  IF log[n].req.type = "delay_retrospective"
                      THEN AnomalyBefore(n, log[n].req.run)
                      ELSE \E m \in 1 .. n - 1 :
                             ChainOf(m, log[n].req.predecessor, PredecessorType(log[n].req.type))
    BY DEF EvidenceRestsOnAnomalies, PredecessorType
  <2>1. Rests(log, n)
    BY LogAgrees DEF Agrees, AllRest
  <2>2. CASE log[n].req.type = "delay_retrospective"
    BY <2>1, <2>2 DEF Rests, RestsOnAnomaly, AnomalyBefore, FinishOf, EndsRun
  <2>3. CASE log[n].req.type # "delay_retrospective"
    BY <2>1, <2>3 DEF Rests, RestsOnChain, ChainOf
  <2> QED BY <2>2, <2>3
<1> QED BY <1>1, DelayInvariant, PTL

(* All of it at once, as the run of the ledgers checks it. *)
THEOREM DelaysAreAlwaysExplained == Spec => []DelaysAreExplained
<1>1. TypeOK /\ CachesAgree /\ TreesCloseInwards /\ EvidenceRestsOnAnomalies => DelaysAreExplained
  BY DEF DelaysAreExplained
<1> QED BY <1>1, TypesAlwaysFit, CachesAlwaysAgree, TreesAlwaysCloseInwards,
           EvidenceAlwaysRestsOnAnomalies, PTL

-----------------------------------------------------------------------------
(* A turn in the queue, and the threads that may write one *)
Job == [number : Nat, phases : SUBSET Phases, outcome : Outcomes]
Worker == [st : {"none", "ready", "unstarted", "writing"}, job : Job \union {None}, step : Nat,
           run : Runs \union {0}, phase : Runs \union {0}]

(* Numbers say the order in which the turns of a provider ended. *)
QueueIsInOrder(p) ==
  /\ \A j \in DOMAIN queue[p] : queue[p][j].number = ended[p] - Len(queue[p]) + j
  /\ worker[p].st = "writing" =>
       /\ worker[p].job \in Job /\ worker[p].step \in 1 .. Steps(worker[p].job)
       /\ worker[p].job.number \in Nat /\ worker[p].job.number = ended[p] - Len(queue[p])
  /\ idle[p] => queue[p] = <<>> /\ worker[p].st = "none"

MemoryInv ==
  /\ turns \in [Instances -> [Turns -> SUBSET Phases]] /\ ended \in [Instances -> Nat]
  /\ queue \in [Instances -> Seq(Job)] /\ idle \in [Instances -> BOOLEAN]
  /\ worker \in [Instances -> Worker]
  /\ taskOf \in [Runs -> (Instances \X Nat) \union {None}]
  /\ \A p \in Instances : QueueIsInOrder(p)

(* Runs are numbered as they start. *)
RunsAreNumbered(v) == \E k \in 0 .. MaxRuns : {r \in Runs : Started(v, r)} = 1 .. k

(* Where the thread w of the provider p is in the tree it writes: the task is *)
(* open, and the phase it started last is the only open one, or there is none.*)
IsAt(p, w, v, of) ==
  w.st = "writing" /\ w.step > 1 =>
    /\ w.run \in Runs /\ Started(v, w.run) /\ ~Finished(v, w.run)
    /\ v.runs[w.run].kind = "task" /\ of[w.run] = <<p, w.job.number>>
    /\ IF w.step % 2 = 0 THEN OpenChildren(v, w.run) = {}
       ELSE /\ w.phase \in Runs /\ Started(v, w.phase) /\ ~Finished(v, w.phase)
            /\ v.runs[w.phase].kind = "phase" /\ v.runs[w.phase].parent = w.run
            /\ OpenChildren(v, w.run) = {w.phase} /\ OpenChildren(v, w.phase) = {}

DoneIn(v, of, p, n) == \E r \in Runs : of[r] = <<p, n>> /\ Finished(v, r)

TurnsAreWritten ==
  /\ RunsAreNumbered(view) /\ RunsAreNumbered(View)
  /\ \A p \in Instances : IsAt(p, worker[p], view, taskOf) /\ IsAt(p, worker[p], View, taskOf)
  /\ \A p \in Instances : \A n \in 1 .. ended[p] :
       n \in Queued(p) \union Current(p) \/ <<p, n>> \in lost \/ DoneIn(view, taskOf, p, n)
  /\ \A p \in Instances : \A r \in Runs : taskOf[r] # None /\ taskOf[r][1] = p =>
       \A n \in 1 .. taskOf[r][2] - 1 : <<p, n>> \in lost \/ DoneIn(view, taskOf, p, n)

HermesInv == MemoryInv /\ (~spoiled => TurnsAreWritten)

-----------------------------------------------------------------------------
(* The steps of a thread *)

(* Phases are put in some order, each once. *)
LEMMA PhasesInOrder ==
  ASSUME NEW S, IsFiniteSet(S)
  PROVE  /\ Cardinality(S) \in Nat
         /\ \A i \in 1 .. Cardinality(S) : InOrder(S)[i] \in S
<1> DEFINE k == Cardinality(S)
<1>1. k \in Nat /\ ExistsBijection(1 .. k, S)
  BY FS_CardinalityType
<1>2. PICK f : f \in Bijection(1 .. k, S)
  BY <1>1 DEF ExistsBijection
<1>3. f \in [1 .. k -> S] /\ IsInjective(f)
  BY <1>2 DEF Bijection, Injection, IsInjective
<1>4. InOrder(S) = CHOOSE g \in [1 .. k -> S] : IsInjective(g)
  BY DEF InOrder, SetToSeq
<1> HIDE DEF k
<1>5. InOrder(S) \in [1 .. k -> S]
  BY <1>3, <1>4
<1> QED BY <1>1, <1>5 DEF k

(* Twice a step for every phase, between the first and the last *)
LEMMA StepsAreEven ==
  ASSUME NEW job \in Job
  PROVE  /\ Cardinality(job.phases) \in Nat /\ Steps(job) \in Nat
         /\ Steps(job) = 2 + 2 * Cardinality(job.phases)
         /\ \A i \in 1 .. Cardinality(job.phases) : InOrder(job.phases)[i] \in Subjects
<1>1. job.phases \subseteq Phases
  BY DEF Job
<1>2. IsFiniteSet(job.phases) /\ Phases \subseteq Subjects
  BY <1>1, HermesAssumption, FS_Subset
<1>3. Cardinality(job.phases) \in Nat
      /\ \A i \in 1 .. Cardinality(job.phases) : InOrder(job.phases)[i] \in job.phases
  BY <1>2, PhasesInOrder
<1> QED BY <1>1, <1>2, <1>3 DEF Steps

(* Even and odd steps take turns. *)
LEMMA Parity ==
  ASSUME NEW n \in Nat
  PROVE  /\ n % 2 = 0 \/ n % 2 = 1
         /\ n % 2 = 0 <=> (n + 1) % 2 = 1
         /\ \A m \in Nat : n = 2 + 2 * m => n % 2 = 0
         /\ n % 2 = 0 => n = 2 * (n \div 2) /\ n \div 2 \in Nat
  OBVIOUS

(* What a thread asks for at each of its steps *)
LEMMA CallOfStep ==
  ASSUME NEW v, NEW w \in Worker, w.job \in Job, w.step \in 1 .. Steps(w.job)
  PROVE  \/ /\ w.step = 1 /\ w.step # Steps(w.job) /\ (w.step + 1) % 2 = 0
            /\ CallsOf(v, w) = {StartRun(NewRun(v), "task", Cohort, 0)}
         \/ /\ w.step > 1 /\ w.step = Steps(w.job) /\ w.step % 2 = 0
            /\ CallsOf(v, w) = FinishRun(w.run, w.job)
         \/ /\ w.step > 1 /\ w.step # Steps(w.job) /\ w.step % 2 = 0 /\ (w.step + 1) % 2 # 0
            /\ InOrder(w.job.phases)[w.step \div 2] \in Subjects
            /\ CallsOf(v, w) = {StartRun(NewRun(v), "phase",
                                         InOrder(w.job.phases)[w.step \div 2], w.run)}
         \/ /\ w.step > 1 /\ w.step # Steps(w.job) /\ w.step % 2 # 0 /\ (w.step + 1) % 2 = 0
            /\ CallsOf(v, w) = FinishRun(w.phase, w.job)
<1> DEFINE k == Cardinality(w.job.phases)
           n == w.step
           last == Steps(w.job)
<1>1. /\ k \in Nat /\ last \in Nat /\ last = 2 + 2 * k
      /\ \A i \in 1 .. k : InOrder(w.job.phases)[i] \in Subjects
  BY StepsAreEven
<1>2. n \in 1 .. last /\ n \in Nat
  BY <1>1
<1>3. CallsOf(v, w) =
        CASE n = 1 -> {StartRun(NewRun(v), "task", Cohort, 0)}
          [] n = last -> FinishRun(w.run, w.job)
          [] n # last /\ n # 1 /\ n % 2 = 0 ->
               {StartRun(NewRun(v), "phase", InOrder(w.job.phases)[n \div 2], w.run)}
          [] OTHER -> FinishRun(w.phase, w.job)
  BY DEF CallsOf
<1> HIDE DEF k, n, last
<1>4. last % 2 = 0 /\ last > 1
  BY <1>1, Parity
<1>5. /\ n % 2 = 0 \/ n % 2 = 1
      /\ n % 2 = 0 => (n + 1) % 2 = 1
      /\ n % 2 = 1 => (n + 1) % 2 = 0
      /\ n % 2 = 0 => n = 2 * (n \div 2) /\ n \div 2 \in Nat
  <2>1. (n + 1) % 2 = 0 \/ (n + 1) % 2 = 1
    BY <1>2, Parity
  <2> QED BY <1>2, <2>1, Parity
<1>6. 1 % 2 = 1
  OBVIOUS
<1>7. CASE n = 1
  BY <1>3, <1>4, <1>5, <1>6, <1>7 DEF n, last
<1>8. CASE n # 1 /\ n = last
  BY <1>3, <1>4, <1>8 DEF n, last
<1>9. CASE n # 1 /\ n # last /\ n % 2 = 0
  <2>1. n > 1 /\ n \div 2 \in 1 .. k
    <3>1. n \div 2 \in Nat /\ n = 2 * (n \div 2) /\ n \in 1 .. (2 + 2 * k) /\ n # 2 + 2 * k
      BY <1>1, <1>2, <1>5, <1>9
    <3> QED BY <1>1, <1>2, <1>9, <3>1
  <2>2. InOrder(w.job.phases)[n \div 2] \in Subjects
    BY <1>1, <2>1
  <2>3. CallsOf(v, w) = {StartRun(NewRun(v), "phase", InOrder(w.job.phases)[n \div 2], w.run)}
    BY <1>3, <1>9
  <2>4. (n + 1) % 2 # 0
    BY <1>5, <1>9
  <2> QED BY <1>9, <2>1, <2>2, <2>3, <2>4 DEF n, last
<1>10. CASE n # 1 /\ n # last /\ n % 2 # 0
  <2>1. n > 1 /\ (n + 1) % 2 = 0
    BY <1>2, <1>5, <1>10
  <2>2. CallsOf(v, w) = FinishRun(w.phase, w.job)
    BY <1>3, <1>10
  <2> QED BY <1>10, <2>1, <2>2 DEF n, last
<1> QED BY <1>7, <1>8, <1>9, <1>10

(* Every call is a request of the ledger. *)
LEMMA StartIsARequest ==
  ASSUME NEW run \in Runs, NEW kind \in Kinds, NEW s \in Subjects, NEW parent \in Runs \union {0}
  PROVE  /\ StartRun(run, kind, s, parent) \in Request
         /\ StartRun(run, kind, s, parent).type = "delay_run_start"
         /\ StartRun(run, kind, s, parent).run = run
         /\ StartRun(run, kind, s, parent).kind = kind
         /\ StartRun(run, kind, s, parent).parent = parent
  BY DEF StartRun, Request, Start

(* So is every end, whatever the duration. *)
LEMMA FinishIsARequest ==
  ASSUME NEW run \in Runs, NEW job \in Job, NEW r \in FinishRun(run, job)
  PROVE  r \in Request /\ r.type = "delay_run_finish" /\ r.run = run
<1>1. PICK elapsed \in Elapsed :
        r = [type |-> "delay_run_finish", run |-> run, elapsed |-> elapsed,
             outcome |-> job.outcome]
  BY DEF FinishRun
<1>2. job.outcome \in Outcomes
  BY DEF Job
<1> QED BY <1>1, <1>2 DEF Request, Finish

-----------------------------------------------------------------------------
(* Numbers of runs *)

(* The next number is one that no run has. *)
LEMMA NextNumberIsNew ==
  ASSUME NEW v, RunsAreNumbered(v)
  PROVE  /\ NewRun(v) \in Nat
         /\ NewRun(v) \in Runs => ~Started(v, NewRun(v))
         /\ {r \in Runs : Started(v, r)} = 1 .. NewRun(v) - 1
<1>1. PICK k \in 0 .. MaxRuns : {r \in Runs : Started(v, r)} = 1 .. k
  BY DEF RunsAreNumbered
<1>2. k \in Nat
  BY <1>1, DelayAssumption
<1>3. Cardinality(1 .. k) = k
  BY <1>2, FS_Interval
<1>4. NewRun(v) = k + 1
  BY <1>1, <1>3 DEF NewRun
<1> QED BY <1>1, <1>2, <1>4

(* Runs stay numbered when the next one starts. *)
LEMMA NumberedAfterStart ==
  ASSUME NEW v, NEW u, RunsAreNumbered(v), OtherRunsStay(v, u, NewRun(v)),
         NewRun(v) \in Runs, Started(u, NewRun(v))
  PROVE  RunsAreNumbered(u)
<1> DEFINE x == NewRun(v)
<1>1. x \in Nat /\ x \in Runs /\ {r \in Runs : Started(v, r)} = 1 .. x - 1
  <2>1. NewRun(v) \in Nat /\ {r \in Runs : Started(v, r)} = 1 .. NewRun(v) - 1
    BY NextNumberIsNew
  <2>2. x \in Runs
    OBVIOUS
  <2>3. x \in Nat /\ {r \in Runs : Started(v, r)} = 1 .. x - 1
    BY <2>1, Zenon
  <2> QED BY <2>2, <2>3
<1>2. \A r \in Runs : r # x => (Started(u, r) <=> Started(v, r))
  BY DEF OtherRunsStay, Started
<1>3. Started(u, x)
  OBVIOUS
<1> HIDE DEF x
<1>4. x \in 1 .. MaxRuns /\ MaxRuns \in Nat
  BY <1>1, DelayAssumption DEF Runs
<1>5. {r \in Runs : Started(u, r)} = 1 .. x
  <2>1. ASSUME NEW r \in Runs PROVE Started(u, r) <=> r \in 1 .. x
    <3>1. r \in 1 .. MaxRuns
      BY DEF Runs
    <3>2. Started(v, r) <=> r \in 1 .. x - 1
      BY <1>1
    <3> QED BY <1>2, <1>3, <1>4, <3>1, <3>2
  <2>2. 1 .. x \subseteq Runs
    BY <1>4 DEF Runs
  <2> QED BY <2>1, <2>2
<1> QED BY <1>4, <1>5 DEF RunsAreNumbered

(* Runs stay numbered when one ends. *)
LEMMA NumberedAfterFinish ==
  ASSUME NEW v, NEW u, NEW x \in Runs, RunsAreNumbered(v), OtherRunsStay(v, u, x),
         Started(v, x), Started(u, x)
  PROVE  RunsAreNumbered(u)
<1>1. \A r \in Runs : Started(u, r) <=> Started(v, r)
  BY DEF OtherRunsStay, Started
<1>2. {r \in Runs : Started(u, r)} = {r \in Runs : Started(v, r)}
  BY <1>1
<1> QED BY <1>2 DEF RunsAreNumbered

-----------------------------------------------------------------------------
(* Where a thread is in its tree *)

(* A line about the run x leaves a thread where it is, if x is neither its  *)

(* task nor its phase, nor a new child of one of these.                     *)
LEMMA OthersStay ==
  ASSUME NEW p, NEW w, NEW v, NEW u, NEW of, NEW x, IsAt(p, w, v, of),
         OtherRunsStay(v, u, x),
         w.st = "writing" /\ w.step > 1 =>
           /\ x # w.run /\ (w.step % 2 # 0 => x # w.phase)
           /\ Started(u, x) /\ ~Finished(u, x) => u.runs[x].parent # w.run
           /\ Started(u, x) /\ ~Finished(u, x) /\ w.step % 2 # 0 => u.runs[x].parent # w.phase
  PROVE  IsAt(p, w, u, of)
<1> SUFFICES ASSUME w.st = "writing", w.step > 1
             PROVE  IsAt(p, w, u, of)
  BY DEF IsAt
<1>1. \A c \in Runs : c # x => u.runs[c] = v.runs[c]
  BY DEF OtherRunsStay
<1>2. \A c \in Runs : c # x => (Started(u, c) <=> Started(v, c)) /\ (Finished(u, c) <=> Finished(v, c))
  BY <1>1 DEF Started, Finished
<1>3. /\ w.run \in Runs /\ Started(v, w.run) /\ ~Finished(v, w.run)
      /\ v.runs[w.run].kind = "task" /\ of[w.run] = <<p, w.job.number>>
      /\ IF w.step % 2 = 0 THEN OpenChildren(v, w.run) = {}
         ELSE /\ w.phase \in Runs /\ Started(v, w.phase) /\ ~Finished(v, w.phase)
              /\ v.runs[w.phase].kind = "phase" /\ v.runs[w.phase].parent = w.run
              /\ OpenChildren(v, w.run) = {w.phase} /\ OpenChildren(v, w.phase) = {}
  BY DEF IsAt
<1>4. ASSUME NEW r, x \notin OpenChildren(v, r),
             Started(u, x) /\ ~Finished(u, x) => u.runs[x].parent # r
      PROVE  OpenChildren(u, r) = OpenChildren(v, r)
  <2>1. \A c \in Runs : c \in OpenChildren(u, r) <=> c \in OpenChildren(v, r)
    <3> SUFFICES ASSUME NEW c \in Runs PROVE c \in OpenChildren(u, r) <=> c \in OpenChildren(v, r)
      OBVIOUS
    <3>1. CASE c = x
      BY <1>4, <3>1 DEF OpenChildren
    <3>2. CASE c # x
      BY <1>1, <1>2, <3>2 DEF OpenChildren
    <3> QED BY <3>1, <3>2
  <2>2. OpenChildren(u, r) \subseteq Runs /\ OpenChildren(v, r) \subseteq Runs
    BY DEF OpenChildren
  <2> QED BY <2>1, <2>2
<1>5. CASE w.step % 2 = 0
  <2>1. OpenChildren(u, w.run) = {}
    BY <1>3, <1>4, <1>5
  <2> QED BY <1>1, <1>2, <1>3, <1>5, <2>1 DEF IsAt
<1>6. CASE w.step % 2 # 0
  <2>1. OpenChildren(u, w.run) = {w.phase} /\ OpenChildren(u, w.phase) = {}
    BY <1>3, <1>4, <1>6
  <2> QED BY <1>1, <1>2, <1>3, <1>6, <2>1 DEF IsAt
<1> QED BY <1>5, <1>6

(* What a call does to the runs: one is new, or one ends. *)
StartedAs(v, u, x, kind, parent) ==
  /\ x \in Runs /\ ~Started(v, x) /\ OtherRunsStay(v, u, x)
  /\ Started(u, x) /\ ~Finished(u, x) /\ u.runs[x].kind = kind /\ u.runs[x].parent = parent
EndedNow(v, u, x) ==
  /\ x \in Runs /\ Started(v, x) /\ ~Finished(v, x) /\ OtherRunsStay(v, u, x)
  /\ Started(u, x) /\ Finished(u, x)

(* A call of the thread w, at each of its steps *)
BeginsTask(w, v, u, r) ==
  /\ w.step = 1 /\ (w.step + 1) % 2 = 0 /\ r.type = "delay_run_start"
  /\ r.run = NewRun(v) /\ StartedAs(v, u, r.run, "task", 0)
BeginsPhase(w, v, u, r) ==
  /\ w.step > 1 /\ w.step % 2 = 0 /\ (w.step + 1) % 2 # 0 /\ r.type = "delay_run_start"
  /\ r.run = NewRun(v) /\ StartedAs(v, u, r.run, "phase", w.run) /\ w.run \in Runs
EndsPhase(w, v, u, r) ==
  /\ w.step > 1 /\ w.step % 2 # 0 /\ (w.step + 1) % 2 = 0 /\ r.type = "delay_run_finish"
  /\ r.run = w.phase /\ EndedNow(v, u, r.run)
EndsTask(w, v, u, r) ==
  /\ w.step > 1 /\ w.step % 2 = 0 /\ r.type = "delay_run_finish"
  /\ r.run = w.run /\ EndedNow(v, u, r.run)
Moves(w, v, u, r) ==
  IF w.step = Steps(w.job) THEN EndsTask(w, v, u, r)
  ELSE BeginsTask(w, v, u, r) \/ BeginsPhase(w, v, u, r) \/ EndsPhase(w, v, u, r)

Writing(w) == /\ w \in Worker /\ w.job \in Job /\ w.step \in 1 .. Steps(w.job)
              /\ w.st = "writing"

(* The line of a start that may be written *)
LEMMA StartMoves ==
  ASSUME NEW v \in Views, NEW e \in Line, NEW x \in Runs, NEW kind \in Kinds,
         NEW s \in Subjects, NEW parent \in Runs \union {0},
         e.req = StartRun(x, kind, s, parent), ~Started(v, x)
  PROVE  StartedAs(v, Feed(v, e), x, kind, parent)
<1>1. /\ e.req.type = "delay_run_start" /\ e.req.run = x /\ e.req.kind = kind
      /\ e.req.parent = parent
  BY StartIsARequest
<1>2. StartFed(v, Feed(v, e), e.req)
  BY <1>1, FeedStart
<1> QED BY <1>1, <1>2 DEF StartFed, StartedAs

(* The line of a finish that may be written *)
LEMMA FinishMoves ==
  ASSUME NEW v \in Views, NEW e \in Line, e.req.type = "delay_run_finish", e.seq # 0,
         Prepared(v, e.req)
  PROVE  EndedNow(v, Feed(v, e), e.req.run)
<1>1. Started(v, e.req.run) /\ ~Finished(v, e.req.run)
  BY DEF Prepared
<1>2. FinishFed(v, Feed(v, e), e)
  BY <1>1, FeedFinish
<1> QED BY <1>1, <1>2 DEF FinishFed, EndedNow, Finished

(* Every call of the thread moves it one step through its tree. *)
LEMMA CallMoves ==
  ASSUME NEW p, NEW w, Writing(w), NEW v \in Views, NEW of, IsAt(p, w, v, of),
         RunsAreNumbered(v), NEW r \in CallsOf(v, w), Prepared(v, r),
         NewRun(v) \in Runs \/ r.type = "delay_run_finish",
         NEW e \in Line, e.req = r, e.seq # 0
  PROVE  Moves(w, v, Feed(v, e), r)
<1> DEFINE u == Feed(v, e)
           x == NewRun(v)
<1>1. x \in Nat /\ (x \in Runs => ~Started(v, x))
  BY NextNumberIsNew
<1>2. w \in Worker /\ w.job \in Job /\ w.step \in 1 .. Steps(w.job) /\ w.st = "writing"
  BY DEF Writing
<1>3. w.step > 1 => w.run \in Runs /\ (w.step % 2 # 0 => w.phase \in Runs)
  BY <1>2 DEF IsAt
<1>4. "task" \in Kinds /\ "phase" \in Kinds /\ Cohort \in Subjects
  BY HermesAssumption DEF Kinds
<1>5. /\ w.step = 1 /\ w.step # Steps(w.job) => (w.step + 1) % 2 = 0
  BY <1>2, CallOfStep
<1>6. CASE w.step = 1 /\ w.step # Steps(w.job)
  <2>1. r = StartRun(x, "task", Cohort, 0)
    BY <1>2, <1>6, CallOfStep
  <2>2. r.type = "delay_run_start"
    BY <2>1 DEF StartRun
  <2>3. x \in Runs
    BY <2>2
  <2>4. StartedAs(v, u, x, "task", 0)
    BY <1>1, <1>4, <2>1, <2>3, StartMoves
  <2>5. r.run = x
    BY <2>1 DEF StartRun
  <2> QED BY <1>5, <1>6, <2>2, <2>4, <2>5 DEF Moves, BeginsTask
<1>7. CASE w.step > 1 /\ w.step = Steps(w.job)
  <2>1. w.step % 2 = 0 /\ r \in FinishRun(w.run, w.job)
    BY <1>2, <1>7, CallOfStep
  <2>2. r.type = "delay_run_finish" /\ r.run = w.run
    BY <1>2, <1>3, <1>7, <2>1, FinishIsARequest
  <2>3. EndedNow(v, u, r.run)
    BY <2>2, FinishMoves
  <2> QED BY <1>7, <2>1, <2>2, <2>3 DEF Moves, EndsTask
<1>8. CASE w.step > 1 /\ w.step # Steps(w.job) /\ w.step % 2 = 0
  <2> DEFINE s == InOrder(w.job.phases)[w.step \div 2]
  <2>1. (w.step + 1) % 2 # 0 /\ s \in Subjects /\ r = StartRun(x, "phase", s, w.run)
    BY <1>2, <1>8, CallOfStep
  <2> HIDE DEF s
  <2>2. r.type = "delay_run_start" /\ r.run = x
    BY <2>1 DEF StartRun
  <2>3. x \in Runs /\ w.run \in Runs
    BY <1>3, <1>8, <2>2
  <2>4. StartedAs(v, u, x, "phase", w.run)
    BY <1>1, <1>4, <2>1, <2>3, StartMoves
  <2> QED BY <1>8, <2>1, <2>2, <2>3, <2>4 DEF Moves, BeginsPhase
<1>9. CASE w.step > 1 /\ w.step # Steps(w.job) /\ w.step % 2 # 0
  <2>1. (w.step + 1) % 2 = 0 /\ r \in FinishRun(w.phase, w.job)
    BY <1>2, <1>9, CallOfStep
  <2>2. r.type = "delay_run_finish" /\ r.run = w.phase
    BY <1>2, <1>3, <1>9, <2>1, FinishIsARequest
  <2>3. EndedNow(v, u, r.run)
    BY <2>2, FinishMoves
  <2> QED BY <1>9, <2>1, <2>2, <2>3 DEF Moves, EndsPhase
<1>10. (w.step = 1 /\ w.step # Steps(w.job)) \/ w.step > 1
  BY <1>2, CallOfStep
<1> QED BY <1>6, <1>7, <1>8, <1>9, <1>10

(* What is open under a run, after a call *)
LEMMA OpenAfterStart ==
  ASSUME NEW v, NEW u, NEW x, NEW kind, NEW parent, StartedAs(v, u, x, kind, parent),
         ClosesInwards(v), parent # 0 => Started(v, parent)
  PROVE  /\ OpenChildren(u, x) = {}
         /\ OpenChildren(u, parent) = OpenChildren(v, parent) \union {x}
<1>1. /\ x \in Runs /\ ~Started(v, x) /\ x # 0 /\ x # parent
      /\ \A c \in Runs : c # x => u.runs[c] = v.runs[c]
      /\ Started(u, x) /\ ~Finished(u, x) /\ u.runs[x].parent = parent
  BY DelayAssumption DEF StartedAs, OtherRunsStay, Runs
<1>2. \A c \in Runs : c # x => (Started(u, c) <=> Started(v, c)) /\ (Finished(u, c) <=> Finished(v, c))
  BY <1>1 DEF Started, Finished
<1>3. \A c \in Runs : ~(Started(v, c) /\ v.runs[c].parent = x)
  BY <1>1 DEF ClosesInwards
<1>4. \A c \in Runs : c \notin OpenChildren(u, x)
  BY <1>1, <1>2, <1>3 DEF OpenChildren
<1>5. OpenChildren(u, x) = {}
  BY <1>4 DEF OpenChildren
<1>6. \A c \in Runs : c \in OpenChildren(u, parent) <=> c \in OpenChildren(v, parent) \/ c = x
  <2> SUFFICES ASSUME NEW c \in Runs
               PROVE  c \in OpenChildren(u, parent) <=> c \in OpenChildren(v, parent) \/ c = x
    OBVIOUS
  <2>1. CASE c = x
    BY <1>1, <2>1 DEF OpenChildren
  <2>2. CASE c # x
    BY <1>1, <1>2, <2>2 DEF OpenChildren
  <2> QED BY <2>1, <2>2
<1>7. OpenChildren(u, parent) \subseteq Runs /\ OpenChildren(v, parent) \subseteq Runs
  BY DEF OpenChildren
<1>8. OpenChildren(u, parent) = OpenChildren(v, parent) \union {x}
  BY <1>1, <1>6, <1>7
<1> QED BY <1>5, <1>8

(* A run that ends is open under no run. *)
LEMMA OpenAfterEnd ==
  ASSUME NEW v, NEW u, NEW x, EndedNow(v, u, x), NEW r
  PROVE  OpenChildren(u, r) = OpenChildren(v, r) \ {x}
<1>1. /\ x \in Runs /\ Finished(u, x)
      /\ \A c \in Runs : c # x => u.runs[c] = v.runs[c]
  BY DEF EndedNow, OtherRunsStay
<1>2. \A c \in Runs : c # x => (Started(u, c) <=> Started(v, c)) /\ (Finished(u, c) <=> Finished(v, c))
  BY <1>1 DEF Started, Finished
<1>3. \A c \in Runs : c \in OpenChildren(u, r) <=> c \in OpenChildren(v, r) /\ c # x
  <2> SUFFICES ASSUME NEW c \in Runs
               PROVE  c \in OpenChildren(u, r) <=> c \in OpenChildren(v, r) /\ c # x
    OBVIOUS
  <2>1. CASE c = x
    BY <1>1, <2>1 DEF OpenChildren
  <2>2. CASE c # x
    BY <1>1, <1>2, <2>2 DEF OpenChildren
  <2> QED BY <2>1, <2>2
<1>4. OpenChildren(u, r) \subseteq Runs /\ OpenChildren(v, r) \subseteq Runs
  BY DEF OpenChildren
<1> QED BY <1>3, <1>4

-----------------------------------------------------------------------------
(* The thread whose call it is *)

(* The turn that a task is of, after its first call *)
Marks(p, w, r, of, of2) ==
  IF w.step = 1 THEN of2[r.run] = <<p, w.job.number>> ELSE of2 = of

(* What the thread knows after a call that was answered, but for the last *)
LEMMA AdvancedFields ==
  ASSUME NEW w, Writing(w), NEW r, w.step # Steps(w.job)
  PROVE  /\ Advanced(w, r).st = "writing" /\ Advanced(w, r).job = w.job
         /\ Advanced(w, r).step = w.step + 1
         /\ Advanced(w, r).run = IF w.step = 1 THEN r.run ELSE w.run
         /\ Advanced(w, r).phase = IF r.type = "delay_run_start" THEN r.run ELSE w.phase
<1>1. w = [st |-> w.st, job |-> w.job, step |-> w.step, run |-> w.run, phase |-> w.phase]
  BY DEF Writing, Worker
<1> DEFINE run == IF w.step = 1 THEN r.run ELSE w.run
           phase == IF r.type = "delay_run_start" THEN r.run ELSE w.phase
<1>2. Advanced(w, r) = [st |-> w.st, job |-> w.job, step |-> w.step + 1, run |-> run,
                        phase |-> phase]
  BY <1>1 DEF Advanced
<1>3. w.st = "writing"
  BY DEF Writing
<1> HIDE DEF run, phase
<1>4. /\ Advanced(w, r).st = w.st /\ Advanced(w, r).job = w.job
      /\ Advanced(w, r).step = w.step + 1
      /\ Advanced(w, r).run = run /\ Advanced(w, r).phase = phase
  BY <1>2
<1> QED BY <1>3, <1>4 DEF run, phase

(* What was where the thread is, before its call *)
LEMMA IsAtFields ==
  ASSUME NEW p, NEW w, w.st = "writing", w.step > 1, NEW v, NEW of, IsAt(p, w, v, of)
  PROVE  /\ w.run \in Runs /\ Started(v, w.run) /\ ~Finished(v, w.run)
         /\ v.runs[w.run].kind = "task" /\ of[w.run] = <<p, w.job.number>>
         /\ w.step % 2 = 0 => OpenChildren(v, w.run) = {}
         /\ w.step % 2 # 0 =>
              /\ w.phase \in Runs /\ Started(v, w.phase) /\ ~Finished(v, w.phase)
              /\ v.runs[w.phase].kind = "phase" /\ v.runs[w.phase].parent = w.run
              /\ OpenChildren(v, w.run) = {w.phase} /\ OpenChildren(v, w.phase) = {}
  BY DEF IsAt

(* A call that was answered brings the thread where it believes it is. *)
LEMMA Advances ==
  ASSUME NEW p, NEW w, Writing(w), NEW v, NEW of, NEW of2, IsAt(p, w, v, of),
         ClosesInwards(v), NEW u, NEW r, w.step # Steps(w.job), Moves(w, v, u, r),
         Marks(p, w, r, of, of2)
  PROVE  IsAt(p, Advanced(w, r), u, of2)
<1> DEFINE z == Advanced(w, r)
<1>1. w.step \in Nat /\ w.st = "writing"
  BY DEF Writing, Worker
<1>2. /\ z.st = "writing" /\ z.job = w.job /\ z.step = w.step + 1
      /\ z.run = IF w.step = 1 THEN r.run ELSE w.run
      /\ z.phase = IF r.type = "delay_run_start" THEN r.run ELSE w.phase
  BY AdvancedFields
<1> HIDE DEF z
<1>3. CASE BeginsTask(w, v, u, r)
  <2>1. w.step = 1 /\ z.run = r.run /\ (w.step + 1) % 2 = 0
        /\ StartedAs(v, u, r.run, "task", 0)
    BY <1>2, <1>3 DEF BeginsTask
  <2>2. OpenChildren(u, r.run) = {}
    BY <2>1, OpenAfterStart
  <2>3. of2[r.run] = <<p, w.job.number>>
    BY <2>1 DEF Marks
  <2>4. /\ r.run \in Runs /\ Started(u, r.run) /\ ~Finished(u, r.run)
        /\ u.runs[r.run].kind = "task"
    BY <2>1 DEF StartedAs
  <2>5. z.step % 2 = 0
    BY <1>2, <2>1
  <2>6. IsAt(p, z, u, of2)
    BY <1>2, <2>1, <2>2, <2>3, <2>4, <2>5 DEF IsAt
  <2> QED BY <2>6 DEF z
<1>4. CASE BeginsPhase(w, v, u, r)
  <2>1. /\ w.step > 1 /\ w.step % 2 = 0 /\ z.run = w.run /\ z.phase = r.run
        /\ z.step % 2 # 0 /\ w.run \in Runs /\ StartedAs(v, u, r.run, "phase", w.run)
        /\ of2 = of
    BY <1>1, <1>2, <1>4 DEF BeginsPhase, Marks
  <2>2. /\ w.run \in Runs /\ Started(v, w.run) /\ ~Finished(v, w.run)
        /\ v.runs[w.run].kind = "task" /\ of[w.run] = <<p, w.job.number>>
        /\ OpenChildren(v, w.run) = {}
    <3>1. w.st = "writing" /\ w.step > 1 /\ w.step % 2 = 0
      BY <1>1, <2>1
    <3> QED BY <3>1 DEF IsAt
  <2>3. OpenChildren(u, r.run) = {} /\ OpenChildren(u, w.run) = {} \union {r.run}
    BY <2>1, <2>2, OpenAfterStart
  <2>4. /\ r.run \in Runs /\ Started(u, r.run) /\ ~Finished(u, r.run)
        /\ u.runs[r.run].kind = "phase" /\ u.runs[r.run].parent = w.run
        /\ r.run # w.run /\ u.runs[w.run] = v.runs[w.run]
    BY <2>1, <2>2 DEF StartedAs, OtherRunsStay
  <2>5. Started(u, w.run) /\ ~Finished(u, w.run) /\ u.runs[w.run].kind = "task"
    BY <2>2, <2>4 DEF Started, Finished
  <2>6. z.run = w.run /\ z.phase = r.run /\ OpenChildren(u, w.run) = {r.run}
    BY <2>1, <2>3
  <2>7. IsAt(p, z, u, of2)
    BY <1>2, <2>1, <2>2, <2>3, <2>4, <2>5, <2>6 DEF IsAt
  <2> QED BY <2>7 DEF z
<1>5. CASE EndsPhase(w, v, u, r)
  <2>1. /\ w.step > 1 /\ w.step % 2 # 0 /\ z.run = w.run /\ r.run = w.phase
        /\ z.step % 2 = 0 /\ EndedNow(v, u, w.phase) /\ of2 = of
    BY <1>1, <1>2, <1>5 DEF EndsPhase, Marks
  <2>2. /\ w.run \in Runs /\ Started(v, w.run) /\ ~Finished(v, w.run)
        /\ v.runs[w.run].kind = "task" /\ of[w.run] = <<p, w.job.number>>
        /\ v.runs[w.phase].kind = "phase" /\ OpenChildren(v, w.run) = {w.phase}
    <3>1. /\ w.run \in Runs /\ Started(v, w.run) /\ ~Finished(v, w.run)
          /\ v.runs[w.run].kind = "task" /\ of[w.run] = <<p, w.job.number>>
          /\ w.step % 2 # 0 => v.runs[w.phase].kind = "phase" /\ OpenChildren(v, w.run) = {w.phase}
      BY <1>1, <2>1 DEF IsAt
    <3> QED BY <2>1, <3>1
  <2>3. OpenChildren(u, w.run) = OpenChildren(v, w.run) \ {w.phase}
    BY <2>1, OpenAfterEnd
  <2>4. w.run # w.phase
    BY <2>2
  <2>5. u.runs[w.run] = v.runs[w.run]
    BY <2>1, <2>2, <2>4 DEF EndedNow, OtherRunsStay
  <2>6. Started(u, w.run) /\ ~Finished(u, w.run) /\ u.runs[w.run].kind = "task"
    BY <2>2, <2>5 DEF Started, Finished
  <2>7. OpenChildren(u, w.run) = {}
    BY <2>2, <2>3
  <2>8. IsAt(p, z, u, of2)
    BY <1>2, <2>1, <2>2, <2>6, <2>7 DEF IsAt
  <2> QED BY <2>8 DEF z
<1> QED BY <1>3, <1>4, <1>5 DEF Moves

-----------------------------------------------------------------------------
(* The other threads *)

(* A call of one provider leaves every other thread where it is. *)
LEMMA OthersUndisturbed ==
  ASSUME NEW p, NEW q, q # p, NEW w, NEW z, Writing(w),
         NEW v, NEW of, NEW of2, IsAt(p, w, v, of), IsAt(q, z, v, of),
         NEW u, NEW r, Moves(w, v, u, r), \A k \in Runs : k # r.run => of2[k] = of[k],
         w.step # 1 => of2 = of
  PROVE  IsAt(q, z, u, of2)
<1> SUFFICES ASSUME z.st = "writing", z.step > 1
             PROVE  IsAt(q, z, u, of2)
  BY DEF IsAt
<1>1. /\ z.run \in Runs /\ Started(v, z.run) /\ ~Finished(v, z.run)
      /\ v.runs[z.run].kind = "task" /\ of[z.run] = <<q, z.job.number>>
      /\ z.step % 2 # 0 =>
           /\ z.phase \in Runs /\ Started(v, z.phase)
           /\ v.runs[z.phase].kind = "phase" /\ v.runs[z.phase].parent = z.run
  BY IsAtFields
<1>2. w.step > 1 => /\ w.run \in Runs /\ v.runs[w.run].kind = "task" /\ of[w.run] = <<p, w.job.number>>
                    /\ w.step % 2 # 0 => /\ v.runs[w.phase].kind = "phase"
                                         /\ v.runs[w.phase].parent = w.run
  <2> SUFFICES ASSUME w.step > 1
               PROVE  /\ w.run \in Runs /\ v.runs[w.run].kind = "task"
                      /\ of[w.run] = <<p, w.job.number>>
                      /\ w.step % 2 # 0 => /\ v.runs[w.phase].kind = "phase"
                                           /\ v.runs[w.phase].parent = w.run
    OBVIOUS
  <2>1. w.st = "writing"
    BY DEF Writing
  <2>2. /\ w.run \in Runs /\ v.runs[w.run].kind = "task" /\ of[w.run] = <<p, w.job.number>>
        /\ w.step % 2 # 0 => v.runs[w.phase].kind = "phase" /\ v.runs[w.phase].parent = w.run
    BY <2>1 DEF IsAt
  <2> QED BY <2>2
<1>3. w.step > 1 => w.run # z.run
  <2>1. <<p, w.job.number>> # <<q, z.job.number>>
    OBVIOUS
  <2> QED BY <1>1, <1>2, <2>1
<1>4. 0 \notin Runs /\ w.step \in Nat
  BY DelayAssumption DEF Runs, Writing, Worker
<1>5. /\ r.run # z.run /\ (z.step % 2 # 0 => r.run # z.phase) /\ OtherRunsStay(v, u, r.run)
      /\ Started(u, r.run) /\ ~Finished(u, r.run) =>
           /\ u.runs[r.run].parent # z.run
           /\ z.step % 2 # 0 => u.runs[r.run].parent # z.phase
  <2>1. CASE BeginsTask(w, v, u, r)
    <3>1. /\ ~Started(v, r.run) /\ OtherRunsStay(v, u, r.run) /\ u.runs[r.run].parent = 0
      BY <2>1 DEF BeginsTask, StartedAs
    <3> QED BY <1>1, <1>4, <3>1
  <2>2. CASE BeginsPhase(w, v, u, r)
    <3>1. /\ ~Started(v, r.run) /\ OtherRunsStay(v, u, r.run)
          /\ u.runs[r.run].parent = w.run /\ w.step > 1
      BY <2>2 DEF BeginsPhase, StartedAs
    <3> QED BY <1>1, <1>2, <1>3, <3>1
  <2>3. CASE EndsPhase(w, v, u, r)
    <3>1. /\ OtherRunsStay(v, u, r.run) /\ r.run = w.phase /\ Finished(u, r.run)
          /\ w.step > 1 /\ w.step % 2 # 0
      BY <2>3 DEF EndsPhase, EndedNow
    <3> QED BY <1>1, <1>2, <1>3, <3>1
  <2>4. CASE EndsTask(w, v, u, r)
    <3>1. /\ OtherRunsStay(v, u, r.run) /\ r.run = w.run /\ Finished(u, r.run) /\ w.step > 1
      BY <2>4 DEF EndsTask, EndedNow
    <3> QED BY <1>1, <1>2, <1>3, <3>1
  <2> QED BY <2>1, <2>2, <2>3, <2>4 DEF Moves
<1>6. IsAt(q, z, u, of)
  BY <1>5, OthersStay
<1>7. of2[z.run] = of[z.run]
  BY <1>1, <1>5
<1> QED BY <1>6, <1>7 DEF IsAt

(* What was done stays done. *)
LEMMA DoneStays ==
  ASSUME NEW w, NEW v, NEW u, NEW r, Moves(w, v, u, r), NEW of, NEW of2,
         \A k \in Runs : k # r.run => of2[k] = of[k], w.step # 1 => of2 = of,
         NEW q, NEW n, DoneIn(v, of, q, n)
  PROVE  DoneIn(u, of2, q, n)
<1>1. PICK k \in Runs : of[k] = <<q, n>> /\ Finished(v, k)
  BY DEF DoneIn
<1>2. OtherRunsStay(v, u, r.run)
  BY DEF Moves, BeginsTask, BeginsPhase, EndsPhase, EndsTask, StartedAs, EndedNow
<1>3. ~Finished(v, r.run)
  BY DEF Moves, BeginsTask, BeginsPhase, EndsPhase, EndsTask, StartedAs, EndedNow, Finished
<1>4. k # r.run
  BY <1>1, <1>3
<1>5. Finished(u, k) /\ of2[k] = <<q, n>>
  BY <1>1, <1>2, <1>4 DEF OtherRunsStay, Finished, Started
<1> QED BY <1>5 DEF DoneIn

(* The last call ends the turn. *)
LEMMA LastCallIsDone ==
  ASSUME NEW p, NEW w, Writing(w), NEW v, NEW of, IsAt(p, w, v, of),
         NEW u, NEW r, w.step = Steps(w.job), Moves(w, v, u, r)
  PROVE  DoneIn(u, of, p, w.job.number)
<1>1. w.step > 1 /\ r.run = w.run /\ Finished(u, w.run) /\ w.run \in Runs
  BY DEF Moves, EndsTask, EndedNow
<1>2. w.st = "writing"
  BY DEF Writing
<1>3. of[w.run] = <<p, w.job.number>>
  BY <1>1, <1>2, IsAtFields
<1> QED BY <1>1, <1>3 DEF DoneIn

(* Runs stay numbered. *)
LEMMA NumbersStay ==
  ASSUME NEW w, NEW v, NEW u, NEW r, Moves(w, v, u, r), RunsAreNumbered(v)
  PROVE  RunsAreNumbered(u)
<1>1. CASE BeginsTask(w, v, u, r)
  BY <1>1, NumberedAfterStart DEF BeginsTask, StartedAs
<1>2. CASE BeginsPhase(w, v, u, r)
  BY <1>2, NumberedAfterStart DEF BeginsPhase, StartedAs
<1>3. CASE EndsPhase(w, v, u, r)
  BY <1>3, NumberedAfterFinish DEF EndsPhase, EndedNow
<1>4. CASE EndsTask(w, v, u, r)
  BY <1>4, NumberedAfterFinish DEF EndsTask, EndedNow
<1> QED BY <1>1, <1>2, <1>3, <1>4 DEF Moves

-----------------------------------------------------------------------------
(* Steps that write nothing *)

(* What is read of an unchanged log is unchanged. *)
LEMMA ViewStays ==
  ASSUME log' = log, view' = view, tail' = tail
  PROVE  View' = View
<1>1. OpenIsValid' = OpenIsValid
  BY DEF OpenIsValid, Open, ReplayValid
<1> QED BY <1>1 DEF View

(* Turns stay accounted for when a thread gives up, ends or begins, and when *)

(* what is queued only changes hands; its line may stay unended in the log.  *)
LEMMA TurnsStayAccounted ==
  ASSUME TurnsAreWritten, view' = view, taskOf' = taskOf, lost \subseteq lost',
         RunsAreNumbered(View)', \A q \in Instances : IsAt(q, worker[q], View, taskOf)',
         \A q \in Instances : worker'[q] = worker[q] \/ worker'[q].st # "writing"
                              \/ worker'[q].step = 1,
         \A q \in Instances : \A n \in 1 .. ended'[q] :
           \/ n \in (Queued(q) \union Current(q))' \/ <<q, n>> \in lost'
           \/ n \in 1 .. ended[q] /\ n \notin Queued(q) \union Current(q)
  PROVE  TurnsAreWritten'
<1>1. RunsAreNumbered(view)'
  BY DEF TurnsAreWritten, RunsAreNumbered
<1>2. ASSUME NEW q \in Instances
      PROVE  IsAt(q, worker[q], view, taskOf)'
  <2>1. IsAt(q, worker[q], view, taskOf)
    BY DEF TurnsAreWritten
  <2>2. CASE worker'[q] = worker[q]
    BY <2>1, <2>2 DEF IsAt, OpenChildren, Started, Finished
  <2>3. CASE worker'[q].st # "writing" \/ worker'[q].step = 1
    BY <2>3 DEF IsAt
  <2> QED BY <2>2, <2>3
<1>3. ASSUME NEW q \in Instances, NEW n \in 1 .. ended'[q]
      PROVE  \/ n \in (Queued(q) \union Current(q))' \/ <<q, n>> \in lost'
             \/ DoneIn(view, taskOf, q, n)'
  BY <1>3 DEF TurnsAreWritten, DoneIn
<1>4. ASSUME NEW q \in Instances, NEW r \in Runs, taskOf'[r] # None /\ taskOf'[r][1] = q,
             NEW n \in 1 .. taskOf'[r][2] - 1
      PROVE  <<q, n>> \in lost' \/ DoneIn(view, taskOf, q, n)'
  BY <1>4 DEF TurnsAreWritten, DoneIn
<1> QED BY <1>1, <1>2, <1>3, <1>4 DEF TurnsAreWritten

(* The same, when nothing that is read of the log changes. *)
LEMMA TurnsStayWritten ==
  ASSUME TurnsAreWritten, view' = view, View' = View, taskOf' = taskOf, lost \subseteq lost',
         \A q \in Instances : worker'[q] = worker[q] \/ worker'[q].st # "writing"
                              \/ worker'[q].step = 1,
         \A q \in Instances : \A n \in 1 .. ended'[q] :
           \/ n \in (Queued(q) \union Current(q))' \/ <<q, n>> \in lost'
           \/ n \in 1 .. ended[q] /\ n \notin Queued(q) \union Current(q)
  PROVE  TurnsAreWritten'
<1>1. RunsAreNumbered(View)'
  BY DEF TurnsAreWritten, RunsAreNumbered
<1>2. ASSUME NEW q \in Instances
      PROVE  IsAt(q, worker[q], View, taskOf)'
  <2>1. IsAt(q, worker[q], View, taskOf)
    BY DEF TurnsAreWritten
  <2>2. CASE worker'[q] = worker[q]
    BY <2>1, <2>2 DEF IsAt, OpenChildren, Started, Finished
  <2>3. CASE worker'[q].st # "writing" \/ worker'[q].step = 1
    BY <2>3 DEF IsAt
  <2> QED BY <2>2, <2>3
<1> QED BY <1>1, <1>2, TurnsStayAccounted

(* A provider that nothing happens to *)
LEMMA OrderStays ==
  ASSUME NEW q, QueueIsInOrder(q), queue'[q] = queue[q], ended'[q] = ended[q],
         idle'[q] = idle[q], worker'[q] = worker[q]
  PROVE  QueueIsInOrder(q)'
  BY DEF QueueIsInOrder

(* A step that only changes what is known of open turns *)
LEMMA OpenTurnsOnly ==
  ASSUME HermesInv, UNCHANGED <<ledger, ended, queue, idle, worker, taskOf, lost>>,
         turns' \in [Instances -> [Turns -> SUBSET Phases]]
  PROVE  HermesInv'
<1>1. /\ log' = log /\ view' = view /\ tail' = tail /\ spoiled' = spoiled
      /\ ended' = ended /\ queue' = queue /\ idle' = idle /\ worker' = worker
      /\ taskOf' = taskOf /\ lost' = lost
  BY DEF ledger
<1>2. MemoryInv'
  <2>1. \A q \in Instances : QueueIsInOrder(q)'
    BY <1>1, OrderStays DEF HermesInv, MemoryInv
  <2> QED BY <1>1, <2>1 DEF HermesInv, MemoryInv
<1>3. ASSUME ~spoiled' PROVE TurnsAreWritten'
  <2>1. View' = View
    BY <1>1, ViewStays
  <2>2. TurnsAreWritten
    BY <1>1, <1>3 DEF HermesInv
  <2>3. \A q \in Instances : (Queued(q) \union Current(q))' = Queued(q) \union Current(q)
    BY <1>1 DEF Queued, Current
  <2>4. ASSUME NEW q \in Instances, NEW n \in 1 .. ended'[q]
        PROVE \/ n \in (Queued(q) \union Current(q))' \/ <<q, n>> \in lost'
              \/ n \in 1 .. ended[q] /\ n \notin Queued(q) \union Current(q)
    BY <1>1, <2>3
  <2>5. lost \subseteq lost' /\ \A q \in Instances : worker'[q] = worker[q]
    BY <1>1
  <2> QED BY <1>1, <2>1, <2>2, <2>4, <2>5, TurnsStayWritten
<1> QED BY <1>2, <1>3 DEF HermesInv

(* A turn starts. *)
LEMMA TurnStartStep ==
  ASSUME HermesInv, NEW p \in Instances, NEW t \in Turns, TurnStart(p, t)
  PROVE  HermesInv'
<1>1. turns' \in [Instances -> [Turns -> SUBSET Phases]]
  BY HermesAssumption DEF TurnStart, HermesInv, MemoryInv
<1>2. UNCHANGED <<ledger, ended, queue, idle, worker, taskOf, lost>>
  BY DEF TurnStart
<1> QED BY <1>1, <1>2, OpenTurnsOnly

(* A turn enters a phase. *)
LEMMA TurnProgressStep ==
  ASSUME HermesInv, NEW p \in Instances, NEW t \in Turns, TurnProgress(p, t)
  PROVE  HermesInv'
<1>1. PICK phase \in Phases \ turns[p][t] :
        turns' = [turns EXCEPT ![p][t] = @ \union {phase}]
  BY DEF TurnProgress
<1>2. turns' \in [Instances -> [Turns -> SUBSET Phases]]
  BY <1>1 DEF HermesInv, MemoryInv
<1>3. UNCHANGED <<ledger, ended, queue, idle, worker, taskOf, lost>>
  BY DEF TurnProgress
<1> QED BY <1>2, <1>3, OpenTurnsOnly

(* Shutdown is called. *)
LEMMA ShutdownStep ==
  ASSUME HermesInv, NEW p \in Instances, Shutdown(p)
  PROVE  HermesInv'
<1>1. UNCHANGED <<ledger, ended, queue, idle, worker, taskOf, lost>> /\ turns' = turns
  BY DEF Shutdown
<1>2. turns' \in [Instances -> [Turns -> SUBSET Phases]]
  BY <1>1 DEF HermesInv, MemoryInv
<1> QED BY <1>1, <1>2, OpenTurnsOnly

-----------------------------------------------------------------------------
(* The queue *)

(* Workers that write nothing yet *)
LEMMA IdleWorkers ==
  /\ NoWorker \in Worker /\ Ready \in Worker /\ Unstarted \in Worker
  /\ NoWorker.st = "none" /\ Ready.st = "ready" /\ Unstarted.st = "unstarted"
  BY DEF NoWorker, Ready, Unstarted, Worker

(* A thread may be needed, but the one there is goes on. *)
LEMMA EnqueuedWorker ==
  ASSUME NEW p \in Instances, NEW job \in Job, EnqueueTurn(p, job), worker \in [Instances -> Worker]
  PROVE  /\ worker' \in [Instances -> Worker]
         /\ \A q \in Instances : q # p => worker'[q] = worker[q]
         /\ worker'[p] = worker[p] \/ (worker[p].st = "none" /\ worker'[p].st \in {"ready", "unstarted"})
<1>1. PICK w \in {worker[p], Ready, Unstarted} :
        /\ worker' = [worker EXCEPT ![p] = w]
        /\ w = worker[p] \/ worker[p].st = "none"
  BY DEF EnqueueTurn
<1>2. w \in Worker /\ (w = worker[p] \/ (worker[p].st = "none" /\ w.st \in {"ready", "unstarted"}))
  BY <1>1, IdleWorkers
<1> QED BY <1>1, <1>2

(* A queue and one turn more. *)
LEMMA AppendJob ==
  ASSUME NEW s \in Seq(Job), NEW job \in Job
  PROVE  /\ Append(s, job) \in Seq(Job) /\ Len(Append(s, job)) = Len(s) + 1 /\ Len(s) \in Nat
         /\ \A j \in 1 .. Len(s) : Append(s, job)[j] = s[j]
         /\ Append(s, job)[Len(s) + 1] = job
         /\ DOMAIN s = 1 .. Len(s) /\ DOMAIN Append(s, job) = 1 .. Len(s) + 1
  OBVIOUS

(* The turn that ends now takes the next number. *)
LEMMA AppendInOrder ==
  ASSUME NEW s \in Seq(Job), NEW job \in Job, NEW n \in Nat, job.number = n + 1,
         \A j \in DOMAIN s : s[j].number = n - Len(s) + j,
         NEW L, L = Append(s, job), NEW m, m = n + 1
  PROVE  /\ \A j \in DOMAIN L : L[j].number = m - Len(L) + j
         /\ m - Len(L) = n - Len(s)
<1>1. /\ Len(L) = Len(s) + 1 /\ Len(s) \in Nat /\ DOMAIN s = 1 .. Len(s)
      /\ \A j \in 1 .. Len(s) : L[j] = s[j]
      /\ L[Len(s) + 1] = job /\ DOMAIN L = 1 .. Len(s) + 1
  BY AppendJob
<1> DEFINE k == Len(s)
<1> HIDE DEF k
<1>2. m - Len(L) = n - k
  BY <1>1 DEF k
<1>3. ASSUME NEW j \in DOMAIN L PROVE L[j].number = n - k + j
  <2>1. CASE j = k + 1
    BY <1>1, <2>1 DEF k
  <2>2. CASE j # k + 1
    <3>1. j \in 1 .. k /\ j \in DOMAIN s
      BY <1>1, <2>2 DEF k
    <3> QED BY <1>1, <3>1 DEF k
  <2> QED BY <2>1, <2>2
<1> QED BY <1>2, <1>3 DEF k

(* A turn ends: it is queued, and all that were accounted for still are. *)
LEMMA TurnFinishStep ==
  ASSUME HermesInv, NEW p \in Instances, NEW t \in Turns, TurnFinish(p, t)
  PROVE  HermesInv'
<1> DEFINE N == ended[p]
           s == queue[p]
<1>1. /\ turns \in [Instances -> [Turns -> SUBSET Phases]] /\ ended \in [Instances -> Nat]
      /\ queue \in [Instances -> Seq(Job)] /\ idle \in [Instances -> BOOLEAN]
      /\ worker \in [Instances -> Worker]
      /\ taskOf \in [Runs -> (Instances \X Nat) \union {None}]
      /\ \A q \in Instances : QueueIsInOrder(q)
  BY DEF HermesInv, MemoryInv
<1>2. PICK outcome \in Outcomes :
        EnqueueTurn(p, [number |-> ended[p] + 1, phases |-> turns[p][t], outcome |-> outcome])
  BY DEF TurnFinish
<1> DEFINE job == [number |-> ended[p] + 1, phases |-> turns[p][t], outcome |-> outcome]
<1>3. job \in Job /\ job.number = N + 1 /\ N \in Nat /\ s \in Seq(Job)
  <2>1. turns[p][t] \subseteq Phases /\ ended[p] \in Nat /\ queue[p] \in Seq(Job)
    BY <1>1
  <2>2. job \in Job
    BY <2>1 DEF Job
  <2> QED BY <2>1, <2>2
<1>4. /\ queue' = [queue EXCEPT ![p] = Append(s, job)] /\ idle' = [idle EXCEPT ![p] = FALSE]
      /\ EnqueueTurn(p, job)
  BY <1>2 DEF EnqueueTurn
<1>5. /\ turns' = [turns EXCEPT ![p][t] = {}] /\ ended' = [ended EXCEPT ![p] = N + 1]
      /\ log' = log /\ view' = view /\ tail' = tail /\ spoiled' = spoiled
      /\ taskOf' = taskOf /\ lost' = lost
  BY DEF TurnFinish, ledger
<1> HIDE DEF job, N, s
<1>6. /\ worker' \in [Instances -> Worker]
      /\ \A q \in Instances : q # p => worker'[q] = worker[q]
      /\ worker'[p] = worker[p] \/ (worker[p].st = "none" /\ worker'[p].st \in {"ready", "unstarted"})
  BY <1>1, <1>3, <1>4, EnqueuedWorker
<1>7. /\ Append(s, job) \in Seq(Job) /\ Len(Append(s, job)) = Len(s) + 1 /\ Len(s) \in Nat
      /\ \A j \in 1 .. Len(s) : Append(s, job)[j] = s[j]
      /\ Append(s, job)[Len(s) + 1] = job
      /\ DOMAIN s = 1 .. Len(s) /\ DOMAIN Append(s, job) = 1 .. Len(s) + 1
  BY <1>3, AppendJob
<1>8. /\ queue'[p] = Append(s, job) /\ ended'[p] = N + 1 /\ idle'[p] = FALSE
      /\ \A q \in Instances : q # p =>
           queue'[q] = queue[q] /\ ended'[q] = ended[q] /\ idle'[q] = idle[q]
  BY <1>1, <1>4, <1>5
<1>9. MemoryInv'
  <2>1. QueueIsInOrder(p)'
    <3>1. \A j \in DOMAIN s : s[j].number = N - Len(s) + j
      BY <1>1 DEF QueueIsInOrder, N, s
    <3>3. worker'[p].st = "writing" =>
            /\ worker'[p].job \in Job /\ worker'[p].step \in 1 .. Steps(worker'[p].job)
            /\ worker'[p].job.number \in Nat /\ worker'[p].job.number = N - Len(s)
      BY <1>1, <1>6 DEF QueueIsInOrder, N, s
    <3>5. /\ \A j \in DOMAIN queue'[p] : queue'[p][j].number = ended'[p] - Len(queue'[p]) + j
          /\ ended'[p] - Len(queue'[p]) = N - Len(s)
      BY <1>3, <1>8, <3>1, AppendInOrder
    <3> QED BY <1>8, <3>3, <3>5 DEF QueueIsInOrder, Steps
  <2>2. \A q \in Instances : QueueIsInOrder(q)'
    BY <1>1, <1>6, <1>8, <2>1, OrderStays
  <2>3. /\ turns' \in [Instances -> [Turns -> SUBSET Phases]] /\ ended' \in [Instances -> Nat]
        /\ queue' \in [Instances -> Seq(Job)] /\ idle' \in [Instances -> BOOLEAN]
    BY <1>1, <1>3, <1>4, <1>5, <1>7
  <2> QED BY <1>1, <1>5, <1>6, <2>2, <2>3 DEF MemoryInv
<1>10. ASSUME ~spoiled' PROVE TurnsAreWritten'
  <2>1. View' = View
    BY <1>5, ViewStays
  <2>2. TurnsAreWritten
    BY <1>5, <1>10 DEF HermesInv
  <2>3. Queued(p)' = Queued(p) \union {N + 1}
    <3>1. Queued(p) = {s[n].number : n \in 1 .. Len(s)}
      BY <1>7 DEF Queued, s
    <3>2. Queued(p)' = {Append(s, job)[n].number : n \in 1 .. Len(s) + 1}
      BY <1>7, <1>8 DEF Queued
    <3>3. 1 .. Len(s) + 1 = (1 .. Len(s)) \union {Len(s) + 1}
      BY <1>7
    <3> QED BY <1>3, <1>7, <3>1, <3>2, <3>3
  <2>4. Current(p)' = Current(p)
    BY <1>6 DEF Current
  <2>5. ASSUME NEW q \in Instances, q # p
        PROVE  Queued(q)' = Queued(q) /\ Current(q)' = Current(q)
    BY <1>6, <1>8, <2>5, ZenonT(30) DEF Queued, Current
  <2>6. ASSUME NEW q \in Instances, NEW n \in 1 .. ended'[q]
        PROVE \/ n \in (Queued(q) \union Current(q))' \/ <<q, n>> \in lost'
              \/ n \in 1 .. ended[q] /\ n \notin Queued(q) \union Current(q)
    <3>1. CASE q = p
      <4>1. n \in 1 .. N \/ n = N + 1
        BY <1>3, <1>8, <2>6, <3>1
      <4> QED BY <2>3, <2>4, <3>1, <4>1 DEF N
    <3>2. CASE q # p
      BY <1>8, <2>5, <2>6, <3>2
    <3> QED BY <3>1, <3>2
  <2>7. lost \subseteq lost'
    BY <1>5
  <2>8. \A q \in Instances : worker'[q] = worker[q] \/ worker'[q].st # "writing"
    BY <1>6
  <2> QED BY <1>5, <2>1, <2>2, <2>6, <2>7, <2>8, TurnsStayWritten
<1> QED BY <1>9, <1>10 DEF HermesInv

(* A queue without its first turn. *)
LEMMA HeadAndTail ==
  ASSUME NEW s \in Seq(Job), s # <<>>
  PROVE  /\ Head(s) \in Job /\ Tail(s) \in Seq(Job)
         /\ Len(s) \in Nat /\ Len(s) >= 1 /\ Len(Tail(s)) = Len(s) - 1 /\ s[1] = Head(s)
         /\ \A j \in 1 .. Len(s) - 1 : Tail(s)[j] = s[j + 1]
         /\ DOMAIN s = 1 .. Len(s) /\ DOMAIN Tail(s) = 1 .. Len(s) - 1
  OBVIOUS

(* The first of the queue is the one that ended first. *)
LEMMA TailInOrder ==
  ASSUME NEW s \in Seq(Job), s # <<>>, NEW n \in Nat,
         \A j \in DOMAIN s : s[j].number = n - Len(s) + j,
         NEW L, L = Tail(s)
  PROVE  /\ \A j \in DOMAIN L : L[j].number = n - Len(L) + j
         /\ Head(s).number = n - Len(L)
<1> DEFINE k == Len(s)
<1>1. /\ k \in Nat /\ k >= 1 /\ Len(L) = k - 1 /\ s[1] = Head(s)
      /\ \A j \in 1 .. k - 1 : L[j] = s[j + 1]
      /\ DOMAIN s = 1 .. k /\ DOMAIN L = 1 .. k - 1
  BY HeadAndTail
<1>2. \A j \in 1 .. k : s[j].number = n - k + j
  BY <1>1
<1> HIDE DEF k
<1>3. ASSUME NEW j \in 1 .. k - 1 PROVE L[j].number = n - Len(L) + j
  <2>1. j + 1 \in 1 .. k /\ L[j] = s[j + 1]
    BY <1>1
  <2>2. s[j + 1].number = n - k + (j + 1)
    BY <1>2, <2>1
  <2> QED BY <1>1, <2>1, <2>2
<1>4. Head(s).number = n - k + 1
  <2>1. 1 \in 1 .. k
    BY <1>1
  <2> QED BY <1>1, <1>2, <2>1
<1> QED BY <1>1, <1>3, <1>4

(* What is queued, but for the first *)
LEMMA QueuedTail ==
  ASSUME NEW s \in Seq(Job), s # <<>>
  PROVE  {s[n].number : n \in DOMAIN s}
           = {Head(s).number} \union {Tail(s)[n].number : n \in DOMAIN Tail(s)}
<1> DEFINE k == Len(s)
           T == Tail(s)
<1>1. /\ k \in Nat /\ k >= 1 /\ s[1] = Head(s)
      /\ \A j \in 1 .. k - 1 : T[j] = s[j + 1]
      /\ DOMAIN s = 1 .. k /\ DOMAIN T = 1 .. k - 1
  BY HeadAndTail
<1> HIDE DEF k, T
<1>2. ASSUME NEW j \in 1 .. k
      PROVE  s[j].number \in {Head(s).number} \union {T[n].number : n \in 1 .. k - 1}
  <2>1. CASE j = 1
    BY <1>1, <2>1
  <2>2. CASE j # 1
    <3>1. j - 1 \in 1 .. k - 1 /\ (j - 1) + 1 = j
      BY <1>1, <2>2
    <3> QED BY <1>1, <3>1
  <2> QED BY <2>1, <2>2
<1>3. ASSUME NEW j \in 1 .. k - 1 PROVE \E n \in 1 .. k : T[j].number = s[n].number
  <2>1. j + 1 \in 1 .. k /\ T[j] = s[j + 1]
    BY <1>1
  <2> QED BY <2>1
<1>4. \E n \in 1 .. k : Head(s).number = s[n].number
  <2>1. 1 \in 1 .. k
    BY <1>1
  <2> QED BY <1>1, <2>1
<1>5. {s[n].number : n \in 1 .. k}
        = {Head(s).number} \union {T[n].number : n \in 1 .. k - 1}
  BY <1>2, <1>3, <1>4
<1> QED BY <1>1, <1>5 DEF T

(* The first of the queue goes from the queue to the thread. *)
LEMMA WorkerTakesStep ==
  ASSUME HermesInv, NEW p \in Instances, WorkerTakes(p)
  PROVE  HermesInv'
<1> DEFINE s == queue[p]
<1>1. /\ turns \in [Instances -> [Turns -> SUBSET Phases]] /\ ended \in [Instances -> Nat]
      /\ queue \in [Instances -> Seq(Job)] /\ idle \in [Instances -> BOOLEAN]
      /\ worker \in [Instances -> Worker]
      /\ taskOf \in [Runs -> (Instances \X Nat) \union {None}]
      /\ \A q \in Instances : QueueIsInOrder(q)
  BY DEF HermesInv, MemoryInv
<1>2. /\ log' = log /\ view' = view /\ tail' = tail /\ spoiled' = spoiled
      /\ turns' = turns /\ ended' = ended /\ taskOf' = taskOf /\ lost' = lost
      /\ worker[p].st = "ready"
  BY DEF WorkerTakes, ledger
<1>3. s \in Seq(Job) /\ ended[p] \in Nat
  BY <1>1
<1>4. ~idle[p]
  BY <1>1, <1>2 DEF QueueIsInOrder
<1> HIDE DEF s
<1>5. CASE s = <<>>
  <2>1. /\ worker' = [worker EXCEPT ![p] = NoWorker] /\ idle' = [idle EXCEPT ![p] = TRUE]
        /\ queue' = queue
    BY <1>5 DEF WorkerTakes, s
  <2>2. /\ worker' \in [Instances -> Worker] /\ idle' \in [Instances -> BOOLEAN]
        /\ worker'[p].st = "none" /\ queue'[p] = <<>>
        /\ \A q \in Instances : q # p => worker'[q] = worker[q] /\ idle'[q] = idle[q]
    BY <1>1, <1>5, <2>1, IdleWorkers DEF s
  <2>3. QueueIsInOrder(p)'
    BY <1>3, <2>2 DEF QueueIsInOrder
  <2>4. \A q \in Instances : QueueIsInOrder(q)'
    BY <1>1, <1>2, <2>1, <2>2, <2>3, OrderStays
  <2>5. MemoryInv'
    BY <1>1, <1>2, <2>1, <2>2, <2>4 DEF MemoryInv
  <2>6. ASSUME ~spoiled' PROVE TurnsAreWritten'
    <3>1. View' = View
      BY <1>2, ViewStays
    <3>2. TurnsAreWritten
      BY <1>2, <2>6 DEF HermesInv
    <3>3. \A q \in Instances : (Queued(q) \union Current(q))' = Queued(q) \union Current(q)
      BY <1>2, <2>1, <2>2 DEF Queued, Current
    <3>4. ASSUME NEW q \in Instances, NEW n \in 1 .. ended'[q]
          PROVE \/ n \in (Queued(q) \union Current(q))' \/ <<q, n>> \in lost'
                \/ n \in 1 .. ended[q] /\ n \notin Queued(q) \union Current(q)
      BY <1>2, <3>3
    <3>5. lost \subseteq lost'
          /\ \A q \in Instances : worker'[q] = worker[q] \/ worker'[q].st # "writing"
      BY <1>2, <2>2
    <3> QED BY <1>2, <3>1, <3>2, <3>4, <3>5, TurnsStayWritten
  <2> QED BY <2>5, <2>6 DEF HermesInv
<1>6. CASE s # <<>>
  <2> DEFINE new == [st |-> "writing", job |-> Head(s), step |-> 1, run |-> 0, phase |-> 0]
  <2>1. /\ worker' = [worker EXCEPT ![p] = new] /\ idle' = idle
        /\ queue' = [queue EXCEPT ![p] = Tail(s)]
    BY <1>6 DEF WorkerTakes, s
  <2>2. Head(s) \in Job /\ Tail(s) \in Seq(Job)
    BY <1>3, <1>6, HeadAndTail
  <2>3. new \in Worker
    BY <2>2 DEF Worker
  <2>4. /\ worker' \in [Instances -> Worker] /\ queue' \in [Instances -> Seq(Job)]
        /\ worker'[p] = new /\ queue'[p] = Tail(s)
        /\ \A q \in Instances : q # p => worker'[q] = worker[q] /\ queue'[q] = queue[q]
    BY <1>1, <2>1, <2>2, <2>3
  <2>5. QueueIsInOrder(p)'
    <3>1. \A j \in DOMAIN s : s[j].number = ended[p] - Len(s) + j
      BY <1>1 DEF QueueIsInOrder, s
    <3>2. /\ \A j \in DOMAIN queue'[p] : queue'[p][j].number = ended'[p] - Len(queue'[p]) + j
          /\ Head(s).number = ended'[p] - Len(queue'[p])
      <4> DEFINE L == queue'[p]
                 n == ended[p]
      <4>1. L = Tail(s) /\ n \in Nat /\ ended'[p] = n
        BY <1>2, <1>3, <2>4
      <4>2. \A j \in DOMAIN s : s[j].number = n - Len(s) + j
        BY <3>1
      <4> SUFFICES /\ \A j \in DOMAIN L : L[j].number = ended'[p] - Len(L) + j
                   /\ Head(s).number = ended'[p] - Len(L)
        OBVIOUS
      <4> HIDE DEF L, n
      <4>3. /\ \A j \in DOMAIN L : L[j].number = n - Len(L) + j
            /\ Head(s).number = n - Len(L)
        BY <1>3, <1>6, <4>1, <4>2, TailInOrder, SMTT(30)
      <4> QED BY <4>1, <4>3
    <3>3. 1 \in 1 .. Steps(Head(s))
      BY <2>2, StepsAreEven
    <3>4. Head(s).number \in Nat
      BY <2>2 DEF Job
    <3>5. ~idle'[p]
      BY <1>4, <2>1
    <3>6. worker'[p].job = Head(s) /\ worker'[p].step = 1
      BY <2>4
    <3> QED BY <2>2, <3>2, <3>3, <3>4, <3>5, <3>6 DEF QueueIsInOrder, Steps
  <2>6. \A q \in Instances : QueueIsInOrder(q)'
    BY <1>1, <1>2, <2>1, <2>4, <2>5, OrderStays
  <2>7. MemoryInv'
    BY <1>1, <1>2, <2>1, <2>4, <2>6 DEF MemoryInv
  <2>8. ASSUME ~spoiled' PROVE TurnsAreWritten'
    <3>1. View' = View
      BY <1>2, ViewStays
    <3>2. TurnsAreWritten
      BY <1>2, <2>8 DEF HermesInv
    <3>3. (Queued(p) \union Current(p))' = Queued(p) \union Current(p)
      <4>1. Queued(p) = {s[n].number : n \in DOMAIN s} /\ Current(p) = {}
        BY <1>2 DEF Queued, Current, s
      <4>2. /\ Queued(p)' = {Tail(s)[n].number : n \in DOMAIN Tail(s)}
            /\ Current(p)' = {Head(s).number}
        BY <2>4 DEF Queued, Current
      <4>3. {s[n].number : n \in DOMAIN s}
              = {Head(s).number} \union {Tail(s)[n].number : n \in DOMAIN Tail(s)}
        BY <1>3, <1>6, QueuedTail
      <4> QED BY <4>1, <4>2, <4>3
    <3>4. ASSUME NEW q \in Instances
          PROVE  (Queued(q) \union Current(q))' = Queued(q) \union Current(q)
      <4>1. CASE q = p
        BY <3>3, <4>1
      <4>2. CASE q # p
        BY <2>4, <4>2 DEF Queued, Current
      <4> QED BY <4>1, <4>2
    <3>5. ASSUME NEW q \in Instances, NEW n \in 1 .. ended'[q]
          PROVE \/ n \in (Queued(q) \union Current(q))' \/ <<q, n>> \in lost'
                \/ n \in 1 .. ended[q] /\ n \notin Queued(q) \union Current(q)
      BY <1>2, <3>4
    <3>6. lost \subseteq lost'
          /\ \A q \in Instances : worker'[q] = worker[q] \/ worker'[q].step = 1
      BY <1>2, <2>4
    <3> QED BY <1>2, <3>1, <3>2, <3>5, <3>6, TurnsStayWritten
  <2> QED BY <2>7, <2>8 DEF HermesInv
<1> QED BY <1>5, <1>6

-----------------------------------------------------------------------------
(* Turns that are given up *)

(* A thread gives up the turn it writes, for a fault. *)
LEMMA GivesUpTurn ==
  ASSUME HermesInv, NEW p \in Instances, worker[p].st = "writing",
         UNCHANGED <<log, view, tail, spoiled, turns, ended, queue, idle, taskOf>>,
         worker' = [worker EXCEPT ![p] = Ready],
         GivesUp(p, Current(p))
  PROVE  HermesInv'
<1>1. /\ turns \in [Instances -> [Turns -> SUBSET Phases]] /\ ended \in [Instances -> Nat]
      /\ queue \in [Instances -> Seq(Job)] /\ idle \in [Instances -> BOOLEAN]
      /\ worker \in [Instances -> Worker]
      /\ taskOf \in [Runs -> (Instances \X Nat) \union {None}]
      /\ \A q \in Instances : QueueIsInOrder(q)
  BY DEF HermesInv, MemoryInv
<1>2. /\ worker' \in [Instances -> Worker] /\ worker'[p] = Ready
      /\ \A q \in Instances : q # p => worker'[q] = worker[q]
  BY <1>1, IdleWorkers
<1>3. Ready.st # "writing" /\ ~idle[p]
  BY <1>1, IdleWorkers DEF QueueIsInOrder
<1>4. QueueIsInOrder(p)'
  BY <1>1, <1>2, <1>3 DEF QueueIsInOrder
<1>5. \A q \in Instances : QueueIsInOrder(q)'
  BY <1>1, <1>2, <1>4, OrderStays
<1>6. MemoryInv'
  BY <1>1, <1>2, <1>5 DEF MemoryInv
<1>7. lost' = lost \union ({p} \X Current(p))
  BY DEF GivesUp
<1>8. ASSUME ~spoiled' PROVE TurnsAreWritten'
  <2>1. View' = View
    BY ViewStays
  <2>2. TurnsAreWritten
    BY <1>8 DEF HermesInv
  <2>3. Queued(p)' = Queued(p)
    BY DEF Queued
  <2>4. ASSUME NEW q \in Instances, q # p
        PROVE  Queued(q)' = Queued(q) /\ Current(q)' = Current(q)
    BY <1>2, <2>4 DEF Queued, Current
  <2>5. ASSUME NEW q \in Instances, NEW n \in 1 .. ended'[q]
        PROVE \/ n \in (Queued(q) \union Current(q))' \/ <<q, n>> \in lost'
              \/ n \in 1 .. ended[q] /\ n \notin Queued(q) \union Current(q)
    <3>1. CASE q = p
      BY <1>7, <2>3, <3>1
    <3>2. CASE q # p
      BY <2>4, <3>2
    <3> QED BY <3>1, <3>2
  <2>6. lost \subseteq lost'
        /\ \A q \in Instances : worker'[q] = worker[q] \/ worker'[q].st # "writing"
    BY <1>2, <1>3, <1>7
  <2> QED BY <2>1, <2>2, <2>5, <2>6, TurnsStayWritten
<1> QED BY <1>6, <1>8 DEF HermesInv

(* The lock is not to be had. *)
LEMMA RefusedBusyStep ==
  ASSUME HermesInv, NEW p \in Instances, WorkerIsRefusedBusy(p)
  PROVE  HermesInv'
<1>1. /\ worker[p].st = "writing" /\ worker' = [worker EXCEPT ![p] = Ready]
      /\ GivesUp(p, Current(p))
      /\ UNCHANGED <<log, view, tail, spoiled, turns, ended, queue, idle, taskOf>>
  BY DEF WorkerIsRefusedBusy, ledger
<1> QED BY <1>1, GivesUpTurn

(* An exit gives up what is queued and what is being written. *)
LEMMA EndsStep ==
  ASSUME HermesInv, NEW p \in Instances, Ends(p)
  PROVE  HermesInv'
<1>1. /\ turns \in [Instances -> [Turns -> SUBSET Phases]] /\ ended \in [Instances -> Nat]
      /\ queue \in [Instances -> Seq(Job)] /\ idle \in [Instances -> BOOLEAN]
      /\ worker \in [Instances -> Worker]
      /\ taskOf \in [Runs -> (Instances \X Nat) \union {None}]
      /\ \A q \in Instances : QueueIsInOrder(q)
  BY DEF HermesInv, MemoryInv
<1>2. /\ log' = log /\ view' = view /\ tail' = tail /\ spoiled' = spoiled
      /\ ended' = ended /\ taskOf' = taskOf
      /\ lost' = lost \union ({p} \X (Queued(p) \union Current(p)))
      /\ turns' = [turns EXCEPT ![p] = [t \in Turns |-> {}]]
      /\ queue' = [queue EXCEPT ![p] = <<>>] /\ idle' = [idle EXCEPT ![p] = TRUE]
      /\ worker' = [worker EXCEPT ![p] = NoWorker]
  BY DEF Ends, GivesUp
<1>3. <<>> \in Seq(Job) /\ [t \in Turns |-> {}] \in [Turns -> SUBSET Phases]
  OBVIOUS
<1>4. /\ worker' \in [Instances -> Worker] /\ worker'[p] = NoWorker
      /\ queue' \in [Instances -> Seq(Job)] /\ queue'[p] = <<>>
      /\ idle' \in [Instances -> BOOLEAN]
      /\ turns' \in [Instances -> [Turns -> SUBSET Phases]]
      /\ \A q \in Instances : q # p =>
           worker'[q] = worker[q] /\ queue'[q] = queue[q] /\ idle'[q] = idle[q]
  BY <1>1, <1>2, <1>3, IdleWorkers
<1>5. NoWorker.st = "none"
  BY IdleWorkers
<1>6. QueueIsInOrder(p)'
  BY <1>4, <1>5 DEF QueueIsInOrder
<1>7. \A q \in Instances : QueueIsInOrder(q)'
  BY <1>1, <1>2, <1>4, <1>6, OrderStays
<1>8. MemoryInv'
  BY <1>1, <1>2, <1>4, <1>7 DEF MemoryInv
<1>9. ASSUME ~spoiled' PROVE TurnsAreWritten'
  <2>1. View' = View
    BY <1>2, ViewStays
  <2>2. TurnsAreWritten
    BY <1>2, <1>9 DEF HermesInv
  <2>4. ASSUME NEW q \in Instances, q # p
        PROVE  Queued(q)' = Queued(q) /\ Current(q)' = Current(q)
    BY <1>4, <2>4 DEF Queued, Current
  <2>5. ASSUME NEW q \in Instances, NEW n \in 1 .. ended'[q]
        PROVE \/ n \in (Queued(q) \union Current(q))' \/ <<q, n>> \in lost'
              \/ n \in 1 .. ended[q] /\ n \notin Queued(q) \union Current(q)
    <3>1. CASE q = p
      BY <1>2, <3>1
    <3>2. CASE q # p
      BY <1>2, <2>4, <3>2
    <3> QED BY <3>1, <3>2
  <2>6. lost \subseteq lost'
        /\ \A q \in Instances : worker'[q] = worker[q] \/ worker'[q].st # "writing"
    BY <1>2, <1>4, <1>5
  <2> QED BY <1>2, <2>1, <2>2, <2>5, <2>6, TurnsStayWritten
<1> QED BY <1>8, <1>9 DEF HermesInv

-----------------------------------------------------------------------------
(* Calls of the ledger *)

(* Every call of a thread is a request of the ledger. *)
LEMMA CallIsRequest ==
  ASSUME NEW p, NEW w, Writing(w), NEW v, NEW of, IsAt(p, w, v, of), NEW r \in CallsOf(v, w),
         NewRun(v) \in Runs \/ r.type = "delay_run_finish"
  PROVE  r \in Request /\ r.run \in Runs
<1>1. w \in Worker /\ w.job \in Job /\ w.step \in 1 .. Steps(w.job) /\ w.st = "writing"
  BY DEF Writing
<1>2. w.step > 1 => w.run \in Runs /\ (w.step % 2 # 0 => w.phase \in Runs)
  BY <1>1 DEF IsAt
<1>3. "task" \in Kinds /\ "phase" \in Kinds /\ Cohort \in Subjects
  BY HermesAssumption DEF Kinds
<1>4. CASE w.step = 1 /\ w.step # Steps(w.job)
  <2>1. r = StartRun(NewRun(v), "task", Cohort, 0)
    BY <1>1, <1>4, CallOfStep
  <2>2. NewRun(v) \in Runs
    BY <2>1 DEF StartRun
  <2> QED BY <1>3, <2>1, <2>2, StartIsARequest
<1>5. CASE w.step > 1 /\ w.step = Steps(w.job)
  <2>1. r \in FinishRun(w.run, w.job)
    BY <1>1, <1>5, CallOfStep
  <2> QED BY <1>1, <1>2, <1>5, <2>1, FinishIsARequest
<1>6. CASE w.step > 1 /\ w.step # Steps(w.job) /\ w.step % 2 = 0
  <2> DEFINE s == InOrder(w.job.phases)[w.step \div 2]
  <2>1. s \in Subjects /\ r = StartRun(NewRun(v), "phase", s, w.run)
    BY <1>1, <1>6, CallOfStep
  <2> HIDE DEF s
  <2>2. NewRun(v) \in Runs /\ w.run \in Runs
    BY <1>2, <1>6, <2>1 DEF StartRun
  <2> QED BY <1>3, <2>1, <2>2, StartIsARequest
<1>7. CASE w.step > 1 /\ w.step # Steps(w.job) /\ w.step % 2 # 0
  <2>1. r \in FinishRun(w.phase, w.job)
    BY <1>1, <1>7, CallOfStep
  <2> QED BY <1>1, <1>2, <1>7, <2>1, FinishIsARequest
<1>8. (w.step = 1 /\ w.step # Steps(w.job)) \/ w.step > 1
  BY <1>1, CallOfStep
<1> QED BY <1>4, <1>5, <1>6, <1>7, <1>8

(* A thread's call is prepared, whatever the other providers wrote since. *)
LEMMA CallIsPrepared ==
  ASSUME NEW p, NEW w, Writing(w), NEW v, NEW of, IsAt(p, w, v, of), RunsAreNumbered(v),
         \A r \in CallsOf(v, w) : NewRun(v) \in Runs \/ r.type = "delay_run_finish"
  PROVE  \E r \in CallsOf(v, w) : Prepared(v, r)
<1>1. w \in Worker /\ w.job \in Job /\ w.step \in 1 .. Steps(w.job) /\ w.st = "writing"
  BY DEF Writing
<1>2. NewRun(v) \in Runs => ~Started(v, NewRun(v))
  BY NextNumberIsNew
<1>3. PICK elapsed \in Elapsed : TRUE
  BY HermesAssumption
<1>4. CASE w.step = 1 /\ w.step # Steps(w.job)
  <2> DEFINE r == StartRun(NewRun(v), "task", Cohort, 0)
  <2>1. r \in CallsOf(v, w)
    BY <1>1, <1>4, CallOfStep
  <2>2. /\ r.type = "delay_run_start" /\ r.kind = "task" /\ r.parent = 0
        /\ r.run = NewRun(v)
    BY DEF StartRun
  <2> HIDE DEF r
  <2>3. Prepared(v, r)
    BY <1>2, <2>1, <2>2 DEF Prepared
  <2> QED BY <2>1, <2>3
<1>5. CASE w.step > 1 /\ w.step # Steps(w.job) /\ w.step % 2 = 0
  <2> DEFINE r == StartRun(NewRun(v), "phase", InOrder(w.job.phases)[w.step \div 2], w.run)
  <2>1. r \in CallsOf(v, w)
    BY <1>1, <1>5, CallOfStep
  <2>2. /\ r.type = "delay_run_start" /\ r.kind = "phase" /\ r.parent = w.run
        /\ r.run = NewRun(v)
    BY DEF StartRun
  <2>3. /\ w.run \in Runs /\ Started(v, w.run) /\ ~Finished(v, w.run)
        /\ v.runs[w.run].kind = "task"
    BY <1>1, <1>5, IsAtFields
  <2>4. v.runs[w.run].finished = 0 /\ w.run # 0 /\ ParentKind("phase") = "task"
    BY <2>3, DelayAssumption DEF Finished, Runs, ParentKind
  <2> HIDE DEF r
  <2>5. Prepared(v, r)
    BY <1>2, <2>1, <2>2, <2>3, <2>4 DEF Prepared
  <2> QED BY <2>1, <2>5
<1>6. ASSUME NEW x, Started(v, x), ~Finished(v, x), OpenChildren(v, x) = {},
             CallsOf(v, w) = FinishRun(x, w.job)
      PROVE  \E r \in CallsOf(v, w) : Prepared(v, r)
  <2> DEFINE r == [type |-> "delay_run_finish", run |-> x, elapsed |-> elapsed,
                   outcome |-> w.job.outcome]
  <2>1. r \in CallsOf(v, w)
    BY <1>6 DEF FinishRun
  <2>2. r.type = "delay_run_finish" /\ r.run = x
    OBVIOUS
  <2> HIDE DEF r
  <2>3. Prepared(v, r)
    BY <1>6, <2>2 DEF Prepared
  <2> QED BY <2>1, <2>3
<1>7. CASE w.step > 1 /\ w.step = Steps(w.job)
  <2>1. CallsOf(v, w) = FinishRun(w.run, w.job) /\ w.step % 2 = 0
    BY <1>1, <1>7, CallOfStep
  <2>2. Started(v, w.run) /\ ~Finished(v, w.run) /\ OpenChildren(v, w.run) = {}
    BY <1>1, <1>7, <2>1 DEF IsAt
  <2> QED BY <1>6, <2>1, <2>2
<1>8. CASE w.step > 1 /\ w.step # Steps(w.job) /\ w.step % 2 # 0
  <2>1. CallsOf(v, w) = FinishRun(w.phase, w.job)
    BY <1>1, <1>8, CallOfStep
  <2>2. Started(v, w.phase) /\ ~Finished(v, w.phase) /\ OpenChildren(v, w.phase) = {}
    BY <1>1, <1>8 DEF IsAt
  <2> QED BY <1>6, <2>1, <2>2
<1>9. (w.step = 1 /\ w.step # Steps(w.job)) \/ w.step > 1
  BY <1>1, CallOfStep
<1> QED BY <1>4, <1>5, <1>7, <1>8, <1>9

(* A call that is prepared was not made before. *)
LEMMA PreparedIsNew ==
  ASSUME NEW lines, NEW v, Agrees(lines, v), NEW r, Prepared(v, r), r.run \in Runs,
         r.type \in {"delay_run_start", "delay_run_finish"}, NEW i \in DOMAIN lines
  PROVE  lines[i].req # r
<1>1. StartsAreRecorded(lines, v) /\ EndsAreRecorded(lines, v)
  BY DEF Agrees
<1>2. SUFFICES ASSUME lines[i].req = r PROVE FALSE
  OBVIOUS
<1>3. CASE r.type = "delay_run_start"
  <2>1. ~Started(v, r.run)
    BY <1>3 DEF Prepared
  <2>2. StartsRun(lines[i], r.run)
    BY <1>2, <1>3 DEF StartsRun
  <2> QED BY <1>1, <2>1, <2>2 DEF StartsAreRecorded
<1>4. CASE r.type = "delay_run_finish"
  <2>1. ~Finished(v, r.run)
    BY <1>4 DEF Prepared
  <2>2. EndsRun(lines[i], r.run)
    BY <1>2, <1>4 DEF EndsRun
  <2> QED BY <1>1, <2>1, <2>2 DEF EndsAreRecorded
<1> QED BY <1>3, <1>4

(* A thread only starts and ends runs. *)
LEMMA CallTypes ==
  ASSUME NEW v, NEW w, Writing(w), NEW r \in CallsOf(v, w)
  PROVE  r.type \in {"delay_run_start", "delay_run_finish"}
<1>1. w.job \in Job /\ w.step \in 1 .. Steps(w.job)
  BY DEF Writing
<1>2. (\E x, k, s, y : r = StartRun(x, k, s, y)) \/ \E x : r \in FinishRun(x, w.job)
  BY <1>1 DEF CallsOf
<1> QED BY <1>2 DEF StartRun, FinishRun

(* What a thread that writes is doing *)
LEMMA WriterFields ==
  ASSUME HermesInv, NEW p \in Instances, worker[p].st = "writing"
  PROVE  /\ Writing(worker[p])
         /\ worker[p].job.number \in Nat
         /\ worker[p].job.number = ended[p] - Len(queue[p]) /\ ~idle[p]
<1>1. worker \in [Instances -> Worker] /\ QueueIsInOrder(p) /\ idle \in [Instances -> BOOLEAN]
  BY DEF HermesInv, MemoryInv
<1> QED BY <1>1 DEF QueueIsInOrder, Writing

(* The ledger refuses no call of a thread, unless the log is damaged. *)
LEMMA NeverRefused ==
  ASSUME DelayInv, HermesInv, ~spoiled, NEW p \in Instances, worker[p].st = "writing",
         \A r \in CallsOf(View, worker[p]) : NewRun(View) \in Runs \/ r.type = "delay_run_finish"
  PROVE  \E r \in CallsOf(View, worker[p]) : Applies(View, r)
<1>1. Writing(worker[p])
  BY WriterFields
<1>2. TurnsAreWritten
  BY DEF HermesInv
<1>3. IsAt(p, worker[p], View, taskOf) /\ RunsAreNumbered(View)
  BY <1>2 DEF TurnsAreWritten
<1>4. PICK r \in CallsOf(View, worker[p]) : Prepared(View, r)
  BY <1>1, <1>3, CallIsPrepared
<1>5. r.run \in Runs /\ r.type \in {"delay_run_start", "delay_run_finish"}
  <2>1. r.run \in Runs
    BY <1>1, <1>3, CallIsRequest
  <2> QED BY <1>1, <2>1, CallTypes
<1>6. Agrees(Seen, View)
  BY SeenAgrees
<1>7. ~KnownOperation(r)
  BY <1>4, <1>5, <1>6, PreparedIsNew DEF KnownOperation
<1>8. Healthy
  BY DEF Healthy, DelayInv
<1> QED BY <1>4, <1>7, <1>8 DEF Applies

(* So a refusal tells of a damaged log. *)
LEMMA RefusedStep ==
  ASSUME DelayInv, HermesInv, NEW p \in Instances, WorkerIsRefused(p)
  PROVE  HermesInv'
<1>1. Folded(p) = View
  BY FoldedIsView
<1>2. /\ worker[p].st = "writing"
      /\ \A r \in CallsOf(View, worker[p]) :
           (NewRun(View) \in Runs \/ r.type = "delay_run_finish") /\ ~Applies(View, r)
      /\ worker' = [worker EXCEPT ![p] = Ready]
      /\ UNCHANGED <<log, view, tail, spoiled, turns, ended, queue, idle, taskOf>>
  BY <1>1 DEF WorkerIsRefused
<1>3. spoiled
  BY <1>2, NeverRefused
<1>4. /\ turns \in [Instances -> [Turns -> SUBSET Phases]] /\ ended \in [Instances -> Nat]
      /\ queue \in [Instances -> Seq(Job)] /\ idle \in [Instances -> BOOLEAN]
      /\ worker \in [Instances -> Worker]
      /\ taskOf \in [Runs -> (Instances \X Nat) \union {None}]
      /\ \A q \in Instances : QueueIsInOrder(q)
  BY DEF HermesInv, MemoryInv
<1>5. /\ worker' \in [Instances -> Worker] /\ worker'[p] = Ready
      /\ \A q \in Instances : q # p => worker'[q] = worker[q]
  BY <1>2, <1>4, IdleWorkers
<1>6. Ready.st # "writing" /\ ~idle[p]
  BY <1>2, <1>4, IdleWorkers DEF QueueIsInOrder
<1>7. QueueIsInOrder(p)'
  BY <1>2, <1>4, <1>5, <1>6 DEF QueueIsInOrder
<1>8. \A q \in Instances : QueueIsInOrder(q)'
  BY <1>2, <1>4, <1>5, <1>7, OrderStays
<1>9. MemoryInv'
  BY <1>2, <1>4, <1>5, <1>8 DEF MemoryInv
<1> QED BY <1>2, <1>3, <1>9 DEF HermesInv

(* A refusal only refreshes a cache. *)
LEMMA RefusedKeepsLedger ==
  ASSUME DelayInv, NEW p \in Instances, WorkerIsRefused(p)
  PROVE  DelayInv'
<1>1. Consult(p)
  BY DEF WorkerIsRefused, Consult
<1> QED BY <1>1, ConsultStep

(* An exit only drops a cache. *)
LEMMA EndsKeepsLedger ==
  ASSUME DelayInv, NEW p \in Instances, Ends(p)
  PROVE  DelayInv'
<1>1. /\ log' = log /\ view' = view /\ tail' = tail /\ spoiled' = spoiled
      /\ rejected' = rejected /\ tears' = tears /\ restores' = restores
      /\ cache' = [cache EXCEPT ![p] = NoCache]
  BY DEF Ends
<1>2. CacheAgrees(NoCache, log, restores)
  BY NoCacheAgrees
<1>3. NoCache \in Cache
  BY <1>2 DEF CacheAgrees
<1>4. /\ cache' \in [Instances -> Cache]
      /\ \A j \in Instances : CacheAgrees(cache'[j], log', restores')
  BY <1>1, <1>2, <1>3 DEF DelayInv
<1>5. Open' => OpenIsValid'
  BY <1>1 DEF DelayInv, Open, OpenIsValid
<1> QED BY <1>1, <1>4, <1>5 DEF DelayInv

(* A step that touches no file and no cache. *)
LEMMA LedgerUntouched ==
  ASSUME DelayInv, UNCHANGED ledger
  PROVE  DelayInv'
<1>1. /\ log' = log /\ view' = view /\ tail' = tail /\ spoiled' = spoiled
      /\ rejected' = rejected /\ tears' = tears /\ restores' = restores /\ cache' = cache
  BY DEF ledger
<1>2. Open' => OpenIsValid'
  BY <1>1 DEF DelayInv, Open, OpenIsValid
<1> QED BY <1>1, <1>2 DEF DelayInv

-----------------------------------------------------------------------------
(* What a call writes *)

(* A line, whole or in part *)
WroteWhole(e) == /\ tears' = tears /\ View = view /\ view' = Feed(view, e) /\ View' = view'
WrotePart(e) == /\ tears' # tears /\ view' = view
                /\ View' = view \/ (View = view /\ View' = Feed(view, e))
IsWritten(r, e) == /\ e \in Line /\ e.req = r /\ e.seq # 0 /\ Prepared(View, r)
                   /\ ~spoiled /\ (~spoiled' => WroteWhole(e) \/ WrotePart(e))
                   /\ tears' # tears => WrotePart(e)

(* A call that applies writes its line, whole or in part, in a sound log. *)
LEMMA WriteEffect ==
  ASSUME DelayInv, NEW i \in Instances, NEW r \in Request, Write(i, View, r)
  PROVE  IsWritten(r, LineOf(View, r))
<1> DEFINE e == LineOf(View, r)
<1>1. /\ log \in Seq(Line) /\ tail \in Line \union {Clean, Torn}
      /\ tears \in Nat /\ restores \in Nat
  BY DEF DelayInv
<1>2. /\ Prepared(View, r) /\ ~KnownOperation(r) /\ ~spoiled
      /\ WriteWhole(e) \/ WriteTorn(e)
  BY DEF Write, Applies, Healthy
<1>3. Seen \in Seq(Line) /\ View \in Views
  BY SeenAgrees DEF Agrees
<1>4. /\ e \in Line /\ FeedValid(View, e) /\ e.req = r /\ e.seq = Len(Seen) + 1
  <2>1. Len(Seen) \in Nat
    BY <1>3
  <2> QED BY <1>1, <1>2, <1>3, <2>1, LineIsWritten
<1>5. ReplayValid(Seen, View, e)
  BY <1>2, <1>4 DEF ReplayValid, KnownOperation
<1>6. e.seq # 0
  BY <1>3, <1>4
<1> HIDE DEF e
<1>7. tail = Clean => ReplayValid(log, view, e) /\ View = view
  BY <1>5 DEF Seen, View, OpenIsValid, Open
<1>8. tail' \in {Clean, Torn} => View' = view'
  BY DEF View, OpenIsValid, Open
<1>9. View' = view' \/ View' = Feed(view', tail')
  BY DEF View
<1>10. CASE WriteWhole(e)
  <2>1. tears' = tears /\ tail' = Clean
    BY <1>10 DEF WriteWhole
  <2>2. ASSUME ~spoiled' PROVE WroteWhole(e)
    <3>1. tail = Clean
      BY <1>10, <2>2 DEF WriteWhole
    <3>2. view' = Feed(view, e)
      BY <1>7, <1>10, <3>1 DEF WriteWhole
    <3> QED BY <1>7, <1>8, <2>1, <3>1, <3>2 DEF WroteWhole
  <2> QED BY <1>2, <1>4, <1>6, <2>1, <2>2 DEF IsWritten, e
<1>11. CASE WriteTorn(e)
  <2>1. /\ tears' = tears + 1 /\ view' = view
        /\ tail' = Torn \/ (tail = Clean /\ tail' = e)
    BY <1>11 DEF WriteTorn
  <2>2. tears' # tears
    BY <1>1, <2>1
  <2>3. View' = view \/ (View = view /\ View' = Feed(view, e))
    BY <1>7, <1>8, <1>9, <2>1
  <2>4. WrotePart(e)
    BY <2>1, <2>2, <2>3 DEF WrotePart
  <2> QED BY <1>2, <1>4, <1>6, <2>4 DEF IsWritten, e
<1> QED BY <1>2, <1>10, <1>11

(* A call whose line is torn: the turn is given up, the run may be there. *)
LEMMA TornStep ==
  ASSUME HermesInv, NEW p \in Instances, worker[p].st = "writing",
         View \in Views, ClosesInwards(View),
         NEW r \in CallsOf(View, worker[p]), NewRun(View) \in Runs \/ r.type = "delay_run_finish",
         NEW e, IsWritten(r, e), WrotePart(e),
         UNCHANGED <<turns, ended, queue, idle, taskOf>>,
         worker' = [worker EXCEPT ![p] = Ready], GivesUp(p, Current(p))
  PROVE  HermesInv'
<1> DEFINE w == worker[p]
<1>1. /\ turns \in [Instances -> [Turns -> SUBSET Phases]] /\ ended \in [Instances -> Nat]
      /\ queue \in [Instances -> Seq(Job)] /\ idle \in [Instances -> BOOLEAN]
      /\ worker \in [Instances -> Worker]
      /\ taskOf \in [Runs -> (Instances \X Nat) \union {None}]
      /\ \A q \in Instances : QueueIsInOrder(q)
  BY DEF HermesInv, MemoryInv
<1>2. /\ worker' \in [Instances -> Worker] /\ worker'[p] = Ready
      /\ \A q \in Instances : q # p => worker'[q] = worker[q]
  BY <1>1, IdleWorkers
<1>3. Ready.st # "writing" /\ ~idle[p]
  BY <1>1, IdleWorkers DEF QueueIsInOrder
<1>4. QueueIsInOrder(p)'
  BY <1>1, <1>2, <1>3 DEF QueueIsInOrder
<1>5. \A q \in Instances : QueueIsInOrder(q)'
  BY <1>1, <1>2, <1>4, OrderStays
<1>6. MemoryInv'
  BY <1>1, <1>2, <1>5 DEF MemoryInv
<1>7. lost' = lost \union ({p} \X Current(p))
  BY DEF GivesUp
<1>8. ~spoiled /\ TurnsAreWritten
  BY DEF IsWritten, HermesInv
<1>9. /\ RunsAreNumbered(view) /\ RunsAreNumbered(View)
      /\ \A q \in Instances : IsAt(q, worker[q], view, taskOf) /\ IsAt(q, worker[q], View, taskOf)
  BY <1>8 DEF TurnsAreWritten
<1>10. Writing(w)
  BY WriterFields
<1>11. Moves(w, View, Feed(View, e), r)
  <2>1. IsAt(p, w, View, taskOf) /\ e \in Line /\ e.req = r /\ e.seq # 0 /\ Prepared(View, r)
    BY <1>9 DEF IsWritten
  <2> HIDE DEF w
  <2>2. Moves(w, View, Feed(View, e), r)
    BY <1>9, <1>10, <2>1, CallMoves DEF w
  <2> QED BY <2>2 DEF w
<1>12. view' = view /\ (View' = view \/ (View = view /\ View' = Feed(View, e)))
  BY DEF WrotePart
<1>13. ASSUME NEW q \in Instances PROVE IsAt(q, worker[q], View, taskOf)'
  <2>1. CASE q = p
    BY <1>2, <1>3, <2>1 DEF IsAt
  <2>2. CASE q # p
    <3> DEFINE z == worker[q]
               V == View'
    <3>1. worker'[q] = z /\ taskOf' = taskOf
      BY <1>2, <2>2
    <3>2. IsAt(q, z, V, taskOf)
      <4>1. CASE View' = view
        <5>1. IsAt(q, z, view, taskOf)
          BY <1>9
        <5> QED BY <4>1, <5>1
      <4>2. CASE View' = Feed(View, e)
        <5>1. IsAt(q, z, View, taskOf) /\ IsAt(p, w, View, taskOf)
          BY <1>9
        <5>2. Moves(w, View, Feed(View, e), r)
          BY <1>11
        <5> HIDE DEF w, z
        <5>3. IsAt(q, z, Feed(View, e), taskOf)
          BY <1>10, <2>2, <5>1, <5>2, OthersUndisturbed DEF w
        <5> QED BY <4>2, <5>3
      <4> QED BY <1>12, <4>1, <4>2
    <3> QED BY <3>1, <3>2 DEF IsAt, OpenChildren, Started, Finished
  <2> QED BY <2>1, <2>2
<1>14. RunsAreNumbered(View)'
  <2>1. RunsAreNumbered(Feed(View, e))
    BY <1>9, <1>11, NumbersStay
  <2>2. CASE View' = view
    BY <1>9, <2>2 DEF RunsAreNumbered, Started
  <2>3. CASE View' = Feed(View, e)
    BY <2>1, <2>3 DEF RunsAreNumbered, Started
  <2> QED BY <1>12, <2>2, <2>3
<1>15. Queued(p)' = Queued(p)
  BY DEF Queued
<1>16. ASSUME NEW q \in Instances, q # p
       PROVE  Queued(q)' = Queued(q) /\ Current(q)' = Current(q)
  BY <1>2, <1>16 DEF Queued, Current
<1>17. ASSUME NEW q \in Instances, NEW n \in 1 .. ended'[q]
       PROVE \/ n \in (Queued(q) \union Current(q))' \/ <<q, n>> \in lost'
             \/ n \in 1 .. ended[q] /\ n \notin Queued(q) \union Current(q)
  <2>1. CASE q = p
    BY <1>7, <1>15, <2>1
  <2>2. CASE q # p
    BY <1>16, <2>2
  <2> QED BY <2>1, <2>2
<1>18. lost \subseteq lost'
       /\ \A q \in Instances : worker'[q] = worker[q] \/ worker'[q].st # "writing"
  BY <1>2, <1>3, <1>7
<1>19. TurnsAreWritten'
  BY <1>8, <1>12, <1>13, <1>14, <1>17, <1>18, TurnsStayAccounted
<1> QED BY <1>6, <1>19 DEF HermesInv

-----------------------------------------------------------------------------
(* A call that is answered *)

(* The thread after it, its types and its place *)
LEMMA AdvancedWorker ==
  ASSUME NEW w, Writing(w), NEW r, r.run \in Runs
  PROVE  /\ Advanced(w, r) \in Worker
         /\ w.step = Steps(w.job) => Advanced(w, r).st = "ready"
         /\ w.step # Steps(w.job) =>
              /\ Advanced(w, r).job = w.job
              /\ Advanced(w, r).step \in 1 .. Steps(w.job)
<1>1. w \in Worker /\ w.job \in Job /\ w.step \in 1 .. Steps(w.job) /\ w.st = "writing"
  BY DEF Writing
<1>2. CASE w.step = Steps(w.job)
  BY <1>2, IdleWorkers DEF Advanced
<1>3. CASE w.step # Steps(w.job)
  <2> DEFINE z == Advanced(w, r)
             run == IF w.step = 1 THEN r.run ELSE w.run
             phase == IF r.type = "delay_run_start" THEN r.run ELSE w.phase
  <2>1. w = [st |-> w.st, job |-> w.job, step |-> w.step, run |-> w.run, phase |-> w.phase]
    BY <1>1 DEF Worker
  <2>2. z = [st |-> w.st, job |-> w.job, step |-> w.step + 1, run |-> run, phase |-> phase]
    BY <1>3, <2>1 DEF Advanced
  <2>3. run \in Runs \union {0} /\ phase \in Runs \union {0}
    BY <1>1 DEF Worker
  <2>4. Steps(w.job) \in Nat
    BY <1>1, StepsAreEven
  <2>5. w.step + 1 \in Nat /\ w.step + 1 \in 1 .. Steps(w.job)
    BY <1>1, <1>3, <2>4
  <2> HIDE DEF run, phase, z
  <2>6. z \in Worker
    BY <1>1, <2>2, <2>3, <2>5 DEF Worker
  <2>7. z.job = w.job /\ z.step = w.step + 1
    BY <2>2
  <2> QED BY <1>3, <2>5, <2>6, <2>7 DEF z
<1> QED BY <1>2, <1>3

(* The turn that is written after a call *)
Marked(p, w, r) == IF w.step = 1 THEN [taskOf EXCEPT ![r.run] = <<p, w.job.number>>] ELSE taskOf

(* The first call of a turn marks the new run as its task. *)
LEMMA MarkedTurns ==
  ASSUME taskOf \in [Runs -> (Instances \X Nat) \union {None}], NEW p \in Instances,
         NEW w, w.job.number \in Nat, NEW r, r.run \in Runs
  PROVE  /\ Marked(p, w, r) \in [Runs -> (Instances \X Nat) \union {None}]
         /\ Marks(p, w, r, taskOf, Marked(p, w, r))
         /\ \A k \in Runs : k # r.run => Marked(p, w, r)[k] = taskOf[k]
         /\ w.step # 1 => Marked(p, w, r) = taskOf
         /\ w.step = 1 => Marked(p, w, r)[r.run] = <<p, w.job.number>>
<1>1. CASE w.step = 1
  <2>1. Marked(p, w, r) = [taskOf EXCEPT ![r.run] = <<p, w.job.number>>]
    BY <1>1 DEF Marked
  <2> QED BY <1>1, <2>1 DEF Marks
<1>2. CASE w.step # 1
  BY <1>2 DEF Marked, Marks
<1> QED BY <1>1, <1>2

(* What ended before the turn a thread writes is not queued any more. *)
LEMMA EarlierTurns ==
  ASSUME HermesInv, NEW p \in Instances, worker[p].st = "writing",
         NEW n \in 1 .. worker[p].job.number - 1
  PROVE  n \in 1 .. ended[p] /\ n \notin Queued(p) \union Current(p)
<1> DEFINE k == worker[p].job.number
           s == queue[p]
           m == ended[p]
<1>1. k \in Nat /\ k = m - Len(s)
  BY WriterFields
<1>2. m \in Nat /\ s \in Seq(Job) /\ QueueIsInOrder(p)
  BY DEF HermesInv, MemoryInv
<1>3. /\ \A j \in DOMAIN s : s[j].number = m - Len(s) + j
      /\ Len(s) \in Nat /\ DOMAIN s = 1 .. Len(s)
  BY <1>2 DEF QueueIsInOrder
<1>4. Current(p) = {k}
  BY DEF Current
<1>5. n \in 1 .. k - 1
  OBVIOUS
<1> HIDE DEF k, m
<1>6. n \in 1 .. m
  BY <1>1, <1>2, <1>3, <1>5
<1>7. \A j \in DOMAIN s : s[j].number # n
  <2> SUFFICES ASSUME NEW j \in DOMAIN s PROVE s[j].number # n
    OBVIOUS
  <2>1. s[j].number = m - Len(s) + j /\ j \in 1 .. Len(s)
    BY <1>3
  <2> QED BY <1>1, <1>2, <1>3, <1>5, <2>1
<1>8. n \notin Queued(p)
  BY <1>7 DEF Queued
<1>9. n \notin Current(p)
  BY <1>1, <1>4, <1>5
<1> QED BY <1>6, <1>8, <1>9 DEF m

(* A call that is answered: the thread, its tree and its turn move on together. *)
LEMMA WholeStep ==
  ASSUME HermesInv, NEW p \in Instances, worker[p].st = "writing",
         View \in Views, ClosesInwards(View),
         NEW r \in CallsOf(View, worker[p]), NewRun(View) \in Runs \/ r.type = "delay_run_finish",
         r.run \in Runs,
         NEW e, IsWritten(r, e), ~spoiled' => WroteWhole(e),
         UNCHANGED <<turns, ended, queue, idle, lost>>,
         worker' = [worker EXCEPT ![p] = Advanced(worker[p], r)],
         taskOf' = Marked(p, worker[p], r)
  PROVE  HermesInv'
<1> DEFINE w == worker[p]
           u == Feed(View, e)
           of == taskOf'
<1>1. /\ turns \in [Instances -> [Turns -> SUBSET Phases]] /\ ended \in [Instances -> Nat]
      /\ queue \in [Instances -> Seq(Job)] /\ idle \in [Instances -> BOOLEAN]
      /\ worker \in [Instances -> Worker]
      /\ taskOf \in [Runs -> (Instances \X Nat) \union {None}]
      /\ \A q \in Instances : QueueIsInOrder(q)
  BY DEF HermesInv, MemoryInv
<1>2. Writing(w) /\ w.job.number \in Nat /\ w.job.number = ended[p] - Len(queue[p]) /\ ~idle[p]
  BY WriterFields
<1>3. /\ Advanced(w, r) \in Worker
      /\ w.step = Steps(w.job) => Advanced(w, r).st = "ready"
      /\ w.step # Steps(w.job) =>
           /\ Advanced(w, r).job = w.job
           /\ Advanced(w, r).step \in 1 .. Steps(w.job)
  <2> HIDE DEF w
  <2> QED BY <1>2, AdvancedWorker
<1>4. /\ worker' \in [Instances -> Worker] /\ worker'[p] = Advanced(w, r)
      /\ \A q \in Instances : q # p => worker'[q] = worker[q]
  BY <1>1, <1>3
<1>5. /\ of \in [Runs -> (Instances \X Nat) \union {None}]
      /\ Marks(p, w, r, taskOf, of)
      /\ \A k \in Runs : k # r.run => of[k] = taskOf[k]
      /\ w.step # 1 => of = taskOf
      /\ w.step = 1 => of[r.run] = <<p, w.job.number>>
  <2> HIDE DEF w
  <2> QED BY <1>1, <1>2, MarkedTurns DEF w
<1>6. w.job \in Job
  BY <1>2 DEF Writing
<1>7. QueueIsInOrder(p)'
  <2>1. worker'[p].st = "writing" =>
          /\ worker'[p].job = w.job /\ worker'[p].step \in 1 .. Steps(w.job)
    BY <1>3, <1>4
  <2>2. \A j \in DOMAIN queue'[p] : queue'[p][j].number = ended'[p] - Len(queue'[p]) + j
    BY <1>1 DEF QueueIsInOrder
  <2> QED BY <1>2, <1>6, <2>1, <2>2 DEF QueueIsInOrder, Steps
<1>8. \A q \in Instances : QueueIsInOrder(q)'
  BY <1>1, <1>4, <1>7, OrderStays
<1>9. MemoryInv'
  BY <1>1, <1>4, <1>5, <1>8 DEF MemoryInv
<1>10. ASSUME ~spoiled' PROVE TurnsAreWritten'
  <2>1. TurnsAreWritten
    BY DEF IsWritten, HermesInv
  <2>2. /\ RunsAreNumbered(View)
        /\ \A q \in Instances : IsAt(q, worker[q], View, taskOf)
        /\ \A q \in Instances : \A n \in 1 .. ended[q] :
             n \in Queued(q) \union Current(q) \/ <<q, n>> \in lost \/ DoneIn(view, taskOf, q, n)
        /\ \A q \in Instances : \A k \in Runs : taskOf[k] # None /\ taskOf[k][1] = q =>
             \A n \in 1 .. taskOf[k][2] - 1 : <<q, n>> \in lost \/ DoneIn(view, taskOf, q, n)
    BY <2>1 DEF TurnsAreWritten
  <2>3. View = view /\ view' = u /\ View' = u
    BY <1>10 DEF WroteWhole
  <2>4. Moves(w, View, u, r)
    <3>1. /\ IsAt(p, w, View, taskOf) /\ RunsAreNumbered(View)
          /\ e \in Line /\ e.req = r /\ e.seq # 0 /\ Prepared(View, r)
      BY <2>2 DEF IsWritten
    <3> HIDE DEF w
    <3> QED BY <1>2, <3>1, CallMoves DEF w
  <2>5. RunsAreNumbered(u)
    BY <2>2, <2>4, NumbersStay
  <2>6. ASSUME NEW q \in Instances PROVE IsAt(q, worker'[q], u, of)
    <3>1. CASE q = p /\ w.step = Steps(w.job)
      <4>1. worker'[q].st # "writing"
        BY <1>3, <1>4, <3>1
      <4> QED BY <4>1 DEF IsAt
    <3>2. CASE q = p /\ w.step # Steps(w.job)
      <4>1. IsAt(p, w, View, taskOf)
        BY <2>2
      <4>2. IsAt(p, Advanced(w, r), u, of)
        BY <1>2, <1>5, <2>4, <3>2, <4>1, Advances
      <4> QED BY <1>4, <3>2, <4>2
    <3>3. CASE q # p
      <4> DEFINE z == worker[q]
      <4>1. IsAt(q, z, View, taskOf) /\ IsAt(p, w, View, taskOf)
        BY <2>2
      <4> HIDE DEF w, z, u, of
      <4>2. IsAt(q, z, u, of)
        BY <1>2, <1>5, <2>4, <3>3, <4>1, OthersUndisturbed
      <4> QED BY <1>4, <3>3, <4>2 DEF z
    <3> QED BY <3>1, <3>2, <3>3
  <2>7. ASSUME NEW q, NEW n, DoneIn(view, taskOf, q, n)
        PROVE  DoneIn(u, of, q, n)
    <3> HIDE DEF w, u, of
    <3> QED BY <1>5, <2>3, <2>4, <2>7, DoneStays
  <2>8. w.step = Steps(w.job) => DoneIn(u, of, p, w.job.number)
    <3> SUFFICES ASSUME w.step = Steps(w.job) PROVE DoneIn(u, of, p, w.job.number)
      OBVIOUS
    <3>1. IsAt(p, w, View, taskOf)
      BY <2>2
    <3>2. w.step # 1
      BY <2>4 DEF Moves, EndsTask
    <3> HIDE DEF w, u, of
    <3>3. DoneIn(u, taskOf, p, w.job.number)
      BY <1>2, <2>4, <3>1, LastCallIsDone
    <3> QED BY <1>5, <3>2, <3>3
  <2>9. ASSUME NEW q \in Instances
        PROVE  /\ Queued(q)' = Queued(q)
               /\ Current(q) \subseteq Current(q)' \/ (q = p /\ w.step = Steps(w.job))
    <3>1. Queued(q)' = Queued(q)
      BY DEF Queued
    <3>2. CASE q # p
      BY <1>4, <3>1, <3>2 DEF Current
    <3>3. CASE q = p /\ w.step # Steps(w.job)
      <4>1. worker'[q].st = "writing" /\ worker'[q].job = w.job
        BY <1>2, <1>4, <3>3, AdvancedFields
      <4> QED BY <3>1, <3>3, <4>1 DEF Current
    <3> QED BY <3>1, <3>2, <3>3
  <2>10. Current(p) = {w.job.number}
    BY DEF Current
  <2>11. ASSUME NEW q \in Instances, NEW n \in 1 .. ended'[q]
         PROVE  \/ n \in (Queued(q) \union Current(q))' \/ <<q, n>> \in lost'
                \/ DoneIn(u, of, q, n)
    <3>1. \/ n \in Queued(q) \union Current(q) \/ <<q, n>> \in lost
          \/ DoneIn(view, taskOf, q, n)
      BY <2>2
    <3>2. CASE <<q, n>> \in lost \/ DoneIn(view, taskOf, q, n)
      BY <2>7, <3>2
    <3>3. CASE n \in Queued(q)
      BY <2>9, <3>3
    <3>4. CASE n \in Current(q)
      <4>1. CASE q = p /\ w.step = Steps(w.job)
        BY <2>8, <2>10, <3>4, <4>1
      <4>2. CASE ~(q = p /\ w.step = Steps(w.job))
        BY <2>9, <3>4, <4>2
      <4> QED BY <4>1, <4>2
    <3> QED BY <3>1, <3>2, <3>3, <3>4
  <2>12. ASSUME NEW q \in Instances, NEW k \in Runs, of[k] # None /\ of[k][1] = q,
                NEW n \in 1 .. of[k][2] - 1
         PROVE  <<q, n>> \in lost' \/ DoneIn(u, of, q, n)
    <3>1. CASE of[k] = taskOf[k]
      <4>1. <<q, n>> \in lost \/ DoneIn(view, taskOf, q, n)
        BY <2>2, <2>12, <3>1
      <4> QED BY <2>7, <4>1
    <3>2. CASE of[k] # taskOf[k]
      <4>1. of[k] = <<p, w.job.number>>
        BY <1>5, <3>2
      <4>2. q = p /\ n \in 1 .. w.job.number - 1
        BY <2>12, <4>1
      <4>3. n \in 1 .. ended[p] /\ n \notin Queued(p) \union Current(p)
        BY <4>2, EarlierTurns
      <4>4. <<q, n>> \in lost \/ DoneIn(view, taskOf, q, n)
        BY <2>2, <4>2, <4>3
      <4> QED BY <2>7, <4>4
    <3> QED BY <3>1, <3>2
  <2>13. RunsAreNumbered(view)' /\ RunsAreNumbered(View)'
    BY <2>3, <2>5 DEF RunsAreNumbered, Started
  <2>14. ASSUME NEW q \in Instances
         PROVE  IsAt(q, worker[q], view, taskOf)' /\ IsAt(q, worker[q], View, taskOf)'
    <3>1. IsAt(q, worker'[q], view', taskOf') /\ IsAt(q, worker'[q], View', taskOf')
      BY <2>3, <2>6
    <3> QED BY <3>1 DEF IsAt, OpenChildren, Started, Finished
  <2>15. ASSUME NEW q \in Instances, NEW n
         PROVE  DoneIn(u, of, q, n) => DoneIn(view, taskOf, q, n)'
    BY <2>3 DEF DoneIn, Finished, Started
  <2> QED BY <2>11, <2>12, <2>13, <2>14, <2>15 DEF TurnsAreWritten
<1> QED BY <1>9, <1>10 DEF HermesInv

(* Every call that applies keeps both invariants. *)
LEMMA WorkerWritesStep ==
  ASSUME DelayInv, HermesInv, NEW p \in Instances, WorkerWrites(p)
  PROVE  DelayInv' /\ HermesInv'
<1> DEFINE w == worker[p]
<1>1. Folded(p) = View
  BY FoldedIsView
<1>2. w.st = "writing" /\ UNCHANGED <<turns, ended, queue, idle>>
  BY DEF WorkerWrites
<1>3. PICK r \in CallsOf(View, w) :
        /\ NewRun(View) \in Runs \/ r.type = "delay_run_finish"
        /\ Write(p, View, r)
        /\ IF tears' = tears
           THEN /\ worker' = [worker EXCEPT ![p] = Advanced(@, r)]
                /\ taskOf' = IF worker[p].step = 1
                             THEN [taskOf EXCEPT ![r.run] = <<p, worker[p].job.number>>]
                             ELSE taskOf
                /\ UNCHANGED lost
           ELSE /\ worker' = [worker EXCEPT ![p] = Ready]
                /\ GivesUp(p, Current(p))
                /\ UNCHANGED taskOf
  BY <1>1 DEF WorkerWrites
<1>4. ~spoiled
  BY <1>3 DEF Write, Applies, Healthy
<1>5. IsAt(p, w, View, taskOf)
  BY <1>4 DEF HermesInv, TurnsAreWritten
<1>6. Writing(w)
  BY <1>2, WriterFields
<1>7. r \in Request /\ r.run \in Runs
  <2> HIDE DEF w
  <2> QED BY <1>3, <1>5, <1>6, CallIsRequest
<1>8. DelayInv'
  BY <1>3, <1>7, WriteStep
<1>9. View \in Views /\ ClosesInwards(View)
  BY SeenAgrees DEF Agrees
<1> DEFINE e == LineOf(View, r)
<1>10. IsWritten(r, e)
  BY <1>3, <1>7, WriteEffect
<1> HIDE DEF e
<1>11. CASE tears' = tears
  <2>1. /\ worker' = [worker EXCEPT ![p] = Advanced(w, r)]
        /\ taskOf' = Marked(p, w, r) /\ lost' = lost
    BY <1>3, <1>11 DEF Marked
  <2>2. ~spoiled' => WroteWhole(e)
    BY <1>10, <1>11 DEF IsWritten, WrotePart
  <2>3. HermesInv'
    BY <1>2, <1>3, <1>7, <1>9, <1>10, <2>1, <2>2, WholeStep
  <2> QED BY <1>8, <2>3
<1>12. CASE tears' # tears
  <2>1. /\ worker' = [worker EXCEPT ![p] = Ready] /\ GivesUp(p, Current(p))
        /\ taskOf' = taskOf
    BY <1>3, <1>12
  <2>2. WrotePart(e)
    BY <1>10, <1>12 DEF IsWritten
  <2>3. HermesInv'
    BY <1>2, <1>3, <1>9, <1>10, <2>1, <2>2, TornStep
  <2> QED BY <1>8, <2>3
<1> QED BY <1>11, <1>12

-----------------------------------------------------------------------------
(* The invariant *)

(* The invariant holds when nothing has happened. *)
LEMMA InitHermesInv == HInit => DelayInv /\ HermesInv
<1> SUFFICES ASSUME HInit PROVE DelayInv /\ HermesInv
  OBVIOUS
<1>1. /\ Init /\ turns = [p \in Instances |-> [t \in Turns |-> {}]]
      /\ ended = [p \in Instances |-> 0] /\ queue = [p \in Instances |-> <<>>]
      /\ idle = [p \in Instances |-> TRUE] /\ worker = [p \in Instances |-> NoWorker]
      /\ taskOf = [r \in Runs |-> None]
  BY DEF HInit
<1>2. DelayInv
  BY <1>1, InitDelayInv
<1>3. NoWorker \in Worker /\ NoWorker.st = "none"
  BY IdleWorkers
<1>4. \A p \in Instances : QueueIsInOrder(p)
  BY <1>1, <1>3 DEF QueueIsInOrder
<1>5. MemoryInv
  BY <1>1, <1>3, <1>4 DEF MemoryInv
<1>6. view = EmptyView /\ View = view
  BY <1>1 DEF Init, View, OpenIsValid, Open
<1>7. \A r \in Runs : ~Started(view, r)
  BY <1>6 DEF EmptyView, Started
<1>8. RunsAreNumbered(view)
  <2>1. 0 \in 0 .. MaxRuns /\ 1 .. 0 = {}
    BY DelayAssumption
  <2>2. {r \in Runs : Started(view, r)} = {}
    BY <1>7
  <2> QED BY <2>1, <2>2 DEF RunsAreNumbered
<1>9. \A p \in Instances : IsAt(p, worker[p], view, taskOf) /\ ended[p] = 0
  BY <1>1, <1>3 DEF IsAt
<1>10. \A r \in Runs : taskOf[r] = None
  BY <1>1
<1>11. TurnsAreWritten
  BY <1>6, <1>8, <1>9, <1>10 DEF TurnsAreWritten
<1> QED BY <1>2, <1>5, <1>11 DEF HermesInv

(* Every step keeps it. *)
LEMMA NextHermesInv == DelayInv /\ HermesInv /\ [HNext]_hvars => DelayInv' /\ HermesInv'
<1> SUFFICES ASSUME DelayInv, HermesInv, [HNext]_hvars
             PROVE  DelayInv' /\ HermesInv'
  OBVIOUS
<1>1. ASSUME NEW p \in Instances, NEW t \in Turns, TurnStart(p, t)
      PROVE  DelayInv' /\ HermesInv'
  <2>1. UNCHANGED ledger
    BY <1>1 DEF TurnStart
  <2> QED BY <1>1, <2>1, LedgerUntouched, TurnStartStep
<1>2. ASSUME NEW p \in Instances, NEW t \in Turns, TurnProgress(p, t)
      PROVE  DelayInv' /\ HermesInv'
  <2>1. UNCHANGED ledger
    BY <1>2 DEF TurnProgress
  <2> QED BY <1>2, <2>1, LedgerUntouched, TurnProgressStep
<1>3. ASSUME NEW p \in Instances, NEW t \in Turns, TurnFinish(p, t)
      PROVE  DelayInv' /\ HermesInv'
  <2>1. UNCHANGED ledger
    BY <1>3 DEF TurnFinish
  <2> QED BY <1>3, <2>1, LedgerUntouched, TurnFinishStep
<1>4. ASSUME NEW p \in Instances, Shutdown(p)
      PROVE  DelayInv' /\ HermesInv'
  <2>1. UNCHANGED ledger
    BY <1>4 DEF Shutdown
  <2> QED BY <1>4, <2>1, LedgerUntouched, ShutdownStep
<1>5. ASSUME NEW p \in Instances, ShutdownDrained(p) \/ ShutdownTimesOut(p) \/ Kill(p)
      PROVE  DelayInv' /\ HermesInv'
  <2>1. Ends(p)
    BY <1>5 DEF ShutdownDrained, ShutdownTimesOut, Kill
  <2> QED BY <2>1, EndsKeepsLedger, EndsStep
<1>6. ASSUME NEW p \in Instances, WorkerTakes(p)
      PROVE  DelayInv' /\ HermesInv'
  <2>1. UNCHANGED ledger
    BY <1>6 DEF WorkerTakes
  <2> QED BY <1>6, <2>1, LedgerUntouched, WorkerTakesStep
<1>7. ASSUME NEW p \in Instances, WorkerIsRefusedBusy(p)
      PROVE  DelayInv' /\ HermesInv'
  <2>1. UNCHANGED ledger
    BY <1>7 DEF WorkerIsRefusedBusy
  <2> QED BY <1>7, <2>1, LedgerUntouched, RefusedBusyStep
<1>8. CASE UNCHANGED hvars
  <2>1. /\ UNCHANGED ledger /\ UNCHANGED <<ledger, ended, queue, idle, worker, taskOf, lost>>
        /\ turns' = turns
    BY <1>8 DEF hvars
  <2>2. turns' \in [Instances -> [Turns -> SUBSET Phases]]
    BY <2>1 DEF HermesInv, MemoryInv
  <2> QED BY <2>1, <2>2, LedgerUntouched, OpenTurnsOnly
<1> QED BY <1>1, <1>2, <1>3, <1>4, <1>5, <1>6, <1>7, <1>8, WorkerWritesStep, RefusedStep,
           RefusedKeepsLedger DEF HNext

(* What ended in the log ended, whatever follows the last end of line. *)
LEMMA ViewKeepsEnds ==
  ASSUME DelayInv, NEW r \in Runs, Finished(view, r)
  PROVE  Finished(View, r)
<1>1. CASE ~OpenIsValid
  BY <1>1 DEF View
<1>2. CASE OpenIsValid
  <2>1. View = Feed(view, tail) /\ FeedValid(view, tail) /\ tail \in Line /\ view \in Views
    <3>1. tail \in Line /\ FeedValid(view, tail)
      BY <1>2 DEF OpenIsValid, Open, ReplayValid, DelayInv
    <3>2. view \in Views
      BY LogAgrees DEF Agrees
    <3> QED BY <1>2, <3>1, <3>2 DEF View
  <2>2. tail.req \in Request
    BY <2>1, LineFields
  <2>3. CASE tail.req.type = "delay_run_start"
    <3>1. StartFed(view, View, tail.req)
      BY <2>1, <2>3, FeedStart
    <3>2. ~Started(view, tail.req.run)
      BY <2>1, <2>3 DEF FeedValid
    <3> QED BY <3>1, <3>2 DEF StartFed, OtherRunsStay, Finished, Started
  <2>4. CASE tail.req.type = "delay_run_finish"
    <3>1. Started(view, tail.req.run) /\ ~Finished(view, tail.req.run)
      BY <2>1, <2>4 DEF FeedValid
    <3>2. FinishFed(view, View, tail)
      BY <2>1, <2>4, <3>1, FeedFinish
    <3> QED BY <3>1, <3>2 DEF FinishFed, OtherRunsStay, Finished, Started
  <2>5. CASE tail.req.type \in ChainTypes
    <3>1. EvidenceFed(view, View, tail.req)
      BY <2>1, <2>5, FeedEvidence
    <3> QED BY <3>1 DEF EvidenceFed, Finished, Started
  <2> QED BY <2>2, <2>3, <2>4, <2>5, RequestsByType
<1> QED BY <1>1, <1>2

(* The invariant is stronger than the property. *)
LEMMA TurnsRecorded == DelayInv /\ HermesInv => TurnsAreRecorded
<1> SUFFICES ASSUME DelayInv, HermesInv PROVE TurnsAreRecorded
  OBVIOUS
<1>1. IdleMeansDrained
  <2>1. \A p \in Instances : QueueIsInOrder(p)
    BY DEF HermesInv, MemoryInv
  <2> QED BY <2>1 DEF IdleMeansDrained, QueueIsInOrder
<1>2. ASSUME NEW p, NEW n, DoneIn(view, taskOf, p, n) PROVE IsDone(p, n)
  BY <1>2, ViewKeepsEnds DEF DoneIn, IsDone
<1>3. ~spoiled => TurnsAreWritten
  BY DEF HermesInv
<1>4. TurnsKeepTheirOrder
  BY <1>2, <1>3 DEF TurnsKeepTheirOrder, TurnsAreWritten
<1>5. TurnsAreLostToFaultsOnly
  BY <1>2, <1>3 DEF TurnsAreLostToFaultsOnly, TurnsAreWritten
<1> QED BY <1>1, <1>4, <1>5 DEF TurnsAreRecorded

(* Turns reach the ledger whole and in the order they ended, whatever the    *)
(* others write, however lines are torn and whenever a process ends;         *)
(* only a fault takes one (_enqueue_turn, _timing_loop, flush_timing).       *)
THEOREM TurnsAreAlwaysRecorded == HSpec => []TurnsAreRecorded
<1>1. HSpec => [](DelayInv /\ HermesInv)
  BY InitHermesInv, NextHermesInv, PTL DEF HSpec
<1> QED BY <1>1, TurnsRecorded, PTL
=============================================================================
