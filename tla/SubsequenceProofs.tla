-------------------------- MODULE SubsequenceProofs --------------------------
(***************************************************************************)
(* What the loop of Subsequences picks, for every sequence and set of      *)
(* places.  The argument goes over the turns of the loop, by the           *)
(* well-foundedness of < on the naturals.                                  *)
(***************************************************************************)
EXTENDS Subsequences, SequencesExt, TLAPS, WellFoundedInduction

(* The elements of a log are those at its places. *)
LEMMA Elements == ASSUME NEW s PROVE ToSet(s) = {s[i] : i \in DOMAIN s}
BY DEF ToSet

(* What an append adds to a log. *)
LEMMA LogsGrow ==
  ASSUME NEW X, NEW s \in Seq(X), NEW e \in X
  PROVE  /\ Append(s, e) \in Seq(X)
         /\ DOMAIN Append(s, e) = DOMAIN s \union {Len(s) + 1}
         /\ \A i \in DOMAIN s : Append(s, e)[i] = s[i]
         /\ Append(s, e)[Len(s) + 1] = e
         /\ ToSet(Append(s, e)) = ToSet(s) \union {e}
<1>1. /\ DOMAIN s = 1 .. Len(s) /\ Len(s) \in Nat
      /\ Append(s, e) \in Seq(X) /\ Len(Append(s, e)) = Len(s) + 1
      /\ DOMAIN Append(s, e) = 1 .. Len(s) + 1
      /\ \A i \in 1 .. Len(s) : Append(s, e)[i] = s[i]
      /\ Append(s, e)[Len(s) + 1] = e
  OBVIOUS
<1>2. DOMAIN Append(s, e) = DOMAIN s \union {Len(s) + 1}
  BY <1>1
<1>3. {Append(s, e)[i] : i \in DOMAIN Append(s, e)} = {s[i] : i \in DOMAIN s} \union {e}
  <2> DEFINE t == Append(s, e)
  <2> HIDE DEF t
  <2>1. {t[i] : i \in DOMAIN s \union {Len(s) + 1}} = {s[i] : i \in DOMAIN s} \union {e}
    BY <1>1 DEF t
  <2> QED BY <1>2, <2>1 DEF t
<1> QED BY <1>1, <1>2, <1>3, Elements

(* A set of naturals that is not empty has a least element. *)
LEMMA LeastNumber ==
  ASSUME NEW B \in SUBSET Nat, B # {}
  PROVE  \E l \in B : \A n \in B : l <= n
<1> DEFINE R == OpToRel(<, Nat)
<1>1. IsWellFoundedOn(R, Nat)
  BY NatLessThanWellFounded
<1>2. \A i, j \in Nat : i < j => <<i, j>> \in R
  BY DEF OpToRel
<1> HIDE DEF R
<1>3. PICK l \in B : \A j \in B : <<j, l>> \notin R
  BY <1>1, WFMin
<1>4. \A j \in B : ~(j < l)
  BY <1>2, <1>3
<1> QED BY <1>4

(* A set of naturals that has a bound, and is not empty, has a greatest element. *)
LEMMA GreatestNumber ==
  ASSUME NEW S \in SUBSET Nat, S # {}, NEW n \in Nat, \A i \in S : i < n
  PROVE  \E i \in S : \A j \in S : j <= i
<1> DEFINE B == {n - i : i \in S}
<1>1. B \in SUBSET Nat /\ B # {}
  <2>1. \A i \in S : n - i \in Nat
    OBVIOUS
  <2>2. PICK i \in S : TRUE
    OBVIOUS
  <2>3. n - i \in B
    BY <2>2
  <2> QED BY <2>1, <2>3
<1>2. PICK l \in B : \A m \in B : l <= m
  <2> HIDE DEF B
  <2> QED BY <1>1, LeastNumber
<1>3. PICK i \in S : l = n - i
  BY <1>2
<1>4. \A j \in S : j <= i
  BY <1>2, <1>3
<1> QED BY <1>4

(* Induction over the turns of a loop, on the set of turns after which something holds. *)
LEMMA TurnByTurn ==
  ASSUME NEW m \in Nat, NEW G, 0 \in G, \A n \in 0 .. m - 1 : n \in G => n + 1 \in G
  PROVE  0 .. m \subseteq G
<1> SUFFICES ASSUME NEW k \in 0 .. m, k \notin G PROVE FALSE
  OBVIOUS
<1> DEFINE B == {n \in Nat : n \notin G /\ n <= m}
<1>1. k \in B
  OBVIOUS
<1>2. PICK l \in B : \A n \in B : l <= n
  <2>1. B \in SUBSET Nat /\ B # {}
    BY <1>1
  <2> HIDE DEF B
  <2> QED BY <2>1, LeastNumber
<1>3. l # 0
  BY <1>2
<1>4. l - 1 \in 0 .. m - 1 /\ l - 1 \notin B
  BY <1>2, <1>3
<1>5. l - 1 \in G
  BY <1>4
<1> QED BY <1>2, <1>4, <1>5

(* One turn of the loop. *)
Turn(s, places, pick, n) ==
  IF n = 0 THEN <<>> ELSE IF n \in places THEN Append(pick[n - 1], s[n]) ELSE pick[n - 1]

(* The loop is a function: every number of turns has a result. *)
LEMMA PicksTurns ==
  ASSUME NEW X, NEW s \in Seq(X), NEW places
  PROVE  /\ Picks(s, places) = [n \in 0 .. Len(s) |-> Turn(s, places, Picks(s, places), n)]
<1> DEFINE Loop(k, f) == f = [n \in 0 .. k |-> Turn(s, places, f, n)]
           m == Len(s)
           G == {k \in 0 .. m : \E f : Loop(k, f)}
<1>1. m \in Nat
  OBVIOUS
<1>2. 0 \in G
  <2>1. Loop(0, [n \in 0 .. 0 |-> <<>>])
    BY DEF Turn
  <2>2. QED BY <1>1, <2>1
<1>3. ASSUME NEW n \in 0 .. m - 1, n \in G PROVE n + 1 \in G
  <2>1. PICK f : Loop(n, f)
    BY <1>3
  <2> DEFINE k == n + 1
             h == [j \in 0 .. k |-> IF j = k THEN Turn(s, places, f, k) ELSE f[j]]
  <2>2. ASSUME NEW j \in 0 .. k PROVE h[j] = Turn(s, places, h, j)
    <3>1. CASE j = k
      BY <3>1, <1>1 DEF Turn
    <3>2. CASE j # k
      <4>1. j \in 0 .. n /\ h[j] = f[j] /\ f[j] = Turn(s, places, f, j)
        BY <2>1, <3>2
      <4>2. j # 0 => h[j - 1] = f[j - 1]
        BY <3>2
      <4>3. QED BY <4>1, <4>2 DEF Turn
    <3>3. QED BY <3>1, <3>2
  <2>3. Loop(k, h)
    <3>1. h = [j \in 0 .. k |-> h[j]]
      OBVIOUS
    <3> HIDE DEF h
    <3>2. QED BY <2>2, <3>1
  <2>4. k \in 0 .. m
    BY <1>1
  <2>5. QED BY <2>3, <2>4
<1>4. m \in G
  <2> HIDE DEF G
  <2>1. 0 .. m \subseteq G
    BY <1>1, <1>2, <1>3, TurnByTurn
  <2>2. QED BY <1>1, <2>1
<1>5. PICK f : Loop(m, f)
  BY <1>4
<1>6. Picks(s, places) = CHOOSE g : Loop(m, g)
  BY DEF Picks, Turn
<1> HIDE DEF Loop
<1>7. Loop(m, Picks(s, places))
  BY <1>5, <1>6
<1>8. QED BY <1>7 DEF Loop

(* What each turn does. *)
LEMMA PicksStep ==
  ASSUME NEW X, NEW s \in Seq(X), NEW places
  PROVE  /\ Picks(s, places)[0] = <<>>
         /\ \A n \in 0 .. Len(s) - 1 :
              Picks(s, places)[n + 1] = IF n + 1 \in places THEN Append(Picks(s, places)[n], s[n + 1])
                                        ELSE Picks(s, places)[n]
<1> DEFINE P == Picks(s, places)
<1>1. P = [n \in 0 .. Len(s) |-> Turn(s, places, P, n)]
  BY PicksTurns
<1> HIDE DEF P
<1>2. \A n \in 0 .. Len(s) : P[n] = Turn(s, places, P, n)
  BY <1>1
<1>3. P[0] = <<>>
  BY <1>2 DEF Turn
<1>4. ASSUME NEW n \in 0 .. Len(s) - 1
      PROVE  P[n + 1] = IF n + 1 \in places THEN Append(P[n], s[n + 1]) ELSE P[n]
  <2>1. n + 1 \in 0 .. Len(s) /\ n + 1 # 0 /\ (n + 1) - 1 = n
    OBVIOUS
  <2>2. P[n + 1] = Turn(s, places, P, n + 1)
    BY <1>2, <2>1
  <2>3. QED BY <2>1, <2>2 DEF Turn
<1>5. QED BY <1>3, <1>4 DEF P

(* What was picked is a sequence of the elements at the places. *)
LEMMA PicksElements ==
  ASSUME NEW X, NEW s \in Seq(X), NEW places
  PROVE  \A n \in 0 .. Len(s) :
           /\ Picks(s, places)[n] \in Seq(X)
           /\ \A k \in 1 .. Len(Picks(s, places)[n]) :
                \E i \in 1 .. n : i \in places /\ Picks(s, places)[n][k] = s[i]
           /\ \A i \in 1 .. n : i \in places =>
                \E k \in 1 .. Len(Picks(s, places)[n]) : Picks(s, places)[n][k] = s[i]
<1> DEFINE P == Picks(s, places)
           Ok(n) == /\ P[n] \in Seq(X)
                    /\ \A k \in 1 .. Len(P[n]) : \E i \in 1 .. n : i \in places /\ P[n][k] = s[i]
                    /\ \A i \in 1 .. n : i \in places => \E k \in 1 .. Len(P[n]) : P[n][k] = s[i]
           G == {n \in 0 .. Len(s) : Ok(n)}
<1>1. P[0] = <<>> /\ \A n \in 0 .. Len(s) - 1 :
        P[n + 1] = IF n + 1 \in places THEN Append(P[n], s[n + 1]) ELSE P[n]
  BY PicksStep
<1> HIDE DEF P
<1>2. Ok(0)
  <2>1. P[0] \in Seq(X) /\ Len(P[0]) = 0
    BY <1>1
  <2>2. QED BY <2>1
<1>3. ASSUME NEW n \in 0 .. Len(s) - 1, Ok(n) PROVE Ok(n + 1)
  <2> DEFINE q == P[n]
             r == P[n + 1]
  <2>1. /\ q \in Seq(X) /\ s[n + 1] \in X
        /\ \A k \in 1 .. Len(q) : \E i \in 1 .. n : i \in places /\ q[k] = s[i]
        /\ \A i \in 1 .. n : i \in places => \E k \in 1 .. Len(q) : q[k] = s[i]
    BY <1>3
  <2>2. r = IF n + 1 \in places THEN Append(q, s[n + 1]) ELSE q
    BY <1>1
  <2> HIDE DEF q, r
  <2>3. CASE n + 1 \in places
    <3>1. /\ r \in Seq(X) /\ Len(r) = Len(q) + 1 /\ r[Len(q) + 1] = s[n + 1]
          /\ \A k \in 1 .. Len(q) : r[k] = q[k]
      BY <2>1, <2>2, <2>3
    <3>2. ASSUME NEW k \in 1 .. Len(r) PROVE \E i \in 1 .. n + 1 : i \in places /\ r[k] = s[i]
      <4>1. CASE k \in 1 .. Len(q)
        <5>1. PICK i \in 1 .. n : i \in places /\ q[k] = s[i]
          BY <2>1, <4>1
        <5>2. i \in 1 .. n + 1
          OBVIOUS
        <5>3. QED BY <3>1, <4>1, <5>1, <5>2
      <4>2. CASE k = Len(q) + 1
        <5>1. n + 1 \in 1 .. n + 1
          OBVIOUS
        <5>2. QED BY <2>3, <3>1, <4>2, <5>1
      <4>3. QED BY <2>1, <3>1, <4>1, <4>2
    <3>3. ASSUME NEW i \in 1 .. n + 1, i \in places PROVE \E k \in 1 .. Len(r) : r[k] = s[i]
      <4>1. CASE i = n + 1
        <5>1. Len(q) + 1 \in 1 .. Len(r)
          BY <2>1, <3>1
        <5>2. QED BY <3>1, <4>1, <5>1
      <4>2. CASE i # n + 1
        <5>1. PICK k \in 1 .. Len(q) : q[k] = s[i]
          BY <2>1, <3>3, <4>2
        <5>2. k \in 1 .. Len(r)
          BY <2>1, <3>1
        <5>3. QED BY <3>1, <5>1, <5>2
      <4>3. QED BY <4>1, <4>2
    <3>4. QED BY <3>1, <3>2, <3>3 DEF r
  <2>4. CASE n + 1 \notin places
    <3>1. r = q
      BY <2>2, <2>4
    <3>2. \A i \in 1 .. n + 1 : i \in places => i \in 1 .. n
      BY <2>4
    <3>3. \A i \in 1 .. n : i \in 1 .. n + 1
      OBVIOUS
    <3>4. /\ r \in Seq(X)
          /\ \A k \in 1 .. Len(r) : \E i \in 1 .. n + 1 : i \in places /\ r[k] = s[i]
          /\ \A i \in 1 .. n + 1 : i \in places => \E k \in 1 .. Len(r) : r[k] = s[i]
      BY <2>1, <3>1, <3>2, <3>3
    <3>5. QED BY <3>4 DEF r
  <2>5. QED BY <2>3, <2>4
<1> HIDE DEF Ok
<1>4. 0 .. Len(s) \subseteq G
  <2>1. 0 \in G /\ \A n \in 0 .. Len(s) - 1 : n \in G => n + 1 \in G
    BY <1>2, <1>3
  <2> HIDE DEF G
  <2>2. QED BY <2>1, TurnByTurn
<1>5. \A n \in 0 .. Len(s) : Ok(n)
  BY <1>4
<1>6. QED BY <1>5 DEF Ok, P

(* Two sequences that agree as far as the shorter goes give the same so far. *)
LEMMA PicksPrefix ==
  ASSUME NEW X, NEW s \in Seq(X), NEW t \in Seq(X), NEW S, NEW T, Len(s) <= Len(t),
         \A i \in 1 .. Len(s) : s[i] = t[i],
         \A i \in 1 .. Len(s) : i \in S <=> i \in T
  PROVE  Picks(t, T)[Len(s)] = Picked(s, S)
<1> DEFINE P == Picks(s, S)
           Q == Picks(t, T)
           G == {n \in 0 .. Len(s) : P[n] = Q[n]}
<1>1. P[0] = <<>> /\ \A n \in 0 .. Len(s) - 1 :
        P[n + 1] = IF n + 1 \in S THEN Append(P[n], s[n + 1]) ELSE P[n]
  BY PicksStep
<1>2. Q[0] = <<>> /\ \A n \in 0 .. Len(s) - 1 :
        Q[n + 1] = IF n + 1 \in T THEN Append(Q[n], t[n + 1]) ELSE Q[n]
  BY PicksStep
<1> HIDE DEF P, Q
<1>3. 0 \in G /\ \A n \in 0 .. Len(s) - 1 : n \in G => n + 1 \in G
  BY <1>1, <1>2
<1>4. 0 .. Len(s) \subseteq G
  <2> DEFINE m == Len(s)
  <2>1. m \in Nat /\ 0 \in G /\ \A n \in 0 .. m - 1 : n \in G => n + 1 \in G
    BY <1>3
  <2> HIDE DEF G, m
  <2>2. 0 .. m \subseteq G
    BY <2>1, TurnByTurn
  <2>3. QED BY <2>2 DEF m
<1>5. P[Len(s)] = Q[Len(s)]
  BY <1>4
<1>6. QED BY <1>5 DEF P, Q, Picked

(* The turns at no place change nothing. *)
LEMMA PicksIdle ==
  ASSUME NEW X, NEW s \in Seq(X), NEW places, NEW m \in 0 .. Len(s),
         \A i \in m + 1 .. Len(s) : i \notin places
  PROVE  Picked(s, places) = Picks(s, places)[m]
<1> DEFINE P == Picks(s, places)
           G == {n \in 0 .. Len(s) : n >= m => P[n] = P[m]}
<1>1. P[0] = <<>> /\ \A n \in 0 .. Len(s) - 1 :
        P[n + 1] = IF n + 1 \in places THEN Append(P[n], s[n + 1]) ELSE P[n]
  BY PicksStep
<1> HIDE DEF P
<1>2. 0 \in G
  OBVIOUS
<1>3. ASSUME NEW n \in 0 .. Len(s) - 1, n \in G PROVE n + 1 \in G
  <2>1. CASE n + 1 = m
    BY <2>1
  <2>2. CASE n + 1 < m
    BY <2>2
  <2>3. CASE n >= m
    <3>1. n + 1 \notin places
      BY <2>3
    <3>2. QED BY <1>1, <1>3, <2>3, <3>1
  <2>4. QED BY <2>1, <2>2, <2>3
<1>4. 0 .. Len(s) \subseteq G
  <2> HIDE DEF G
  <2>1. QED BY <1>2, <1>3, TurnByTurn, SMTT(30)
<1>5. P[Len(s)] = P[m]
  BY <1>4
<1>6. QED BY <1>5 DEF P, Picked

(* Two sequences that agree on the places there are, picked from. *)
Agree(s, S, t, T) ==
  /\ Len(s) <= Len(t)
  /\ \A i \in 1 .. Len(s) : s[i] = t[i] /\ (i \in S <=> i \in T)
  /\ \A i \in Len(s) + 1 .. Len(t) : i \notin T

(* The places beyond a sequence's end do not matter, nor does what is not picked from. *)
LEMMA PickedSame ==
  ASSUME NEW X, NEW s \in Seq(X), NEW t \in Seq(X), NEW S, NEW T, Agree(s, S, t, T)
  PROVE  Picked(t, T) = Picked(s, S)
<1> USE DEF Agree
<1>1. Picked(t, T) = Picks(t, T)[Len(s)]
  <2>1. Len(s) \in 0 .. Len(t)
    OBVIOUS
  <2>2. QED BY <2>1, PicksIdle
<1>2. Picks(t, T)[Len(s)] = Picked(s, S)
  BY PicksPrefix
<1>3. QED BY <1>1, <1>2

(* One element more. *)
LEMMA PickedAppend ==
  ASSUME NEW X, NEW s \in Seq(X), NEW x \in X, NEW places
  PROVE  Picked(Append(s, x), places) =
           IF Len(s) + 1 \in places THEN Append(Picked(s, places), x) ELSE Picked(s, places)
<1> DEFINE t == Append(s, x)
           n == Len(s)
<1>1. t \in Seq(X) /\ Len(t) = n + 1 /\ t[n + 1] = x /\ \A i \in 1 .. n : t[i] = s[i]
  OBVIOUS
<1> HIDE DEF t
<1>2. Picks(t, places)[n + 1] = IF n + 1 \in places THEN Append(Picks(t, places)[n], t[n + 1])
                                ELSE Picks(t, places)[n]
  BY <1>1, PicksStep
<1>3. Picks(t, places)[n] = Picked(s, places)
  BY <1>1, PicksPrefix
<1>4. Picked(t, places) = Picks(t, places)[n + 1]
  BY <1>1 DEF Picked
<1>5. QED BY <1>1, <1>2, <1>3, <1>4 DEF Picked, t

(* What is picked are the elements at the places, all of them. *)
LEMMA PickedElements ==
  ASSUME NEW X, NEW s \in Seq(X), NEW places
  PROVE  /\ Picked(s, places) \in Seq(X)
         /\ \A k \in 1 .. Len(Picked(s, places)) :
              \E i \in 1 .. Len(s) : i \in places /\ Picked(s, places)[k] = s[i]
         /\ \A i \in 1 .. Len(s) : i \in places =>
              \E k \in 1 .. Len(Picked(s, places)) : Picked(s, places)[k] = s[i]
<1>1. Len(s) \in 0 .. Len(s)
  OBVIOUS
<1>2. QED BY <1>1, PicksElements DEF Picked

(* Different places of what was picked come from different places, and each   *)
(* place left out makes it shorter.                                           *)
LEMMA PickedApart ==
  ASSUME NEW X, NEW s \in Seq(X), NEW places
  PROVE  /\ Len(Picked(s, places)) <= Len(s)
         /\ (\E i \in 1 .. Len(s) : i \notin places) => Len(Picked(s, places)) < Len(s)
         /\ \A k, l \in 1 .. Len(Picked(s, places)) : k < l =>
              \E i, j \in 1 .. Len(s) : /\ i < j /\ i \in places /\ j \in places
                                         /\ Picked(s, places)[k] = s[i] /\ Picked(s, places)[l] = s[j]
<1> DEFINE P == Picks(s, places)
           Ok(n) == /\ Len(P[n]) <= n
                    /\ (\E i \in 1 .. n : i \notin places) => Len(P[n]) < n
                    /\ \A k, l \in 1 .. Len(P[n]) : k < l =>
                         \E i, j \in 1 .. n : /\ i < j /\ i \in places /\ j \in places
                                               /\ P[n][k] = s[i] /\ P[n][l] = s[j]
           G == {n \in 0 .. Len(s) : Ok(n)}
<1>1. /\ P[0] = <<>> /\ Len(s) \in Nat
      /\ \A n \in 0 .. Len(s) - 1 : P[n + 1] = IF n + 1 \in places THEN Append(P[n], s[n + 1]) ELSE P[n]
  BY PicksStep
<1>2. \A n \in 0 .. Len(s) : /\ P[n] \in Seq(X)
                              /\ \A k \in 1 .. Len(P[n]) : \E i \in 1 .. n : i \in places /\ P[n][k] = s[i]
  <2>1. ASSUME NEW n \in 0 .. Len(s)
        PROVE  /\ Picks(s, places)[n] \in Seq(X)
               /\ \A k \in 1 .. Len(Picks(s, places)[n]) :
                    \E i \in 1 .. n : i \in places /\ Picks(s, places)[n][k] = s[i]
    BY PicksElements
  <2> QED BY <2>1
<1> HIDE DEF P
<1>3. Ok(0)
  BY <1>1
<1>4. ASSUME NEW n \in 0 .. Len(s) - 1, Ok(n) PROVE Ok(n + 1)
  <2> DEFINE q == P[n]
             r == P[n + 1]
  <2>1. /\ q \in Seq(X) /\ s[n + 1] \in X /\ n \in Nat /\ Len(q) \in Nat /\ Len(q) <= n
        /\ (\E i \in 1 .. n : i \notin places) => Len(q) < n
        /\ \A k \in 1 .. Len(q) : \E i \in 1 .. n : i \in places /\ q[k] = s[i]
        /\ \A k, l \in 1 .. Len(q) : k < l =>
             \E i, j \in 1 .. n : i < j /\ i \in places /\ j \in places /\ q[k] = s[i] /\ q[l] = s[j]
    <3>1. n \in Nat /\ n \in 0 .. Len(s) /\ s[n + 1] \in X
      OBVIOUS
    <3>2. /\ q \in Seq(X) /\ Len(q) \in Nat
          /\ \A k \in 1 .. Len(q) : \E i \in 1 .. n : i \in places /\ q[k] = s[i]
      BY <1>1, <1>2, <3>1
    <3> QED BY <1>4, <3>1, <3>2
  <2>2. r = IF n + 1 \in places THEN Append(q, s[n + 1]) ELSE q
    BY <1>1
  <2> HIDE DEF q, r
  <2>3. \A i \in 1 .. n : i \in 1 .. n + 1
    OBVIOUS
  <2>4. CASE n + 1 \in places
    <3>1. /\ Len(r) = Len(q) + 1 /\ r[Len(q) + 1] = s[n + 1] /\ Len(q) \in Nat
          /\ \A k \in 1 .. Len(q) : r[k] = q[k]
      BY <2>1, <2>2, <2>4
    <3>2. Len(r) <= n + 1 /\ ((\E i \in 1 .. n + 1 : i \notin places) => Len(r) < n + 1)
      <4>1. (\E i \in 1 .. n + 1 : i \notin places) => \E i \in 1 .. n : i \notin places
        BY <2>4
      <4>2. (\E i \in 1 .. n + 1 : i \notin places) => Len(q) < n
        BY <2>1, <4>1
      <4> QED BY <2>1, <3>1, <4>2
    <3>3. ASSUME NEW k \in 1 .. Len(r), NEW l \in 1 .. Len(r), k < l
          PROVE  \E i, j \in 1 .. n + 1 : i < j /\ i \in places /\ j \in places /\ r[k] = s[i] /\ r[l] = s[j]
      <4>1. k \in 1 .. Len(q) /\ r[k] = q[k]
        BY <3>1, <3>3
      <4>2. CASE l \in 1 .. Len(q)
        <5>1. PICK i \in 1 .. n, j \in 1 .. n : i < j /\ i \in places /\ j \in places /\ q[k] = s[i] /\ q[l] = s[j]
          BY <2>1, <3>3, <4>1, <4>2
        <5> QED BY <2>3, <3>1, <4>1, <4>2, <5>1
      <4>3. CASE l = Len(q) + 1
        <5>1. PICK i \in 1 .. n : i \in places /\ q[k] = s[i]
          BY <2>1, <4>1
        <5>2. i < n + 1 /\ n + 1 \in 1 .. n + 1 /\ i \in 1 .. n + 1
          OBVIOUS
        <5> QED BY <2>4, <3>1, <4>1, <4>3, <5>1, <5>2
      <4> QED BY <3>1, <4>2, <4>3
    <3> QED BY <3>2, <3>3 DEF r
  <2>5. CASE n + 1 \notin places
    <3>1. r = q
      BY <2>2, <2>5
    <3>2. Len(r) <= n + 1 /\ Len(r) < n + 1
      BY <2>1, <3>1
    <3>3. \A k, l \in 1 .. Len(r) : k < l =>
            \E i, j \in 1 .. n + 1 : i < j /\ i \in places /\ j \in places /\ r[k] = s[i] /\ r[l] = s[j]
      BY <2>1, <2>3, <3>1
    <3> QED BY <3>2, <3>3 DEF r
  <2> QED BY <2>4, <2>5
<1> HIDE DEF Ok
<1>5. 0 .. Len(s) \subseteq G
  <2>1. 0 \in G /\ \A n \in 0 .. Len(s) - 1 : n \in G => n + 1 \in G
    BY <1>1, <1>3, <1>4
  <2> HIDE DEF G
  <2> QED BY <1>1, <2>1, TurnByTurn
<1>6. Ok(Len(s))
  BY <1>1, <1>5
<1> QED BY <1>6 DEF Ok, P, Picked

(* Picking at every place picks the sequence. *)
LEMMA PickedAll ==
  ASSUME NEW X, NEW s \in Seq(X), NEW places, 1 .. Len(s) \subseteq places
  PROVE  Picked(s, places) = s
<1> DEFINE P == Picks(s, places)
           Ok(n) == P[n] \in Seq(X) /\ Len(P[n]) = n /\ \A i \in 1 .. n : P[n][i] = s[i]
           G == {n \in 0 .. Len(s) : Ok(n)}
<1>1. P[0] = <<>> /\ \A n \in 0 .. Len(s) - 1 :
        P[n + 1] = IF n + 1 \in places THEN Append(P[n], s[n + 1]) ELSE P[n]
  BY PicksStep
<1> HIDE DEF P
<1>2. Ok(0)
  <2>1. P[0] \in Seq(X) /\ Len(P[0]) = 0
    BY <1>1
  <2>2. QED BY <2>1
<1>3. ASSUME NEW n \in 0 .. Len(s) - 1, Ok(n) PROVE Ok(n + 1)
  <2> DEFINE q == P[n]
             r == P[n + 1]
  <2>1. q \in Seq(X) /\ Len(q) = n /\ (\A i \in 1 .. n : q[i] = s[i]) /\ s[n + 1] \in X
    BY <1>3
  <2>2. r = Append(q, s[n + 1])
    <3>1. n + 1 \in 1 .. Len(s)
      OBVIOUS
    <3>2. n + 1 \in places
      BY <3>1
    <3>3. QED BY <1>1, <3>2
  <2> HIDE DEF q, r
  <2>3. r \in Seq(X) /\ Len(r) = n + 1 /\ \A i \in 1 .. n + 1 : r[i] = s[i]
    BY <2>1, <2>2
  <2>4. QED BY <2>3 DEF r
<1> HIDE DEF Ok
<1>4. 0 .. Len(s) \subseteq G
  <2> DEFINE m == Len(s)
  <2>1. m \in Nat /\ 0 \in G /\ \A n \in 0 .. m - 1 : n \in G => n + 1 \in G
    BY <1>2, <1>3
  <2> HIDE DEF G, m
  <2>2. 0 .. m \subseteq G
    BY <2>1, TurnByTurn
  <2>3. QED BY <2>2 DEF m
<1>5. Ok(Len(s))
  BY <1>4
<1>6. /\ P[Len(s)] \in Seq(X) /\ Len(P[Len(s)]) = Len(s)
      /\ \A i \in 1 .. Len(s) : P[Len(s)][i] = s[i]
  BY <1>5 DEF Ok
<1> DEFINE w == P[Len(s)]
<1> HIDE DEF w
<1>7. w = s
  BY <1>6 DEF w
<1>8. QED BY <1>7 DEF w, P, Picked

(* Picking before or after every element is mapped is the same. *)
Mapped(s, g) == [k \in DOMAIN s |-> g[s[k]]]
Takes(g, X, Y) == g \in [X -> Y]

(* Picking commutes with renaming the elements. *)
LEMMA PickedMap ==
  ASSUME NEW X, NEW Y, NEW s \in Seq(X), NEW g, Takes(g, X, Y), NEW places
  PROVE  Picked(Mapped(s, g), places) = Mapped(Picked(s, places), g)
<1> USE DEF Takes
<1> DEFINE t == [i \in DOMAIN s |-> g[s[i]]]
           P == Picks(s, places)
           Q == Picks(t, places)
           Ok(n) == P[n] \in Seq(X) /\ Q[n] = [k \in DOMAIN P[n] |-> g[P[n][k]]]
           G == {n \in 0 .. Len(s) : Ok(n)}
<1>1. t \in Seq(Y) /\ Len(t) = Len(s) /\ \A i \in 1 .. Len(s) : t[i] = g[s[i]]
  OBVIOUS
<1>2. P[0] = <<>> /\ \A n \in 0 .. Len(s) - 1 :
        P[n + 1] = IF n + 1 \in places THEN Append(P[n], s[n + 1]) ELSE P[n]
  BY PicksStep
<1> HIDE DEF P, t
<1>3. Q[0] = <<>> /\ \A n \in 0 .. Len(s) - 1 :
        Q[n + 1] = IF n + 1 \in places THEN Append(Q[n], t[n + 1]) ELSE Q[n]
  BY <1>1, PicksStep
<1> HIDE DEF Q
<1>4. Ok(0)
  <2>1. P[0] \in Seq(X) /\ DOMAIN P[0] = {} /\ DOMAIN Q[0] = {}
    BY <1>2, <1>3
  <2>2. Q[0] = [k \in DOMAIN P[0] |-> g[P[0][k]]]
    <3>1. Q[0] = <<>> BY <1>3
    <3>2. QED BY <2>1, <3>1
  <2>3. QED BY <2>1, <2>2
<1>5. ASSUME NEW n \in 0 .. Len(s) - 1, Ok(n) PROVE Ok(n + 1)
  <2> DEFINE q == P[n]
             r == P[n + 1]
             u == Q[n]
             v == Q[n + 1]
             x == s[n + 1]
  <2>1. q \in Seq(X) /\ u = [k \in DOMAIN q |-> g[q[k]]] /\ x \in X /\ t[n + 1] = g[x]
    BY <1>1, <1>5
  <2>2. r = IF n + 1 \in places THEN Append(q, x) ELSE q
    BY <1>2
  <2>3. v = IF n + 1 \in places THEN Append(u, g[x]) ELSE u
    BY <1>3, <2>1
  <2> HIDE DEF q, r, u, v, x
  <2>4. u \in Seq(Y) /\ Len(u) = Len(q)
    BY <2>1
  <2>5. r \in Seq(X) /\ v = [k \in DOMAIN r |-> g[r[k]]]
    <3>1. CASE n + 1 \in places
      <4>1. r \in Seq(X) /\ Len(r) = Len(q) + 1 /\ r[Len(q) + 1] = x
            /\ \A k \in 1 .. Len(q) : r[k] = q[k]
        BY <2>1, <2>2, <3>1
      <4>2. v \in Seq(Y) /\ Len(v) = Len(q) + 1 /\ v[Len(q) + 1] = g[x]
            /\ \A k \in 1 .. Len(q) : v[k] = g[q[k]]
        BY <2>1, <2>3, <2>4, <3>1
      <4>3. DOMAIN v = DOMAIN r /\ \A k \in DOMAIN r : v[k] = g[r[k]]
        <5>1. Len(q) \in Nat /\ DOMAIN v = 1 .. Len(q) + 1 /\ DOMAIN r = 1 .. Len(q) + 1
          BY <2>1, <4>1, <4>2
        <5>2. QED BY <4>1, <4>2, <5>1
      <4>4. v = [k \in DOMAIN v |-> v[k]]
        BY <4>2
      <4>5. QED BY <4>1, <4>3, <4>4
    <3>2. CASE n + 1 \notin places
      BY <2>1, <2>2, <2>3, <3>2
    <3>3. QED BY <3>1, <3>2
  <2>6. QED BY <2>5 DEF r, v
<1> HIDE DEF Ok
<1>6. 0 .. Len(s) \subseteq G
  <2> DEFINE m == Len(s)
  <2>1. m \in Nat /\ 0 \in G /\ \A n \in 0 .. m - 1 : n \in G => n + 1 \in G
    BY <1>4, <1>5
  <2> HIDE DEF G, m
  <2>2. 0 .. m \subseteq G
    BY <2>1, TurnByTurn
  <2>3. QED BY <2>2 DEF m
<1>7. Ok(Len(s))
  BY <1>6
<1>8. Picked(s, places) = P[Len(s)] /\ Picked(t, places) = Q[Len(s)]
  BY <1>1 DEF Picked, P, Q
<1>9. Picked(t, places) = [k \in DOMAIN Picked(s, places) |-> g[Picked(s, places)[k]]]
  BY <1>7, <1>8 DEF Ok
<1>10. QED BY <1>9 DEF t, Mapped

(* Picking what is in T from what was picked is picking what is in T. *)
Those(s, T) == {k \in DOMAIN s : s[k] \in T}

(* Picking twice is picking what both times take. *)
LEMMA PickedTwice ==
  ASSUME NEW X, NEW s \in Seq(X), NEW places, NEW T
  PROVE  Picked(Picked(s, places), Those(Picked(s, places), T)) = Picked(s, places \cap Those(s, T))
<1> DEFINE P == Picks(s, places)
           here == places \cap Those(s, T)
           Q == Picks(s, here)
           In(q) == Those(q, T)
           Ok(n) == P[n] \in Seq(X) /\ Picked(P[n], In(P[n])) = Q[n]
           G == {n \in 0 .. Len(s) : Ok(n)}
<1>1. P[0] = <<>> /\ \A n \in 0 .. Len(s) - 1 :
        P[n + 1] = IF n + 1 \in places THEN Append(P[n], s[n + 1]) ELSE P[n]
  BY PicksStep
<1>2. Q[0] = <<>> /\ \A n \in 0 .. Len(s) - 1 :
        Q[n + 1] = IF n + 1 \in here THEN Append(Q[n], s[n + 1]) ELSE Q[n]
  <2> HIDE DEF here
  <2>1. QED BY PicksStep
<1>3. \A n \in 0 .. Len(s) - 1 : n + 1 \in here <=> n + 1 \in places /\ s[n + 1] \in T
  BY DEF Those
<1> HIDE DEF P, Q, here
<1>4. Ok(0)
  <2>1. P[0] \in Seq(X) /\ Len(P[0]) = 0
    BY <1>1
  <2>2. Picked(P[0], In(P[0])) = Picks(P[0], In(P[0]))[0]
    BY <2>1 DEF Picked
  <2> DEFINE p == P[0]
             I == In(p)
  <2> HIDE DEF p, I
  <2>3. Picks(p, I)[0] = <<>>
    BY <2>1, PicksStep DEF p
  <2>4. QED BY <1>2, <2>1, <2>2, <2>3 DEF p, I
<1>5. ASSUME NEW n \in 0 .. Len(s) - 1, Ok(n) PROVE Ok(n + 1)
  <2> DEFINE q == P[n]
             r == P[n + 1]
             x == s[n + 1]
  <2>1. q \in Seq(X) /\ x \in X /\ Picked(q, In(q)) = Q[n]
    BY <1>5
  <2>2. r = IF n + 1 \in places THEN Append(q, x) ELSE q
    BY <1>1
  <2>3. Q[n + 1] = IF n + 1 \in places /\ x \in T THEN Append(Q[n], x) ELSE Q[n]
    BY <1>2, <1>3
  <2> HIDE DEF q, r, x
  <2>4. CASE n + 1 \in places
    <3> DEFINE J == In(r)
    <3>1. r = Append(q, x) /\ r \in Seq(X) /\ Len(r) = Len(q) + 1 /\ r[Len(q) + 1] = x
          /\ \A k \in 1 .. Len(q) : r[k] = q[k]
      BY <2>1, <2>2, <2>4
    <3>2. Len(q) + 1 \in J <=> x \in T
      BY <2>1, <3>1 DEF Those
    <3>3. \A k \in 1 .. Len(q) : k \in J <=> k \in In(q)
      BY <2>1, <3>1 DEF Those
    <3> DEFINE I == In(q)
    <3> HIDE DEF J, I
    <3>4. Picked(r, J) = IF Len(q) + 1 \in J THEN Append(Picked(q, J), x) ELSE Picked(q, J)
      BY <2>1, <3>1, PickedAppend
    <3>5. Picked(q, J) = Picked(q, I)
      <4>1. \A k \in 1 .. Len(q) : q[k] = q[k] /\ (k \in I <=> k \in J)
        BY <3>3 DEF I
      <4>2. Len(q) <= Len(q) /\ \A k \in Len(q) + 1 .. Len(q) : k \notin J
        BY <2>1
      <4>3. Agree(q, I, q, J)
        BY <2>1, <4>1, <4>2 DEF Agree
      <4>4. QED BY <2>1, <4>3, PickedSame
    <3>6. Picked(r, J) = Q[n + 1]
      BY <2>1, <2>3, <2>4, <3>2, <3>4, <3>5 DEF I
    <3>7. QED BY <3>1, <3>6 DEF J, r
  <2>5. CASE n + 1 \notin places
    BY <2>1, <2>2, <2>3, <2>5 DEF r
  <2>6. QED BY <2>4, <2>5
<1> HIDE DEF Ok
<1>6. 0 .. Len(s) \subseteq G
  <2> DEFINE m == Len(s)
  <2>1. m \in Nat /\ 0 \in G /\ \A n \in 0 .. m - 1 : n \in G => n + 1 \in G
    BY <1>4, <1>5
  <2> HIDE DEF G, m
  <2>2. 0 .. m \subseteq G
    BY <2>1, TurnByTurn
  <2>3. QED BY <2>2 DEF m
<1>7. Ok(Len(s))
  BY <1>6
<1>8. Picked(s, places) = P[Len(s)] /\ Picked(s, here) = Q[Len(s)]
  BY DEF Picked, P, Q
<1>9. QED BY <1>7, <1>8 DEF Ok, here
=============================================================================
