--------------------------- MODULE InductionLemmas ---------------------------
(***************************************************************************)
(* Induction over the natural numbers and the existence of functions       *)
(* defined by recursion over them.  The library states both with an        *)
(* operator parameter; here a property is the set of the numbers that have *)
(* it and a recursion step is a function, which needs no such parameter.   *)
(* Everything rests on the well-foundedness of < alone.                    *)
(***************************************************************************)
EXTENDS Integers, WellFoundedInduction, TLAPS

NatOrder == OpToRel(<, Nat)

\* A set of natural numbers has a smallest member.
LEMMA Smallest ==
    ASSUME NEW T, T \subseteq Nat, T # {}
    PROVE  \E n \in T : \A m \in T : n <= m
<1>1. IsWellFoundedOn(NatOrder, Nat)
  BY NatLessThanWellFounded DEF NatOrder
<1>2. PICK n \in T : \A m \in T : <<m, n>> \notin NatOrder
  BY <1>1, WFMin
<1>3. NatOrder = {ss \in Nat \X Nat : ss[1] < ss[2]}
  BY DEF NatOrder, OpToRel
<1>4. \A m \in T : n <= m
  <2> SUFFICES ASSUME NEW m \in T PROVE ~(m < n)
    OBVIOUS
  <2>1. <<m, n>> \in Nat \X Nat
    OBVIOUS
  <2> QED
    BY <1>2, <1>3, <2>1
<1> QED
  BY <1>4

\* Induction: S has 0 and with every number its successor.
LEMMA SetInduction ==
    ASSUME NEW S, 0 \in S, \A n \in Nat : n \in S => n + 1 \in S
    PROVE  Nat \subseteq S
<1> DEFINE T == Nat \ S
<1> SUFFICES ASSUME T # {} PROVE FALSE
  OBVIOUS
<1>1. PICK n \in T : \A m \in T : n <= m
  BY Smallest
<1>2. n # 0 /\ n \in Nat
  OBVIOUS
<1>3. n - 1 \in Nat /\ n - 1 < n
  BY <1>2
<1>4. n - 1 \in S
  BY <1>1, <1>3
<1> QED
  BY <1>2, <1>3, <1>4

\* Induction from 0 up to k.
LEMMA UpwardInduction ==
    ASSUME NEW k \in Nat, NEW S, 0 \in S, \A i \in 0 .. k - 1 : i \in S => i + 1 \in S
    PROVE  0 .. k \subseteq S
<1> DEFINE T == {n \in Nat : n <= k => n \in S}
<1>1. 0 \in T /\ \A n \in Nat : n \in T => n + 1 \in T
  OBVIOUS
<1> HIDE DEF T
<1>2. Nat \subseteq T
  BY <1>1, SetInduction
<1> QED
  BY <1>2 DEF T

\* Induction from k down to 1.
LEMMA DownwardInduction ==
    ASSUME NEW k \in Nat, k >= 1, NEW S, k \in S, \A i \in 1 .. k - 1 : i + 1 \in S => i \in S
    PROVE  1 .. k \subseteq S
<1> DEFINE T == {n \in Nat : n < k => k - n \in S}
<1>1. 0 \in T
  OBVIOUS
<1>2. \A n \in Nat : n \in T => n + 1 \in T
  <2> SUFFICES ASSUME NEW n \in Nat, n < k => k - n \in S, n + 1 < k
               PROVE  k - (n + 1) \in S
    OBVIOUS
  <2>1. k - (n + 1) \in 1 .. k - 1 /\ (k - (n + 1)) + 1 = k - n /\ n < k
    OBVIOUS
  <2> QED
    BY <2>1
<1> HIDE DEF T
<1>3. Nat \subseteq T
  BY <1>1, <1>2, SetInduction
<1>4. ASSUME NEW i \in 1 .. k PROVE i \in S
  <2>1. k - i \in Nat /\ k - i < k /\ k - (k - i) = i
    OBVIOUS
  <2> QED
    BY <1>3, <2>1 DEF T
<1> QED
  BY <1>4

-----------------------------------------------------------------------------
(* Recursion: from a and step to the functions that start with a and go on *)
(* with step.                                                              *)

Iterates(g, a, step) == g[0] = a /\ \A i \in Nat \ {0} : g[i] = step[<<i, g[i - 1]>>]
Follows(p, a, step, k) == p[0] = a /\ \A i \in 1 .. k : p[i] = step[<<i, p[i - 1]>>]

LEMMA RecursionOnInterval ==
    ASSUME NEW V, NEW a \in V, NEW N \in Nat, NEW step \in [(1 .. N) \X V -> V]
    PROVE  \E p \in [0 .. N -> V] : Follows(p, a, step, N)
<1> DEFINE S == {k \in Nat : k <= N => \E p \in [0 .. k -> V] : Follows(p, a, step, k)}
<1>1. 0 \in S
  <2>1. [i \in 0 .. 0 |-> a] \in [0 .. 0 -> V] /\ Follows([i \in 0 .. 0 |-> a], a, step, 0)
    BY DEF Follows
  <2> QED
    BY <2>1
<1>2. \A k \in Nat : k \in S => k + 1 \in S
  <2> SUFFICES ASSUME NEW k \in Nat, k \in S, k + 1 <= N
               PROVE  \E q \in [0 .. k + 1 -> V] : Follows(q, a, step, k + 1)
    OBVIOUS
  <2>1. PICK p \in [0 .. k -> V] : Follows(p, a, step, k)
    OBVIOUS
  <2> DEFINE q == [i \in 0 .. k + 1 |-> IF i <= k THEN p[i] ELSE step[<<k + 1, p[k]>>]]
  <2>2. p[k] \in V /\ <<k + 1, p[k]>> \in (1 .. N) \X V
    OBVIOUS
  <2>3. step[<<k + 1, p[k]>>] \in V
    BY <2>2
  <2>4. q \in [0 .. k + 1 -> V]
    BY <2>3
  <2>5. q[0] = a
    BY <2>1 DEF Follows
  <2>6. ASSUME NEW i \in 1 .. k + 1 PROVE q[i] = step[<<i, q[i - 1]>>]
    <3>1. CASE i <= k
      <4>1. i \in 1 .. k /\ i - 1 \in 0 .. k /\ i \in 0 .. k + 1 /\ i - 1 \in 0 .. k + 1 /\ i - 1 <= k
        BY <3>1
      <4>2. q[i] = p[i] /\ q[i - 1] = p[i - 1]
        BY <3>1, <4>1
      <4> QED
        BY <2>1, <4>1, <4>2 DEF Follows
    <3>2. CASE i = k + 1
      <4>1. q[k + 1] = step[<<k + 1, p[k]>>] /\ q[k] = p[k] /\ i - 1 = k
        BY <3>2
      <4> QED
        BY <3>2, <4>1
    <3> QED
      BY <3>1, <3>2
  <2> HIDE DEF q
  <2> QED
    BY <2>4, <2>5, <2>6 DEF Follows
<1> HIDE DEF S
<1>3. Nat \subseteq S
  BY <1>1, <1>2, SetInduction
<1> QED
  BY <1>3 DEF S

LEMMA RecursionOnNat ==
    ASSUME NEW V, NEW a \in V, NEW step \in [(Nat \ {0}) \X V -> V]
    PROVE  \E g \in [Nat -> V] : Iterates(g, a, step)
<1> DEFINE Part(n, p) == p \in [0 .. n -> V] /\ Follows(p, a, step, n)
<1>1. ASSUME NEW n \in Nat PROVE \E p : Part(n, p)
  <2> DEFINE st == [x \in (1 .. n) \X V |-> step[x]]
  <2>1. st \in [(1 .. n) \X V -> V]
    OBVIOUS
  <2>2. PICK p \in [0 .. n -> V] : Follows(p, a, st, n)
    <3> HIDE DEF st
    <3> QED
      BY <2>1, RecursionOnInterval
  <2>3. \A i \in 1 .. n : p[i - 1] \in V /\ st[<<i, p[i - 1]>>] = step[<<i, p[i - 1]>>]
    OBVIOUS
  <2> HIDE DEF st
  <2> QED
    BY <2>2, <2>3 DEF Follows
<1>2. ASSUME NEW n \in Nat, NEW m \in Nat, NEW p, NEW q, Part(n, p), Part(m, q), n <= m
      PROVE  p[n] = q[n]
  <2> DEFINE S == {i \in Nat : i <= n => p[i] = q[i]}
  <2>1. 0 \in S
    BY <1>2 DEF Follows
  <2>2. \A i \in Nat : i \in S => i + 1 \in S
    <3> SUFFICES ASSUME NEW i \in Nat, p[i] = q[i], i + 1 <= n PROVE p[i + 1] = q[i + 1]
      OBVIOUS
    <3>1. i + 1 \in 1 .. n /\ i + 1 \in 1 .. m /\ (i + 1) - 1 = i
      BY <1>2
    <3> QED
      BY <1>2, <3>1 DEF Follows
  <2> HIDE DEF S
  <2>3. Nat \subseteq S
    BY <2>1, <2>2, SetInduction
  <2> QED
    BY <2>3 DEF S
<1> DEFINE P(n) == CHOOSE p : Part(n, p)
           g    == [n \in Nat |-> P(n)[n]]
<1>3. \A n \in Nat : Part(n, P(n))
  BY <1>1
<1> HIDE DEF P
<1>4. \A n \in Nat : g[n] = P(n)[n] /\ P(n)[n] \in V
  BY <1>3
<1>5. g \in [Nat -> V]
  BY <1>4
<1>6. g[0] = a
  BY <1>3, <1>4 DEF Follows
<1>7. ASSUME NEW n \in Nat \ {0} PROVE g[n] = step[<<n, g[n - 1]>>]
  <2>1. n - 1 \in Nat /\ n \in 1 .. n /\ n - 1 <= n
    OBVIOUS
  <2>2. P(n - 1)[n - 1] = P(n)[n - 1]
    <3>1. Part(n - 1, P(n - 1)) /\ Part(n, P(n))
      BY <1>3, <2>1
    <3> HIDE DEF Part
    <3> QED
      BY <3>1, <2>1, <1>2
  <2>3. P(n)[n] = step[<<n, P(n)[n - 1]>>]
    BY <1>3, <2>1 DEF Follows
  <2> QED
    BY <1>4, <2>1, <2>2, <2>3
<1> HIDE DEF g
<1> QED
  BY <1>5, <1>6, <1>7 DEF Iterates
=============================================================================
