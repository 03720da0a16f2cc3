----------------------------- MODULE PlacesProofs -----------------------------
(* Places, proved for every program: the two bits a path carries say exactly     *)
(* whether the language allows a change there, whatever the path, so that a      *)
(* statement is accepted if and only if it is sound; and the memory stays typed, *)
(* so that adjusted code follows pointers and nothing else.                      *)
EXTENDS Places, InductionLemmas, SequenceTheorems, TLAPS

(***************************************************************************)
(* Sequences of constructors                                               *)
(***************************************************************************)
Ty == Seq(Ctors)

LEMMA TyFacts ==
    ASSUME NEW ty \in Ty
    PROVE  Len(ty) \in Nat /\ DOMAIN ty = 1 .. Len(ty) /\ \A i \in 1 .. Len(ty) : ty[i] \in Ctors
BY DEF Ty

\* What is left behind the first n constructors.
LEMMA RestFacts ==
    ASSUME NEW ty \in Ty, NEW n \in 0 .. Len(ty)
    PROVE  /\ Rest(ty, n) \in Ty
           /\ Len(Rest(ty, n)) = Len(ty) - n
           /\ \A i \in 1 .. Len(ty) - n : Rest(ty, n)[i] = ty[n + i]
<1>1. n + 1 \in Int /\ Len(ty) \in Int /\ \A i \in n + 1 .. Len(ty) : ty[i] \in Ctors
  BY TyFacts
<1>2. /\ SubSeq(ty, n + 1, Len(ty)) \in Seq(Ctors)
      /\ Len(SubSeq(ty, n + 1, Len(ty))) = IF n + 1 <= Len(ty) THEN Len(ty) - (n + 1) + 1 ELSE 0
      /\ \A i \in 1 .. Len(ty) - (n + 1) + 1 : SubSeq(ty, n + 1, Len(ty))[i] = ty[n + 1 + i - 1]
  <2> DEFINE m == n + 1
             k == Len(ty)
  <2> HIDE DEF m, k
  <2>1. m \in Int /\ k \in Int /\ \A i \in m .. k : ty[i] \in Ctors
    BY <1>1 DEF m, k
  <2>2. /\ SubSeq(ty, m, k) \in Seq(Ctors)
        /\ Len(SubSeq(ty, m, k)) = IF m <= k THEN k - m + 1 ELSE 0
        /\ \A i \in 1 .. k - m + 1 : SubSeq(ty, m, k)[i] = ty[m + i - 1]
    BY <2>1, SubSeqProperties
  <2> QED
    BY <2>2 DEF m, k
<1>3. n \in Int /\ n <= Len(ty) /\ n + 1 - 1 = n
  BY <1>1
<1>4. ASSUME NEW i \in 1 .. Len(ty) - n PROVE Rest(ty, n)[i] = ty[n + i]
  <2>1. i \in 1 .. Len(ty) - (n + 1) + 1 /\ n + 1 + i - 1 = n + i
    BY <1>1, <1>3
  <2> QED
    BY <1>2, <2>1 DEF Rest
<1>5. Len(Rest(ty, n)) = Len(ty) - n
  BY <1>1, <1>2, <1>3 DEF Rest
<1> QED
  BY <1>2, <1>4, <1>5 DEF Rest, Ty

\* And the first n constructors.
LEMMA FirstFacts ==
    ASSUME NEW ty \in Ty, NEW n \in 0 .. Len(ty)
    PROVE  /\ SubSeq(ty, 1, n) \in Ty
           /\ Len(SubSeq(ty, 1, n)) = n
           /\ \A i \in 1 .. n : SubSeq(ty, 1, n)[i] = ty[i]
<1>1. n \in Int /\ \A i \in 1 .. n : ty[i] \in Ctors
  BY TyFacts
<1>2. /\ SubSeq(ty, 1, n) \in Seq(Ctors)
      /\ Len(SubSeq(ty, 1, n)) = IF 1 <= n THEN n - 1 + 1 ELSE 0
      /\ \A i \in 1 .. n - 1 + 1 : SubSeq(ty, 1, n)[i] = ty[1 + i - 1]
  BY <1>1, SubSeqProperties
<1>3. Len(SubSeq(ty, 1, n)) = n
  BY <1>1, <1>2, TyFacts
<1>4. ASSUME NEW i \in 1 .. n PROVE SubSeq(ty, 1, n)[i] = ty[i]
  BY <1>1, <1>2
<1> QED
  BY <1>2, <1>3, <1>4 DEF Ty

\* Count is the length of the longest prefix in the set.
LEMMA CountFacts ==
    ASSUME NEW ty \in Ty, NEW set
    PROVE  /\ Count(ty, set) \in 0 .. Len(ty)
           /\ \A i \in 1 .. Count(ty, set) : ty[i] \in set
           /\ Count(ty, set) < Len(ty) => ty[Count(ty, set) + 1] \notin set
<1> DEFINE Good(n) == /\ \A i \in 1 .. n : ty[i] \in set
                      /\ n < Len(ty) => ty[n + 1] \notin set
           T == {n \in 0 .. Len(ty) : n < Len(ty) => ty[n + 1] \notin set}
<1>0. Len(ty) \in Nat
  BY TyFacts
<1>1. T \subseteq Nat /\ Len(ty) \in T
  BY <1>0
<1>2. PICK n \in T : \A m \in T : n <= m
  <2> HIDE DEF T
  <2> QED
    BY <1>1, Smallest
<1>3. ASSUME NEW i \in 1 .. n PROVE ty[i] \in set
  <2>1. i - 1 \in 0 .. Len(ty) /\ i - 1 < n /\ (i - 1) + 1 = i /\ i - 1 < Len(ty)
    BY <1>0
  <2>2. i - 1 \notin T
    BY <1>2, <2>1, <1>1
  <2> QED
    BY <2>1, <2>2
<1>4. n \in 0 .. Len(ty) /\ Good(n)
  BY <1>3
<1>5. \E m \in 0 .. Len(ty) : Good(m)
  BY <1>4
<1> QED
  BY <1>5 DEF Count

LEMMA LeadingFacts ==
    ASSUME NEW ty \in Ty
    PROVE  /\ Leading(ty) \in 0 .. Len(ty)
           /\ \A i \in 1 .. Leading(ty) : ty[i] \in Pointers
           /\ Leading(ty) < Len(ty) => ty[Leading(ty) + 1] \in {"Array", "Vec", "Struct"}
<1>1. /\ Leading(ty) \in 0 .. Len(ty)
      /\ \A i \in 1 .. Leading(ty) : ty[i] \in Pointers
      /\ Leading(ty) < Len(ty) => ty[Leading(ty) + 1] \notin Pointers
  BY CountFacts DEF Leading
<1>2. Leading(ty) < Len(ty) => ty[Leading(ty) + 1] \in Ctors
  BY <1>1, TyFacts
<1> QED
  BY <1>1, <1>2 DEF Ctors

-----------------------------------------------------------------------------
(* The two bits along a path *)

Place == [known : BOOLEAN, writable : BOOLEAN, blocked : BOOLEAN]

LEMMA FollowedFacts ==
    ASSUME NEW p \in Place, NEW c \in Pointers
    PROVE  /\ Followed(p, c) \in Place
           /\ Followed(p, c).blocked <=> (p.blocked \/ c = "Ref")
           /\ Followed(p, c).writable <=> IF c \in Refs THEN ~(p.blocked \/ c = "Ref") ELSE p.writable
BY DEF Followed, Place, Pointers, Refs

\* Some constructor of cs, up to the n-th, is in the set.
Some(cs, n, set) == \E i \in 1 .. n : cs[i] \in set

\* Behind pointers: blocked once a shared reference was passed; decided by the
\* references if there were any.
LEMMA ThroughFacts ==
    ASSUME NEW p \in Place, NEW cs \in Seq(Pointers)
    PROVE  /\ Through(p, cs) \in Place
           /\ Through(p, cs).blocked <=> (p.blocked \/ Some(cs, Len(cs), {"Ref"}))
           /\ Through(p, cs).writable
                 <=> IF Some(cs, Len(cs), Refs) THEN ~Through(p, cs).blocked ELSE p.writable
<1> DEFINE N == Len(cs)
           step == [x \in (1 .. N) \X Place |-> Followed(x[2], cs[x[1]])]
           Rec(f) == [n \in 0 .. N |-> IF n = 0 THEN p ELSE Followed(f[n - 1], cs[n])]
<1>0. N \in Nat /\ \A n \in 1 .. N : cs[n] \in Pointers
  OBVIOUS
<1>1. step \in [(1 .. N) \X Place -> Place]
  BY <1>0, FollowedFacts
<1>2. PICK g \in [0 .. N -> Place] : Follows(g, p, step, N)
  <2> HIDE DEF step, N
  <2> QED
    BY <1>0, <1>1, RecursionOnInterval
<1>3. g = Rec(g)
  <2> HIDE DEF N
  <2>1. ASSUME NEW n \in 0 .. N PROVE g[n] = Rec(g)[n]
    <3>1. CASE n = 0
      BY <3>1, <1>2 DEF Follows
    <3>2. CASE n # 0
      <4>1. n \in 1 .. N /\ n - 1 \in 0 .. N
        BY <3>2, <1>0
      <4>2. g[n - 1] \in Place /\ <<n, g[n - 1]>> \in (1 .. N) \X Place
        BY <4>1
      <4>3. g[n] = step[<<n, g[n - 1]>>]
        BY <1>2, <4>1 DEF Follows
      <4> QED
        BY <3>2, <4>2, <4>3
    <3> QED
      BY <3>1, <3>2
  <2>2. g = [n \in 0 .. N |-> g[n]]
    OBVIOUS
  <2> QED
    BY <2>1, <2>2
<1>4. PICK f : f = Rec(f) /\ Through(p, cs) = f[N]
  BY <1>3 DEF Through
<1> DEFINE Good(n) == /\ f[n] \in Place
                      /\ f[n].blocked <=> (p.blocked \/ Some(cs, n, {"Ref"}))
                      /\ f[n].writable <=> IF Some(cs, n, Refs) THEN ~f[n].blocked ELSE p.writable
           S == {n \in 0 .. N : Good(n)}
<1> HIDE DEF N
<1>5. 0 \in S
  <2>1. f[0] = p
    BY <1>0, <1>4
  <2> QED
    BY <2>1, <1>0 DEF Some
<1>6. \A n \in 0 .. N - 1 : n \in S => n + 1 \in S
  <2> SUFFICES ASSUME NEW n \in 0 .. N - 1, Good(n) PROVE Good(n + 1)
    BY <1>0
  <2>0. f[n] \in Place
    OBVIOUS
  <2> DEFINE m == n + 1
  <2>1. m \in 0 .. N /\ m # 0 /\ m - 1 = n /\ m \in 1 .. N
    BY <1>0
  <2>2. f[m] = Followed(f[n], cs[m])
    <3> HIDE DEF m
    <3> QED
      BY <1>4, <2>1
  <2>3. \A set : Some(cs, m, set) <=> Some(cs, n, set) \/ cs[m] \in set
    <3>1. \A i \in 1 .. m : i \in 1 .. n \/ i = m
      BY <2>1
    <3>2. \A i \in 1 .. n : i \in 1 .. m
      BY <2>1
    <3> HIDE DEF m
    <3> QED
      BY <2>1, <3>1, <3>2 DEF Some
  <2>4. cs[m] \in Pointers
    BY <1>0, <2>1
  <2> HIDE DEF m
  <2>5. /\ f[m] \in Place
        /\ f[m].blocked <=> (f[n].blocked \/ cs[m] = "Ref")
        /\ f[m].writable <=> IF cs[m] \in Refs THEN ~(f[n].blocked \/ cs[m] = "Ref") ELSE f[n].writable
    BY <2>0, <2>2, <2>4, FollowedFacts
  <2>6. Good(m)
    <3>1. Some(cs, m, {"Ref"}) <=> Some(cs, n, {"Ref"}) \/ cs[m] = "Ref"
      BY <2>3
    <3>2. Some(cs, m, Refs) <=> Some(cs, n, Refs) \/ cs[m] \in Refs
      BY <2>3
    <3>3. cs[m] \notin Refs => cs[m] # "Ref"
      BY DEF Refs
    <3> QED
      BY <2>5, <3>1, <3>2, <3>3
  <2> QED
    BY <2>6 DEF m
<1> HIDE DEF S, Good
<1>7. N \in S
  <2>1. 0 .. N \subseteq S
    BY <1>0, <1>5, <1>6, UpwardInduction
  <2> QED
    BY <1>0, <2>1
<1> QED
  BY <1>4, <1>7 DEF S, Good, N

-----------------------------------------------------------------------------
(* Paths *)

Expr    == [root : Nat, derefs : Nat, ty : Ty, place : Place]
Binding == [mut : BOOLEAN, ty : Ty, cell : Nat, live : BOOLEAN]

Rooted(e) == e.root # 0 => e.root \in DOMAIN locals /\ locals[e.root].live

\* What the language says of the first k constructors behind the root of e.
SharedWithin(e, k) == \E i \in 1 .. k : SharedAt(e, RootType(e), i)
Changing(e, k) == /\ ~SharedWithin(e, k)
                  /\ MutRoot(e) \/ Some(RootType(e), k, {"RefMut"})
BitsAt(e, k, p) == /\ p \in Place
                   /\ p.blocked <=> SharedWithin(e, k)
                   /\ p.writable <=> Changing(e, k)

\* The constructors e has left behind.
Gone(e) == Len(RootType(e)) - Len(e.ty)

PathInv(e) == /\ e \in Expr /\ Rooted(e)
              /\ Gone(e) \in Nat
              /\ \A i \in 1 .. Len(e.ty) : e.ty[i] = RootType(e)[Gone(e) + i]
              /\ BitsAt(e, Gone(e), e.place)

LEMMA RootFacts ==
    ASSUME locals \in Seq(Binding), NEW e, e.root \in Nat, Rooted(e)
    PROVE  RootType(e) \in Ty /\ MutRoot(e) \in BOOLEAN
<1>1. CASE e.root = 0
  <2>1. <<"Box">> \in Ty
    BY DEF Ty, Ctors, Pointers
  <2> QED
    BY <1>1, <2>1 DEF RootType, CheckRoot, MutRoot
<1>2. CASE e.root # 0
  <2>1. locals[e.root] \in Binding
    BY <1>2 DEF Rooted
  <2> QED
    BY <1>2, <2>1 DEF RootType, CheckRoot, MutRoot, Binding
<1> QED
  BY <1>1, <1>2

\* Only the root of an expression matters to the language.
LEMMA SameRoot ==
    ASSUME NEW e, NEW d, d.root = e.root
    PROVE  /\ RootType(d) = RootType(e)
           /\ Rooted(d) <=> Rooted(e)
           /\ \A k, p : BitsAt(d, k, p) <=> BitsAt(e, k, p)
BY DEF RootType, CheckRoot, Rooted, BitsAt, SharedWithin, Changing, SharedAt, MutRoot

LEMMA SomeGrows ==
    ASSUME NEW cs, NEW k \in Nat, NEW set
    PROVE  Some(cs, k + 1, set) <=> Some(cs, k, set) \/ cs[k + 1] \in set
<1>1. \A i \in 1 .. k + 1 : i \in 1 .. k \/ i = k + 1
  OBVIOUS
<1>2. k + 1 \in 1 .. k + 1 /\ \A i \in 1 .. k : i \in 1 .. k + 1
  OBVIOUS
<1> QED
  BY <1>1, <1>2 DEF Some

LEMMA SharedGrows ==
    ASSUME NEW e, NEW k \in Nat
    PROVE  SharedWithin(e, k + 1) <=> SharedWithin(e, k) \/ SharedAt(e, RootType(e), k + 1)
<1>1. \A i \in 1 .. k + 1 : i \in 1 .. k \/ i = k + 1
  OBVIOUS
<1>2. k + 1 \in 1 .. k + 1 /\ \A i \in 1 .. k : i \in 1 .. k + 1
  OBVIOUS
<1> QED
  BY <1>1, <1>2 DEF SharedWithin

\* One more pointer is followed.
LEMMA BitsFollow ==
    ASSUME NEW e, NEW k \in Nat, NEW p, BitsAt(e, k, p), RootType(e)[k + 1] \in Pointers
    PROVE  BitsAt(e, k + 1, Followed(p, RootType(e)[k + 1]))
<1> DEFINE c == RootType(e)[k + 1]
           q == Followed(p, c)
<1>1. /\ q \in Place
      /\ q.blocked <=> (p.blocked \/ c = "Ref")
      /\ q.writable <=> IF c \in Refs THEN ~(p.blocked \/ c = "Ref") ELSE p.writable
  BY FollowedFacts DEF BitsAt
<1>2. SharedAt(e, RootType(e), k + 1) <=> c = "Ref"
  BY DEF SharedAt, Pointers, Refs
<1>3. /\ Some(RootType(e), k + 1, {"RefMut"}) <=> Some(RootType(e), k, {"RefMut"}) \/ c = "RefMut"
      /\ SharedWithin(e, k + 1) <=> SharedWithin(e, k) \/ c = "Ref"
  BY <1>2, SomeGrows, SharedGrows
<1>4. (p.blocked <=> SharedWithin(e, k)) /\ (p.writable <=> Changing(e, k))
  BY DEF BitsAt
<1>5. c \in {"Ref", "RefMut", "Box"} /\ (c \in Refs <=> c \in {"Ref", "RefMut"})
  BY DEF Pointers, Refs
<1> HIDE DEF c, q
<1>6. (q.blocked <=> SharedWithin(e, k + 1)) /\ (q.writable <=> Changing(e, k + 1))
  BY <1>1, <1>3, <1>4, <1>5 DEF Changing
<1> QED
  BY <1>1, <1>6 DEF BitsAt, c, q

\* A field, or an element of an array, is reached.
LEMMA BitsProject ==
    ASSUME NEW e, NEW k \in Nat, NEW p, BitsAt(e, k, p), RootType(e)[k + 1] \in {"Struct", "Array"}
    PROVE  BitsAt(e, k + 1, [p EXCEPT !.known = TRUE])
<1>1. ~SharedAt(e, RootType(e), k + 1) /\ RootType(e)[k + 1] \notin {"RefMut"}
  BY DEF SharedAt
<1>2. SharedWithin(e, k + 1) <=> SharedWithin(e, k)
  BY <1>1, SharedGrows
<1>3. Some(RootType(e), k + 1, {"RefMut"}) <=> Some(RootType(e), k, {"RefMut"})
  BY <1>1, SomeGrows
<1>4. Changing(e, k + 1) <=> Changing(e, k)
  BY <1>2, <1>3 DEF Changing
<1> QED
  BY <1>2, <1>4 DEF BitsAt, Place

\* An element of a vector is reached.
LEMMA BitsIndex ==
    ASSUME NEW e, NEW k \in Nat, NEW p, BitsAt(e, k, p), RootType(e)[k + 1] = "Vec"
    PROVE  BitsAt(e, k + 1, [p EXCEPT !.known = TRUE, !.blocked = @ \/ ~p.writable])
<1> DEFINE R == RootType(e)
<1>1. SharedAt(e, R, k + 1) <=> ~MutRoot(e) /\ \A j \in 1 .. k : R[j] \notin Refs
  <2>1. (k + 1) - 1 = k
    OBVIOUS
  <2> QED
    BY <2>1 DEF SharedAt
<1>2. SharedWithin(e, k + 1) <=> SharedWithin(e, k) \/ SharedAt(e, R, k + 1)
  BY SharedGrows
<1>3. Some(R, k + 1, {"RefMut"}) <=> Some(R, k, {"RefMut"})
  BY SomeGrows
<1>4. SharedAt(e, R, k + 1) => ~MutRoot(e) /\ ~Some(R, k, {"RefMut"})
  BY <1>1 DEF Some, Refs
<1>5. ~SharedWithin(e, k) /\ ~MutRoot(e) /\ ~Some(R, k, {"RefMut"}) => SharedAt(e, R, k + 1)
  BY <1>1 DEF SharedWithin, SharedAt, Some, Refs
<1> HIDE DEF R
<1>6. SharedWithin(e, k + 1) <=> p.blocked \/ ~p.writable
  BY <1>2, <1>4, <1>5 DEF BitsAt, Changing, R
<1>7. Changing(e, k + 1) <=> p.writable
  <2>1. Changing(e, k + 1) <=> ~SharedWithin(e, k + 1) /\ (MutRoot(e) \/ Some(R, k, {"RefMut"}))
    BY <1>3 DEF Changing, R
  <2>2. p.writable <=> ~SharedWithin(e, k) /\ (MutRoot(e) \/ Some(R, k, {"RefMut"}))
    BY DEF BitsAt, Changing, R
  <2> QED
    BY <1>2, <1>4, <2>1, <2>2
<1> QED
  BY <1>6, <1>7 DEF BitsAt, Place

LEMMA BitsThrough ==
    ASSUME locals \in Seq(Binding), NEW e, PathInv(e), NEW n \in 0 .. Leading(e.ty)
    PROVE  BitsAt(e, Gone(e) + n, Through(e.place, SubSeq(e.ty, 1, n)))
<1> DEFINE R  == RootType(e)
           k  == Gone(e)
           cs == SubSeq(e.ty, 1, n)
           q  == Through(e.place, cs)
<1>1. e.ty \in Ty /\ e.place \in Place /\ k \in Nat
  BY DEF PathInv, Expr
<1>2. n \in Nat /\ n \in 0 .. Len(e.ty) /\ \A i \in 1 .. n : e.ty[i] \in Pointers
  BY <1>1, LeadingFacts, TyFacts
<1>3. Len(cs) = n /\ cs \in Ty /\ \A i \in 1 .. n : cs[i] = e.ty[i] /\ cs[i] \in Pointers
  BY <1>1, <1>2, FirstFacts
<1>4. cs \in Seq(Pointers)
  BY <1>2, <1>3 DEF Ty
<1>5. \A i \in 1 .. n : cs[i] = R[k + i]
  BY <1>1, <1>2, <1>3, TyFacts DEF PathInv
<1>6. /\ q \in Place
      /\ q.blocked <=> (e.place.blocked \/ Some(cs, n, {"Ref"}))
      /\ q.writable <=> IF Some(cs, n, Refs) THEN ~q.blocked ELSE e.place.writable
  <2> HIDE DEF cs
  <2> QED
    BY <1>1, <1>3, <1>4, ThroughFacts
<1>7. \A set : Some(R, k + n, set) <=> Some(R, k, set) \/ Some(cs, n, set)
  <2> TAKE set
  <2>1. \A i \in 1 .. k + n : i \in 1 .. k \/ (i - k \in 1 .. n /\ k + (i - k) = i)
    BY <1>1, <1>2
  <2>2. \A i \in 1 .. k : i \in 1 .. k + n
    BY <1>1, <1>2
  <2>3. \A i \in 1 .. n : k + i \in 1 .. k + n
    BY <1>1, <1>2
  <2> HIDE DEF cs, k, R
  <2> QED
    BY <1>5, <2>1, <2>2, <2>3 DEF Some
<1>8. SharedWithin(e, k + n) <=> SharedWithin(e, k) \/ Some(cs, n, {"Ref"})
  <2>1. \A i \in 1 .. n : SharedAt(e, R, k + i) <=> cs[i] = "Ref"
    BY <1>3, <1>5 DEF SharedAt, Pointers, Refs
  <2>2. \A i \in 1 .. k + n : i \in 1 .. k \/ (i - k \in 1 .. n /\ k + (i - k) = i)
    BY <1>1, <1>2
  <2>3. \A i \in 1 .. k : i \in 1 .. k + n
    BY <1>1, <1>2
  <2>4. \A i \in 1 .. n : k + i \in 1 .. k + n
    BY <1>1, <1>2
  <2>5. SharedWithin(e, k) <=> \E i \in 1 .. k : SharedAt(e, R, i)
    BY DEF SharedWithin
  <2>6. SharedWithin(e, k + n) <=> \E i \in 1 .. k + n : SharedAt(e, R, i)
    BY DEF SharedWithin
  <2> HIDE DEF cs, k, R
  <2> QED
    BY <2>1, <2>2, <2>3, <2>4, <2>5, <2>6 DEF Some
<1>9. (e.place.blocked <=> SharedWithin(e, k)) /\ (e.place.writable <=> Changing(e, k))
  BY DEF PathInv, BitsAt
<1>10. Some(cs, n, Refs) <=> Some(cs, n, {"Ref"}) \/ Some(cs, n, {"RefMut"})
  BY DEF Some, Refs
<1>11. /\ Changing(e, k) <=> ~SharedWithin(e, k) /\ (MutRoot(e) \/ Some(R, k, {"RefMut"}))
       /\ Changing(e, k + n) <=> ~SharedWithin(e, k + n) /\ (MutRoot(e) \/ Some(R, k + n, {"RefMut"}))
  BY DEF Changing
<1> HIDE DEF R, k, cs, q
<1>12. q.blocked <=> SharedWithin(e, k + n)
  BY <1>6, <1>8, <1>9
<1>13. q.writable <=> Changing(e, k + n)
  <2>1. CASE Some(cs, n, Refs)
    BY <1>6, <1>7, <1>8, <1>10, <1>11, <1>12, <2>1
  <2>2. CASE ~Some(cs, n, Refs)
    BY <1>6, <1>7, <1>8, <1>9, <1>10, <1>11, <2>2
  <2> QED
    BY <2>1, <2>2
<1>14. BitsAt(e, k + n, q)
  BY <1>6, <1>12, <1>13 DEF BitsAt
<1> QED
  BY <1>14 DEF k, q, cs

\* A step that goes m constructors further and knows the bits there.
LEMMA Advance ==
    ASSUME locals \in Seq(Binding), NEW e, PathInv(e), NEW m \in 1 .. Len(e.ty), NEW d \in Expr,
           d.root = e.root, d.ty = Rest(e.ty, m), BitsAt(e, Gone(e) + m, d.place)
    PROVE  PathInv(d)
<1>0. RootType(e) \in Ty
  BY RootFacts DEF PathInv, Expr
<1>1. e.ty \in Ty /\ Gone(e) \in Nat /\ Len(e.ty) \in Nat /\ Rooted(e)
  BY TyFacts DEF PathInv, Expr
<1>2. m \in Nat /\ m \in 0 .. Len(e.ty)
  BY <1>1
<1>3. Len(d.ty) = Len(e.ty) - m /\ \A i \in 1 .. Len(e.ty) - m : d.ty[i] = e.ty[m + i]
  BY <1>1, <1>2, RestFacts
<1>4. RootType(d) = RootType(e) /\ Rooted(d) /\ \A k, p : BitsAt(d, k, p) <=> BitsAt(e, k, p)
  BY <1>1, SameRoot
<1>5. Len(RootType(e)) \in Int
  BY <1>0, TyFacts
<1>6. Gone(d) = Gone(e) + m
  BY <1>1, <1>2, <1>3, <1>4, <1>5 DEF Gone
<1>7. ASSUME NEW i \in 1 .. Len(d.ty) PROVE d.ty[i] = RootType(d)[Gone(d) + i]
  <2>1. m + i \in 1 .. Len(e.ty) /\ Gone(e) + (m + i) = Gone(d) + i
    BY <1>1, <1>2, <1>3, <1>6
  <2> QED
    BY <2>1, <1>3, <1>4 DEF PathInv
<1> QED
  BY <1>1, <1>2, <1>4, <1>6, <1>7 DEF PathInv

LEMMA StepsInv ==
    ASSUME locals \in Seq(Binding), NEW e, PathInv(e), NEW d \in Steps(e)
    PROVE  PathInv(d)
<1> DEFINE n == Leading(e.ty)
           k == Gone(e)
<1>1. e \in Expr /\ e.ty \in Ty /\ e.root \in Nat /\ e.derefs \in Nat /\ e.place \in Place
  BY DEF PathInv, Expr
<1>2. /\ Len(e.ty) \in Nat /\ n \in 0 .. Len(e.ty) /\ k \in Nat
      /\ \A i \in 1 .. Len(e.ty) : e.ty[i] = RootType(e)[k + i]
  BY <1>1, TyFacts, LeadingFacts DEF PathInv
<1>3. CASE n > 0 /\ d = CheckDeref(e)
  <2>1. 1 \in 1 .. Len(e.ty) /\ 1 \in 0 .. Len(e.ty) /\ 1 \in 1 .. n
    BY <1>2, <1>3
  <2>2. Head(e.ty) = e.ty[1] /\ e.ty[1] \in Pointers /\ e.ty[1] = RootType(e)[k + 1]
    BY <1>1, <1>2, <2>1, LeadingFacts
  <2>3. Tail(e.ty) = Rest(e.ty, 1)
    <3>1. Tail(e.ty) = SubSeq(e.ty, 2, Len(e.ty))
      BY <1>1, <2>1, HeadTailProperties DEF Ty
    <3> QED
      BY <3>1 DEF Rest
  <2>4. BitsAt(e, k, e.place)
    BY DEF PathInv
  <2>5. BitsAt(e, k + 1, Followed(e.place, Head(e.ty)))
    <3> HIDE DEF k
    <3> QED
      BY <1>2, <2>2, <2>4, BitsFollow
  <2>6. Rest(e.ty, 1) \in Ty /\ Followed(e.place, Head(e.ty)) \in Place
    BY <1>1, <2>1, <2>5, RestFacts DEF BitsAt
  <2>7. /\ d \in Expr /\ d.root = e.root /\ d.ty = Rest(e.ty, 1)
        /\ d.place = Followed(e.place, Head(e.ty))
    <3> DEFINE t == Rest(e.ty, 1)
               f == Followed(e.place, Head(e.ty))
    <3>1. d = [e EXCEPT !.ty = t, !.place = f, !.derefs = @ + 1]
      BY <1>3, <2>3 DEF CheckDeref
    <3>2. t \in Ty /\ f \in Place
      BY <2>6
    <3> HIDE DEF t, f
    <3>3. /\ d.root = e.root /\ d.derefs = e.derefs + 1 /\ d.ty = t /\ d.place = f
          /\ d = [root |-> d.root, derefs |-> d.derefs, ty |-> d.ty, place |-> d.place]
      BY <1>1, <3>1 DEF Expr
    <3>4. d \in Expr
      BY <1>1, <3>2, <3>3 DEF Expr
    <3> QED
      BY <3>3, <3>4 DEF t, f
  <2> QED
    BY <2>1, <2>5, <2>7, Advance
<1>4. ASSUME n < Len(e.ty), e.ty[n + 1] \in {"Struct", "Array", "Vec"},
             d.root = e.root, d.ty = Rest(e.ty, n + 1), d.derefs \in Nat,
             d = [root |-> d.root, derefs |-> d.derefs, ty |-> d.ty, place |-> d.place],
             BitsAt(e, (k + n) + 1, d.place)
      PROVE  PathInv(d)
  <2>1. n + 1 \in 1 .. Len(e.ty) /\ n + 1 \in 0 .. Len(e.ty) /\ (k + n) + 1 = k + (n + 1)
    BY <1>2, <1>4
  <2>2. Rest(e.ty, n + 1) \in Ty
    BY <1>1, <2>1, RestFacts
  <2>3. d \in Expr
    BY <1>1, <1>4, <2>2 DEF Expr, BitsAt
  <2>4. BitsAt(e, Gone(e) + (n + 1), d.place)
    BY <1>4, <2>1
  <2> HIDE DEF n
  <2> QED
    BY <1>4, <2>1, <2>3, <2>4, Advance
<1> DEFINE q == Through(e.place, SubSeq(e.ty, 1, n))
<1>5. BitsAt(e, k + n, q) /\ q \in Place
  <2>1. n \in 0 .. Leading(e.ty)
    BY <1>2
  <2> QED
    BY <2>1, BitsThrough DEF BitsAt
<1>6. ASSUME n < Len(e.ty) PROVE e.ty[n + 1] = RootType(e)[(k + n) + 1] /\ k + n \in Nat /\ n \in Nat
  <2>1. n + 1 \in 1 .. Len(e.ty) /\ k + (n + 1) = (k + n) + 1
    BY <1>2, <1>6
  <2> QED
    BY <1>2, <2>1
<1>7. CASE n < Len(e.ty) /\ e.ty[n + 1] = "Struct" /\ d = CheckField(e)
  <2>1. d = [e EXCEPT !.ty = Rest(@, n + 1), !.place = [q EXCEPT !.known = TRUE], !.derefs = @ + n]
    BY <1>7 DEF CheckField
  <2>2. /\ d.root = e.root /\ d.ty = Rest(e.ty, n + 1) /\ d.place = [q EXCEPT !.known = TRUE]
        /\ d.derefs = e.derefs + n
        /\ d = [root |-> d.root, derefs |-> d.derefs, ty |-> d.ty, place |-> d.place]
    <3> HIDE DEF n, q
    <3> QED
      BY <1>1, <2>1 DEF Expr
  <2>3. BitsAt(e, (k + n) + 1, d.place)
    <3> HIDE DEF n, q, k
    <3> QED
      BY <1>5, <1>6, <1>7, <2>2, BitsProject
  <2>4. d.derefs \in Nat
    BY <1>1, <1>6, <1>7, <2>2
  <2> QED
    BY <1>4, <1>7, <2>2, <2>3, <2>4
<1>8. CASE n < Len(e.ty) /\ e.ty[n + 1] \in {"Array", "Vec"} /\ d = CheckIndex(e)
  <2> DEFINE v == IF e.ty[n + 1] = "Vec" THEN 1 ELSE 0
             r == [q EXCEPT !.known = TRUE, !.blocked = @ \/ (e.ty[n + 1] = "Vec" /\ ~q.writable)]
  <2>1. d = [e EXCEPT !.ty = Rest(@, n + 1), !.place = r, !.derefs = @ + n + v]
    BY <1>8 DEF CheckIndex
  <2>2. /\ d.root = e.root /\ d.ty = Rest(e.ty, n + 1) /\ d.place = r
        /\ d.derefs = e.derefs + n + v
        /\ d = [root |-> d.root, derefs |-> d.derefs, ty |-> d.ty, place |-> d.place]
    <3> HIDE DEF n, r, v
    <3> QED
      BY <1>1, <2>1 DEF Expr
  <2>3. BitsAt(e, (k + n) + 1, r)
    <3>1. CASE e.ty[n + 1] = "Vec"
      <4>1. r = [q EXCEPT !.known = TRUE, !.blocked = @ \/ ~q.writable]
        <5> HIDE DEF q, n
        <5> QED
          BY <1>5, <3>1 DEF Place
      <4> HIDE DEF n, q, k, r
      <4> QED
        BY <1>5, <1>6, <1>8, <3>1, <4>1, BitsIndex
    <3>2. CASE e.ty[n + 1] = "Array"
      <4>1. r = [q EXCEPT !.known = TRUE]
        <5> HIDE DEF q, n
        <5> QED
          BY <1>5, <3>2 DEF Place
      <4> HIDE DEF n, q, k, r
      <4> QED
        BY <1>5, <1>6, <1>8, <3>2, <4>1, BitsProject
    <3> QED
      BY <1>8, <3>1, <3>2
  <2>4. d.derefs \in Nat
    BY <1>1, <1>6, <1>8, <2>2
  <2> QED
    BY <1>4, <1>8, <2>2, <2>3, <2>4
<1> QED
  BY <1>3, <1>7, <1>8 DEF Steps

-----------------------------------------------------------------------------
(* All paths *)

Roots == {CheckRoot(r) : r \in {0} \cup {i \in DOMAIN locals : locals[i].live}}
PathsOf(f) == [n \in 0 .. MaxDepth |->
                  IF n = 0 THEN Roots ELSE f[n - 1] \cup UNION {Steps(e) : e \in f[n - 1]}]

LEMMA RootsInv ==
    ASSUME locals \in Seq(Binding), NEW e \in Roots
    PROVE  PathInv(e)
<1>1. PICK r \in {0} \cup {i \in DOMAIN locals : locals[i].live} : e = CheckRoot(r)
  BY DEF Roots
<1>2. /\ r \in Nat /\ e.root = r /\ Rooted(e) /\ e.derefs = 0 /\ e.ty = RootType(e)
      /\ e.place = IF r = 0 THEN NoPlace ELSE Variable(locals[r].mut)
      /\ e = [root |-> e.root, derefs |-> e.derefs, ty |-> e.ty, place |-> e.place]
  BY <1>1 DEF CheckRoot, Rooted, RootType
<1>3. RootType(e) \in Ty /\ MutRoot(e) \in BOOLEAN
  BY <1>2, RootFacts
<1>4. /\ e.place \in Place /\ e.place.blocked = FALSE
      /\ e.place.writable = MutRoot(e)
  <2>1. CASE r = 0
    <3>1. MutRoot(e) = TRUE
      BY <1>2, <1>3, <2>1 DEF MutRoot
    <3> QED
      BY <1>2, <2>1, <3>1 DEF NoPlace, Place
  <2>2. CASE r # 0
    <3>1. r \in DOMAIN locals /\ locals[r] \in Binding
      BY <1>2, <2>2 DEF Rooted
    <3>2. locals[r].mut \in BOOLEAN /\ MutRoot(e) = locals[r].mut
      <4>1. locals[r].mut \in BOOLEAN
        BY <3>1 DEF Binding
      <4>2. MutRoot(e) <=> locals[r].mut
        BY <1>2, <2>2 DEF MutRoot
      <4> QED
        BY <1>3, <4>1, <4>2
    <3>3. e.place = Variable(locals[r].mut)
      BY <1>2, <2>2
    <3> QED
      BY <3>2, <3>3 DEF Variable, Place
  <2> QED
    BY <2>1, <2>2
<1>5. e \in Expr
  BY <1>2, <1>3, <1>4 DEF Expr
<1>6. Gone(e) = 0
  BY <1>2, <1>3, TyFacts DEF Gone
<1>7. ~SharedWithin(e, 0) /\ ~Some(RootType(e), 0, {"RefMut"})
  BY DEF SharedWithin, Some
<1>8. BitsAt(e, 0, e.place)
  BY <1>3, <1>4, <1>7 DEF BitsAt, Changing
<1>9. ASSUME NEW i \in 1 .. Len(e.ty) PROVE e.ty[i] = RootType(e)[Gone(e) + i]
  BY <1>2, <1>3, <1>6, TyFacts
<1> QED
  BY <1>2, <1>5, <1>6, <1>8, <1>9 DEF PathInv

\* Induction over the paths: what the roots have and every step keeps.
LEMMA PathsInduction ==
    ASSUME NEW Good, Roots \subseteq Good, \A e \in Good : Steps(e) \subseteq Good
    PROVE  Paths \subseteq Good
<1> DEFINE V == SUBSET Good
           Grow(X) == X \cup UNION {Steps(e) : e \in X}
           step == [x \in (1 .. MaxDepth) \X V |-> Grow(x[2])]
<1>0. MaxDepth \in Nat
  BY PlacesAssumption
<1>1. Roots \in V
  OBVIOUS
<1>2. ASSUME NEW X \in V PROVE Grow(X) \in V
  OBVIOUS
<1>3. step \in [(1 .. MaxDepth) \X V -> V]
  <2> HIDE DEF V, Grow
  <2> QED
    BY <1>2
<1>4. PICK g \in [0 .. MaxDepth -> V] : Follows(g, Roots, step, MaxDepth)
  <2> HIDE DEF V, step
  <2> QED
    BY <1>0, <1>1, <1>3, RecursionOnInterval
<1>5. g = PathsOf(g)
  <2> HIDE DEF V
  <2>1. ASSUME NEW n \in 0 .. MaxDepth PROVE g[n] = PathsOf(g)[n]
    <3>1. CASE n = 0
      BY <3>1, <1>4 DEF Follows, PathsOf
    <3>2. CASE n # 0
      <4>1. n \in 1 .. MaxDepth /\ n - 1 \in 0 .. MaxDepth
        BY <3>2, <1>0
      <4>2. g[n - 1] \in V /\ <<n, g[n - 1]>> \in (1 .. MaxDepth) \X V
        BY <4>1
      <4>3. g[n] = step[<<n, g[n - 1]>>]
        <5> HIDE DEF step
        <5> QED
          BY <1>4, <4>1 DEF Follows
      <4> HIDE DEF Grow
      <4>4. g[n] = Grow(g[n - 1])
        BY <4>2, <4>3
      <4> QED
        BY <3>2, <4>4 DEF Grow, PathsOf
    <3> QED
      BY <3>1, <3>2
  <2>2. g = [n \in 0 .. MaxDepth |-> g[n]]
    OBVIOUS
  <2>3. PathsOf(g) = [n \in 0 .. MaxDepth |-> PathsOf(g)[n]]
    BY DEF PathsOf
  <2> QED
    BY <2>1, <2>2, <2>3
<1>6. PICK f : f = PathsOf(f) /\ Paths = f[MaxDepth]
  BY <1>5 DEF Paths, PathsOf, Roots
<1> DEFINE S == {n \in 0 .. MaxDepth : f[n] \in V}
<1>7. 0 \in S
  BY <1>0, <1>1, <1>6 DEF PathsOf
<1>8. \A n \in 0 .. MaxDepth - 1 : n \in S => n + 1 \in S
  <2> SUFFICES ASSUME NEW n \in 0 .. MaxDepth - 1, f[n] \in V PROVE f[n + 1] \in V
    BY <1>0
  <2>1. n + 1 \in 0 .. MaxDepth /\ n + 1 # 0 /\ (n + 1) - 1 = n
    BY <1>0
  <2>2. f[n + 1] = Grow(f[n])
    <3> HIDE DEF V
    <3> QED
      BY <1>6, <2>1 DEF PathsOf
  <2> HIDE DEF V, Grow
  <2> QED
    BY <1>2, <2>2
<1>9. MaxDepth \in S
  <2> HIDE DEF S
  <2>1. 0 .. MaxDepth \subseteq S
    BY <1>0, <1>7, <1>8, UpwardInduction
  <2> QED
    BY <1>0, <2>1
<1> QED
  BY <1>6, <1>9

LEMMA PathsInv ==
    ASSUME locals \in Seq(Binding)
    PROVE  \A e \in Paths : PathInv(e)
<1> DEFINE Good == {e \in Expr : PathInv(e)}
<1>1. Roots \subseteq Good
  BY RootsInv DEF PathInv
<1>2. \A e \in Good : Steps(e) \subseteq Good
  BY StepsInv DEF PathInv
<1> HIDE DEF Good
<1>3. Paths \subseteq Good
  BY <1>1, <1>2, PathsInduction
<1> QED
  BY <1>3 DEF Good

-----------------------------------------------------------------------------
(* The language, asked about an expression *)

\* What more constructors add, if they are pointers.
LEMMA PastPointers ==
    ASSUME locals \in Seq(Binding), NEW e, PathInv(e), NEW n \in 0 .. Len(e.ty),
           \A i \in 1 .. n : e.ty[i] \in Pointers
    PROVE  /\ SharedWithin(e, Gone(e) + n) <=> SharedWithin(e, Gone(e)) \/ Some(e.ty, n, {"Ref"})
           /\ \A set : Some(RootType(e), Gone(e) + n, set)
                          <=> Some(RootType(e), Gone(e), set) \/ Some(e.ty, n, set)
<1> DEFINE R == RootType(e)
           k == Gone(e)
<1>1. k \in Nat /\ n \in Nat
  BY TyFacts DEF PathInv, Expr
<1>2. \A i \in 1 .. n : e.ty[i] = R[k + i]
  BY <1>1, TyFacts DEF PathInv, Expr
<1>3. \A i \in 1 .. k + n : i \in 1 .. k \/ (i - k \in 1 .. n /\ k + (i - k) = i)
  BY <1>1
<1>4. \A i \in 1 .. k : i \in 1 .. k + n
  BY <1>1
<1>5. \A i \in 1 .. n : k + i \in 1 .. k + n
  BY <1>1
<1>6. \A i \in 1 .. n : SharedAt(e, R, k + i) <=> e.ty[i] = "Ref"
  BY <1>2 DEF SharedAt, Pointers, Refs
<1>7. /\ SharedWithin(e, k) <=> \E i \in 1 .. k : SharedAt(e, R, i)
      /\ SharedWithin(e, k + n) <=> \E i \in 1 .. k + n : SharedAt(e, R, i)
  BY DEF SharedWithin
<1> HIDE DEF R, k
<1>8. SharedWithin(e, k + n) <=> SharedWithin(e, k) \/ Some(e.ty, n, {"Ref"})
  BY <1>3, <1>4, <1>5, <1>6, <1>7 DEF Some
<1>9. ASSUME NEW set PROVE Some(R, k + n, set) <=> Some(R, k, set) \/ Some(e.ty, n, set)
  BY <1>2, <1>3, <1>4, <1>5 DEF Some
<1> QED
  BY <1>8, <1>9 DEF R, k

LEMMA ChangeableIs ==
    ASSUME locals \in Seq(Binding), NEW e, PathInv(e), NEW n \in 0 .. Len(e.ty)
    PROVE  Changeable(e, n) <=> Changing(e, Gone(e) + n)
<1> DEFINE R == RootType(e)
           k == Gone(e) + n
           way == SubSeq(R, 1, k)
<1>1. R \in Ty /\ e.ty \in Ty /\ Len(R) \in Nat /\ Len(e.ty) \in Nat /\ Gone(e) \in Nat
  BY RootFacts, TyFacts DEF PathInv, Expr
<1>2. k \in 0 .. Len(R)
  BY <1>1 DEF Gone
<1>3. way \in Ty /\ DOMAIN way = 1 .. k /\ \A i \in 1 .. k : way[i] = R[i]
  <2> HIDE DEF R, k
  <2> QED
    BY <1>1, <1>2, FirstFacts, TyFacts
<1>4. Way(e, n) = way
  BY DEF Way, Gone
<1>5. \A i \in 1 .. k : SharedAt(e, way, i) <=> SharedAt(e, R, i)
  <2> TAKE i \in 1 .. k
  <2>1. \A j \in 1 .. (i - 1) : j \in 1 .. k
    BY <1>2
  <2> HIDE DEF R, k, way
  <2> QED
    BY <1>3, <2>1 DEF SharedAt
<1>6. NothingShared(e, way) <=> ~SharedWithin(e, k)
  <2>1. SharedWithin(e, k) <=> \E i \in 1 .. k : SharedAt(e, R, i)
    BY DEF SharedWithin
  <2> HIDE DEF R, k, way
  <2> QED
    BY <1>3, <1>5, <2>1 DEF NothingShared
<1>7. (\E i \in DOMAIN way : way[i] = "RefMut") <=> Some(R, k, {"RefMut"})
  <2> HIDE DEF R, k, way
  <2> QED
    BY <1>3 DEF Some
<1> HIDE DEF k, way
<1> QED
  BY <1>4, <1>6, <1>7 DEF Changeable, Changing, k

LEMMA HeadFacts ==
    ASSUME NEW ty \in Ty, ty # <<>>
    PROVE  Len(ty) \in Nat /\ Len(ty) >= 1 /\ ty[1] = Head(ty) /\ ty[1] \in Ctors
<1>1. Len(ty) # 0
  BY EmptySeq DEF Ty
<1> QED
  BY <1>1 DEF Ty
\* One more constructor in front.
LEMMA PrefixedFacts ==
    ASSUME NEW c \in Ctors, NEW t \in Ty
    PROVE  /\ <<c>> \o t \in Ty /\ <<c>> \o t # <<>>
           /\ (<<c>> \o t)[1] = c /\ Head(<<c>> \o t) = c
           /\ Len(<<c>> \o t) = Len(t) + 1
           /\ \A i \in 1 .. Len(t) : (<<c>> \o t)[i + 1] = t[i]
<1>1. /\ <<c>> \o t \in Ty
      /\ (<<c>> \o t)[1] = c
      /\ Len(<<c>> \o t) = Len(t) + 1
      /\ \A i \in 1 .. Len(t) : (<<c>> \o t)[i + 1] = t[i]
  BY DEF Ty
<1>2. <<c>> \o t # <<>>
  BY <1>1, EmptySeq, TyFacts
<1>3. Head(<<c>> \o t) = c
  BY <1>1, <1>2, HeadFacts
<1> QED
  BY <1>1, <1>2, <1>3

LEMMA UnstatedFacts == Head(Unstated) = "unstated"
<1>1. Unstated \in Seq({"unstated"}) /\ Unstated[1] = "unstated" /\ Len(Unstated) = 1
  BY DEF Unstated
<1> QED
  BY <1>1

\* Where an expression stands, the two bits are what the language says.
LEMMA BitsHere ==
    ASSUME locals \in Seq(Binding), NEW e, PathInv(e)
    PROVE  /\ MayBorrowMut(e.place) <=> Changeable(e, 0)
           /\ e.place.writable <=> Changeable(e, 0)
           /\ e.place.blocked <=> SharedWithin(e, Gone(e))
<1>1. BitsAt(e, Gone(e), e.place) /\ Gone(e) + 0 = Gone(e) /\ 0 \in 0 .. Len(e.ty)
  BY TyFacts DEF PathInv, Expr
<1>2. Changeable(e, 0) <=> Changing(e, Gone(e))
  <2>1. Changeable(e, 0) <=> Changing(e, Gone(e) + 0)
    BY <1>1, ChangeableIs
  <2> QED
    BY <1>1, <2>1
<1> QED
  BY <1>1, <1>2 DEF BitsAt, Changing, MayBorrowMut

LEMMA CoercesSame ==
    ASSUME NEW x, x.ty \in Ty
    PROVE  Coerces(x, x.ty) <=> ~(x.ty # <<>> /\ Head(x.ty) = "RefMut" /\ x.place.blocked)
<1>1. x.ty # Unstated
  <2>1. x.ty # <<>> => x.ty[1] \in Ctors
    BY DEF Ty
  <2>2. "unstated" \notin Ctors
    BY DEF Ctors, Pointers, Refs
  <2> QED
    BY <2>1, <2>2 DEF Unstated
<1>2. PlanCoercion(x.ty, x.ty).ok
  BY DEF PlanCoercion
<1> QED
  BY <1>1, <1>2 DEF Coerces, Refs

\* A reference is coerced to a reference r over n levels.
Over(x, to, n, r) ==
    /\ x.ty \in Ty /\ x.ty # <<>> /\ Head(x.ty) \in Refs
    /\ n \in 1 .. Leading(x.ty) /\ r \in Refs
    /\ to = <<r>> \o Rest(x.ty, n) /\ to # x.ty

LEMMA CoercesOver ==
    ASSUME NEW x, NEW to, NEW n, NEW r, Over(x, to, n, r)
    PROVE  /\ to \in Ty /\ to # <<>> /\ Head(to) = r /\ Len(x.ty) + 1 - Len(to) = n
           /\ to # Unstated
           /\ PlanCoercion(x.ty, to).derefs = n
           /\ Coerces(x, to) <=> ~(r = "RefMut" /\ (Some(x.ty, n, {"Ref"}) \/ x.place.blocked))
<1>0. /\ x.ty \in Ty /\ x.ty # <<>> /\ Head(x.ty) \in Refs /\ n \in 1 .. Leading(x.ty) /\ r \in Refs
      /\ to = <<r>> \o Rest(x.ty, n) /\ to # x.ty
  BY DEF Over
<1>1. n \in 0 .. Len(x.ty) /\ Len(x.ty) \in Nat
  BY <1>0, LeadingFacts, TyFacts
<1>2. Rest(x.ty, n) \in Ty /\ Len(Rest(x.ty, n)) = Len(x.ty) - n
  BY <1>0, <1>1, RestFacts
<1>3. to \in Ty /\ to # <<>> /\ Head(to) = r /\ Len(to) = (Len(x.ty) - n) + 1
  <2> DEFINE t == Rest(x.ty, n)
  <2>1. r \in Ctors
    BY <1>0 DEF Ctors, Pointers
  <2>2. to = <<r>> \o t /\ t \in Ty /\ Len(t) = Len(x.ty) - n
    BY <1>0, <1>2
  <2> HIDE DEF t
  <2>3. /\ <<r>> \o t \in Ty /\ <<r>> \o t # <<>>
        /\ Head(<<r>> \o t) = r /\ Len(<<r>> \o t) = Len(t) + 1
    BY <2>1, <2>2, PrefixedFacts, Zenon
  <2> QED
    BY <2>2, <2>3
<1>4. Len(x.ty) + 1 - Len(to) = n
  BY <1>0, <1>1, <1>3
<1>5. to # Unstated
  BY <1>0, <1>3, UnstatedFacts DEF Refs
<1>6. /\ PlanCoercion(x.ty, to).ok <=> ~(r = "RefMut" /\ Some(x.ty, n, {"Ref"}))
      /\ PlanCoercion(x.ty, to).derefs = n
  <2> DEFINE m == Len(x.ty) + 1 - Len(to)
  <2>1. PlanCoercion(x.ty, to) = [ok |-> ~(Head(to) = "RefMut" /\ \E i \in 1 .. m : x.ty[i] = "Ref"), derefs |-> m]
    BY <1>0 DEF PlanCoercion
  <2>2. m = n
    BY <1>4
  <2> HIDE DEF m
  <2>4. /\ PlanCoercion(x.ty, to).derefs = m
        /\ PlanCoercion(x.ty, to).ok <=> ~(Head(to) = "RefMut" /\ \E i \in 1 .. m : x.ty[i] = "Ref")
    <3> DEFINE ok == ~(Head(to) = "RefMut" /\ \E i \in 1 .. m : x.ty[i] = "Ref")
    <3>0. ok \in BOOLEAN
      OBVIOUS
    <3>1. PlanCoercion(x.ty, to) = [ok |-> ok, derefs |-> m]
      BY <2>1
    <3> HIDE DEF ok
    <3>2. PlanCoercion(x.ty, to).derefs = m /\ (PlanCoercion(x.ty, to).ok <=> ok)
      BY <3>0, <3>1
    <3> QED
      BY <3>2 DEF ok
  <2> QED
    BY <1>3, <2>2, <2>4 DEF Some
<1>7. Coerces(x, to) <=> PlanCoercion(x.ty, to).ok /\ ~(r = "RefMut" /\ x.place.blocked)
  BY <1>0, <1>3, <1>5 DEF Coerces
<1> QED
  BY <1>3, <1>4, <1>5, <1>6, <1>7

LEMMA BorrowedFacts ==
    ASSUME NEW op \in Refs, NEW e, e.ty \in Ty, NEW x, x = Borrowed(op, e)
    PROVE  /\ x.of = e /\ x.op = op /\ ~x.place.blocked
           /\ x.ty \in Ty /\ x.ty # <<>> /\ Head(x.ty) = op /\ x.ty[1] = op
           /\ Len(x.ty) = Len(e.ty) + 1
           /\ \A i \in 1 .. Len(e.ty) : x.ty[i + 1] = e.ty[i]
<1>1. op # "Plain" /\ op \in Ctors
  BY DEF Refs, Ctors, Pointers
<1>2. x.of = e /\ x.op = op /\ x.ty = <<op>> \o e.ty /\ x.place = NoPlace
  BY <1>1 DEF Borrowed
<1> QED
  BY <1>1, <1>2, PrefixedFacts DEF NoPlace

-----------------------------------------------------------------------------
(* Accepted is sound *)

\* What may be stated of the type of x.
Stateable(x, to) == to = x.ty \/ to \in Targets(x)

LEMMA StateableCases ==
    ASSUME NEW x, NEW to, Stateable(x, to)
    PROVE  \/ to = Unstated
           \/ to = x.ty
           \/ /\ x.ty # <<>> /\ Head(x.ty) \in Refs /\ to # x.ty
              /\ \E r \in Refs : \E n \in 1 .. Leading(x.ty) : to = <<r>> \o Rest(x.ty, n)
<1>0. to = x.ty \/ to \in Targets(x)
  BY DEF Stateable
<1>1. CASE x.ty # <<>> /\ Head(x.ty) \in Refs
  <2>1. to \in {Unstated, x.ty} \cup {<<t[1]>> \o Rest(x.ty, t[2]) : t \in Refs \X (1..Leading(x.ty))}
    BY <1>0, <1>1 DEF Targets
  <2>2. CASE to \in {<<t[1]>> \o Rest(x.ty, t[2]) : t \in Refs \X (1..Leading(x.ty))}
    BY <1>1, <2>2
  <2> QED
    BY <2>1, <2>2
<1> QED
  BY <1>0, <1>1 DEF Targets

\* A value as it is.
LEMMA SoundPlain ==
    ASSUME locals \in Seq(Binding), NEW e, PathInv(e), NEW x, x = Borrowed("Plain", e),
           NEW to, Stateable(x, to)
    PROVE  CheckBorrow(x) /\ Coerces(x, to) <=> Sound(x, to)
<1>1. x.of = e /\ x.op = "Plain" /\ x.ty = e.ty /\ x.place = e.place
  BY DEF Borrowed
<1>2. e.ty \in Ty /\ Gone(e) \in Nat /\ Len(e.ty) \in Nat
  BY TyFacts DEF PathInv, Expr
<1>3. CheckBorrow(x)
  BY <1>1 DEF CheckBorrow
<1>4. e.place.blocked <=> SharedWithin(e, Gone(e))
  BY BitsHere
<1>5. CASE to = Unstated
  <2>1. Head(to) # "RefMut"
    BY <1>5, UnstatedFacts
  <2> QED
    BY <1>1, <1>3, <1>5, <2>1 DEF Coerces, Sound
<1>6. CASE to = x.ty
  <2>1. Sound(x, to) <=> ((e.ty # <<>> /\ Head(e.ty) = "RefMut") => Changeable(e, 1))
    <3>1. Len(x.ty) + 1 - Len(to) = 1
      <4> HIDE DEF Gone
      <4>1. Len(to) = Len(e.ty) /\ Len(x.ty) = Len(e.ty)
        BY <1>1, <1>6
      <4> QED
        BY <1>2, <4>1
    <3> QED
      BY <1>1, <1>6, <3>1 DEF Sound
  <2>2. Coerces(x, to) <=> ~(e.ty # <<>> /\ Head(e.ty) = "RefMut" /\ e.place.blocked)
    BY <1>1, <1>2, <1>6, CoercesSame
  <2>3. ASSUME e.ty # <<>>, Head(e.ty) = "RefMut"
        PROVE  Changeable(e, 1) <=> ~e.place.blocked
    <3>1. 1 \in 0 .. Len(e.ty) /\ e.ty[1] = "RefMut" /\ \A i \in 1 .. 1 : e.ty[i] \in Pointers
      <4>1. Len(e.ty) >= 1 /\ e.ty[1] = "RefMut"
        BY <1>2, <2>3, HeadFacts
      <4>2. "RefMut" \in Pointers
        BY DEF Pointers, Refs
      <4> QED
        BY <1>2, <4>1, <4>2
    <3>2. Changeable(e, 1) <=> Changing(e, Gone(e) + 1)
      BY <3>1, ChangeableIs
    <3>3. /\ SharedWithin(e, Gone(e) + 1) <=> SharedWithin(e, Gone(e)) \/ Some(e.ty, 1, {"Ref"})
          /\ Some(RootType(e), Gone(e) + 1, {"RefMut"})
                <=> Some(RootType(e), Gone(e), {"RefMut"}) \/ Some(e.ty, 1, {"RefMut"})
      BY <3>1, PastPointers
    <3>4. ~Some(e.ty, 1, {"Ref"}) /\ Some(e.ty, 1, {"RefMut"})
      <4>1. 1 \in 1 .. 1 /\ \A i \in 1 .. 1 : i = 1
        OBVIOUS
      <4> QED
        BY <3>1, <4>1 DEF Some
    <3> QED
      BY <1>4, <3>2, <3>3, <3>4 DEF Changing
  <2> QED
    BY <1>3, <2>1, <2>2, <2>3
<1>7. CASE /\ x.ty # <<>> /\ Head(x.ty) \in Refs /\ to # x.ty
           /\ \E r \in Refs : \E n \in 1 .. Leading(x.ty) : to = <<r>> \o Rest(x.ty, n)
  <2>1. PICK r \in Refs : \E n \in 1 .. Leading(x.ty) : to = <<r>> \o Rest(x.ty, n)
    BY <1>7
  <2>2. PICK n \in 1 .. Leading(x.ty) : to = <<r>> \o Rest(x.ty, n)
    BY <2>1
  <2>3. /\ to # <<>> /\ Head(to) = r /\ Len(x.ty) + 1 - Len(to) = n
        /\ Coerces(x, to) <=> ~(r = "RefMut" /\ (Some(x.ty, n, {"Ref"}) \/ x.place.blocked))
    <3>1. Over(x, to, n, r)
      BY <1>1, <1>2, <1>7, <2>2 DEF Over
    <3> QED
      BY <3>1, CoercesOver
  <2>4. Sound(x, to) <=> (r = "RefMut" => Changeable(e, n))
    BY <1>1, <2>3 DEF Sound
  <2>5. n \in 0 .. Len(e.ty) /\ (\A i \in 1 .. n : e.ty[i] \in Pointers) /\ 1 \in 1 .. n
    BY <1>1, <1>2, LeadingFacts
  <2>6. Changeable(e, n) <=> Changing(e, Gone(e) + n)
    BY <2>5, ChangeableIs
  <2>7. /\ SharedWithin(e, Gone(e) + n) <=> SharedWithin(e, Gone(e)) \/ Some(e.ty, n, {"Ref"})
        /\ Some(RootType(e), Gone(e) + n, {"RefMut"})
              <=> Some(RootType(e), Gone(e), {"RefMut"}) \/ Some(e.ty, n, {"RefMut"})
    BY <2>5, PastPointers
  <2>8. ~Some(e.ty, n, {"Ref"}) => Some(e.ty, n, {"RefMut"})
    <3>1. e.ty[1] \in Refs
      BY <1>1, <1>2, <1>7, HeadFacts
    <3> QED
      BY <2>5, <3>1 DEF Some, Refs
  <2>9. Changeable(e, n) <=> ~(Some(e.ty, n, {"Ref"}) \/ e.place.blocked)
    BY <1>4, <2>6, <2>7, <2>8 DEF Changing
  <2> QED
    BY <1>1, <1>3, <2>3, <2>4, <2>9
<1> QED
  BY <1>5, <1>6, <1>7, StateableCases

\* A shared borrow.
LEMMA SoundRef ==
    ASSUME locals \in Seq(Binding), NEW e, PathInv(e), NEW x, x = Borrowed("Ref", e),
           NEW to, Stateable(x, to)
    PROVE  CheckBorrow(x) /\ Coerces(x, to) <=> Sound(x, to)
<1>1. e.ty \in Ty /\ "Ref" \in Refs
  BY DEF PathInv, Expr, Refs
<1>2. /\ x.of = e /\ x.op = "Ref" /\ ~x.place.blocked
      /\ x.ty \in Ty /\ x.ty # <<>> /\ Head(x.ty) = "Ref" /\ x.ty[1] = "Ref"
      /\ Len(x.ty) = Len(e.ty) + 1
      /\ \A i \in 1 .. Len(e.ty) : x.ty[i + 1] = e.ty[i]
  <2>1. x.of = e /\ x.op = "Ref" /\ ~x.place.blocked
    BY <1>1, BorrowedFacts
  <2>2. x.ty \in Ty /\ x.ty # <<>> /\ Head(x.ty) = "Ref" /\ x.ty[1] = "Ref"
    BY <1>1, BorrowedFacts
  <2>3. Len(x.ty) = Len(e.ty) + 1
    BY <1>1, BorrowedFacts
  <2>4. \A i \in 1 .. Len(e.ty) : x.ty[i + 1] = e.ty[i]
    BY <1>1, BorrowedFacts
  <2> QED
    BY <2>1, <2>2, <2>3, <2>4
<1>3. CheckBorrow(x) /\ (Sound(x, to) <=> ~(to # <<>> /\ Head(to) = "RefMut"))
  BY <1>2 DEF CheckBorrow, Sound
<1>4. CASE to = Unstated
  BY <1>3, <1>4, UnstatedFacts DEF Coerces
<1>5. CASE to = x.ty
  BY <1>2, <1>3, <1>5, CoercesSame
<1>6. CASE /\ x.ty # <<>> /\ Head(x.ty) \in Refs /\ to # x.ty
           /\ \E r \in Refs : \E n \in 1 .. Leading(x.ty) : to = <<r>> \o Rest(x.ty, n)
  <2>1. PICK r \in Refs : \E n \in 1 .. Leading(x.ty) : to = <<r>> \o Rest(x.ty, n)
    BY <1>6
  <2>2. PICK n \in 1 .. Leading(x.ty) : to = <<r>> \o Rest(x.ty, n)
    BY <2>1
  <2>3. Over(x, to, n, r)
    BY <1>2, <1>6, <2>2 DEF Over
  <2>4. /\ to # <<>> /\ Head(to) = r
        /\ Coerces(x, to) <=> ~(r = "RefMut" /\ (Some(x.ty, n, {"Ref"}) \/ x.place.blocked))
    BY <2>3, CoercesOver
  <2>5. Some(x.ty, n, {"Ref"})
    <3>1. 1 \in 1 .. n
      BY <1>2, LeadingFacts, TyFacts
    <3> QED
      BY <1>2, <3>1 DEF Some
  <2> QED
    BY <1>3, <2>4, <2>5
<1> QED
  BY <1>4, <1>5, <1>6, StateableCases

\* A mutable borrow.
LEMMA SoundRefMut ==
    ASSUME locals \in Seq(Binding), NEW e, PathInv(e), NEW x, x = Borrowed("RefMut", e),
           NEW to, Stateable(x, to)
    PROVE  CheckBorrow(x) /\ Coerces(x, to) <=> Sound(x, to)
<1>1. e.ty \in Ty /\ "RefMut" \in Refs /\ Len(e.ty) \in Nat
  BY TyFacts DEF PathInv, Expr, Refs
<1>2. /\ x.of = e /\ x.op = "RefMut" /\ ~x.place.blocked
      /\ x.ty \in Ty /\ x.ty # <<>> /\ Head(x.ty) = "RefMut" /\ x.ty[1] = "RefMut"
      /\ Len(x.ty) = Len(e.ty) + 1
      /\ \A i \in 1 .. Len(e.ty) : x.ty[i + 1] = e.ty[i]
  <2>1. x.of = e /\ x.op = "RefMut" /\ ~x.place.blocked
    BY <1>1, BorrowedFacts
  <2>2. x.ty \in Ty /\ x.ty # <<>> /\ Head(x.ty) = "RefMut" /\ x.ty[1] = "RefMut"
    BY <1>1, BorrowedFacts
  <2>3. Len(x.ty) = Len(e.ty) + 1
    BY <1>1, BorrowedFacts
  <2>4. \A i \in 1 .. Len(e.ty) : x.ty[i + 1] = e.ty[i]
    BY <1>1, BorrowedFacts
  <2> QED
    BY <2>1, <2>2, <2>3, <2>4
<1>3. CheckBorrow(x) <=> Changeable(e, 0)
  BY <1>2, BitsHere DEF CheckBorrow
<1>4. ASSUME NEW c \in Int, Len(x.ty) + 1 - Len(to) = c
      PROVE  Sound(x, to) <=> /\ Changeable(e, 0)
                              /\ (to # <<>> /\ Head(to) = "RefMut") => Changeable(e, c - 1)
  <2>1. x.op # "Plain" /\ x.op # "Ref"
    BY <1>2
  <2> QED
    BY <1>2, <1>4, <2>1 DEF Sound
<1>5. CASE to = Unstated
  <2>1. Head(to) # "RefMut" /\ Coerces(x, to)
    BY <1>5, UnstatedFacts DEF Coerces
  <2> QED
    BY <1>2, <1>3, <2>1 DEF Sound
<1>6. CASE to = x.ty
  <2>1. Sound(x, to) <=> Changeable(e, 0)
    <3>1. Len(x.ty) + 1 - Len(to) = 1 /\ 1 - 1 = 0
      BY <1>1, <1>2, <1>6
    <3> QED
      BY <1>2, <1>4, <1>6, <3>1
  <2>2. Coerces(x, to)
    BY <1>2, <1>6, CoercesSame
  <2> QED
    BY <1>3, <2>1, <2>2
<1>7. CASE /\ x.ty # <<>> /\ Head(x.ty) \in Refs /\ to # x.ty
           /\ \E r \in Refs : \E n \in 1 .. Leading(x.ty) : to = <<r>> \o Rest(x.ty, n)
  <2>1. PICK r \in Refs : \E n \in 1 .. Leading(x.ty) : to = <<r>> \o Rest(x.ty, n)
    BY <1>7
  <2>2. PICK n \in 1 .. Leading(x.ty) : to = <<r>> \o Rest(x.ty, n)
    BY <2>1
  <2>3. Over(x, to, n, r)
    BY <1>2, <1>7, <2>2 DEF Over
  <2>4. /\ to # <<>> /\ Head(to) = r /\ Len(x.ty) + 1 - Len(to) = n
        /\ Coerces(x, to) <=> ~(r = "RefMut" /\ (Some(x.ty, n, {"Ref"}) \/ x.place.blocked))
    BY <2>3, CoercesOver
  <2>5. n \in Nat /\ n >= 1 /\ n <= Len(x.ty) /\ \A i \in 1 .. n : x.ty[i] \in Pointers
    <3>1. /\ Leading(x.ty) \in 0 .. Len(x.ty) /\ Len(x.ty) \in Nat
          /\ \A i \in 1 .. Leading(x.ty) : x.ty[i] \in Pointers
      BY <1>2, LeadingFacts, TyFacts
    <3> QED
      BY <3>1
  <2>6. PICK m \in Nat : n = m + 1
    <3>1. n - 1 \in Nat /\ n = (n - 1) + 1
      BY <2>5
    <3> QED
      BY <3>1
  <2>7. m \in 0 .. Len(e.ty) /\ n - 1 = m /\ n \in Int
    BY <1>1, <1>2, <2>5, <2>6
  <2>8. \A i \in 1 .. m : e.ty[i] = x.ty[i + 1] /\ e.ty[i] \in Pointers
    <3> TAKE i \in 1 .. m
    <3>1. i + 1 \in 1 .. n /\ i \in 1 .. Len(e.ty)
      BY <1>1, <2>6, <2>7
    <3> QED
      BY <1>2, <2>5, <3>1
  <2>9. Some(x.ty, n, {"Ref"}) <=> Some(e.ty, m, {"Ref"})
    <3>1. \A i \in 1 .. n : i = 1 \/ (i - 1 \in 1 .. m /\ (i - 1) + 1 = i)
      BY <2>6
    <3>2. \A i \in 1 .. m : i + 1 \in 1 .. n
      BY <2>6
    <3> QED
      BY <1>2, <2>8, <3>1, <3>2 DEF Some
  <2>10. Changeable(e, m) <=> Changing(e, Gone(e) + m)
    BY <2>7, ChangeableIs
  <2>11. /\ SharedWithin(e, Gone(e) + m) <=> SharedWithin(e, Gone(e)) \/ Some(e.ty, m, {"Ref"})
         /\ Some(RootType(e), Gone(e) + m, {"RefMut"})
               <=> Some(RootType(e), Gone(e), {"RefMut"}) \/ Some(e.ty, m, {"RefMut"})
    BY <2>7, <2>8, PastPointers
  <2>12. Changeable(e, 0) <=> Changing(e, Gone(e))
    <3>1. Gone(e) + 0 = Gone(e) /\ 0 \in 0 .. Len(e.ty)
      BY <1>1 DEF PathInv
    <3>2. Changeable(e, 0) <=> Changing(e, Gone(e) + 0)
      BY <3>1, ChangeableIs
    <3> QED
      BY <3>1, <3>2
  <2>13. Changeable(e, 0) => (Changeable(e, m) <=> ~Some(e.ty, m, {"Ref"}))
    BY <2>10, <2>11, <2>12 DEF Changing
  <2> QED
    <3>1. Sound(x, to) <=> Changeable(e, 0) /\ (r = "RefMut" => Changeable(e, m))
      BY <1>4, <2>4, <2>7
    <3> QED
      BY <1>2, <1>3, <2>4, <2>9, <2>13, <3>1
<1> QED
  BY <1>5, <1>6, <1>7, StateableCases

\* A use is accepted exactly if it is sound.
LEMMA UseIsSound ==
    ASSUME locals \in Seq(Binding), NEW x \in Expressions, NEW to, Stateable(x, to)
    PROVE  CheckBorrow(x) /\ Coerces(x, to) <=> Sound(x, to)
<1>1. PICK p \in (Refs \cup {"Plain"}) \X Paths : x = Borrowed(p[1], p[2])
  BY DEF Expressions
<1> DEFINE e == p[2]
<1>2. PathInv(e)
  BY PathsInv
<1>3. p[1] \in {"Plain", "Ref", "RefMut"}
  BY DEF Refs
<1> HIDE DEF e
<1>4. CASE p[1] = "Plain"
  BY <1>1, <1>2, <1>4, SoundPlain DEF e
<1>5. CASE p[1] = "Ref"
  BY <1>1, <1>2, <1>5, SoundRef DEF e
<1>6. CASE p[1] = "RefMut"
  BY <1>1, <1>2, <1>6, SoundRefMut DEF e
<1> QED
  BY <1>3, <1>4, <1>5, <1>6

\* A method is called exactly if its owner may be changed.
LEMMA CallIsSound ==
    ASSUME locals \in Seq(Binding), NEW e, PathInv(e)
    PROVE  CheckMethod(e) <=> Changeable(e, Leading(e.ty))
<1> DEFINE n == Leading(e.ty)
           R == RootType(e)
           k == Gone(e)
<1>1. e.ty \in Ty /\ n \in 0 .. Len(e.ty) /\ n \in Nat /\ k \in Nat /\ n \in 0 .. Leading(e.ty)
  BY LeadingFacts, TyFacts DEF PathInv, Expr
<1>2. Changeable(e, n) <=> Changing(e, k + n)
  <2> HIDE DEF n, k
  <2> QED
    BY <1>1, ChangeableIs DEF k
<1>3. CASE n > 0 /\ e.ty[n] = "RefMut"
  <2>1. PICK m \in Nat : n = m + 1
    <3>1. n - 1 \in Nat /\ n = (n - 1) + 1
      BY <1>1, <1>3
    <3> HIDE DEF n
    <3> QED
      BY <3>1
  <2>2. m \in 0 .. Leading(e.ty) /\ n - 1 = m /\ k + n = (k + m) + 1 /\ n \in 1 .. Len(e.ty)
    BY <1>1, <2>1
  <2>3. R[(k + m) + 1] = "RefMut"
    BY <1>3, <2>2 DEF PathInv
  <2>4. BitsAt(e, k + m, Through(e.place, SubSeq(e.ty, 1, m)))
    BY <2>2, BitsThrough
  <2>5. SharedWithin(e, (k + m) + 1) <=> SharedWithin(e, k + m)
    <3>1. ~SharedAt(e, R, (k + m) + 1)
      BY <2>3 DEF SharedAt
    <3> QED
      BY <1>1, <2>1, <3>1, SharedGrows
  <2>6. Some(R, (k + m) + 1, {"RefMut"})
    <3>1. k + m \in Nat /\ R[(k + m) + 1] \in {"RefMut"}
      BY <1>1, <2>1, <2>3
    <3> HIDE DEF R, k
    <3> QED
      BY <3>1, SomeGrows
  <2>7. CheckMethod(e) <=> ~Through(e.place, SubSeq(e.ty, 1, m)).blocked
    BY <1>3, <2>2 DEF CheckMethod
  <2>8. Changing(e, k + n) <=> ~SharedWithin(e, k + m)
    <3> HIDE DEF n, R, k
    <3> QED
      BY <2>2, <2>5, <2>6 DEF Changing, R
  <2>9. Changeable(e, Leading(e.ty)) <=> Changing(e, k + n)
    BY <1>2
  <2> HIDE DEF n, R, k
  <2> QED
    BY <2>4, <2>7, <2>8, <2>9 DEF BitsAt
<1>4. CASE ~(n > 0 /\ e.ty[n] = "RefMut")
  <2>1. CheckMethod(e) <=> MayBorrowMut(Through(e.place, SubSeq(e.ty, 1, n)))
    BY <1>4 DEF CheckMethod
  <2>2. BitsAt(e, k + n, Through(e.place, SubSeq(e.ty, 1, n)))
    BY <1>1, BitsThrough
  <2>3. Changeable(e, Leading(e.ty)) <=> Changing(e, k + n)
    BY <1>2
  <2> HIDE DEF n, R, k
  <2> QED
    BY <2>1, <2>2, <2>3 DEF BitsAt, Changing, MayBorrowMut
<1> QED
  BY <1>3, <1>4

-----------------------------------------------------------------------------
(* What of a type is in memory *)

LEMMA SameTy ==
    ASSUME NEW s \in Ty, NEW t \in Ty, Len(s) = Len(t), \A i \in 1 .. Len(s) : s[i] = t[i]
    PROVE  s = t
BY SeqEqual DEF Ty

LEMMA RestIs ==
    ASSUME NEW s \in Ty, NEW t \in Ty, NEW k \in 0 .. Len(s), Len(t) = Len(s) - k,
           \A i \in 1 .. Len(t) : t[i] = s[k + i]
    PROVE  Rest(s, k) = t
<1>1. /\ Rest(s, k) \in Ty /\ Len(Rest(s, k)) = Len(s) - k
      /\ \A i \in 1 .. Len(s) - k : Rest(s, k)[i] = s[k + i]
  BY RestFacts
<1> QED
  BY <1>1, SameTy

LEMMA RestNone ==
    ASSUME NEW s \in Ty
    PROVE  Rest(s, 0) = s
<1>1. Len(s) \in Nat
  BY TyFacts
<1>2. 0 \in 0 .. Len(s) /\ Len(s) = Len(s) - 0 /\ \A i \in 1 .. Len(s) : s[i] = s[0 + i]
  BY <1>1
<1> QED
  BY <1>2, RestIs

LEMMA RestRest ==
    ASSUME NEW s \in Ty, NEW a \in 0 .. Len(s), NEW b \in 0 .. Len(s) - a
    PROVE  a + b \in 0 .. Len(s) /\ Rest(Rest(s, a), b) = Rest(s, a + b)
<1> DEFINE t == Rest(s, a)
           u == Rest(t, b)
<1>0. Len(s) \in Nat
  BY TyFacts
<1>1. t \in Ty /\ Len(t) = Len(s) - a /\ \A i \in 1 .. Len(s) - a : t[i] = s[a + i]
  BY RestFacts
<1>2. b \in 0 .. Len(t)
  BY <1>0, <1>1
<1>3. u \in Ty /\ Len(u) = Len(t) - b /\ \A i \in 1 .. Len(t) - b : u[i] = t[b + i]
  <2> HIDE DEF t
  <2> QED
    BY <1>1, <1>2, RestFacts
<1> HIDE DEF t, u
<1>4. a + b \in 0 .. Len(s) /\ Len(u) = Len(s) - (a + b)
  BY <1>0, <1>1, <1>3
<1>5. ASSUME NEW i \in 1 .. Len(u) PROVE u[i] = s[(a + b) + i]
  <2>1. i \in 1 .. Len(t) - b /\ b + i \in 1 .. Len(s) - a /\ a + (b + i) = (a + b) + i
    BY <1>0, <1>1, <1>3
  <2> QED
    BY <1>1, <1>3, <2>1
<1>6. Rest(s, a + b) = u
  BY <1>3, <1>4, <1>5, RestIs
<1> QED
  BY <1>4, <1>6 DEF u, t

LEMMA RestPrefixed ==
    ASSUME NEW c \in Ctors, NEW t \in Ty
    PROVE  Rest(<<c>> \o t, 1) = t
<1> DEFINE s == <<c>> \o t
<1>1. s \in Ty /\ Len(s) = Len(t) + 1 /\ \A i \in 1 .. Len(t) : s[i + 1] = t[i]
  BY PrefixedFacts
<1>2. Len(t) \in Nat
  BY TyFacts
<1> HIDE DEF s
<1>3. 1 \in 0 .. Len(s) /\ Len(t) = Len(s) - 1 /\ \A i \in 1 .. Len(t) : t[i] = s[1 + i]
  BY <1>1, <1>2
<1>4. Rest(s, 1) = t
  BY <1>1, <1>3, RestIs
<1> QED
  BY <1>4 DEF s

Spread == {"Array", "Struct"}
HeldOf(ty, f) == [n \in 0 .. Len(ty) |->
                     IF n = 0 THEN <<>>
                     ELSE LET c == ty[Len(ty) + 1 - n]
                          IN IF c \in Spread THEN f[n - 1] ELSE <<c>> \o f[n - 1]]

\* The recursion that defines Held.
LEMMA HeldRecursion ==
    ASSUME NEW ty \in Ty
    PROVE  \E f \in [0 .. Len(ty) -> Ty] : f = HeldOf(ty, f) /\ Held(ty) = f[Len(ty)]
<1> DEFINE N == Len(ty)
           More(c, s) == IF c \in Spread THEN s ELSE <<c>> \o s
           step == [x \in (1 .. N) \X Ty |-> More(ty[N + 1 - x[1]], x[2])]
<1>0. N \in Nat /\ \A i \in 1 .. N : ty[i] \in Ctors
  BY TyFacts
<1>1. <<>> \in Ty
  BY DEF Ty
<1>2. ASSUME NEW c \in Ctors, NEW s \in Ty PROVE More(c, s) \in Ty
  BY PrefixedFacts
<1>3. \A n \in 1 .. N : N + 1 - n \in 1 .. N
  BY <1>0
<1> HIDE DEF N, More
<1>4. step \in [(1 .. N) \X Ty -> Ty]
  BY <1>0, <1>2, <1>3
<1>5. PICK g \in [0 .. N -> Ty] : Follows(g, <<>>, step, N)
  <2> HIDE DEF step
  <2> QED
    BY <1>0, <1>1, <1>4, RecursionOnInterval
<1>6. g = HeldOf(ty, g)
  <2>1. ASSUME NEW n \in 0 .. N PROVE g[n] = HeldOf(ty, g)[n]
    <3>1. CASE n = 0
      BY <3>1, <1>5 DEF Follows, HeldOf, N
    <3>2. CASE n # 0
      <4>1. n \in 1 .. N /\ n - 1 \in 0 .. N
        BY <3>2, <1>0
      <4>2. <<n, g[n - 1]>> \in (1 .. N) \X Ty
        BY <4>1, <1>5
      <4>3. g[n] = step[<<n, g[n - 1]>>]
        <5> HIDE DEF step
        <5> QED
          BY <1>5, <4>1 DEF Follows
      <4>4. g[n] = More(ty[N + 1 - n], g[n - 1])
        BY <4>2, <4>3
      <4> QED
        BY <3>2, <4>4 DEF HeldOf, More, N
    <3> QED
      BY <3>1, <3>2
  <2>2. g = [n \in 0 .. N |-> g[n]]
    BY <1>5
  <2>3. HeldOf(ty, g) = [n \in 0 .. N |-> HeldOf(ty, g)[n]]
    BY DEF HeldOf, N
  <2> QED
    BY <2>1, <2>2, <2>3
<1>7. PICK f : f = HeldOf(ty, f) /\ Held(ty) = f[N]
  BY <1>6 DEF Held, HeldOf, N, Spread
<1> DEFINE S == {n \in 0 .. N : f[n] = g[n]}
<1>8. 0 \in S
  <2>1. HeldOf(ty, f)[0] = <<>> /\ HeldOf(ty, g)[0] = <<>>
    BY <1>0 DEF HeldOf, N
  <2> QED
    BY <1>0, <1>6, <1>7, <2>1
<1>9. \A n \in 0 .. N - 1 : n \in S => n + 1 \in S
  <2> SUFFICES ASSUME NEW n \in 0 .. N - 1, f[n] = g[n] PROVE f[n + 1] = g[n + 1]
    BY <1>0
  <2>1. n + 1 \in 0 .. N /\ n + 1 # 0 /\ (n + 1) - 1 = n
    BY <1>0
  <2>2. \A h : HeldOf(ty, h)[n + 1] = More(ty[N + 1 - (n + 1)], h[n])
    BY <2>1 DEF HeldOf, More, N
  <2>3. HeldOf(ty, f)[n + 1] = HeldOf(ty, g)[n + 1]
    BY <2>2
  <2> QED
    BY <1>6, <1>7, <2>3
<1> HIDE DEF S
<1>10. 0 .. N \subseteq S
  BY <1>0, <1>8, <1>9, UpwardInduction
<1>11. \A n \in 0 .. N : f[n] = g[n]
  BY <1>10 DEF S
<1>12. Held(ty) = g[N]
  BY <1>0, <1>7, <1>11
<1> QED
  BY <1>5, <1>6, <1>12 DEF N

\* Held looks at the constructors from the outermost inwards.
LEMMA HeldStep ==
    ASSUME NEW ty \in Ty, Len(ty) > 0
    PROVE  /\ Rest(ty, 1) \in Ty /\ Held(Rest(ty, 1)) \in Ty
           /\ Held(ty) = IF ty[1] \in Spread THEN Held(Rest(ty, 1)) ELSE <<ty[1]>> \o Held(Rest(ty, 1))
<1> DEFINE N == Len(ty)
           u == Rest(ty, 1)
<1>0. N \in Nat /\ N # 0 /\ N - 1 \in 0 .. N /\ N \in 0 .. N /\ 1 \in 0 .. N
  BY TyFacts
<1>1. u \in Ty /\ Len(u) = N - 1 /\ \A i \in 1 .. N - 1 : u[i] = ty[1 + i]
  BY <1>0, RestFacts
<1>2. PICK f \in [0 .. N -> Ty] : f = HeldOf(ty, f) /\ Held(ty) = f[N]
  BY HeldRecursion
<1> HIDE DEF u
<1>3. PICK g \in [0 .. N - 1 -> Ty] : g = HeldOf(u, g) /\ Held(u) = g[N - 1]
  BY <1>1, HeldRecursion
<1> DEFINE S == {n \in 0 .. N - 1 : g[n] = f[n]}
<1> HIDE DEF N
<1>4. 0 \in S
  <2>1. HeldOf(ty, f)[0] = <<>> /\ HeldOf(u, g)[0] = <<>>
    BY <1>0, <1>1 DEF HeldOf, N
  <2> QED
    BY <1>0, <1>2, <1>3, <2>1
<1>5. \A n \in 0 .. (N - 1) - 1 : n \in S => n + 1 \in S
  <2> SUFFICES ASSUME NEW n \in 0 .. (N - 1) - 1, g[n] = f[n] PROVE g[n + 1] = f[n + 1]
    BY <1>0
  <2> DEFINE m == n + 1
             c == ty[N + 1 - m]
  <2>1. m \in 0 .. N - 1 /\ m \in 0 .. N /\ m # 0 /\ m - 1 = n
    BY <1>0
  <2>2. u[(N - 1) + 1 - m] = c
    <3>1. (N - 1) + 1 - m \in 1 .. N - 1 /\ 1 + ((N - 1) + 1 - m) = N + 1 - m
      BY <1>0, <2>1
    <3> HIDE DEF m
    <3> QED
      BY <1>1, <3>1
  <2> HIDE DEF m, c
  <2>3. HeldOf(ty, f)[m] = IF c \in Spread THEN f[n] ELSE <<c>> \o f[n]
    BY <2>1 DEF HeldOf, N, c
  <2>4. HeldOf(u, g)[m] = IF c \in Spread THEN g[n] ELSE <<c>> \o g[n]
    <3>1. Len(u) = N - 1
      BY <1>1
    <3>2. HeldOf(u, g)[m] = LET d == u[(N - 1) + 1 - m] IN IF d \in Spread THEN g[m - 1] ELSE <<d>> \o g[m - 1]
      BY <2>1, <3>1 DEF HeldOf
    <3> QED
      BY <2>1, <2>2, <3>2
  <2>5. g[m] = f[m]
    BY <1>2, <1>3, <2>3, <2>4
  <2> QED
    BY <2>5 DEF m
<1> HIDE DEF S
<1>6. N - 1 \in S
  <2>1. N - 1 \in Nat
    BY <1>0
  <2>2. 0 .. N - 1 \subseteq S
    BY <1>4, <1>5, <2>1, UpwardInduction
  <2> QED
    BY <2>1, <2>2
<1>7. f[N - 1] = Held(u) /\ Held(u) \in Ty
  BY <1>0, <1>2, <1>3, <1>6 DEF S
<1>8. f[N] = IF ty[1] \in Spread THEN f[N - 1] ELSE <<ty[1]>> \o f[N - 1]
  <2>1. N + 1 - N = 1
    BY <1>0
  <2>2. HeldOf(ty, f)[N] = LET d == ty[N + 1 - N] IN IF d \in Spread THEN f[N - 1] ELSE <<d>> \o f[N - 1]
    BY <1>0 DEF HeldOf, N
  <2> QED
    BY <1>2, <2>1, <2>2
<1> QED
  BY <1>1, <1>2, <1>7, <1>8 DEF u

LEMMA HeldType ==
    ASSUME NEW ty \in Ty
    PROVE  Held(ty) \in Ty
<1>1. PICK f \in [0 .. Len(ty) -> Ty] : f = HeldOf(ty, f) /\ Held(ty) = f[Len(ty)]
  BY HeldRecursion
<1> QED
  BY <1>1, TyFacts

LEMMA HeldNothing == Held(<<>>) = <<>>
<1>1. <<>> \in Ty /\ Len(<<>>) = 0
  BY EmptySeq DEF Ty
<1>2. PICK f \in [0 .. 0 -> Ty] : f = HeldOf(<<>>, f) /\ Held(<<>>) = f[0]
  BY <1>1, HeldRecursion
<1>3. HeldOf(<<>>, f)[0] = <<>>
  BY <1>1 DEF HeldOf
<1> QED
  BY <1>2, <1>3

\* The same further in.
LEMMA HeldRest ==
    ASSUME NEW ty \in Ty, NEW n \in 0 .. Len(ty) - 1
    PROVE  /\ n + 1 \in 0 .. Len(ty) /\ Held(Rest(ty, n + 1)) \in Ty
           /\ Held(Rest(ty, n)) = IF ty[n + 1] \in Spread THEN Held(Rest(ty, n + 1))
                                  ELSE <<ty[n + 1]>> \o Held(Rest(ty, n + 1))
<1> DEFINE u == Rest(ty, n)
<1>1. Len(ty) \in Nat /\ n \in 0 .. Len(ty) /\ n + 1 \in 0 .. Len(ty) /\ 1 \in 0 .. Len(ty) - n
  BY TyFacts
<1>2. u \in Ty /\ Len(u) = Len(ty) - n /\ u[1] = ty[n + 1]
  <2>1. 1 \in 1 .. Len(ty) - n
    BY <1>1
  <2> QED
    BY <1>1, <2>1, RestFacts
<1>3. Rest(u, 1) = Rest(ty, n + 1)
  BY <1>1, RestRest
<1> HIDE DEF u
<1>4. Len(u) > 0
  BY <1>1, <1>2
<1>5. /\ Held(Rest(u, 1)) \in Ty
      /\ Held(u) = IF u[1] \in Spread THEN Held(Rest(u, 1)) ELSE <<u[1]>> \o Held(Rest(u, 1))
  BY <1>2, <1>4, HeldStep
<1> QED
  BY <1>1, <1>2, <1>3, <1>5 DEF u

\* Every pointer in front of a type is held.
LEMMA HeldPointers ==
    ASSUME NEW ty \in Ty, NEW n \in 0 .. Len(ty), \A i \in 1 .. n : ty[i] \in Pointers
    PROVE  n \in 0 .. Len(Held(ty)) /\ Rest(Held(ty), n) = Held(Rest(ty, n))
<1> DEFINE h == Held(ty)
           S == {k \in 0 .. n : k \in 0 .. Len(h) /\ Rest(h, k) = Held(Rest(ty, k))}
<1>0. n \in Nat /\ Len(ty) \in Nat /\ h \in Ty /\ Len(h) \in Nat
  BY TyFacts, HeldType
<1>1. 0 \in S
  <2>1. Rest(ty, 0) = ty /\ Rest(h, 0) = h
    BY <1>0, RestNone
  <2> QED
    BY <1>0, <2>1
<1>2. \A k \in 0 .. n - 1 : k \in S => k + 1 \in S
  <2> SUFFICES ASSUME NEW k \in 0 .. n - 1, k \in 0 .. Len(h), Rest(h, k) = Held(Rest(ty, k))
               PROVE  k + 1 \in 0 .. Len(h) /\ Rest(h, k + 1) = Held(Rest(ty, k + 1))
    BY <1>0
  <2> DEFINE c == ty[k + 1]
             t == Held(Rest(ty, k + 1))
  <2>1. k \in 0 .. Len(ty) - 1 /\ k + 1 \in 1 .. n
    BY <1>0
  <2>2. c \in Ctors /\ c \notin Spread
    <3>1. c \in Pointers
      BY <2>1
    <3> QED
      BY <3>1 DEF Ctors, Pointers, Refs, Spread
  <2>3. t \in Ty /\ Held(Rest(ty, k)) = <<c>> \o t
    BY <2>1, <2>2, HeldRest
  <2> HIDE DEF c, t, h
  <2>4. Rest(h, k) = <<c>> \o t
    BY <2>3
  <2>5. Len(Rest(h, k)) = Len(t) + 1 /\ Len(Rest(h, k)) = Len(h) - k
    BY <1>0, <2>2, <2>3, <2>4, PrefixedFacts, RestFacts
  <2>6. k + 1 \in 0 .. Len(h) /\ 1 \in 0 .. Len(h) - k
    <3>1. Len(t) \in Nat
      BY <2>3, TyFacts
    <3> QED
      BY <1>0, <2>5, <3>1
  <2>7. Rest(h, k + 1) = Rest(<<c>> \o t, 1)
    BY <1>0, <2>4, <2>6, RestRest
  <2>8. Rest(<<c>> \o t, 1) = t
    BY <2>2, <2>3, RestPrefixed
  <2> QED
    BY <2>6, <2>7, <2>8 DEF t
<1> HIDE DEF S
<1>3. n \in S
  <2>1. 0 .. n \subseteq S
    BY <1>0, <1>1, <1>2, UpwardInduction
  <2> QED
    BY <1>0, <2>1
<1> QED
  BY <1>3 DEF S

-----------------------------------------------------------------------------
(* A path dereferences as often as it passes held constructors *)

Deep(e) == /\ e.derefs \in 0 .. Len(Held(RootType(e)))
           /\ Rest(Held(RootType(e)), e.derefs) = Held(e.ty)

LEMMA DeepOn ==
    ASSUME locals \in Seq(Binding), NEW e, PathInv(e), Deep(e), NEW m \in 0 .. Len(Held(e.ty)),
           NEW d, d.root = e.root, d.derefs = e.derefs + m, Rest(Held(e.ty), m) = Held(d.ty)
    PROVE  Deep(d)
<1> DEFINE h == Held(RootType(e))
<1>1. h \in Ty /\ Len(h) \in Nat
  BY RootFacts, HeldType, TyFacts DEF PathInv, Expr
<1>2. RootType(d) = RootType(e)
  BY SameRoot
<1>3. e.derefs \in 0 .. Len(h) /\ Rest(h, e.derefs) = Held(e.ty)
  BY DEF Deep
<1> HIDE DEF h
<1>4. Len(Held(e.ty)) = Len(h) - e.derefs
  BY <1>1, <1>3, RestFacts
<1>5. m \in 0 .. Len(h) - e.derefs
  BY <1>4
<1>6. e.derefs + m \in 0 .. Len(h) /\ Rest(Rest(h, e.derefs), m) = Rest(h, e.derefs + m)
  BY <1>1, <1>3, <1>5, RestRest
<1> QED
  BY <1>2, <1>3, <1>6 DEF Deep, h

LEMMA StepsDeep ==
    ASSUME locals \in Seq(Binding), NEW e, PathInv(e), Deep(e), NEW d \in Steps(e)
    PROVE  Deep(d)
<1> DEFINE n == Leading(e.ty)
           h == Held(e.ty)
<1>1. e \in Expr /\ e.ty \in Ty /\ e.derefs \in Nat /\ Len(e.ty) \in Nat
  BY TyFacts DEF PathInv, Expr
<1>2. n \in 0 .. Len(e.ty) /\ \A i \in 1 .. n : e.ty[i] \in Pointers
  BY <1>1, LeadingFacts
<1>3. n \in 0 .. Len(h) /\ Rest(h, n) = Held(Rest(e.ty, n)) /\ h \in Ty /\ Len(h) \in Nat
  BY <1>1, <1>2, HeldPointers, HeldType, TyFacts
<1>4. CASE n > 0 /\ d = CheckDeref(e)
  <2>1. 1 \in 0 .. Len(e.ty) /\ \A i \in 1 .. 1 : e.ty[i] \in Pointers
    BY <1>1, <1>2, <1>4
  <2>2. 1 \in 0 .. Len(h) /\ Rest(h, 1) = Held(Rest(e.ty, 1))
    BY <1>1, <2>1, HeldPointers
  <2>3. Tail(e.ty) = Rest(e.ty, 1)
    <3>1. e.ty # <<>>
      BY <1>1, <1>2, <1>4, EmptySeq
    <3>2. Tail(e.ty) = SubSeq(e.ty, 2, Len(e.ty))
      BY <1>1, <3>1, HeadTailProperties DEF Ty
    <3> QED
      BY <3>2 DEF Rest
  <2>4. d.root = e.root /\ d.derefs = e.derefs + 1 /\ d.ty = Rest(e.ty, 1)
    BY <1>1, <1>4, <2>3 DEF CheckDeref, Expr
  <2> QED
    BY <2>2, <2>4, DeepOn
\* Past the pointers comes one more constructor, which is held if it is a vector.
<1> DEFINE v == IF e.ty[n + 1] = "Vec" THEN 1 ELSE 0
<1>5. ASSUME n < Len(e.ty), e.ty[n + 1] \in {"Struct", "Array", "Vec"},
             d.root = e.root, d.derefs = e.derefs + (n + v), d.ty = Rest(e.ty, n + 1)
      PROVE  Deep(d)
  <2>1. n \in 0 .. Len(e.ty) - 1
    BY <1>1, <1>2, <1>5
  <2> DEFINE t == Held(Rest(e.ty, n + 1))
             c == e.ty[n + 1]
  <2>2. t \in Ty /\ Rest(h, n) = IF c \in Spread THEN t ELSE <<c>> \o t
    BY <1>1, <1>3, <2>1, HeldRest
  <2>3. c \in Ctors
    BY <1>5 DEF Ctors
  <2>4. n + v \in 0 .. Len(h) /\ Rest(h, n + v) = t
    <3>1. CASE c = "Vec"
      <4>1. v = 1 /\ Rest(h, n) = <<c>> \o t
        BY <2>2, <3>1 DEF Spread
      <4> HIDE DEF n, h, c, t, v
      <4>2. Len(Rest(h, n)) = Len(t) + 1 /\ Len(Rest(h, n)) = Len(h) - n /\ Len(t) \in Nat
        <5>1. Len(<<c>> \o t) = Len(t) + 1
          BY <2>2, <2>3, PrefixedFacts
        <5>2. Len(Rest(h, n)) = Len(h) - n
          BY <1>3, RestFacts
        <5>3. Len(t) \in Nat
          BY <2>2, TyFacts
        <5> QED
          BY <4>1, <5>1, <5>2, <5>3
      <4>3. 1 \in 0 .. Len(h) - n
        BY <1>3, <4>2
      <4>4. n + 1 \in 0 .. Len(h) /\ Rest(h, n + 1) = Rest(<<c>> \o t, 1)
        BY <1>3, <4>1, <4>3, RestRest
      <4>5. Rest(<<c>> \o t, 1) = t
        BY <2>2, <2>3, RestPrefixed
      <4> QED
        BY <4>1, <4>4, <4>5
    <3>2. CASE c # "Vec"
      <4>1. v = 0 /\ n + 0 = n /\ c \in Spread
        BY <1>3, <1>5, <3>2 DEF Spread
      <4> HIDE DEF n, h, c, t, v
      <4> QED
        BY <1>3, <2>2, <4>1
    <3> QED
      BY <3>1, <3>2
  <2> HIDE DEF n, v
  <2> QED
    BY <1>5, <2>4, DeepOn
<1>6. CASE n < Len(e.ty) /\ e.ty[n + 1] = "Struct" /\ d = CheckField(e)
  <2> DEFINE q == [Through(e.place, SubSeq(e.ty, 1, n)) EXCEPT !.known = TRUE]
  <2>1. d = [e EXCEPT !.ty = Rest(@, n + 1), !.place = q, !.derefs = @ + n]
    BY <1>6 DEF CheckField
  <2> HIDE DEF q
  <2>2. d.root = e.root /\ d.ty = Rest(e.ty, n + 1) /\ d.derefs = e.derefs + n
    <3> HIDE DEF n
    <3> QED
      BY <1>1, <2>1 DEF Expr
  <2>3. n + v = n
    BY <1>3, <1>6
  <2> QED
    BY <1>5, <1>6, <2>2, <2>3
<1>7. CASE n < Len(e.ty) /\ e.ty[n + 1] \in {"Array", "Vec"} /\ d = CheckIndex(e)
  <2> DEFINE p == Through(e.place, SubSeq(e.ty, 1, n))
             q == [p EXCEPT !.known = TRUE, !.blocked = @ \/ (e.ty[n + 1] = "Vec" /\ ~p.writable)]
  <2>1. d = [e EXCEPT !.ty = Rest(@, n + 1), !.place = q, !.derefs = @ + n + v]
    BY <1>7 DEF CheckIndex
  <2> HIDE DEF q
  <2>2. d.root = e.root /\ d.ty = Rest(e.ty, n + 1) /\ d.derefs = e.derefs + n + v
    <3> HIDE DEF n, v
    <3> QED
      BY <1>1, <2>1 DEF Expr
  <2>3. e.derefs + n + v = e.derefs + (n + v)
    BY <1>1, <1>3
  <2> QED
    BY <1>5, <1>7, <2>2, <2>3
<1> QED
  BY <1>4, <1>6, <1>7 DEF Steps

LEMMA PathsDeep ==
    ASSUME locals \in Seq(Binding)
    PROVE  \A e \in Paths : PathInv(e) /\ Deep(e)
<1> DEFINE Good == {e \in Expr : PathInv(e) /\ Deep(e)}
<1>1. ASSUME NEW e \in Roots PROVE Deep(e)
  <2>1. PathInv(e)
    BY RootsInv
  <2>2. e.derefs = 0 /\ e.ty = RootType(e)
    BY DEF Roots, CheckRoot, RootType
  <2>3. Held(e.ty) \in Ty
    BY <2>1, HeldType DEF PathInv, Expr
  <2> QED
    BY <2>2, <2>3, RestNone, TyFacts DEF Deep
<1>2. Roots \subseteq Good
  BY <1>1, RootsInv DEF PathInv
<1>3. \A e \in Good : Steps(e) \subseteq Good
  BY StepsInv, StepsDeep DEF PathInv
<1> HIDE DEF Good
<1>4. Paths \subseteq Good
  BY <1>2, <1>3, PathsInduction
<1> QED
  BY <1>4 DEF Good

-----------------------------------------------------------------------------
(* The memory and the types of its cells: T gives every cell what is held    *)
(* from there on.                                                            *)

MemCell == [tag : Ctors \cup {"int"}, to : Nat, n : Nat]

CellFits(T, cell, t) ==
    /\ cell \in MemCell
    /\ t = <<>> => cell.tag = "int"
    /\ t # <<>> => cell.tag = t[1] /\ cell.to \in 1 .. Len(T) /\ T[cell.to] = Rest(t, 1)

Heap(m, T) == /\ m \in Seq(MemCell) /\ T \in Seq(Ty) /\ Len(T) = Len(m)
              /\ \A c \in 1 .. Len(m) : CellFits(T, m[c], T[c])

\* T2 types more cells than T.
Extends(T, T2) == Len(T) <= Len(T2) /\ \A c \in 1 .. Len(T) : T2[c] = T[c]

Bound(T, ls) == \A i \in DOMAIN ls : ls[i].cell \in 1 .. Len(T) /\ T[ls[i].cell] = Held(ls[i].ty)

LEMMA HeapFacts ==
    ASSUME NEW m, NEW T, Heap(m, T)
    PROVE  /\ Len(m) \in Nat /\ Len(T) = Len(m)
           /\ \A c \in 1 .. Len(m) : m[c] \in MemCell /\ T[c] \in Ty /\ CellFits(T, m[c], T[c])
<1>1. m \in Seq(MemCell) /\ T \in Seq(Ty) /\ Len(T) = Len(m)
  BY DEF Heap
<1>2. Len(m) \in Nat /\ \A c \in 1 .. Len(m) : m[c] \in MemCell
  BY <1>1
<1>3. \A c \in 1 .. Len(m) : T[c] \in Ty
  BY <1>1
<1> QED
  BY <1>1, <1>2, <1>3 DEF Heap

LEMMA ExtendsFits ==
    ASSUME NEW T, NEW T2, Len(T) \in Nat, Len(T2) \in Nat, Extends(T, T2), NEW cell, NEW t, CellFits(T, cell, t)
    PROVE  CellFits(T2, cell, t)
BY DEF Extends, CellFits

LEMMA ExtendsBound ==
    ASSUME NEW T, NEW T2, Len(T) \in Nat, Len(T2) \in Nat, Extends(T, T2), NEW ls, Bound(T, ls)
    PROVE  Bound(T2, ls)
BY DEF Extends, Bound

LEMMA ExtendsTwice ==
    ASSUME NEW T, NEW T2, NEW T3, Len(T) \in Nat, Len(T2) \in Nat, Len(T3) \in Nat,
           Extends(T, T2), Extends(T2, T3)
    PROVE  Extends(T, T3)
BY DEF Extends

\* A new cell.
LEMMA HeapAppend ==
    ASSUME NEW m, NEW T, Heap(m, T), NEW cell, NEW t \in Ty, CellFits(T, cell, t)
    PROVE  /\ Heap(Append(m, cell), Append(T, t))
           /\ Extends(T, Append(T, t))
           /\ Len(Append(m, cell)) = Len(m) + 1
           /\ Append(T, t)[Len(m) + 1] = t
<1> DEFINE m2 == Append(m, cell)
           T2 == Append(T, t)
<1>1. m \in Seq(MemCell) /\ T \in Seq(Ty) /\ Len(T) = Len(m) /\ Len(m) \in Nat /\ cell \in MemCell
  BY HeapFacts DEF Heap, CellFits
<1>2. /\ m2 \in Seq(MemCell) /\ Len(m2) = Len(m) + 1
      /\ m2[Len(m) + 1] = cell /\ \A c \in 1 .. Len(m) : m2[c] = m[c]
  BY <1>1
<1>3. /\ T2 \in Seq(Ty) /\ Len(T2) = Len(m) + 1
      /\ T2[Len(m) + 1] = t /\ \A c \in 1 .. Len(m) : T2[c] = T[c]
  BY <1>1
<1> HIDE DEF m2, T2
<1>4. Extends(T, T2) /\ Len(T2) \in Nat
  BY <1>1, <1>3 DEF Extends
<1>5. ASSUME NEW c \in 1 .. Len(m2) PROVE CellFits(T2, m2[c], T2[c])
  <2>1. CASE c \in 1 .. Len(m)
    <3>1. CellFits(T, m[c], T[c])
      BY <2>1, HeapFacts
    <3>2. m2[c] = m[c] /\ T2[c] = T[c]
      BY <1>2, <1>3, <2>1
    <3> QED
      BY <1>1, <1>4, <3>1, <3>2, ExtendsFits
  <2>2. CASE c = Len(m) + 1
    <3>1. m2[c] = cell /\ T2[c] = t
      BY <1>2, <1>3, <2>2
    <3> QED
      BY <1>1, <1>4, <3>1, ExtendsFits
  <2> QED
    BY <1>1, <1>2, <2>1, <2>2
<1>6. Heap(m2, T2)
  BY <1>2, <1>3, <1>5 DEF Heap
<1> QED
  BY <1>2, <1>3, <1>4, <1>6 DEF m2, T2

\* A cell is replaced by one of the same type.
LEMMA HeapReplace ==
    ASSUME NEW m, NEW T, Heap(m, T), NEW p \in 1 .. Len(m), NEW cell, CellFits(T, cell, T[p])
    PROVE  Heap([m EXCEPT ![p] = cell], T)
<1> DEFINE m2 == [m EXCEPT ![p] = cell]
<1>1. m \in Seq(MemCell) /\ T \in Seq(Ty) /\ Len(T) = Len(m) /\ Len(m) \in Nat /\ cell \in MemCell
  BY HeapFacts DEF Heap, CellFits
<1>2. m2 \in Seq(MemCell) /\ Len(m2) = Len(m)
  BY <1>1
<1>3. \A c \in 1 .. Len(m) : m2[c] = IF c = p THEN cell ELSE m[c]
  BY <1>1
<1> HIDE DEF m2
<1>4. ASSUME NEW c \in 1 .. Len(m2) PROVE CellFits(T, m2[c], T[c])
  BY <1>2, <1>3, HeapFacts
<1>5. Heap(m2, T)
  BY <1>1, <1>2, <1>4 DEF Heap
<1> QED
  BY <1>5 DEF m2

\* The cells passed when pointers are followed from a cell; they go through its type.
Walk(m, T, c, k, g) ==
    /\ g[0] = c /\ \A n \in 1 .. k : g[n] = m[g[n - 1]].to
    /\ \A n \in 0 .. k : g[n] \in 1 .. Len(m) /\ T[g[n]] = Rest(T[c], n)

LEMMA DerefWalk ==
    ASSUME NEW m, NEW T, Heap(m, T), NEW c \in 1 .. Len(m), NEW k \in 0 .. Len(T[c])
    PROVE  \E g : Walk(m, T, c, k, g) /\ Deref(m, c, k) = g[k]
<1> DEFINE next(x) == IF x \in 1 .. Len(m) THEN m[x].to ELSE 0
           step == [x \in (1 .. k) \X Nat |-> next(x[2])]
           Rec(f) == [n \in 0 .. k |-> IF n = 0 THEN c ELSE m[f[n - 1]].to]
<1>0. Len(m) \in Nat /\ Len(T) = Len(m) /\ T[c] \in Ty /\ Len(T[c]) \in Nat /\ k \in Nat
  BY HeapFacts, TyFacts
<1>1. ASSUME NEW x \in 1 .. Len(m), T[x] # <<>>
      PROVE  m[x].to \in 1 .. Len(m) /\ T[m[x].to] = Rest(T[x], 1)
  BY <1>0, <1>1, HeapFacts DEF CellFits
\* One pointer further.
<1>2. ASSUME NEW n \in 0 .. k - 1, NEW x \in 1 .. Len(m), T[x] = Rest(T[c], n)
      PROVE  m[x].to \in 1 .. Len(m) /\ T[m[x].to] = Rest(T[c], n + 1)
  <2>1. n \in 0 .. Len(T[c]) /\ 1 \in 0 .. Len(T[c]) - n /\ Len(T[c]) - n > 0
    BY <1>0
  <2>2. Len(T[x]) = Len(T[c]) - n
    BY <1>0, <1>2, <2>1, RestFacts
  <2>3. T[x] # <<>>
    BY <2>1, <2>2, EmptySeq
  <2>4. Rest(Rest(T[c], n), 1) = Rest(T[c], n + 1)
    BY <1>0, <2>1, RestRest
  <2> QED
    BY <1>1, <1>2, <2>3, <2>4
<1>3. step \in [(1 .. k) \X Nat -> Nat]
  <2>1. \A x \in 1 .. Len(m) : m[x].to \in Nat
    BY HeapFacts DEF MemCell
  <2> QED
    BY <2>1
<1>4. PICK g \in [0 .. k -> Nat] : Follows(g, c, step, k)
  <2>1. c \in Nat
    BY <1>0
  <2> HIDE DEF step
  <2> QED
    BY <1>0, <1>3, <2>1, RecursionOnInterval
<1>5. \A n \in 1 .. k : n - 1 \in 0 .. k /\ g[n - 1] \in Nat /\ g[n] = next(g[n - 1])
  <2> TAKE n \in 1 .. k
  <2>1. n - 1 \in 0 .. k /\ g[n - 1] \in Nat /\ <<n, g[n - 1]>> \in (1 .. k) \X Nat
    BY <1>0, <1>4
  <2>2. g[n] = step[<<n, g[n - 1]>>]
    <3> HIDE DEF step
    <3> QED
      BY <1>4 DEF Follows
  <2> HIDE DEF next
  <2> QED
    BY <2>1, <2>2
<1> DEFINE S == {n \in 0 .. k : g[n] \in 1 .. Len(m) /\ T[g[n]] = Rest(T[c], n)}
<1>6. 0 \in S
  <2>1. g[0] = c /\ Rest(T[c], 0) = T[c]
    BY <1>0, <1>4, RestNone DEF Follows
  <2> QED
    BY <1>0, <2>1
<1>7. \A n \in 0 .. k - 1 : n \in S => n + 1 \in S
  <2> SUFFICES ASSUME NEW n \in 0 .. k - 1, g[n] \in 1 .. Len(m), T[g[n]] = Rest(T[c], n)
               PROVE  g[n + 1] \in 1 .. Len(m) /\ T[g[n + 1]] = Rest(T[c], n + 1)
    BY <1>0
  <2>1. n + 1 \in 1 .. k /\ (n + 1) - 1 = n
    BY <1>0
  <2>2. g[n + 1] = m[g[n]].to
    BY <1>5, <2>1
  <2> QED
    BY <1>2, <2>2
<1>8. \A n \in 0 .. k : g[n] \in 1 .. Len(m) /\ T[g[n]] = Rest(T[c], n)
  <2> HIDE DEF S
  <2>1. 0 .. k \subseteq S
    BY <1>0, <1>6, <1>7, UpwardInduction
  <2> QED
    BY <2>1 DEF S
<1>9. g = Rec(g)
  <2>1. ASSUME NEW n \in 0 .. k PROVE g[n] = Rec(g)[n]
    <3>1. CASE n = 0
      BY <3>1, <1>4 DEF Follows
    <3>2. CASE n # 0
      <4>1. n \in 1 .. k /\ n - 1 \in 0 .. k
        BY <3>2, <1>0
      <4>2. g[n] = m[g[n - 1]].to
        BY <4>1, <1>5, <1>8
      <4> QED
        BY <3>2, <4>2
    <3> QED
      BY <3>1, <3>2
  <2>2. g = [n \in 0 .. k |-> g[n]]
    BY <1>4
  <2> QED
    BY <2>1, <2>2
<1>10. PICK f : f = Rec(f) /\ Deref(m, c, k) = f[k]
  BY <1>9 DEF Deref
<1> DEFINE U == {n \in 0 .. k : f[n] = g[n]}
<1>11. 0 \in U
  BY <1>0, <1>9, <1>10
<1>12. \A n \in 0 .. k - 1 : n \in U => n + 1 \in U
  <2> SUFFICES ASSUME NEW n \in 0 .. k - 1, f[n] = g[n] PROVE f[n + 1] = g[n + 1]
    BY <1>0
  <2>1. n + 1 \in 0 .. k /\ n + 1 # 0 /\ (n + 1) - 1 = n
    BY <1>0
  <2>2. \A h : Rec(h)[n + 1] = m[h[n]].to
    BY <2>1
  <2> HIDE DEF Rec
  <2>3. Rec(f)[n + 1] = Rec(g)[n + 1]
    BY <2>2
  <2> QED
    BY <1>9, <1>10, <2>3
<1>13. f[k] = g[k]
  <2> HIDE DEF U, Rec
  <2>1. 0 .. k \subseteq U
    BY <1>0, <1>11, <1>12, UpwardInduction
  <2> QED
    BY <1>0, <2>1 DEF U
<1>14. Walk(m, T, c, k, g)
  <2>1. g[0] = c
    BY <1>4 DEF Follows
  <2>2. \A n \in 1 .. k : g[n] = m[g[n - 1]].to
    BY <1>5, <1>8
  <2> QED
    BY <1>8, <2>1, <2>2 DEF Walk
<1>15. Deref(m, c, k) = g[k]
  <2> HIDE DEF Rec
  <2> QED
    BY <1>10, <1>13
<1> QED
  BY <1>14, <1>15

LEMMA DerefFits ==
    ASSUME NEW m, NEW T, Heap(m, T), NEW c \in 1 .. Len(m), NEW k \in 0 .. Len(T[c])
    PROVE  Deref(m, c, k) \in 1 .. Len(m) /\ T[Deref(m, c, k)] = Rest(T[c], k)
<1>1. k \in 0 .. k
  BY HeapFacts, TyFacts
<1>2. PICK g : Walk(m, T, c, k, g) /\ Deref(m, c, k) = g[k]
  BY DerefWalk
<1> QED
  BY <1>1, <1>2 DEF Walk

\* The temporary is a box.
LEMMA BoxFacts ==
    /\ <<"Box">> \in Ty /\ <<>> \in Ty /\ <<"Box">> # <<>> /\ <<"Box">>[1] = "Box"
    /\ Rest(<<"Box">>, 1) = <<>> /\ Held(<<"Box">>) = <<"Box">>
<1>1. "Box" \in Ctors /\ "Box" \notin Spread
  BY DEF Ctors, Pointers, Spread
<1>2. <<>> \in Ty /\ Len(<<>>) = 0
  BY EmptySeq DEF Ty
<1>3. <<"Box">> \o <<>> = <<"Box">>
  OBVIOUS
<1>4. /\ <<"Box">> \in Ty /\ <<"Box">> # <<>> /\ <<"Box">>[1] = "Box" /\ Len(<<"Box">>) = 1
      /\ Rest(<<"Box">>, 1) = <<>>
  <2>1. /\ <<"Box">> \o <<>> \in Ty /\ <<"Box">> \o <<>> # <<>> /\ (<<"Box">> \o <<>>)[1] = "Box"
        /\ Len(<<"Box">> \o <<>>) = 0 + 1
    BY <1>1, <1>2, PrefixedFacts
  <2>2. Rest(<<"Box">> \o <<>>, 1) = <<>>
    BY <1>1, <1>2, RestPrefixed
  <2> QED
    BY <1>3, <2>1, <2>2
<1>5. Held(<<"Box">>) = <<"Box">>
  <2>1. Held(<<"Box">>) = <<"Box">> \o Held(<<>>)
    BY <1>1, <1>4, HeldStep
  <2> QED
    BY <1>3, <2>1, HeldNothing
<1> QED
  BY <1>2, <1>4, <1>5

LEMMA CellFacts ==
    ASSUME NEW tag \in Ctors \cup {"int"}, NEW to \in Nat
    PROVE  /\ Cell(tag, to) \in MemCell /\ Cell(tag, to).tag = tag /\ Cell(tag, to).to = to
BY DEF Cell, MemCell

\* The memory an expression is evaluated in, and the cell of its place.
Located(e, T, T2) ==
    /\ Heap(Stored(e), T2) /\ Extends(T, T2) /\ Len(mem) <= Len(Stored(e))
    /\ PlaceOf(e) \in 1 .. Len(Stored(e)) /\ T2[PlaceOf(e)] = Held(e.ty)
    /\ e.root # 0 => Stored(e) = mem /\ T2 = T

LEMMA StoredFits ==
    ASSUME locals \in Seq(Binding), NEW T, Heap(mem, T), Bound(T, locals),
           NEW e, PathInv(e), Deep(e)
    PROVE  \E T2 : Located(e, T, T2)
<1> DEFINE N == Len(mem)
<1>0. N \in Nat /\ Len(T) = N /\ e.root \in Nat
  BY HeapFacts DEF PathInv, Expr
\* From the cell the path starts at.
<1>1. ASSUME NEW T2, Heap(Stored(e), T2), Start(e) \in 1 .. Len(Stored(e)), T2[Start(e)] = Held(RootType(e))
      PROVE  PlaceOf(e) \in 1 .. Len(Stored(e)) /\ T2[PlaceOf(e)] = Held(e.ty)
  <2>1. e.derefs \in 0 .. Len(T2[Start(e)])
    BY <1>1 DEF Deep
  <2>2. /\ Deref(Stored(e), Start(e), e.derefs) \in 1 .. Len(Stored(e))
        /\ T2[Deref(Stored(e), Start(e), e.derefs)] = Rest(T2[Start(e)], e.derefs)
    BY <1>1, <2>1, DerefFits
  <2> QED
    BY <1>1, <2>2 DEF PlaceOf, Deep
<1>2. CASE e.root # 0
  <2>1. e.root \in DOMAIN locals /\ Stored(e) = mem /\ Start(e) = locals[e.root].cell
    BY <1>2 DEF PathInv, Rooted, Stored, Start
  <2>2. RootType(e) = locals[e.root].ty
    BY <1>2 DEF RootType, CheckRoot
  <2>3. Start(e) \in 1 .. N /\ T[Start(e)] = Held(RootType(e))
    BY <1>0, <2>1, <2>2 DEF Bound
  <2>4. Extends(T, T)
    BY <1>0 DEF Extends
  <2>5. PlaceOf(e) \in 1 .. Len(Stored(e)) /\ T[PlaceOf(e)] = Held(e.ty)
    BY <1>1, <2>1, <2>3
  <2>6. Located(e, T, T)
    BY <1>0, <2>1, <2>4, <2>5 DEF Located
  <2> QED
    BY <2>6
<1>3. CASE e.root = 0
  <2> DEFINE c1 == Cell("int", 0)
             c2 == Cell("Box", N + 1)
             m1 == Append(mem, c1)
             T1 == Append(T, <<>>)
             m2 == Append(m1, c2)
             T2 == Append(T1, <<"Box">>)
  <2>1. Stored(e) = m2 /\ Start(e) = N + 2
    <3>1. Stored(e) = mem \o <<c1, c2>>
      BY <1>3 DEF Stored
    <3>2. c1 \in MemCell /\ c2 \in MemCell
      <4>1. N + 1 \in Nat /\ 0 \in Nat /\ "int" \in Ctors \cup {"int"} /\ "Box" \in Ctors \cup {"int"}
        BY <1>0 DEF Ctors, Pointers
      <4> QED
        BY <4>1, CellFacts
    <3>3. mem \in Seq(MemCell)
      BY DEF Heap
    <3> HIDE DEF c1, c2
    <3>4. mem \o <<c1, c2>> = Append(Append(mem, c1), c2)
      BY <3>2, <3>3
    <3> QED
      BY <1>3, <3>1, <3>4 DEF Start
  <2>2. <<>> \in Ty /\ CellFits(T, c1, <<>>)
    BY BoxFacts, CellFacts DEF CellFits
  <2>3. Heap(m1, T1) /\ Extends(T, T1) /\ Len(m1) = N + 1 /\ T1[N + 1] = <<>>
    <3> HIDE DEF c1
    <3> QED
      BY <2>2, HeapAppend
  <2>4. Len(T1) = N + 1 /\ Len(T1) \in Nat
    BY <1>0, <2>3, HeapFacts
  <2>5. <<"Box">> \in Ty /\ CellFits(T1, c2, <<"Box">>)
    <3>1. c2 \in MemCell /\ c2.tag = "Box" /\ c2.to = N + 1
      BY <1>0, CellFacts DEF Ctors, Pointers
    <3> HIDE DEF c2, T1
    <3> QED
      BY <1>0, <2>3, <2>4, <3>1, BoxFacts DEF CellFits
  <2>6. Heap(m2, T2) /\ Extends(T1, T2) /\ Len(m2) = (N + 1) + 1 /\ T2[(N + 1) + 1] = <<"Box">>
    <3> HIDE DEF c2, m1, T1
    <3>1. /\ Heap(Append(m1, c2), Append(T1, <<"Box">>)) /\ Extends(T1, Append(T1, <<"Box">>))
          /\ Len(Append(m1, c2)) = Len(m1) + 1 /\ Append(T1, <<"Box">>)[Len(m1) + 1] = <<"Box">>
      BY <2>3, <2>5, HeapAppend
    <3> QED
      BY <2>3, <3>1
  <2> HIDE DEF m2, T2, m1, T1
  <2>7. Len(T2) = N + 2 /\ Len(T2) \in Nat /\ N + 2 = (N + 1) + 1
    BY <1>0, <2>6, HeapFacts
  <2>8. Extends(T, T2)
    BY <1>0, <2>3, <2>4, <2>6, <2>7, ExtendsTwice
  <2>9. Start(e) \in 1 .. Len(Stored(e)) /\ T2[Start(e)] = Held(RootType(e))
    <3>1. RootType(e) = <<"Box">>
      BY <1>3 DEF RootType, CheckRoot
    <3> QED
      BY <1>0, <2>1, <2>6, <2>7, <3>1, BoxFacts
  <2>10. PlaceOf(e) \in 1 .. Len(Stored(e)) /\ T2[PlaceOf(e)] = Held(e.ty)
    BY <1>1, <2>1, <2>6, <2>9
  <2>11. Len(mem) <= Len(Stored(e))
    BY <1>0, <2>1, <2>6
  <2>12. Located(e, T, T2)
    BY <1>3, <2>1, <2>6, <2>8, <2>10, <2>11 DEF Located
  <2> QED
    BY <2>12
<1> QED
  BY <1>2, <1>3

LEMMA OverCases ==
    ASSUME NEW x, x.ty \in Ty, NEW to, Stateable(x, to)
    PROVE  to = Unstated \/ to = x.ty \/ \E r \in Refs : \E n \in 1 .. Leading(x.ty) : Over(x, to, n, r)
BY StateableCases DEF Over

\* The type a use has.
UsedAt(x, to) == IF to = Unstated THEN x.ty ELSE to

\* A pointer constructor is held.
LEMMA HeldPrefixed ==
    ASSUME NEW c \in Ctors, c \notin Spread, NEW t \in Ty
    PROVE  Held(<<c>> \o t) = <<c>> \o Held(t)
<1> DEFINE s == <<c>> \o t
<1>1. s \in Ty /\ s[1] = c /\ Len(s) = Len(t) + 1 /\ Rest(s, 1) = t /\ Len(t) \in Nat
  BY PrefixedFacts, RestPrefixed, TyFacts
<1> HIDE DEF s
<1>2. Len(s) > 0
  BY <1>1
<1>3. Held(s) = <<c>> \o Held(t)
  BY <1>1, <1>2, HeldStep
<1> QED
  BY <1>3 DEF s

\* The value has the type it is used at.
LEMMA ValueFits ==
    ASSUME locals \in Seq(Binding), NEW T, NEW T2, Heap(mem, T),
           NEW x \in Expressions, Located(x.of, T, T2), NEW to, Stateable(x, to)
    PROVE  /\ x.ty \in Ty /\ UsedAt(x, to) \in Ty
           /\ CellFits(T2, ValueOf(x, to), Held(UsedAt(x, to)))
<1>1. PICK p \in (Refs \cup {"Plain"}) \X Paths : x = Borrowed(p[1], p[2])
  BY DEF Expressions
<1> DEFINE e == p[2]
           op == p[1]
           M == Stored(e)
           value == IF x.op = "Plain" THEN M[PlaceOf(e)] ELSE Cell(x.op, PlaceOf(e))
<1>2. PathInv(e) /\ e.ty \in Ty
  BY PathsInv DEF PathInv, Expr
<1>3. x.of = e /\ x.op = op /\ op \in {"Plain", "Ref", "RefMut"}
  BY <1>1 DEF Borrowed, Refs
<1>4. /\ Heap(M, T2) /\ PlaceOf(e) \in 1 .. Len(M) /\ T2[PlaceOf(e)] = Held(e.ty)
  BY <1>3 DEF Located
<1>5. Len(M) \in Nat /\ Len(T2) = Len(M)
  BY <1>4, HeapFacts
<1> HIDE DEF M
<1>6. x.ty \in Ty /\ CellFits(T2, value, Held(x.ty))
  <2>1. CASE op = "Plain"
    <3>1. x.ty = e.ty
      BY <1>1, <2>1 DEF Borrowed
    <3>2. CellFits(T2, M[PlaceOf(e)], Held(e.ty))
      BY <1>4, HeapFacts
    <3> QED
      BY <1>2, <1>3, <2>1, <3>1, <3>2
  <2>2. CASE op \in Refs
    <3>1. op \in Ctors /\ op \notin Spread /\ op # "Plain"
      BY <2>2 DEF Ctors, Pointers, Refs, Spread
    <3>2. x.ty = <<op>> \o e.ty
      BY <1>1, <3>1 DEF Borrowed
    <3>3. x.ty \in Ty
      BY <1>2, <3>1, <3>2, PrefixedFacts
    <3> DEFINE h == Held(e.ty)
    <3>4. Held(x.ty) = <<op>> \o h /\ h \in Ty
      BY <1>2, <3>1, <3>2, HeldPrefixed, HeldType
    <3>5. value = Cell(op, PlaceOf(e))
      BY <1>3, <3>1
    <3>6. Cell(op, PlaceOf(e)) \in MemCell /\ Cell(op, PlaceOf(e)).tag = op /\ Cell(op, PlaceOf(e)).to = PlaceOf(e)
      <4>1. PlaceOf(e) \in Nat
        BY <1>4, <1>5
      <4> QED
        BY <3>1, <4>1, CellFacts
    <3>7. <<op>> \o h # <<>> /\ (<<op>> \o h)[1] = op /\ Rest(<<op>> \o h, 1) = h
      <4> HIDE DEF h
      <4> QED
        BY <3>1, <3>4, PrefixedFacts, RestPrefixed
    <3>8. CellFits(T2, Cell(op, PlaceOf(e)), <<op>> \o h)
      BY <1>4, <1>5, <3>6, <3>7 DEF CellFits
    <3> QED
      BY <3>3, <3>4, <3>5, <3>8
  <2> QED
    BY <1>3, <2>1, <2>2 DEF Refs
<1> DEFINE count == IF to = Unstated THEN 0 ELSE PlanCoercion(x.ty, to).derefs
<1>7. ValueOf(x, to) = IF count = 0 THEN value ELSE Cell(Head(to), Deref(M, value.to, count - 1))
  BY <1>3 DEF ValueOf, M
<1> HIDE DEF value, e, op
<1>8. CASE to = Unstated
  BY <1>6, <1>7, <1>8 DEF UsedAt
<1>9. CASE to # Unstated /\ to = x.ty
  <2>1. PlanCoercion(x.ty, to).derefs = 0
    BY <1>9 DEF PlanCoercion
  <2> QED
    BY <1>6, <1>7, <1>9, <2>1 DEF UsedAt
<1>10. CASE \E r \in Refs : \E n \in 1 .. Leading(x.ty) : Over(x, to, n, r)
  <2>1. PICK r \in Refs : \E n \in 1 .. Leading(x.ty) : Over(x, to, n, r)
    BY <1>10
  <2>2. PICK n \in 1 .. Leading(x.ty) : Over(x, to, n, r)
    BY <2>1
  <2>3. Over(x, to, n, r) /\ to = <<r>> \o Rest(x.ty, n)
    BY <2>2 DEF Over
  <2>4. to \in Ty /\ Head(to) = r /\ to # Unstated /\ PlanCoercion(x.ty, to).derefs = n
    BY <2>3, CoercesOver
  <2> DEFINE h == Held(x.ty)
             t == Held(Rest(x.ty, n))
  <2>5. n \in Nat /\ n >= 1 /\ n \in 0 .. Len(x.ty) /\ \A i \in 1 .. n : x.ty[i] \in Pointers
    <3>1. /\ Leading(x.ty) \in 0 .. Len(x.ty) /\ Len(x.ty) \in Nat
          /\ \A i \in 1 .. Leading(x.ty) : x.ty[i] \in Pointers
      BY <1>6, LeadingFacts, TyFacts
    <3> QED
      BY <3>1
  <2>6. h \in Ty /\ n \in 0 .. Len(h) /\ Rest(h, n) = t /\ t \in Ty /\ Len(h) \in Nat
    <3>1. Rest(x.ty, n) \in Ty
      BY <1>6, <2>5, RestFacts
    <3> QED
      BY <1>6, <2>5, <3>1, HeldPointers, HeldType, TyFacts
  <2> HIDE DEF h
  <2>7. h # <<>>
    BY <2>5, <2>6, EmptySeq
  <2>8. value.to \in 1 .. Len(M) /\ T2[value.to] = Rest(h, 1)
    BY <1>5, <1>6, <2>7 DEF CellFits, h
  <2> DEFINE cell == Deref(M, value.to, n - 1)
  <2>9. cell \in 1 .. Len(M) /\ T2[cell] = t
    <3>1. 1 \in 0 .. Len(h) /\ n - 1 \in 0 .. Len(h) - 1 /\ 1 + (n - 1) = n
      BY <2>5, <2>6
    <3>2. Len(Rest(h, 1)) = Len(h) - 1 /\ Rest(Rest(h, 1), n - 1) = Rest(h, n)
      <4>1. Rest(Rest(h, 1), n - 1) = Rest(h, 1 + (n - 1))
        BY <2>6, <3>1, RestRest
      <4> QED
        BY <2>6, <3>1, <4>1, RestFacts
    <3>3. n - 1 \in 0 .. Len(T2[value.to])
      BY <2>8, <3>1, <3>2
    <3>4. cell \in 1 .. Len(M) /\ T2[cell] = Rest(T2[value.to], n - 1)
      BY <1>4, <2>8, <3>3, DerefFits DEF M
    <3> QED
      BY <2>6, <2>8, <3>2, <3>4
  <2>10. ValueOf(x, to) = Cell(r, cell)
    BY <1>7, <2>4, <2>5
  <2> HIDE DEF cell, t
  <2>11. r \in Ctors /\ r \notin Spread
    BY DEF Ctors, Pointers, Refs, Spread
  <2>12. Held(to) = <<r>> \o t
    <3>1. Rest(x.ty, n) \in Ty
      BY <1>6, <2>5, RestFacts
    <3> QED
      BY <2>3, <2>11, <3>1, HeldPrefixed DEF t
  <2>13. <<r>> \o t # <<>> /\ (<<r>> \o t)[1] = r /\ Rest(<<r>> \o t, 1) = t
    BY <2>6, <2>11, PrefixedFacts, RestPrefixed
  <2>14. Cell(r, cell) \in MemCell /\ Cell(r, cell).tag = r /\ Cell(r, cell).to = cell
    <3>1. cell \in Nat
      BY <1>5, <2>9
    <3> QED
      BY <2>11, <3>1, CellFacts
  <2>15. CellFits(T2, Cell(r, cell), <<r>> \o t)
    BY <1>5, <2>9, <2>13, <2>14 DEF CellFits
  <2> QED
    BY <1>6, <2>4, <2>10, <2>12, <2>15 DEF UsedAt
<1>11. to = Unstated \/ to = x.ty \/ \E r \in Refs : \E n \in 1 .. Leading(x.ty) : Over(x, to, n, r)
  BY <1>6, OverCases
<1> QED
  BY <1>8, <1>9, <1>10, <1>11

-----------------------------------------------------------------------------
(* The verdicts *)

LEMMA UsesOfPaths ==
    ASSUME NEW x \in Expressions
    PROVE  x.of \in Paths
<1>1. PICK p \in (Refs \cup {"Plain"}) \X Paths : x = Borrowed(p[1], p[2])
  BY DEF Expressions
<1>2. p[2] \in Paths /\ x.of = p[2]
  BY <1>1 DEF Borrowed
<1> QED
  BY <1>2

LEMMA JudgeIsRight ==
    ASSUME NEW accepted \in BOOLEAN, NEW sound \in BOOLEAN, accepted <=> sound, Judge(accepted, sound)
    PROVE  AcceptsTheSound'
BY DEF Judge, AcceptsTheSound

LEMMA VerdictKept ==
    ASSUME locals \in Seq(Binding), Next
    PROVE  AcceptsTheSound'
<1>1. CASE LetStatement
  <2>1. PICK x \in Expressions : \E to \in Targets(x) :
            RejectLet(x, to) \/ \E mut \in BOOLEAN : Let(mut, x, to)
    BY <1>1 DEF LetStatement
  <2>2. PICK to \in Targets(x) : RejectLet(x, to) \/ \E mut \in BOOLEAN : Let(mut, x, to)
    BY <2>1
  <2>3. CheckBorrow(x) /\ Coerces(x, to) <=> Sound(x, to)
    BY UseIsSound DEF Stateable
  <2>4. Sound(x, to) \in BOOLEAN
    BY DEF Sound
  <2>5. CASE RejectLet(x, to)
    <3>1. ~Sound(x, to) /\ Judge(FALSE, Sound(x, to))
      BY <2>3, <2>5 DEF RejectLet, Rejected
    <3> QED
      BY <2>4, <3>1, JudgeIsRight
  <2>6. CASE \E mut \in BOOLEAN : Let(mut, x, to)
    <3>1. Sound(x, to) /\ Judge(TRUE, Sound(x, to))
      BY <2>3, <2>6 DEF Let
    <3> QED
      BY <2>4, <3>1, JudgeIsRight
  <2> QED
    BY <2>2, <2>5, <2>6
<1>2. CASE Assignment
  <2>1. PICK lhs \in Paths : \E x \in {y \in Expressions : y.ty = lhs.ty \/ lhs.ty \in Targets(y)} :
            Assign(lhs, x) \/ RejectAssign(lhs, x)
    BY <1>2 DEF Assignment
  <2>2. PICK x \in Expressions : /\ x.ty = lhs.ty \/ lhs.ty \in Targets(x)
                                 /\ Assign(lhs, x) \/ RejectAssign(lhs, x)
    BY <2>1
  <2>3. CheckBorrow(x) /\ Coerces(x, lhs.ty) <=> Sound(x, lhs.ty)
    BY <2>2, UseIsSound DEF Stateable
  <2>4. lhs.place.writable <=> Changeable(lhs, 0)
    BY PathsInv, BitsHere
  <2>5. CheckAssign(lhs, x) <=> SoundAssign(lhs, x)
    BY <2>3, <2>4 DEF CheckAssign, SoundAssign
  <2>6. SoundAssign(lhs, x) \in BOOLEAN
    BY DEF SoundAssign
  <2>7. CASE Assign(lhs, x)
    <3>1. SoundAssign(lhs, x) /\ Judge(TRUE, SoundAssign(lhs, x))
      BY <2>5, <2>7 DEF Assign
    <3> QED
      BY <2>6, <3>1, JudgeIsRight
  <2>8. CASE RejectAssign(lhs, x)
    <3>1. ~SoundAssign(lhs, x) /\ Judge(FALSE, SoundAssign(lhs, x))
      BY <2>5, <2>8 DEF RejectAssign, Rejected
    <3> QED
      BY <2>6, <3>1, JudgeIsRight
  <2> QED
    BY <2>2, <2>7, <2>8
<1>3. CASE CompoundAssignment
  <2>1. PICK lhs \in Paths : AddAssign(lhs) \/ RejectAddAssign(lhs)
    BY <1>3 DEF CompoundAssignment
  <2>2. lhs.place.writable <=> Changeable(lhs, 0)
    BY PathsInv, BitsHere
  <2>3. Changeable(lhs, 0) \in BOOLEAN /\ (lhs.place.known /\ Changeable(lhs, 0)) \in BOOLEAN
    BY DEF Changeable
  <2>4. CASE AddAssign(lhs)
    <3>1. Changeable(lhs, 0) /\ Judge(TRUE, Changeable(lhs, 0))
      BY <2>2, <2>4 DEF AddAssign
    <3> QED
      BY <2>3, <3>1, JudgeIsRight
  <2>5. CASE RejectAddAssign(lhs)
    <3>1. /\ ~(lhs.place.known /\ Changeable(lhs, 0))
          /\ Judge(FALSE, lhs.place.known /\ Changeable(lhs, 0))
      BY <2>2, <2>5 DEF RejectAddAssign, Rejected
    <3> QED
      BY <2>3, <3>1, JudgeIsRight
  <2> QED
    BY <2>1, <2>4, <2>5
<1>4. CASE MethodCall
  <2>1. PICK e \in Paths : CallMethod(e) \/ RejectCall(e)
    BY <1>4 DEF MethodCall, Receivers
  <2> DEFINE s == Changeable(e, Leading(e.ty))
  <2>2. CheckMethod(e) <=> s
    BY PathsInv, CallIsSound
  <2>3. s \in BOOLEAN
    BY DEF Changeable
  <2>4. (CallMethod(e) => CheckMethod(e) /\ Judge(TRUE, s)) /\ (RejectCall(e) => ~CheckMethod(e) /\ Judge(FALSE, s))
    BY DEF CallMethod, RejectCall, Rejected
  <2> HIDE DEF s
  <2>5. CASE CallMethod(e)
    BY <2>2, <2>3, <2>4, <2>5, JudgeIsRight
  <2>6. CASE RejectCall(e)
    BY <2>2, <2>3, <2>4, <2>6, JudgeIsRight
  <2> QED
    BY <2>1, <2>5, <2>6
<1> QED
  BY <1>1, <1>2, <1>3, <1>4 DEF Next

-----------------------------------------------------------------------------
(* The memory stays typed *)

LEMMA MovedFacts ==
    ASSUME locals \in Seq(Binding), NEW x \in Expressions, NEW to
    PROVE  /\ Moved(x, to) \in Seq(Binding)
           /\ \A T : Bound(T, locals) => Bound(T, Moved(x, to))
<1> DEFINE r == x.of.root
           ls == Moved(x, to)
<1>1. CASE ls = locals
  BY <1>1
<1>2. CASE ls = [locals EXCEPT ![r].live = FALSE] /\ r # 0
  <2>1. PathInv(x.of)
    BY UsesOfPaths, PathsInv
  <2>2. r \in DOMAIN locals
    BY <1>2, <2>1 DEF PathInv, Rooted
  <2> HIDE DEF r, ls
  <2> DEFINE b == [locals[r] EXCEPT !.live = FALSE]
  <2>3. locals[r] \in Binding
    BY <2>2
  <2>4. b \in Binding /\ b.cell = locals[r].cell /\ b.ty = locals[r].ty
    BY <2>3 DEF Binding
  <2>5. ls = [locals EXCEPT ![r] = b]
    BY <1>2
  <2> HIDE DEF b
  <2>6. /\ ls \in Seq(Binding) /\ DOMAIN ls = DOMAIN locals
        /\ \A i \in DOMAIN locals : ls[i].cell = locals[i].cell /\ ls[i].ty = locals[i].ty
    BY <2>2, <2>4, <2>5
  <2>7. ASSUME NEW T, Bound(T, locals) PROVE Bound(T, ls)
    BY <2>6, <2>7 DEF Bound
  <2> QED
    BY <2>6, <2>7 DEF ls
<1>3. ls = locals \/ (ls = [locals EXCEPT ![r].live = FALSE] /\ r # 0)
  BY DEF Moved
<1> QED
  BY <1>1, <1>2, <1>3

Typed(ls, m) == ls \in Seq(Binding) /\ \E T : Heap(m, T) /\ Bound(T, ls)

\* An expression can be evaluated.
LEMMA Evaluated ==
    ASSUME locals \in Seq(Binding), NEW T, Heap(mem, T), Bound(T, locals),
           NEW x \in Expressions, NEW to, Stateable(x, to)
    PROVE  \E T2 : /\ Located(x.of, T, T2)
                   /\ Len(T) \in Nat /\ Len(T2) \in Nat
                   /\ UsedAt(x, to) \in Ty /\ Held(UsedAt(x, to)) \in Ty
                   /\ CellFits(T2, ValueOf(x, to), Held(UsedAt(x, to)))
                   /\ Moved(x, to) \in Seq(Binding) /\ Bound(T2, Moved(x, to))
<1>1. x.of \in Paths /\ PathInv(x.of) /\ Deep(x.of)
  BY UsesOfPaths, PathsDeep
<1>2. PICK T2 : Located(x.of, T, T2)
  BY <1>1, StoredFits
<1>3. Len(T) \in Nat /\ Len(T2) \in Nat /\ Extends(T, T2)
  BY <1>2, HeapFacts DEF Located
<1>4. UsedAt(x, to) \in Ty /\ CellFits(T2, ValueOf(x, to), Held(UsedAt(x, to)))
  BY <1>2, ValueFits
<1>5. Held(UsedAt(x, to)) \in Ty
  BY <1>4, HeldType
<1>6. Moved(x, to) \in Seq(Binding) /\ Bound(T, Moved(x, to))
  BY MovedFacts
<1>7. Bound(T2, Moved(x, to))
  BY <1>3, <1>6, ExtendsBound
<1> QED
  BY <1>2, <1>3, <1>4, <1>5, <1>6, <1>7

LEMMA LetTyped ==
    ASSUME Typed(locals, mem), NEW x \in Expressions, NEW to \in Targets(x), NEW mut \in BOOLEAN,
           Let(mut, x, to)
    PROVE  Typed(locals', mem')
<1> DEFINE ty == UsedAt(x, to)
           v == ValueOf(x, to)
           ls == Moved(x, to)
           M == Stored(x.of)
<1>1. locals \in Seq(Binding) /\ Stateable(x, to)
  BY DEF Typed, Stateable
<1>2. PICK T : Heap(mem, T) /\ Bound(T, locals)
  BY DEF Typed
<1>3. PICK T2 : /\ Located(x.of, T, T2) /\ Len(T2) \in Nat
                /\ ty \in Ty /\ Held(ty) \in Ty /\ CellFits(T2, v, Held(ty))
                /\ ls \in Seq(Binding) /\ Bound(T2, ls)
  BY <1>1, <1>2, Evaluated
<1>4. /\ mem' = Append(M, v)
      /\ locals' = Append(ls, Local(mut, ty, Len(mem')))
  BY DEF Let, UsedAt
<1> HIDE DEF v, ls, ty
<1> DEFINE T3 == Append(T2, Held(ty))
<1>5. Heap(M, T2) /\ Len(M) \in Nat /\ Len(T2) = Len(M)
  BY <1>3, HeapFacts DEF Located
<1> HIDE DEF M
<1>6. /\ Heap(mem', T3) /\ Extends(T2, T3)
      /\ Len(mem') = Len(M) + 1 /\ T3[Len(M) + 1] = Held(ty)
  BY <1>3, <1>4, <1>5, HeapAppend
<1> HIDE DEF T3
<1>7. Len(T3) = Len(mem') /\ Len(T3) \in Nat
  BY <1>6, HeapFacts
<1>8. Bound(T3, ls)
  BY <1>3, <1>6, <1>7, ExtendsBound
<1> DEFINE b == Local(mut, ty, Len(mem'))
<1>9. b \in Binding /\ b.cell = Len(mem') /\ b.ty = ty
  BY <1>3, <1>7 DEF Local, Binding
<1> HIDE DEF b
<1>10. locals' \in Seq(Binding) /\ Len(locals') = Len(ls) + 1 /\ Len(ls) \in Nat
  BY <1>3, <1>4, <1>9 DEF b
<1>11. ASSUME NEW i \in DOMAIN locals'
       PROVE  locals'[i].cell \in 1 .. Len(T3) /\ T3[locals'[i].cell] = Held(locals'[i].ty)
  <2>1. i \in 1 .. Len(ls) \/ i = Len(ls) + 1
    BY <1>10
  <2>2. CASE i \in 1 .. Len(ls)
    <3>1. locals'[i] = ls[i] /\ i \in DOMAIN ls
      BY <1>3, <1>4, <1>9, <2>2 DEF b
    <3> QED
      BY <1>8, <3>1 DEF Bound
  <2>3. CASE i = Len(ls) + 1
    <3>1. locals'[i] = b
      BY <1>3, <1>4, <1>9, <2>3 DEF b
    <3> QED
      BY <1>5, <1>6, <1>7, <1>9, <3>1
  <2> QED
    BY <2>1, <2>2, <2>3
<1>12. Bound(T3, locals')
  BY <1>11 DEF Bound
<1> QED
  BY <1>6, <1>10, <1>12 DEF Typed

LEMMA AssignTyped ==
    ASSUME Typed(locals, mem), NEW lhs \in Paths, NEW x \in Expressions,
           x.ty = lhs.ty \/ lhs.ty \in Targets(x), Assign(lhs, x)
    PROVE  Typed(locals', mem')
<1> DEFINE v == ValueOf(x, lhs.ty)
           ls == Moved(x, lhs.ty)
           M == Stored(x.of)
<1>1. locals \in Seq(Binding) /\ Stateable(x, lhs.ty) /\ PathInv(lhs) /\ Deep(lhs) /\ lhs.ty \in Ty
  BY PathsDeep DEF Typed, Stateable, PathInv, Expr
<1>2. PICK T : Heap(mem, T) /\ Bound(T, locals)
  BY DEF Typed
<1>3. UsedAt(x, lhs.ty) = lhs.ty
  <2>1. lhs.ty # Unstated
    <3>1. lhs.ty # <<>> => Head(lhs.ty) \in Ctors
      BY <1>1, HeadFacts
    <3>2. Unstated # <<>> /\ "unstated" \notin Ctors
      BY DEF Unstated, Ctors, Pointers, Refs
    <3> QED
      BY <3>1, <3>2, UnstatedFacts
  <2> QED
    BY <2>1 DEF UsedAt
<1>4. PICK T2 : /\ Located(x.of, T, T2) /\ Len(T2) \in Nat
                /\ UsedAt(x, lhs.ty) \in Ty /\ Held(UsedAt(x, lhs.ty)) \in Ty
                /\ CellFits(T2, v, Held(UsedAt(x, lhs.ty)))
                /\ ls \in Seq(Binding) /\ Bound(T2, ls)
  BY <1>1, <1>2, Evaluated
<1>5. Heap(M, T2) /\ CellFits(T2, v, Held(lhs.ty))
  BY <1>3, <1>4 DEF Located
<1>6. /\ locals' = ls
      /\ mem' = IF lhs.root = 0 THEN M ELSE [M EXCEPT ![PlaceOf(lhs)] = v]
  BY DEF Assign
<1>7. CASE lhs.root = 0
  BY <1>4, <1>5, <1>6, <1>7 DEF Typed
<1>8. CASE lhs.root # 0
  <2>1. PICK U : Located(lhs, T, U)
    BY <1>1, <1>2, StoredFits
  <2>2. PlaceOf(lhs) \in 1 .. Len(mem) /\ T[PlaceOf(lhs)] = Held(lhs.ty)
    BY <1>8, <2>1 DEF Located
  <2>3. Len(mem) \in Nat /\ Len(T) = Len(mem) /\ Len(M) \in Nat /\ Len(mem) <= Len(M) /\ Extends(T, T2)
    BY <1>2, <1>4, <1>5, HeapFacts DEF Located
  <2>4. PlaceOf(lhs) \in 1 .. Len(M) /\ T2[PlaceOf(lhs)] = Held(lhs.ty)
    BY <2>2, <2>3 DEF Extends
  <2> HIDE DEF M, v, ls
  <2>5. Heap(mem', T2)
    BY <1>5, <1>6, <1>8, <2>4, HeapReplace
  <2> QED
    BY <1>4, <1>6, <2>5 DEF Typed
<1> QED
  BY <1>7, <1>8

LEMMA CellChanged ==
    ASSUME NEW c \in MemCell, NEW d, d = [c EXCEPT !.n = @ + 1]
    PROVE  d \in MemCell /\ d.tag = c.tag /\ d.to = c.to
<1>1. c.tag \in Ctors \cup {"int"} /\ c.to \in Nat /\ c.n \in Nat
  BY DEF MemCell
<1>2. d.tag = c.tag /\ d.to = c.to /\ d.n = c.n + 1 /\ d = [tag |-> d.tag, to |-> d.to, n |-> d.n]
  BY DEF MemCell
<1> QED
  BY <1>1, <1>2 DEF MemCell

\* A change in place keeps what a cell is.
LEMMA ChangedTyped ==
    ASSUME Typed(locals, mem), NEW e \in Paths, NEW k \in 0 .. Leading(e.ty), Changed(e, k), UNCHANGED locals
    PROVE  Typed(locals', mem')
<1>1. locals \in Seq(Binding) /\ PathInv(e) /\ Deep(e) /\ e.ty \in Ty
  BY PathsDeep DEF Typed, PathInv, Expr
<1>2. PICK T : Heap(mem, T) /\ Bound(T, locals)
  BY DEF Typed
<1>3. CASE e.root = 0
  BY <1>3 DEF Changed, Typed
<1>4. CASE e.root # 0
  <2> DEFINE p == Deref(mem, PlaceOf(e), k)
             cell == [mem[p] EXCEPT !.n = @ + 1]
  <2>1. PICK U : Located(e, T, U)
    BY <1>1, <1>2, StoredFits
  <2>2. PlaceOf(e) \in 1 .. Len(mem) /\ T[PlaceOf(e)] = Held(e.ty)
    BY <1>4, <2>1 DEF Located
  <2>3. k \in 0 .. Len(Held(e.ty))
    <3>1. /\ Leading(e.ty) \in 0 .. Len(e.ty) /\ Len(e.ty) \in Nat
          /\ \A i \in 1 .. Leading(e.ty) : e.ty[i] \in Pointers
      BY <1>1, LeadingFacts, TyFacts
    <3>2. Leading(e.ty) \in 0 .. Len(Held(e.ty))
      BY <1>1, <3>1, HeldPointers
    <3> QED
      BY <3>1, <3>2, <1>1, HeldType, TyFacts
  <2>4. p \in 1 .. Len(mem)
    BY <1>2, <2>2, <2>3, DerefFits
  <2> HIDE DEF p
  <2>5. mem[p] \in MemCell /\ CellFits(T, mem[p], T[p]) /\ mem \in Seq(MemCell)
    BY <1>2, <2>4, HeapFacts DEF Heap
  <2>6. cell \in MemCell /\ cell.tag = mem[p].tag /\ cell.to = mem[p].to
    BY <2>5, CellChanged
  <2>7. mem' = [mem EXCEPT ![p] = cell]
    BY <1>4 DEF Changed, p
  <2> HIDE DEF cell
  <2>8. CellFits(T, cell, T[p])
    BY <2>5, <2>6 DEF CellFits
  <2>9. Heap(mem', T)
    BY <1>2, <2>4, <2>7, <2>8, HeapReplace
  <2> QED
    BY <1>1, <1>2, <2>9 DEF Typed
<1> QED
  BY <1>3, <1>4

\* Every statement leaves the memory typed.
LEMMA NextTyped ==
    ASSUME Typed(locals, mem), [Next]_vars
    PROVE  Typed(locals', mem')
<1>1. CASE UNCHANGED <<locals, mem>>
  BY <1>1 DEF Typed
<1>2. CASE LetStatement
  <2>1. PICK x \in Expressions : \E to \in Targets(x) :
            RejectLet(x, to) \/ \E mut \in BOOLEAN : Let(mut, x, to)
    BY <1>2 DEF LetStatement
  <2>2. PICK to \in Targets(x) : RejectLet(x, to) \/ \E mut \in BOOLEAN : Let(mut, x, to)
    BY <2>1
  <2>3. CASE RejectLet(x, to)
    BY <1>1, <2>3 DEF RejectLet, Rejected
  <2>4. CASE \E mut \in BOOLEAN : Let(mut, x, to)
    BY <2>4, LetTyped
  <2> QED
    BY <2>2, <2>3, <2>4
<1>3. CASE Assignment
  <2>1. PICK lhs \in Paths : \E x \in {y \in Expressions : y.ty = lhs.ty \/ lhs.ty \in Targets(y)} :
            Assign(lhs, x) \/ RejectAssign(lhs, x)
    BY <1>3 DEF Assignment
  <2>2. PICK x \in Expressions : /\ x.ty = lhs.ty \/ lhs.ty \in Targets(x)
                                 /\ Assign(lhs, x) \/ RejectAssign(lhs, x)
    BY <2>1
  <2>3. CASE Assign(lhs, x)
    BY <2>2, <2>3, AssignTyped
  <2>4. CASE RejectAssign(lhs, x)
    BY <1>1, <2>4 DEF RejectAssign, Rejected
  <2> QED
    BY <2>2, <2>3, <2>4
<1>4. CASE CompoundAssignment
  <2>1. PICK lhs \in {e \in Paths : e.ty = <<>>} : AddAssign(lhs) \/ RejectAddAssign(lhs)
    BY <1>4 DEF CompoundAssignment
  <2>2. CASE AddAssign(lhs)
    <3>1. 0 \in 0 .. Leading(lhs.ty)
      <4>1. lhs.ty \in Ty
        BY PathsInv DEF PathInv, Expr, Typed
      <4> QED
        BY <4>1, LeadingFacts
    <3>2. Changed(lhs, 0) /\ UNCHANGED locals
      BY <2>2 DEF AddAssign
    <3> QED
      BY <3>1, <3>2, ChangedTyped
  <2>3. CASE RejectAddAssign(lhs)
    BY <1>1, <2>3 DEF RejectAddAssign, Rejected
  <2> QED
    BY <2>1, <2>2, <2>3
<1>5. CASE MethodCall
  <2>1. PICK e \in Paths : CallMethod(e) \/ RejectCall(e)
    BY <1>5 DEF MethodCall, Receivers
  <2>2. CASE CallMethod(e)
    <3>1. Leading(e.ty) \in 0 .. Leading(e.ty)
      <4>1. e.ty \in Ty
        BY PathsInv DEF PathInv, Expr, Typed
      <4>2. Leading(e.ty) \in 0 .. Len(e.ty) /\ Len(e.ty) \in Nat
        BY <4>1, LeadingFacts, TyFacts
      <4> QED
        BY <4>2
    <3>2. Changed(e, Leading(e.ty)) /\ UNCHANGED locals
      BY <2>2 DEF CallMethod
    <3> QED
      BY <3>1, <3>2, ChangedTyped
  <2>3. CASE RejectCall(e)
    BY <1>1, <2>3 DEF RejectCall, Rejected
  <2> QED
    BY <2>1, <2>2, <2>3
<1>6. CASE UNCHANGED vars
  BY <1>1, <1>6 DEF vars
<1> QED
  BY <1>2, <1>3, <1>4, <1>5, <1>6 DEF Next

\* What a typed memory holds for a binding has the type of the binding.
LEMMA TypedFits ==
    ASSUME Typed(locals, mem)
    PROVE  ValuesFitTypes
<1>1. PICK T : Heap(mem, T) /\ Bound(T, locals)
  BY DEF Typed
<1>2. locals \in Seq(Binding)
  BY DEF Typed
<1>3. ASSUME NEW i \in DOMAIN locals PROVE Fits(locals[i].cell, locals[i].ty)
  <2> DEFINE h == Held(locals[i].ty)
             cell == locals[i].cell
  <2>1. cell \in 1 .. Len(mem) /\ T[cell] = h
    BY <1>1, HeapFacts DEF Bound
  <2>2. h \in Ty
    <3>1. locals[i] \in Binding
      BY <1>2
    <3> QED
      BY <3>1, HeldType DEF Binding
  <2> HIDE DEF h, cell
  <2> DEFINE tags == h \o <<"int">>
  <2>3. /\ Len(h) \in Nat /\ DOMAIN tags = 1 .. Len(h) + 1
        /\ tags[Len(h) + 1] = "int" /\ \A k \in 1 .. Len(h) : tags[k] = h[k]
    BY <2>2 DEF Ty
  <2> HIDE DEF tags
  <2>4. ASSUME NEW k \in DOMAIN tags PROVE mem[Deref(mem, cell, k - 1)].tag = tags[k]
    <3>1. k - 1 \in 0 .. Len(h) /\ k \in 1 .. Len(h) + 1
      BY <2>3
    <3> DEFINE c == Deref(mem, cell, k - 1)
    <3>2. c \in 1 .. Len(mem) /\ T[c] = Rest(h, k - 1)
      BY <1>1, <2>1, <3>1, DerefFits
    <3> HIDE DEF c
    <3>3. CellFits(T, mem[c], Rest(h, k - 1))
      BY <1>1, <3>2, HeapFacts
    <3>4. Len(Rest(h, k - 1)) = Len(h) - (k - 1) /\ \A j \in 1 .. Len(h) - (k - 1) : Rest(h, k - 1)[j] = h[(k - 1) + j]
      BY <2>2, <3>1, RestFacts
    <3>5. CASE k = Len(h) + 1
      <4>1. Rest(h, k - 1) \in Ty /\ Len(Rest(h, k - 1)) = 0
        BY <2>2, <2>3, <3>1, <3>4, <3>5, RestFacts
      <4>2. Rest(h, k - 1) = <<>>
        BY <4>1 DEF Ty
      <4> QED
        BY <2>3, <3>3, <3>5, <4>2 DEF CellFits, c
    <3>6. CASE k \in 1 .. Len(h)
      <4>1. 1 \in 1 .. Len(h) - (k - 1) /\ (k - 1) + 1 = k /\ Len(Rest(h, k - 1)) > 0
        BY <2>3, <3>4, <3>6
      <4>2. Rest(h, k - 1)[1] = h[k] /\ Rest(h, k - 1) # <<>>
        BY <3>4, <4>1, EmptySeq
      <4> QED
        BY <2>3, <3>3, <3>6, <4>2 DEF CellFits, c
    <3> QED
      BY <2>3, <3>1, <3>5, <3>6
  <2>5. Fits(locals[i].cell, locals[i].ty)
    BY <2>4 DEF Fits, tags, h, cell
  <2> QED
    BY <2>5
<1> QED
  BY <1>3 DEF ValuesFitTypes

-----------------------------------------------------------------------------
(* The memory a function starts with *)

LEMMA ChainFacts ==
    ASSUME NEW first \in Nat, NEW ty \in Ty
    PROVE  /\ Chain(first, ty) \in Seq(MemCell)
           /\ Len(Chain(first, ty)) = Len(Held(ty)) + 1
           /\ Chain(first, ty)[Len(Held(ty)) + 1] = Cell("int", 0)
           /\ \A n \in 1 .. Len(Held(ty)) : Chain(first, ty)[n] = Cell(Held(ty)[n], first + n)
<1> DEFINE h == Held(ty)
           chain == [n \in 1 .. (Len(h) + 1) |-> IF n > Len(h) THEN Cell("int", 0) ELSE Cell(h[n], first + n)]
<1>1. Chain(first, ty) = chain
  BY DEF Chain
<1>2. h \in Ty /\ Len(h) \in Nat /\ \A n \in 1 .. Len(h) : h[n] \in Ctors
  BY HeldType, TyFacts
<1> HIDE DEF h
<1>3. ASSUME NEW n \in 1 .. (Len(h) + 1) PROVE chain[n] \in MemCell
  <2>1. CASE n > Len(h)
    BY <2>1, CellFacts
  <2>2. CASE n <= Len(h)
    <3>1. n \in 1 .. Len(h) /\ first + n \in Nat /\ ~(n > Len(h))
      BY <1>2, <2>2
    <3>2. h[n] \in Ctors \cup {"int"}
      BY <1>2, <3>1
    <3>3. chain[n] = Cell(h[n], first + n)
      BY <3>1
    <3> QED
      BY <3>1, <3>2, <3>3, CellFacts
  <2> QED
    BY <1>2, <2>1, <2>2
<1>4. chain[Len(h) + 1] = Cell("int", 0) /\ \A n \in 1 .. Len(h) : chain[n] = Cell(h[n], first + n)
  BY <1>2
<1>5. DOMAIN chain = 1 .. (Len(h) + 1) /\ chain = [n \in 1 .. (Len(h) + 1) |-> chain[n]]
  OBVIOUS
<1> HIDE DEF chain
<1>6. chain \in Seq(MemCell) /\ Len(chain) = Len(h) + 1
  <2>1. chain \in [1 .. (Len(h) + 1) -> MemCell] /\ Len(h) + 1 \in Nat
    BY <1>2, <1>3, <1>5
  <2> QED
    BY <2>1
<1> QED
  BY <1>1, <1>4, <1>6 DEF h

LEMMA ConcatFacts ==
    ASSUME NEW S, NEW s \in Seq(S), NEW t \in Seq(S)
    PROVE  /\ s \o t \in Seq(S) /\ Len(s \o t) = Len(s) + Len(t)
           /\ \A c \in 1 .. Len(s) : (s \o t)[c] = s[c]
           /\ \A n \in 1 .. Len(t) : (s \o t)[Len(s) + n] = t[n]
<1>1. Len(s) \in Nat /\ Len(t) \in Nat
  OBVIOUS
<1>2. s \o t \in Seq(S) /\ Len(s \o t) = Len(s) + Len(t)
  BY ConcatProperties
<1>3. \A c \in 1 .. Len(s) + Len(t) : (s \o t)[c] = IF c <= Len(s) THEN s[c] ELSE t[c - Len(s)]
  BY ConcatProperties
<1>4. ASSUME NEW c \in 1 .. Len(s) PROVE (s \o t)[c] = s[c]
  BY <1>1, <1>3
<1>5. ASSUME NEW n \in 1 .. Len(t) PROVE (s \o t)[Len(s) + n] = t[n]
  <2>1. Len(s) + n \in 1 .. Len(s) + Len(t) /\ ~(Len(s) + n <= Len(s)) /\ (Len(s) + n) - Len(s) = n
    BY <1>1
  <2> QED
    BY <1>3, <2>1
<1> QED
  BY <1>2, <1>4, <1>5

\* A parameter more.
LEMMA HeapChain ==
    ASSUME NEW m, NEW T, Heap(m, T), NEW ty \in Ty
    PROVE  \E T2 : /\ Heap(m \o Chain(Len(m) + 1, ty), T2) /\ Extends(T, T2)
                   /\ Len(m) + 1 \in 1 .. Len(T2) /\ T2[Len(m) + 1] = Held(ty)
<1> DEFINE N == Len(m)
           h == Held(ty)
           chain == Chain(N + 1, ty)
           types == [n \in 1 .. (Len(h) + 1) |-> Rest(h, n - 1)]
           m2 == m \o chain
           T2 == T \o types
<1>1. m \in Seq(MemCell) /\ T \in Seq(Ty) /\ Len(T) = N /\ N \in Nat /\ N + 1 \in Nat
  BY HeapFacts DEF Heap
<1>2. h \in Ty /\ Len(h) \in Nat /\ \A n \in 1 .. Len(h) : h[n] \in Ctors
  BY HeldType, TyFacts
<1>3. /\ chain \in Seq(MemCell) /\ Len(chain) = Len(h) + 1
      /\ chain[Len(h) + 1] = Cell("int", 0)
      /\ \A n \in 1 .. Len(h) : chain[n] = Cell(h[n], (N + 1) + n)
  BY <1>1, ChainFacts
<1> HIDE DEF chain, h, N
<1>4. /\ types \in Seq(Ty) /\ Len(types) = Len(h) + 1
      /\ \A n \in 1 .. Len(h) + 1 : types[n] = Rest(h, n - 1)
  <2>1. ASSUME NEW n \in 1 .. (Len(h) + 1) PROVE Rest(h, n - 1) \in Ty
    <3>1. n - 1 \in 0 .. Len(h)
      BY <1>2
    <3> QED
      BY <1>2, <3>1, RestFacts
  <2>2. types \in [1 .. (Len(h) + 1) -> Ty] /\ Len(h) + 1 \in Nat
    BY <1>2, <2>1
  <2> QED
    BY <2>2
<1> HIDE DEF types
<1>5. /\ m2 \in Seq(MemCell) /\ Len(m2) = N + (Len(h) + 1)
      /\ \A c \in 1 .. N : m2[c] = m[c]
      /\ \A n \in 1 .. Len(h) + 1 : m2[N + n] = chain[n]
  <2>1. Len(m) = N
    BY DEF N
  <2>2. /\ m2 \in Seq(MemCell) /\ Len(m2) = Len(m) + Len(chain)
        /\ \A c \in 1 .. Len(m) : m2[c] = m[c]
        /\ \A n \in 1 .. Len(chain) : m2[Len(m) + n] = chain[n]
    <3>1. m \in Seq(MemCell)
      BY <1>1
    <3>2. chain \in Seq(MemCell)
      BY <1>3
    <3>3. m \o chain \in Seq(MemCell) /\ Len(m \o chain) = Len(m) + Len(chain)
      BY <3>1, <3>2, ConcatFacts
    <3>4. \A c \in 1 .. Len(m) : (m \o chain)[c] = m[c]
      BY <3>1, <3>2, ConcatFacts
    <3>5. \A n \in 1 .. Len(chain) : (m \o chain)[Len(m) + n] = chain[n]
      BY <3>1, <3>2, ConcatFacts
    <3> QED
      BY <3>3, <3>4, <3>5
  <2> HIDE DEF m2
  <2> QED
    BY <1>3, <2>1, <2>2
<1>6. /\ T2 \in Seq(Ty) /\ Len(T2) = N + (Len(h) + 1)
      /\ \A c \in 1 .. N : T2[c] = T[c]
      /\ \A n \in 1 .. Len(h) + 1 : T2[N + n] = types[n]
  <2>1. /\ T2 \in Seq(Ty) /\ Len(T2) = Len(T) + Len(types)
        /\ \A c \in 1 .. Len(T) : T2[c] = T[c]
        /\ \A n \in 1 .. Len(types) : T2[Len(T) + n] = types[n]
    <3>1. T \in Seq(Ty)
      BY <1>1
    <3>2. types \in Seq(Ty)
      BY <1>4
    <3>3. T \o types \in Seq(Ty) /\ Len(T \o types) = Len(T) + Len(types)
      BY <3>1, <3>2, ConcatFacts
    <3>4. \A c \in 1 .. Len(T) : (T \o types)[c] = T[c]
      BY <3>1, <3>2, ConcatFacts
    <3>5. \A n \in 1 .. Len(types) : (T \o types)[Len(T) + n] = types[n]
      BY <3>1, <3>2, ConcatFacts
    <3> QED
      BY <3>3, <3>4, <3>5
  <2> HIDE DEF T2
  <2> QED
    BY <1>1, <1>4, <2>1
<1> HIDE DEF m2, T2
<1>7. Extends(T, T2) /\ Len(T2) \in Nat
  BY <1>1, <1>2, <1>6 DEF Extends
<1>8. ASSUME NEW n \in 1 .. Len(h) + 1 PROVE CellFits(T2, m2[N + n], T2[N + n])
  <2>1. n - 1 \in 0 .. Len(h) /\ T2[N + n] = Rest(h, n - 1) /\ m2[N + n] = chain[n]
    BY <1>2, <1>4, <1>5, <1>6
  <2>2. Rest(h, n - 1) \in Ty /\ Len(Rest(h, n - 1)) = Len(h) - (n - 1)
        /\ \A i \in 1 .. Len(h) - (n - 1) : Rest(h, n - 1)[i] = h[(n - 1) + i]
    BY <1>2, <2>1, RestFacts
  <2>3. CASE n = Len(h) + 1
    <3>1. Rest(h, n - 1) = <<>>
      BY <1>2, <2>2, <2>3 DEF Ty
    <3>2. chain[n] = Cell("int", 0)
      BY <1>3, <2>3
    <3>3. Cell("int", 0) \in MemCell /\ Cell("int", 0).tag = "int"
      <4>1. "int" \in Ctors \cup {"int"} /\ 0 \in Nat
        OBVIOUS
      <4> QED
        BY <4>1, CellFacts
    <3> QED
      BY <2>1, <3>1, <3>2, <3>3 DEF CellFits
  <2>4. CASE n \in 1 .. Len(h)
    <3>1. 1 \in 0 .. Len(h) - (n - 1) /\ 1 \in 1 .. Len(h) - (n - 1) /\ (n - 1) + 1 = n /\ Len(h) - (n - 1) > 0
      BY <1>2, <2>4
    <3>2. Rest(h, n - 1) # <<>> /\ Rest(h, n - 1)[1] = h[n]
      BY <2>2, <3>1, EmptySeq
    <3>3. Rest(Rest(h, n - 1), 1) = Rest(h, n)
      BY <1>2, <2>1, <3>1, RestRest
    <3>4. n + 1 \in 1 .. Len(h) + 1 /\ (N + 1) + n = N + (n + 1) /\ (n + 1) - 1 = n
          /\ (N + 1) + n \in 1 .. Len(T2) /\ (N + 1) + n \in Nat
      BY <1>1, <1>2, <1>6, <2>4
    <3>5. T2[(N + 1) + n] = Rest(h, n)
      BY <1>4, <1>6, <3>4
    <3>6. h[n] \in Ctors \cup {"int"} /\ chain[n] = Cell(h[n], (N + 1) + n)
      BY <1>2, <1>3, <2>4
    <3>7. chain[n] \in MemCell /\ chain[n].tag = h[n] /\ chain[n].to = (N + 1) + n
      BY <3>4, <3>6, CellFacts
    <3> QED
      BY <2>1, <3>2, <3>3, <3>4, <3>5, <3>7 DEF CellFits
  <2> QED
    BY <1>2, <2>3, <2>4
<1>9. ASSUME NEW c \in 1 .. Len(m2) PROVE CellFits(T2, m2[c], T2[c])
  <2>1. CASE c \in 1 .. N
    <3>1. CellFits(T, m[c], T[c])
      BY <2>1, HeapFacts DEF N
    <3>2. m2[c] = m[c] /\ T2[c] = T[c]
      BY <1>5, <1>6, <2>1
    <3> QED
      BY <1>1, <1>7, <3>1, <3>2, ExtendsFits
  <2>2. CASE c \notin 1 .. N
    <3> DEFINE n == c - N
    <3>1. n \in 1 .. Len(h) + 1 /\ c = N + n
      BY <1>1, <1>2, <1>5, <2>2
    <3> HIDE DEF n
    <3> QED
      BY <1>8, <3>1
  <2> QED
    BY <2>1, <2>2
<1>10. Heap(m2, T2)
  BY <1>5, <1>6, <1>9 DEF Heap
<1>11. N + 1 \in 1 .. Len(T2) /\ T2[N + 1] = h
  <2>1. 1 \in 1 .. Len(h) + 1 /\ 1 - 1 = 0 /\ Rest(h, 0) = h
    BY <1>2, RestNone
  <2>2. types[1] = h
    BY <1>4, <2>1
  <2> QED
    BY <1>1, <1>2, <1>6, <2>1, <2>2
<1> QED
  BY <1>7, <1>10, <1>11 DEF m2, T2, h, chain, N

Params == Seq([mut : BOOLEAN, ty : Types])

LEMMA ParamFacts ==
    ASSUME NEW params \in Params
    PROVE  /\ Len(params) \in Nat /\ DOMAIN params = 1 .. Len(params)
           /\ \A i \in 1 .. Len(params) : params[i].mut \in BOOLEAN /\ params[i].ty \in Ty
<1>1. ASSUME NEW ty \in Types PROVE ty \in Ty
  BY PlacesAssumption DEF Types, Ty
<1>2. Len(params) \in Nat /\ DOMAIN params = 1 .. Len(params)
      /\ \A i \in 1 .. Len(params) : params[i] \in [mut : BOOLEAN, ty : Types]
  <2> DEFINE R == [mut : BOOLEAN, ty : Types]
  <2>1. params \in Seq(R)
    BY DEF Params
  <2> HIDE DEF R
  <2>2. Len(params) \in Nat /\ DOMAIN params = 1 .. Len(params) /\ \A i \in 1 .. Len(params) : params[i] \in R
    BY <2>1
  <2> QED
    BY <2>2 DEF R
<1> QED
  BY <1>1, <1>2

\* The memories that grow, parameter by parameter.
LEMMA MemoryGrows ==
    ASSUME NEW params \in Params
    PROVE  /\ Memory(params)[0] = <<>>
           /\ \A i \in 1 .. Len(params) :
                Memory(params)[i] =
                    Memory(params)[i - 1] \o Chain(Len(Memory(params)[i - 1]) + 1, params[i].ty)
<1> DEFINE N == Len(params)
           V == Seq(MemCell)
           next(i, m) == m \o Chain(Len(m) + 1, params[i].ty)
           step == [x \in (1 .. N) \X V |-> next(x[1], x[2])]
           Rec(f) == [i \in 0 .. N |-> IF i = 0 THEN <<>> ELSE f[i - 1] \o Chain(Len(f[i - 1]) + 1, params[i].ty)]
<1>1. N \in Nat
  BY ParamFacts
<1>2. step \in [(1 .. N) \X V -> V]
  <2>1. ASSUME NEW i \in 1 .. N, NEW m \in V PROVE next(i, m) \in V
    <3>1. Len(m) + 1 \in Nat /\ params[i].ty \in Ty
      BY ParamFacts
    <3>2. Chain(Len(m) + 1, params[i].ty) \in V
      BY <3>1, ChainFacts
    <3> QED
      BY <3>2
  <2> HIDE DEF next, V
  <2> QED
    BY <2>1
<1>3. PICK g \in [0 .. N -> V] : Follows(g, <<>>, step, N)
  <2>1. <<>> \in V
    BY EmptySeq
  <2> HIDE DEF step, V
  <2> QED
    BY <1>1, <1>2, <2>1, RecursionOnInterval
<1>4. g = Rec(g)
  <2>1. ASSUME NEW i \in 0 .. N PROVE g[i] = Rec(g)[i]
    <3>1. CASE i = 0
      BY <3>1, <1>3 DEF Follows
    <3>2. CASE i # 0
      <4>1. i \in 1 .. N /\ i - 1 \in 0 .. N
        BY <3>2, <1>1
      <4>2. g[i - 1] \in V /\ <<i, g[i - 1]>> \in (1 .. N) \X V
        BY <4>1, <1>3
      <4>3. g[i] = step[<<i, g[i - 1]>>]
        <5> HIDE DEF step, V
        <5> QED
          BY <4>1, <1>3 DEF Follows
      <4>4. step[<<i, g[i - 1]>>] = next(i, g[i - 1])
        <5> HIDE DEF next, V
        <5> QED
          BY <4>2
      <4>5. Rec(g)[i] = next(i, g[i - 1])
        BY <3>2
      <4> HIDE DEF next, V, step, Rec
      <4> QED
        BY <4>3, <4>4, <4>5
    <3> QED
      BY <3>1, <3>2
  <2>2. g = [i \in 0 .. N |-> g[i]]
    BY <1>3
  <2> QED
    BY <2>1, <2>2
<1>5. PICK f : f = Rec(f) /\ Memory(params) = f
  BY <1>4 DEF Memory
<1>6. Rec(f)[0] = <<>>
  BY <1>1
<1>7. ASSUME NEW i \in 1 .. N
      PROVE  Rec(f)[i] = f[i - 1] \o Chain(Len(f[i - 1]) + 1, params[i].ty)
  <2>1. i \in 0 .. N /\ i # 0
    BY <1>1
  <2> QED
    BY <2>1
<1> HIDE DEF Rec
<1> QED
  BY <1>5, <1>6, <1>7

LEMMA InitTyped ==
    ASSUME Init
    PROVE  Typed(locals, mem) /\ AcceptsTheSound
<1>1. PICK f \in Functions :
        /\ locals = [i \in DOMAIN f.params |->
                        Local(f.params[i].mut, f.params[i].ty, Len(Memory(f.params)[i - 1]) + 1)]
        /\ mem = Memory(f.params)[Len(f.params)]
  BY DEF Init
<1> DEFINE params == f.params
           N == Len(params)
           m(i) == Memory(params)[i]
<1>2. params \in Params
  BY PlacesAssumption DEF Params
<1>3. N \in Nat /\ DOMAIN params = 1 .. N /\ \A i \in 1 .. N : params[i].mut \in BOOLEAN /\ params[i].ty \in Ty
  BY <1>2, ParamFacts
<1>4. m(0) = <<>> /\ \A i \in 1 .. N : m(i) = m(i - 1) \o Chain(Len(m(i - 1)) + 1, params[i].ty)
  BY <1>2, MemoryGrows
<1>5. locals = [i \in 1 .. N |-> Local(params[i].mut, params[i].ty, Len(m(i - 1)) + 1)] /\ mem = m(N)
  BY <1>1, <1>3
<1> HIDE DEF params, N, m
\* The first parameters are bound in a typed memory.
<1> DEFINE Placed(i, T) == \A j \in 1 .. i : Len(m(j - 1)) + 1 \in 1 .. Len(T)
                                             /\ T[Len(m(j - 1)) + 1] = Held(params[j].ty)
           S == {i \in 0 .. N : \E T : Heap(m(i), T) /\ Placed(i, T)}
<1>6. 0 \in S
  <2>1. Heap(<<>>, <<>>)
    <3>1. <<>> \in Seq(MemCell) /\ <<>> \in Seq(Ty) /\ Len(<<>>) = 0 /\ 1 .. 0 = {}
      BY EmptySeq
    <3> QED
      BY <3>1 DEF Heap
  <2>2. Placed(0, <<>>)
    OBVIOUS
  <2> HIDE DEF Placed
  <2> QED
    BY <1>3, <1>4, <2>1, <2>2
<1>7. ASSUME NEW i \in 0 .. N - 1, i \in S PROVE i + 1 \in S
  <2>1. PICK T : Heap(m(i), T) /\ Placed(i, T)
    BY <1>7
  <2>2. i + 1 \in 1 .. N /\ (i + 1) - 1 = i /\ i + 1 \in 0 .. N
    BY <1>3
  <2>3. PICK T2 : /\ Heap(m(i) \o Chain(Len(m(i)) + 1, params[i + 1].ty), T2) /\ Extends(T, T2)
                  /\ Len(m(i)) + 1 \in 1 .. Len(T2) /\ T2[Len(m(i)) + 1] = Held(params[i + 1].ty)
    BY <1>3, <2>1, <2>2, HeapChain
  <2>4. Heap(m(i + 1), T2)
    BY <1>4, <2>2, <2>3
  <2>5. Len(T) \in Nat /\ Len(T2) \in Nat
    BY <2>1, <2>4, HeapFacts
  <2>6. Placed(i + 1, T2)
    <3> SUFFICES ASSUME NEW j \in 1 .. i + 1
                 PROVE  Len(m(j - 1)) + 1 \in 1 .. Len(T2) /\ T2[Len(m(j - 1)) + 1] = Held(params[j].ty)
      OBVIOUS
    <3>1. CASE j = i + 1
      BY <2>2, <2>3, <3>1
    <3>2. CASE j \in 1 .. i
      BY <2>1, <2>3, <2>5, <3>2 DEF Extends
    <3> QED
      BY <1>3, <3>1, <3>2
  <2> HIDE DEF Placed
  <2> QED
    BY <2>2, <2>4, <2>6
<1>8. 0 .. N \subseteq S
  <2> HIDE DEF S
  <2> QED
    BY <1>3, <1>6, <1>7, UpwardInduction
<1>9. PICK T : Heap(mem, T) /\ Placed(N, T)
  BY <1>3, <1>5, <1>8
<1>10. ASSUME NEW i \in 1 .. N
       PROVE  /\ locals[i] \in Binding
              /\ locals[i].cell = Len(m(i - 1)) + 1 /\ locals[i].ty = params[i].ty
  <2>1. Len(m(i - 1)) + 1 \in Nat
    BY <1>9, HeapFacts
  <2>2. locals[i] = Local(params[i].mut, params[i].ty, Len(m(i - 1)) + 1)
    BY <1>5
  <2> QED
    BY <1>3, <2>1, <2>2 DEF Local, Binding
<1>11. locals \in Seq(Binding) /\ DOMAIN locals = 1 .. N
  <2>1. DOMAIN locals = 1 .. N /\ locals = [i \in 1 .. N |-> locals[i]]
    BY <1>5
  <2>2. locals \in [1 .. N -> Binding]
    BY <1>10, <2>1
  <2> QED
    BY <1>3, <2>1, <2>2
<1>12. Bound(T, locals)
  BY <1>9, <1>10, <1>11 DEF Bound
<1>13. AcceptsTheSound
  BY DEF Init, AcceptsTheSound
<1> QED
  BY <1>9, <1>11, <1>12, <1>13 DEF Typed

-----------------------------------------------------------------------------
(* What a cell owns *)

Owners == {"Box", "Vec"}
OwnStep(m, X) == X \cup {m[c].to : c \in {c \in X : m[c].tag \in {"Box", "Vec"}}}

\* What a pointer leads to.
LEMMA HeapPoints ==
    ASSUME NEW m, NEW T, Heap(m, T), NEW c \in 1 .. Len(m), m[c].tag # "int"
    PROVE  /\ m[c].to \in 1 .. Len(m) /\ T[m[c].to] = Rest(T[c], 1)
           /\ T[c] # <<>> /\ m[c].tag = T[c][1]
           /\ Len(T[c]) \in Nat /\ Len(T[c]) >= 1 /\ Len(T[m[c].to]) = Len(T[c]) - 1
<1>1. CellFits(T, m[c], T[c]) /\ Len(T) = Len(m) /\ T[c] \in Ty
  BY HeapFacts
<1>2. T[c] # <<>>
  BY <1>1 DEF CellFits
<1>3. Len(T[c]) \in Nat /\ Len(T[c]) >= 1
  BY <1>1, <1>2, HeadFacts
<1>4. 1 \in 0 .. Len(T[c])
  BY <1>3
<1>5. Len(Rest(T[c], 1)) = Len(T[c]) - 1
  BY <1>1, <1>4, RestFacts
<1> QED
  BY <1>1, <1>2, <1>3, <1>5 DEF CellFits

LEMMA OwnStepFacts ==
    ASSUME NEW m, NEW T, Heap(m, T), NEW X, X \subseteq 1 .. Len(m)
    PROVE  /\ OwnStep(m, X) \subseteq 1 .. Len(m)
           /\ X \subseteq OwnStep(m, X)
           /\ \A d \in OwnStep(m, X) : d \in X \/ \E c \in X : m[c].tag \in Owners /\ m[c].to = d
           /\ \A c \in X : m[c].tag \in Owners => m[c].to \in OwnStep(m, X)
<1>1. \A d \in OwnStep(m, X) : d \in X \/ \E c \in X : m[c].tag \in Owners /\ m[c].to = d
  BY DEF OwnStep, Owners
<1>2. X \subseteq OwnStep(m, X) /\ \A c \in X : m[c].tag \in Owners => m[c].to \in OwnStep(m, X)
  BY DEF OwnStep, Owners
<1>3. ASSUME NEW c \in X, m[c].tag \in Owners PROVE m[c].to \in 1 .. Len(m)
  <2>1. m[c].tag # "int"
    BY <1>3 DEF Owners
  <2> QED
    BY <2>1, HeapPoints
<1>4. OwnStep(m, X) \subseteq 1 .. Len(m)
  BY <1>1, <1>3
<1> QED
  BY <1>1, <1>2, <1>4

\* f[n] is what is owned over at most n pointers.
OwnedBy(m, cell, f) ==
    /\ f[0] = {cell}
    /\ \A n \in 1 .. MaxDepth : f[n] = OwnStep(m, f[n - 1])

LEMMA OwnedChain ==
    ASSUME NEW m, NEW T, Heap(m, T), NEW cell \in 1 .. Len(m)
    PROVE  \E f : Owned(m, cell) = f[MaxDepth] /\ OwnedBy(m, cell, f)
<1> DEFINE V == SUBSET (1 .. Len(m))
           next(X) == OwnStep(m, X)
           step == [x \in (1 .. MaxDepth) \X V |-> next(x[2])]
           Rec(f) == [n \in 0 .. MaxDepth |->
                        IF n = 0 THEN {cell}
                        ELSE f[n - 1] \cup {m[c].to : c \in {c \in f[n - 1] : m[c].tag \in {"Box", "Vec"}}}]
<1>0. MaxDepth \in Nat
  BY PlacesAssumption
<1>1. \A X \in V : next(X) \in V
  BY OwnStepFacts
<1>2. step \in [(1 .. MaxDepth) \X V -> V] /\ {cell} \in V
  <2> HIDE DEF next
  <2>1. step \in [(1 .. MaxDepth) \X V -> V]
    <3> HIDE DEF V
    <3> QED
      BY <1>1
  <2> QED
    BY <2>1
<1>3. PICK g \in [0 .. MaxDepth -> V] : Follows(g, {cell}, step, MaxDepth)
  <2> HIDE DEF step, V
  <2> QED
    BY <1>0, <1>2, RecursionOnInterval
<1>4. ASSUME NEW n \in 1 .. MaxDepth PROVE g[n] = OwnStep(m, g[n - 1])
  <2> HIDE DEF V
  <2>1. n - 1 \in 0 .. MaxDepth /\ g[n - 1] \in V /\ <<n, g[n - 1]>> \in (1 .. MaxDepth) \X V
    BY <1>0, <1>3
  <2>2. g[n] = step[<<n, g[n - 1]>>]
    <3> HIDE DEF step
    <3> QED
      BY <1>3 DEF Follows
  <2>3. step[<<n, g[n - 1]>>] = next(g[n - 1])
    <3> HIDE DEF next
    <3> QED
      BY <2>1
  <2> HIDE DEF step
  <2> QED
    BY <2>2, <2>3
<1>5. \A f : \A n \in 0 .. MaxDepth : Rec(f)[n] = IF n = 0 THEN {cell} ELSE OwnStep(m, f[n - 1])
  BY DEF OwnStep
<1>6. g = Rec(g)
  <2>1. ASSUME NEW n \in 0 .. MaxDepth PROVE g[n] = Rec(g)[n]
    <3>1. CASE n = 0
      <4>1. g[n] = {cell}
        BY <3>1, <1>3 DEF Follows
      <4> HIDE DEF Rec
      <4> QED
        BY <3>1, <4>1, <1>5
    <3>2. CASE n # 0
      <4>1. n \in 1 .. MaxDepth
        BY <3>2, <1>0
      <4> HIDE DEF Rec
      <4> QED
        BY <3>2, <4>1, <1>4, <1>5
    <3> QED
      BY <3>1, <3>2
  <2>2. g = [n \in 0 .. MaxDepth |-> g[n]]
    BY <1>3
  <2>3. Rec(g) = [n \in 0 .. MaxDepth |-> Rec(g)[n]]
    OBVIOUS
  <2> HIDE DEF Rec
  <2> QED
    BY <2>1, <2>2, <2>3
<1>7. PICK f : f = Rec(f) /\ Owned(m, cell) = f[MaxDepth]
  BY <1>6 DEF Owned
<1> HIDE DEF Rec, V, next, step
<1>8. f[0] = {cell}
  BY <1>0, <1>5, <1>7
<1>9. \A n \in 1 .. MaxDepth : f[n] = OwnStep(m, f[n - 1])
  <2> TAKE n \in 1 .. MaxDepth
  <2>1. n \in 0 .. MaxDepth /\ n # 0
    BY <1>0
  <2> QED
    BY <2>1, <1>5, <1>7
<1> QED
  BY <1>7, <1>8, <1>9 DEF OwnedBy

\* Owned is contained in every set that has the cell and all that its members own.
LEMMA OwnedLeast ==
    ASSUME NEW m, NEW T, Heap(m, T), NEW cell \in 1 .. Len(m), NEW S, cell \in S,
           \A c \in S : c \in 1 .. Len(m) /\ m[c].tag \in Owners => m[c].to \in S
    PROVE  Owned(m, cell) \subseteq S
<1>0. MaxDepth \in Nat
  BY PlacesAssumption
<1>1. PICK f : Owned(m, cell) = f[MaxDepth] /\ OwnedBy(m, cell, f)
  BY OwnedChain
<1> DEFINE I == {n \in 0 .. MaxDepth : f[n] \subseteq S /\ f[n] \subseteq 1 .. Len(m)}
<1>2. 0 \in I
  BY <1>0, <1>1 DEF OwnedBy
<1>3. ASSUME NEW n \in 0 .. MaxDepth - 1, n \in I PROVE n + 1 \in I
  <2>1. n + 1 \in 1 .. MaxDepth /\ (n + 1) - 1 = n /\ n + 1 \in 0 .. MaxDepth
    BY <1>0
  <2>2. f[n + 1] = OwnStep(m, f[n])
    BY <1>1, <2>1 DEF OwnedBy
  <2>3. f[n] \subseteq S /\ f[n] \subseteq 1 .. Len(m)
    BY <1>3
  <2>4. OwnStep(m, f[n]) \subseteq 1 .. Len(m)
    BY <2>3, OwnStepFacts
  <2>5. \A d \in OwnStep(m, f[n]) : d \in f[n] \/ \E c \in f[n] : m[c].tag \in Owners /\ m[c].to = d
    BY <2>3, OwnStepFacts
  <2>6. OwnStep(m, f[n]) \subseteq S
    BY <2>3, <2>5
  <2> QED
    BY <2>1, <2>2, <2>4, <2>6
<1>4. 0 .. MaxDepth \subseteq I
  <2> HIDE DEF I
  <2> QED
    BY <1>0, <1>2, <1>3, UpwardInduction
<1> QED
  BY <1>0, <1>1, <1>4

\* A type that is not deeper than MaxDepth is exhausted: what an owned cell owns is owned.
LEMMA OwnedClosed ==
    ASSUME NEW m, NEW T, Heap(m, T), NEW cell \in 1 .. Len(m), Len(T[cell]) <= MaxDepth
    PROVE  /\ Owned(m, cell) \subseteq 1 .. Len(m) /\ cell \in Owned(m, cell)
           /\ \A c \in Owned(m, cell) : m[c].tag \in Owners => m[c].to \in Owned(m, cell)
<1>0. MaxDepth \in Nat /\ \A c \in 1 .. Len(m) : Len(T[c]) \in Nat
  BY PlacesAssumption, HeapFacts, TyFacts
<1>1. PICK f : Owned(m, cell) = f[MaxDepth] /\ OwnedBy(m, cell, f)
  BY OwnedChain
<1> DEFINE Ends(n, c) == m[c].tag \in Owners => m[c].to \in f[n] \/ Len(T[c]) <= Len(T[cell]) - n
           I == {n \in 0 .. MaxDepth : /\ f[n] \subseteq 1 .. Len(m) /\ cell \in f[n]
                                       /\ \A c \in f[n] : Ends(n, c)}
<1>2. 0 \in I
  BY <1>0, <1>1 DEF OwnedBy
<1>3. ASSUME NEW n \in 0 .. MaxDepth - 1, n \in I PROVE n + 1 \in I
  <2>1. n + 1 \in 1 .. MaxDepth /\ (n + 1) - 1 = n /\ n + 1 \in 0 .. MaxDepth
    BY <1>0
  <2>2. f[n + 1] = OwnStep(m, f[n])
    BY <1>1, <2>1 DEF OwnedBy
  <2>3. f[n] \subseteq 1 .. Len(m) /\ cell \in f[n] /\ \A c \in f[n] : Ends(n, c)
    BY <1>3
  <2>4. f[n + 1] \subseteq 1 .. Len(m) /\ f[n] \subseteq f[n + 1]
    BY <2>2, <2>3, OwnStepFacts
  <2>5. \A d \in f[n + 1] : d \in f[n] \/ \E c \in f[n] : m[c].tag \in Owners /\ m[c].to = d
    BY <2>2, <2>3, OwnStepFacts
  <2>6. \A c \in f[n] : m[c].tag \in Owners => m[c].to \in f[n + 1]
    BY <2>2, <2>3, OwnStepFacts
  <2>7. ASSUME NEW d \in f[n + 1], m[d].tag \in Owners
        PROVE  m[d].to \in f[n + 1] \/ Len(T[d]) <= Len(T[cell]) - (n + 1)
    <3>1. CASE d \in f[n]
      BY <2>6, <2>7, <3>1
    <3>2. CASE d \notin f[n]
      <4>1. PICK c \in f[n] : m[c].tag \in Owners /\ m[c].to = d
        BY <2>5, <3>2
      <4>2. Len(T[c]) <= Len(T[cell]) - n
        BY <2>3, <3>2, <4>1
      <4>3. m[c].tag # "int" /\ c \in 1 .. Len(m)
        BY <2>3, <4>1 DEF Owners
      <4>4. Len(T[d]) = Len(T[c]) - 1
        BY <4>1, <4>3, HeapPoints
      <4> QED
        BY <1>0, <2>3, <4>2, <4>3, <4>4
    <3> QED
      BY <3>1, <3>2
  <2>8. \A d \in f[n + 1] : Ends(n + 1, d)
    BY <2>7
  <2> HIDE DEF Ends
  <2> QED
    BY <2>1, <2>3, <2>4, <2>8
<1>4. 0 .. MaxDepth \subseteq I
  <2> HIDE DEF I
  <2> QED
    BY <1>0, <1>2, <1>3, UpwardInduction
<1>5. /\ f[MaxDepth] \subseteq 1 .. Len(m) /\ cell \in f[MaxDepth]
      /\ \A c \in f[MaxDepth] : Ends(MaxDepth, c)
  BY <1>0, <1>4
<1>6. ASSUME NEW c \in f[MaxDepth], m[c].tag \in Owners PROVE m[c].to \in f[MaxDepth]
  <2>1. c \in 1 .. Len(m) /\ m[c].tag # "int"
    BY <1>5, <1>6 DEF Owners
  <2>2. Len(T[c]) \in Nat /\ Len(T[c]) >= 1
    BY <2>1, HeapPoints
  <2> QED
    BY <1>0, <1>5, <1>6, <2>2
<1> QED
  BY <1>1, <1>5, <1>6

\* Every owned cell but the first has an owner among them.
LEMMA OwnedBack ==
    ASSUME NEW m, NEW T, Heap(m, T), NEW cell \in 1 .. Len(m), Len(T[cell]) <= MaxDepth,
           NEW d \in Owned(m, cell), d # cell
    PROVE  \E c \in Owned(m, cell) : m[c].tag \in Owners /\ m[c].to = d
<1> DEFINE O == Owned(m, cell)
           S == {c \in O : c = cell \/ \E b \in O : m[b].tag \in Owners /\ m[b].to = c}
<1>1. O \subseteq 1 .. Len(m) /\ cell \in O /\ \A c \in O : m[c].tag \in Owners => m[c].to \in O
  BY OwnedClosed
<1>2. cell \in S /\ \A c \in S : c \in 1 .. Len(m) /\ m[c].tag \in Owners => m[c].to \in S
  <2> HIDE DEF O
  <2> QED
    BY <1>1
<1>3. O \subseteq S
  <2> HIDE DEF S
  <2> QED
    BY <1>2, OwnedLeast
<1> QED
  BY <1>3

\* A memory in which the owned cells have kept their pointers.
LEMMA OwnedKept ==
    ASSUME NEW m, NEW T, Heap(m, T), NEW m2, NEW T2, Heap(m2, T2),
           NEW cell \in 1 .. Len(m), cell \in 1 .. Len(m2),
           Len(T[cell]) <= MaxDepth, Len(T2[cell]) <= MaxDepth,
           \A c \in Owned(m, cell) : m2[c].tag = m[c].tag /\ m2[c].to = m[c].to
    PROVE  Owned(m2, cell) = Owned(m, cell)
<1> DEFINE O == Owned(m, cell)
           O2 == Owned(m2, cell)
<1>1. O \subseteq 1 .. Len(m) /\ cell \in O /\ \A c \in O : m[c].tag \in Owners => m[c].to \in O
  BY OwnedClosed
<1>2. cell \in O2 /\ \A c \in O2 : m2[c].tag \in Owners => m2[c].to \in O2
  BY OwnedClosed
<1>3. \A c \in O : m2[c].tag = m[c].tag /\ m2[c].to = m[c].to
  OBVIOUS
<1> HIDE DEF O, O2
<1>4. O2 \subseteq O
  <2>1. \A c \in O : c \in 1 .. Len(m2) /\ m2[c].tag \in Owners => m2[c].to \in O
    BY <1>1, <1>3
  <2> QED
    BY <1>1, <2>1, OwnedLeast DEF O2
<1>5. O \subseteq O2
  <2> DEFINE S == O \cap O2
  <2>1. cell \in S /\ \A c \in S : c \in 1 .. Len(m) /\ m[c].tag \in Owners => m[c].to \in S
    BY <1>1, <1>2, <1>3
  <2> HIDE DEF S
  <2>2. O \subseteq S
    BY <2>1, OwnedLeast DEF O
  <2> QED
    BY <2>2 DEF S
<1> QED
  BY <1>4, <1>5 DEF O, O2

-----------------------------------------------------------------------------
(* Who is kept from whom.  G is garbage: what was moved from.                 *)

\* What lies outside of garbage leads neither into it, nor from what may be changed
\* to what may not: F is frozen, L of it is lent.
Guarded(m, G, L, F) ==
    \A c \in 1 .. Len(m) : c \notin G =>
        /\ m[c].tag \in Owners \cup Refs => m[c].to \notin G
        /\ m[c].tag = "RefMut" /\ c \notin L => m[c].to \notin F
        /\ m[c].tag \in Owners /\ c \notin F => m[c].to \notin F
        /\ m[c].tag \in Owners \cup {"RefMut"} /\ c \notin L => m[c].to \notin L

\* One pointer more.
LEMMA DerefNext ==
    ASSUME NEW m, NEW T, Heap(m, T), NEW c \in 1 .. Len(m), NEW k \in Nat, k + 1 <= Len(T[c])
    PROVE  Deref(m, c, k + 1) = m[Deref(m, c, k)].to
<1>0. Len(T[c]) \in Nat /\ k \in 0 .. Len(T[c]) /\ k + 1 \in 0 .. Len(T[c])
  BY HeapFacts, TyFacts
<1>1. PICK f : Walk(m, T, c, k, f) /\ Deref(m, c, k) = f[k]
  BY <1>0, DerefWalk
<1>2. PICK g : Walk(m, T, c, k + 1, g) /\ Deref(m, c, k + 1) = g[k + 1]
  BY <1>0, DerefWalk
<1> DEFINE S == {n \in 0 .. k : f[n] = g[n]}
<1>3. 0 \in S
  BY <1>0, <1>1, <1>2 DEF Walk
<1>4. ASSUME NEW n \in 0 .. k - 1, n \in S PROVE n + 1 \in S
  <2>1. n + 1 \in 1 .. k /\ n + 1 \in 1 .. k + 1 /\ (n + 1) - 1 = n /\ n + 1 \in 0 .. k
    BY <1>0
  <2>2. f[n + 1] = m[f[n]].to
    BY <1>1, <2>1 DEF Walk
  <2>3. g[n + 1] = m[g[n]].to
    BY <1>2, <2>1 DEF Walk
  <2> QED
    BY <1>4, <2>1, <2>2, <2>3
<1>5. 0 .. k \subseteq S
  <2> HIDE DEF S
  <2> QED
    BY <1>3, <1>4, UpwardInduction
<1>6. f[k] = g[k]
  BY <1>5
<1>7. k + 1 \in 1 .. k + 1 /\ (k + 1) - 1 = k
  OBVIOUS
<1>8. g[k + 1] = m[g[k]].to
  BY <1>2, <1>7 DEF Walk
<1> QED
  BY <1>1, <1>2, <1>6, <1>8

LEMMA DerefNone ==
    ASSUME NEW m, NEW T, Heap(m, T), NEW c \in 1 .. Len(m)
    PROVE  Deref(m, c, 0) = c
<1>1. 0 \in 0 .. Len(T[c])
  BY HeapFacts, TyFacts
<1> QED
  BY <1>1, DerefWalk DEF Walk

\* Pointers can be followed in two stretches.
LEMMA DerefTwice ==
    ASSUME NEW m, NEW T, Heap(m, T), NEW c \in 1 .. Len(m), NEW a \in Nat, NEW b \in Nat, a + b <= Len(T[c])
    PROVE  Deref(m, Deref(m, c, a), b) = Deref(m, c, a + b)
<1> DEFINE d == Deref(m, c, a)
           S == {n \in 0 .. b : Deref(m, d, n) = Deref(m, c, a + n)}
<1>0. T[c] \in Ty /\ Len(T[c]) \in Nat /\ a \in 0 .. Len(T[c])
  BY HeapFacts, TyFacts
<1>1. d \in 1 .. Len(m) /\ T[d] = Rest(T[c], a)
  BY <1>0, DerefFits
<1>2. Len(T[d]) = Len(T[c]) - a
  BY <1>0, <1>1, RestFacts
<1> HIDE DEF d
<1>3. 0 \in S
  <2>1. Deref(m, d, 0) = d /\ a + 0 = a
    BY <1>1, DerefNone
  <2> QED
    BY <2>1 DEF d
<1>4. ASSUME NEW n \in 0 .. b - 1, n \in S PROVE n + 1 \in S
  <2>1. n \in Nat /\ n + 1 <= Len(T[d]) /\ (a + n) + 1 <= Len(T[c]) /\ a + n \in Nat
        /\ a + (n + 1) = (a + n) + 1 /\ n + 1 \in 0 .. b
    BY <1>0, <1>2
  <2>2. Deref(m, d, n + 1) = m[Deref(m, d, n)].to
    BY <1>1, <2>1, DerefNext
  <2>3. Deref(m, c, (a + n) + 1) = m[Deref(m, c, a + n)].to
    BY <2>1, DerefNext
  <2> QED
    BY <1>4, <2>1, <2>2, <2>3
<1>5. 0 .. b \subseteq S
  <2> HIDE DEF S
  <2> QED
    BY <1>3, <1>4, UpwardInduction
<1> QED
  BY <1>5 DEF d

\* What is reached over the first k constructors of the root of e.
Reached(e, k, G, L, F, cell) ==
    /\ cell \notin G
    /\ ~SharedWithin(e, k) => cell \notin L
    /\ Changing(e, k) => cell \notin F

LEMMA ReachedNext ==
    ASSUME NEW m, NEW T, Heap(m, T), NEW G, NEW L, NEW F, Guarded(m, G, L, F),
           NEW e, RootType(e) \in Ty, NEW k \in Nat, k < Len(RootType(e)),
           NEW cell \in 1 .. Len(m), Reached(e, k, G, L, F, cell),
           m[cell].tag = RootType(e)[k + 1], RootType(e)[k + 1] \notin Spread
    PROVE  Reached(e, k + 1, G, L, F, m[cell].to)
<1> DEFINE c == RootType(e)[k + 1]
<1>1. c \in Ctors /\ c # "int"
  <2>1. k + 1 \in 1 .. Len(RootType(e))
    BY TyFacts
  <2> QED
    BY <2>1, TyFacts DEF Ctors, Pointers, Refs
<1>2. k + 1 \in 1 .. k + 1 /\ \A i \in 1 .. k : i \in 1 .. k + 1
  OBVIOUS
<1>3. SharedWithin(e, k) => SharedWithin(e, k + 1)
  BY <1>2 DEF SharedWithin
<1>4. c = "Ref" => SharedWithin(e, k + 1)
  BY <1>2 DEF SharedWithin, SharedAt
<1>5. c # "RefMut" /\ Changing(e, k + 1) => Changing(e, k)
  BY <1>3 DEF Changing, Some
<1>6. /\ m[cell].to \notin G
      /\ c = "RefMut" /\ cell \notin L => m[cell].to \notin F
      /\ c \in Owners /\ cell \notin F => m[cell].to \notin F
      /\ c \in Owners \cup {"RefMut"} /\ cell \notin L => m[cell].to \notin L
  <2>1. c \in Owners \cup Refs
    BY <1>1 DEF Ctors, Pointers, Refs, Owners, Spread
  <2> QED
    BY <2>1 DEF Guarded, Reached, Refs
<1>7. /\ ~SharedWithin(e, k) => cell \notin L
      /\ Changing(e, k) => cell \notin F
  BY DEF Reached
<1>8. Changing(e, k + 1) => ~SharedWithin(e, k + 1)
  BY DEF Changing
<1>9. c \in Owners \/ c = "RefMut" \/ c = "Ref" \/ c \in Spread
  BY <1>1 DEF Ctors, Pointers, Refs, Owners, Spread
<1> QED
  BY <1>3, <1>4, <1>5, <1>6, <1>7, <1>8, <1>9 DEF Reached

LEMMA ReachedSame ==
    ASSUME NEW G, NEW L, NEW F, NEW e, NEW k \in Nat, NEW cell, Reached(e, k, G, L, F, cell),
           RootType(e)[k + 1] \in Spread
    PROVE  Reached(e, k + 1, G, L, F, cell)
<1>1. k + 1 \in 1 .. k + 1 /\ \A i \in 1 .. k : i \in 1 .. k + 1
  OBVIOUS
<1>2. SharedWithin(e, k) => SharedWithin(e, k + 1)
  BY <1>1 DEF SharedWithin
<1>3. RootType(e)[k + 1] # "RefMut"
  BY DEF Spread
<1>4. Changing(e, k + 1) => Changing(e, k)
  BY <1>2, <1>3 DEF Changing, Some
<1> QED
  BY <1>2, <1>4 DEF Reached

\* Where a path may be changed is not frozen, however it got there.
LEMMA WalkIsApart ==
    ASSUME NEW m, NEW T, Heap(m, T), NEW G, NEW L, NEW F, Guarded(m, G, L, F),
           NEW e, RootType(e) \in Ty, NEW start \in 1 .. Len(m), T[start] = Held(RootType(e)),
           start \notin G \cup L, MutRoot(e) => start \notin F,
           NEW k \in 0 .. Len(RootType(e))
    PROVE  \E x \in 0 .. Len(Held(RootType(e))) :
                /\ Rest(Held(RootType(e)), x) = Held(Rest(RootType(e), k))
                /\ Reached(e, k, G, L, F, Deref(m, start, x))
<1> DEFINE R == RootType(e)
           H == Held(R)
           At(n, x) == /\ Rest(H, x) = Held(Rest(R, n))
                       /\ Reached(e, n, G, L, F, Deref(m, start, x))
           S == {n \in 0 .. k : \E x \in 0 .. Len(H) : At(n, x)}
<1>0. R \in Ty /\ Len(R) \in Nat /\ H \in Ty /\ Len(H) \in Nat /\ k \in Nat
  BY HeldType, TyFacts
<1>1. 0 \in S
  <2>1. Rest(H, 0) = H /\ Rest(R, 0) = R
    BY <1>0, RestNone
  <2>2. Deref(m, start, 0) = start
    BY DerefNone
  <2>3. Reached(e, 0, G, L, F, start)
    BY DEF Reached, Changing, Some
  <2> QED
    BY <1>0, <2>1, <2>2, <2>3
<1>2. ASSUME NEW n \in 0 .. k - 1, n \in S PROVE n + 1 \in S
  <2>1. n \in Nat /\ n \in 0 .. Len(R) - 1 /\ n < Len(R) /\ n + 1 \in 0 .. k
    BY <1>0
  <2>2. PICK x \in 0 .. Len(H) : At(n, x)
    BY <1>2
  <2>3. /\ Held(Rest(R, n + 1)) \in Ty
        /\ Held(Rest(R, n)) = IF R[n + 1] \in Spread THEN Held(Rest(R, n + 1))
                              ELSE <<R[n + 1]>> \o Held(Rest(R, n + 1))
    <3> HIDE DEF R
    <3> QED
      BY <1>0, <2>1, HeldRest
  <2>4. CASE R[n + 1] \in Spread
    <3>1. Reached(e, n + 1, G, L, F, Deref(m, start, x))
      BY <2>1, <2>2, <2>4, ReachedSame
    <3> QED
      BY <2>1, <2>2, <2>3, <2>4, <3>1
  <2>5. CASE R[n + 1] \notin Spread
    <3> DEFINE t == Held(Rest(R, n + 1))
               cell == Deref(m, start, x)
    <3>1. R[n + 1] \in Ctors
      BY <1>0, <2>1, TyFacts
    <3>2. Rest(H, x) = <<R[n + 1]>> \o t /\ t \in Ty
      BY <2>2, <2>3, <2>5
    <3> HIDE DEF t
    <3>3. Len(Rest(H, x)) = Len(t) + 1 /\ Rest(H, x)[1] = R[n + 1] /\ Rest(Rest(H, x), 1) = t /\ Len(t) \in Nat
          /\ Rest(H, x) # <<>>
      BY <3>1, <3>2, PrefixedFacts, RestPrefixed, TyFacts
    <3>4. Len(Rest(H, x)) = Len(H) - x
      BY <1>0, <2>2, RestFacts
    <3>5. x + 1 \in 0 .. Len(H) /\ 1 \in 0 .. Len(H) - x /\ x \in Nat
      BY <1>0, <3>3, <3>4
    <3>6. Rest(H, x + 1) = t
      BY <1>0, <3>3, <3>5, RestRest
    <3>7. cell \in 1 .. Len(m) /\ T[cell] = Rest(H, x)
      BY <2>2, DerefFits
    <3>8. m[cell].tag = R[n + 1]
      BY <3>3, <3>7, HeapFacts DEF CellFits
    <3>9. Reached(e, n, G, L, F, cell)
      BY <2>2
    <3> HIDE DEF cell
    <3>10. Reached(e, n + 1, G, L, F, m[cell].to)
      BY <1>0, <2>1, <2>5, <3>7, <3>8, <3>9, ReachedNext
    <3>11. Deref(m, start, x + 1) = m[cell].to
      BY <3>5, DerefNext DEF cell
    <3> QED
      BY <2>1, <3>5, <3>6, <3>10, <3>11 DEF t
  <2> QED
    BY <2>4, <2>5
<1>3. 0 .. k \subseteq S
  <2> HIDE DEF S
  <2> QED
    BY <1>0, <1>1, <1>2, UpwardInduction
<1>4. k \in S
  BY <1>0, <1>3
<1> QED
  BY <1>4

Ready(e, T, G, L, F) ==
    /\ Heap(Stored(e), T)
    /\ Start(e) \in 1 .. Len(Stored(e)) /\ T[Start(e)] = Held(RootType(e))
    /\ Guarded(Stored(e), G, L, F)
    /\ Start(e) \notin G \cup L /\ (MutRoot(e) => Start(e) \notin F)

\* The j-th cell behind the place of e.
LEMMA PlaceApart ==
    ASSUME locals \in Seq(Binding), NEW e, PathInv(e), Deep(e),
           NEW T, NEW G, NEW L, NEW F, Ready(e, T, G, L, F),
           NEW j \in 0 .. Len(e.ty), \A i \in 1 .. j : e.ty[i] \in Pointers
    PROVE  /\ Deref(Stored(e), PlaceOf(e), j) \in 1 .. Len(Stored(e))
           /\ Deref(Stored(e), PlaceOf(e), j) \notin G
           /\ Changeable(e, j) => Deref(Stored(e), PlaceOf(e), j) \notin F
<1> DEFINE R == RootType(e)
           H == Held(R)
           M == Stored(e)
           k == Gone(e) + j
           d == e.derefs
<1>1. R \in Ty /\ Len(R) \in Nat /\ H \in Ty /\ Len(H) \in Nat /\ e.ty \in Ty /\ Len(e.ty) \in Nat /\ Gone(e) \in Nat
  BY RootFacts, HeldType, TyFacts DEF PathInv, Expr
<1>2. k \in 0 .. Len(R) /\ Gone(e) \in 0 .. Len(R) /\ Len(e.ty) = Len(R) - Gone(e) /\ j \in 0 .. Len(R) - Gone(e)
      /\ j \in Nat
  BY <1>1 DEF Gone
<1>3. e.ty = Rest(R, Gone(e))
  <2>1. \A i \in 1 .. Len(e.ty) : e.ty[i] = R[Gone(e) + i]
    BY DEF PathInv
  <2>2. Rest(R, Gone(e)) = e.ty
    <3> HIDE DEF R
    <3> QED
      BY <1>1, <1>2, <2>1, RestIs
  <2> QED
    BY <2>2
<1>4. d \in 0 .. Len(H) /\ Rest(H, d) = Held(e.ty)
  BY DEF Deep
<1>5. j \in 0 .. Len(Held(e.ty)) /\ Rest(Held(e.ty), j) = Held(Rest(e.ty, j))
  BY <1>1, HeldPointers
<1>6. Rest(e.ty, j) = Rest(R, k)
  <2>1. Rest(Rest(R, Gone(e)), j) = Rest(R, Gone(e) + j)
    <3> HIDE DEF R
    <3> QED
      BY <1>1, <1>2, RestRest
  <2> QED
    BY <1>3, <2>1
<1>7. PICK x \in 0 .. Len(H) : /\ Rest(H, x) = Held(Rest(R, k))
                               /\ Reached(e, k, G, L, F, Deref(M, Start(e), x))
  <2> HIDE DEF k
  <2> QED
    BY <1>1, <1>2, WalkIsApart DEF Ready
<1> HIDE DEF R, H, d, k
<1>8. d + j \in 0 .. Len(H) /\ j \in 0 .. Len(H) - d /\ d \in Nat
  <2>1. Len(Rest(H, d)) = Len(H) - d
    BY <1>1, <1>4, RestFacts
  <2> QED
    BY <1>1, <1>2, <1>4, <1>5, <2>1
<1>9. Rest(H, d + j) = Held(Rest(R, k))
  <2>1. Rest(Rest(H, d), j) = Rest(H, d + j)
    BY <1>1, <1>4, <1>8, RestRest
  <2> QED
    BY <1>4, <1>5, <1>6, <2>1
<1>10. x = d + j
  <2>1. Len(Rest(H, x)) = Len(H) - x /\ Len(Rest(H, d + j)) = Len(H) - (d + j)
    BY <1>1, <1>7, <1>8, RestFacts
  <2> QED
    BY <1>1, <1>7, <1>8, <1>9, <2>1
<1>11. Deref(M, PlaceOf(e), j) = Deref(M, Start(e), d + j)
  <2>1. PlaceOf(e) = Deref(M, Start(e), d)
    BY DEF PlaceOf, d
  <2>2. Heap(M, T) /\ Start(e) \in 1 .. Len(M) /\ T[Start(e)] = H
    BY DEF Ready, H, R
  <2> HIDE DEF M
  <2>3. Deref(M, Deref(M, Start(e), d), j) = Deref(M, Start(e), d + j)
    <3>1. d + j <= Len(T[Start(e)])
      BY <1>8, <2>2
    <3> QED
      BY <1>2, <1>8, <2>2, <3>1, DerefTwice
  <2> QED
    BY <2>1, <2>3
<1>12. Deref(M, Start(e), d + j) \in 1 .. Len(M)
  BY <1>8, DerefFits DEF Ready, H, R
<1>13. Changeable(e, j) <=> Changing(e, k)
  BY ChangeableIs DEF k
<1> QED
  BY <1>7, <1>10, <1>11, <1>12, <1>13 DEF Reached

-----------------------------------------------------------------------------
(* The value that is stored *)

\* A copied value is no owner and no mutable reference.
LEMMA CopiesShare ==
    ASSUME NEW ty \in Ty, IsCopy(ty)
    PROVE  Held(ty) = <<>> \/ (Held(ty) # <<>> /\ Held(ty)[1] = "Ref")
<1> DEFINE n == Count(ty, {"Array"})
           S == {k \in 0 .. n : Held(ty) = Held(Rest(ty, k))}
<1>0. Len(ty) \in Nat /\ n \in Nat /\ n \in 0 .. Len(ty) /\ \A i \in 1 .. n : ty[i] = "Array"
  BY CountFacts, TyFacts
<1>1. n = Len(ty) \/ ty[n + 1] = "Ref"
  BY DEF IsCopy
<1> HIDE DEF n
<1>2. 0 \in S
  BY <1>0, RestNone
<1>3. ASSUME NEW k \in 0 .. n - 1, k \in S PROVE k + 1 \in S
  <2>1. k \in 0 .. Len(ty) - 1 /\ k + 1 \in 1 .. n /\ k + 1 \in 0 .. n
    BY <1>0
  <2>2. ty[k + 1] \in Spread
    BY <1>0, <2>1 DEF Spread
  <2>3. Held(Rest(ty, k)) = Held(Rest(ty, k + 1))
    BY <2>1, <2>2, HeldRest
  <2> QED
    BY <1>3, <2>1, <2>3
<1>4. 0 .. n \subseteq S
  <2> HIDE DEF S
  <2> QED
    BY <1>0, <1>2, <1>3, UpwardInduction
<1>5. Held(ty) = Held(Rest(ty, n))
  BY <1>0, <1>4
<1>6. CASE n = Len(ty)
  <2>1. Rest(ty, n) \in Ty /\ Len(Rest(ty, n)) = 0
    BY <1>0, <1>6, RestFacts
  <2>2. Rest(ty, n) = <<>>
    BY <2>1 DEF Ty
  <2> QED
    BY <1>5, <2>2, HeldNothing
<1>7. CASE n # Len(ty)
  <2>1. n \in 0 .. Len(ty) - 1 /\ ty[n + 1] = "Ref" /\ "Ref" \notin Spread /\ "Ref" \in Ctors
    BY <1>0, <1>1, <1>7 DEF Spread, Ctors, Pointers, Refs
  <2>2. Held(Rest(ty, n)) = <<"Ref">> \o Held(Rest(ty, n + 1)) /\ Held(Rest(ty, n + 1)) \in Ty
    BY <2>1, HeldRest
  <2> DEFINE t == Held(Rest(ty, n + 1))
  <2>3. <<"Ref">> \o t # <<>> /\ (<<"Ref">> \o t)[1] = "Ref"
    <3>1. t \in Ty
      BY <2>2
    <3> HIDE DEF t
    <3> QED
      BY <2>1, <3>1, PrefixedFacts
  <2> QED
    BY <1>5, <2>2, <2>3
<1> QED
  BY <1>6, <1>7

\* A reference in front is held as it is.
LEMMA HeldFront ==
    ASSUME NEW ty \in Ty, ty # <<>>, ty[1] \notin Spread
    PROVE  Held(ty) # <<>> /\ Held(ty)[1] = ty[1]
<1>1. Len(ty) > 0 /\ ty[1] \in Ctors
  BY HeadFacts
<1> DEFINE t == Held(Rest(ty, 1))
<1>2. Held(ty) = <<ty[1]>> \o t /\ t \in Ty
  BY <1>1, HeldStep
<1> HIDE DEF t
<1> QED
  BY <1>1, <1>2, PrefixedFacts

\* What may be said of the value of a use: src is the cell it is taken from.
Kept(v, x, to, M, src, G, F) ==
    /\ v.tag \in Owners \cup Refs => v.to \notin G
    /\ v.tag = "RefMut" => v.to \notin F
    /\ v.tag \in Owners => Moves(x, to)
    /\ Moves(x, to) => v = M[src] /\ PlaceOf(x.of) = src

\* Only a whole binding, or a whole temporary, is moved.
LEMMA MovesWhole ==
    ASSUME locals \in Seq(Binding), NEW x, NEW to, Moves(x, to), MayMove(x),
           x.ty = x.of.ty, PathInv(x.of), Deep(x.of)
    PROVE  x.of.derefs = 0 /\ x.of.ty = RootType(x.of)
<1> DEFINE e == x.of
           R == RootType(e)
           H == Held(R)
<1>1. R \in Ty /\ Len(R) \in Nat /\ H \in Ty /\ Len(H) \in Nat /\ e.ty \in Ty /\ Len(e.ty) \in Nat /\ Gone(e) \in Nat
  BY RootFacts, HeldType, TyFacts DEF PathInv, Expr
<1>2. e.ty = R
  <2>1. CASE e.root # 0
    BY <2>1 DEF MayMove, RootType, CheckRoot
  <2>2. CASE e.root = 0
    <3>1. R = <<"Box">> /\ Len(R) = 1
      BY <2>2 DEF RootType, CheckRoot
    <3>2. e.ty # <<>>
      <4>1. IsCopy(<<>>)
        <5>1. <<>> \in Ty /\ Len(<<>>) = 0
          BY EmptySeq DEF Ty
        <5>2. Count(<<>>, {"Array"}) \in 0 .. 0
          BY <5>1, CountFacts
        <5> QED
          BY <5>1, <5>2 DEF IsCopy
      <4> QED
        BY <4>1 DEF Moves
    <3>3. Len(e.ty) >= 1
      BY <1>1, <3>2, HeadFacts
    <3>4. Gone(e) = 0 /\ Len(e.ty) = Len(R)
      <4>1. Len(R) = 1 /\ Gone(e) = Len(R) - Len(e.ty)
        BY <3>1 DEF Gone
      <4>2. Len(e.ty) \in Nat /\ Gone(e) \in Nat
        BY <1>1
      <4> DEFINE a == Len(e.ty)
                 b == Gone(e)
                 l == Len(R)
      <4>3. a \in Nat /\ b \in Nat /\ l = 1 /\ b = l - a /\ a >= 1
        BY <3>3, <4>1, <4>2
      <4> HIDE DEF a, b, l
      <4>4. b = 0 /\ a = l
        BY <4>3
      <4> QED
        BY <4>4 DEF a, b, l
    <3>5. \A i \in 1 .. Len(e.ty) : e.ty[i] = R[i]
      <4>1. \A i \in 1 .. Len(e.ty) : e.ty[i] = R[Gone(e) + i]
        BY DEF PathInv
      <4> QED
        BY <1>1, <3>4, <4>1
    <3> HIDE DEF R
    <3> QED
      BY <1>1, <3>4, <3>5, SameTy
  <2> QED
    BY <2>1, <2>2
<1>3. e.derefs \in 0 .. Len(H) /\ Rest(H, e.derefs) = H
  BY <1>2 DEF Deep
<1>4. Len(Rest(H, e.derefs)) = Len(H) - e.derefs
  <2> HIDE DEF H
  <2> QED
    BY <1>1, <1>3, RestFacts
<1> QED
  BY <1>1, <1>2, <1>3, <1>4

LEMMA UseFacts ==
    ASSUME locals \in Seq(Binding), NEW x \in Expressions
    PROVE  /\ PathInv(x.of) /\ Deep(x.of) /\ x.of.ty \in Ty /\ x.ty \in Ty
           /\ x.op \in {"Plain", "Ref", "RefMut"}
           /\ x.op = "Plain" => x.ty = x.of.ty
           /\ x.op \in Refs => /\ x.ty # <<>> /\ x.ty[1] = x.op /\ Len(x.ty) = Len(x.of.ty) + 1
                               /\ \A i \in 1 .. Len(x.of.ty) : x.ty[i + 1] = x.of.ty[i]
<1>1. PICK p \in (Refs \cup {"Plain"}) \X Paths : x = Borrowed(p[1], p[2])
  BY DEF Expressions
<1> DEFINE op == p[1]
           e == p[2]
<1>2. PathInv(e) /\ Deep(e) /\ e.ty \in Ty
  BY PathsDeep DEF PathInv, Expr
<1>3. op \in {"Plain", "Ref", "RefMut"} /\ x = Borrowed(op, e)
  BY <1>1 DEF Refs
<1> HIDE DEF op, e
<1>4. x.of = e /\ x.op = op
  BY <1>3 DEF Borrowed
<1>5. CASE op = "Plain"
  <2>1. x.ty = e.ty
    BY <1>3, <1>5 DEF Borrowed
  <2> QED
    BY <1>2, <1>4, <1>5, <2>1 DEF Refs
<1>6. CASE op \in Refs
  <2>1. /\ x.ty \in Ty /\ x.ty # <<>> /\ x.ty[1] = op /\ Len(x.ty) = Len(e.ty) + 1
        /\ \A i \in 1 .. Len(e.ty) : x.ty[i + 1] = e.ty[i]
    BY <1>2, <1>3, <1>6, BorrowedFacts
  <2> QED
    BY <1>2, <1>3, <1>4, <1>6, <2>1 DEF Refs
<1> QED
  BY <1>3, <1>5, <1>6 DEF Refs

\* What is stored leads neither to garbage nor, if it is a mutable reference, to what
\* is frozen; an owner is stored only by moving it.
LEMMA ValueApart ==
    ASSUME locals \in Seq(Binding), NEW x \in Expressions, NEW to, Stateable(x, to), Sound(x, to),
           Moves(x, to) => MayMove(x),
           NEW T, NEW G, NEW L, NEW F, Ready(x.of, T, G, L, F)
    PROVE  Kept(ValueOf(x, to), x, to, Stored(x.of), Start(x.of), G, F)
<1> DEFINE e == x.of
           M == Stored(e)
           P == PlaceOf(e)
           value == IF x.op = "Plain" THEN M[P] ELSE Cell(x.op, P)
           count == IF to = Unstated THEN 0 ELSE PlanCoercion(x.ty, to).derefs
           v == ValueOf(x, to)
<1>1. PathInv(e) /\ Deep(e) /\ e.ty \in Ty /\ x.ty \in Ty /\ Len(e.ty) \in Nat /\ Len(x.ty) \in Nat
  BY UseFacts, TyFacts
<1>2. x.op \in {"Plain", "Ref", "RefMut"} /\ (x.op = "Plain" => x.ty = e.ty)
  BY UseFacts
<1>3. Heap(M, T) /\ Guarded(M, G, L, F) /\ Start(e) \in 1 .. Len(M) /\ Start(e) \notin G \cup L
  BY DEF Ready
<1>4. P \in 1 .. Len(M) /\ P \notin G /\ (Changeable(e, 0) => P \notin F) /\ T[P] = Held(e.ty)
  <2>1. e.derefs \in 0 .. Len(T[Start(e)]) /\ Rest(T[Start(e)], e.derefs) = Held(e.ty)
    BY <1>1 DEF Deep, Ready
  <2>2. P \in 1 .. Len(M) /\ T[P] = Held(e.ty)
    BY <1>3, <2>1, DerefFits DEF PlaceOf
  <2>3. Deref(M, P, 0) = P
    <3> HIDE DEF P, M
    <3> QED
      BY <1>3, <2>2, DerefNone
  <2>4. 0 \in 0 .. Len(e.ty) /\ \A i \in 1 .. 0 : e.ty[i] \in Pointers
    BY <1>1
  <2>5. Deref(M, P, 0) \notin G /\ (Changeable(e, 0) => Deref(M, P, 0) \notin F)
    BY <1>1, <2>4, PlaceApart
  <2> QED
    BY <2>2, <2>3, <2>5
<1>5. v = IF count = 0 THEN value ELSE Cell(Head(to), Deref(M, value.to, count - 1))
  BY DEF ValueOf
<1>6. Moves(x, to) => P = Start(e)
  <2> SUFFICES ASSUME Moves(x, to) PROVE P = Start(e)
    OBVIOUS
  <2>1. x.ty = e.ty
    BY <1>2 DEF Moves
  <2>2. e.derefs = 0
    BY <1>1, <2>1, MovesWhole
  <2>3. Deref(M, Start(e), 0) = Start(e)
    <3> HIDE DEF M
    <3> QED
      BY <1>3, DerefNone
  <2> QED
    BY <2>2, <2>3 DEF PlaceOf
<1>7. CellFits(T, M[P], Held(e.ty)) /\ M[P] \in MemCell
  BY <1>3, <1>4, HeapFacts
<1> HIDE DEF M, P, value, v
<1>8. CASE to = Unstated \/ to = x.ty
  <2>1. v = value
    <3>1. count = 0
      BY <1>8 DEF PlanCoercion
    <3> QED
      BY <1>5, <3>1
  <2>2. CASE x.op # "Plain"
    <3>1. x.op \in {"Ref", "RefMut"} /\ v = Cell(x.op, P)
      BY <1>2, <2>1, <2>2 DEF value
    <3>2. v.tag = x.op /\ v.to = P
      BY <3>1 DEF Cell
    <3>3. x.op = "RefMut" => P \notin F
      BY <1>4 DEF Sound
    <3>4. ~Moves(x, to) /\ v.tag \notin Owners
      BY <2>2, <3>1, <3>2 DEF Moves, Owners
    <3> QED
      BY <1>4, <3>2, <3>3, <3>4 DEF Kept, v, M, P
  <2>3. CASE x.op = "Plain"
    <3>1. v = M[P] /\ x.ty = e.ty
      BY <1>2, <2>1, <2>3 DEF value
    <3>2. v.tag \in Owners \cup Refs => v.to \notin G
      BY <1>3, <1>4, <3>1 DEF Guarded
    <3>3. CASE Moves(x, to)
      <4>1. v.tag = "RefMut" => v.to \notin F
        BY <1>3, <1>4, <1>6, <3>1, <3>3 DEF Guarded
      <4> QED
        BY <1>6, <3>1, <3>2, <3>3, <4>1 DEF Kept, v, M, P
    <3>4. CASE ~Moves(x, to) /\ IsCopy(x.ty)
      <4>1. v.tag \in {"int", "Ref"}
        BY <1>1, <1>7, <3>1, <3>4, CopiesShare DEF CellFits
      <4> QED
        BY <3>2, <3>4, <4>1 DEF Kept, Owners, v, M, P
    <3>5. CASE ~Moves(x, to) /\ Reborrows(x, to)
      <4>1. e.ty # <<>> /\ e.ty[1] = "RefMut" /\ to = e.ty /\ Head(to) = "RefMut" /\ Len(e.ty) >= 1
        BY <1>1, <1>8, <3>1, <3>5, HeadFacts DEF Reborrows
      <4>2. Held(e.ty) # <<>> /\ Held(e.ty)[1] = "RefMut"
        BY <1>1, <4>1, HeldFront DEF Spread
      <4>3. v.tag = "RefMut"
        BY <1>7, <3>1, <4>2 DEF CellFits
      <4>4. Changeable(e, 1)
        <5>1. Len(x.ty) + 1 - Len(to) = 1
          BY <1>1, <3>1, <4>1
        <5> QED
          BY <2>3, <4>1, <5>1 DEF Sound
      <4>5. Deref(M, P, 1) \notin F
        <5>1. 1 \in 0 .. Len(e.ty) /\ \A i \in 1 .. 1 : e.ty[i] \in Pointers
          BY <1>1, <4>1 DEF Pointers, Refs
        <5> QED
          BY <1>1, <4>4, <5>1, PlaceApart DEF M, P
      <4>6. Deref(M, P, 1) = v.to
        <5>1. Len(T[P]) >= 1
          BY <1>1, <1>4, <4>2, HeldType, HeadFacts
        <5>2. 0 \in Nat /\ 0 + 1 = 1 /\ 0 + 1 <= Len(T[P])
          BY <5>1
        <5>3. Deref(M, P, 0 + 1) = M[Deref(M, P, 0)].to
          BY <1>3, <1>4, <5>2, DerefNext
        <5>4. Deref(M, P, 0) = P
          BY <1>3, <1>4, DerefNone
        <5> QED
          BY <3>1, <5>2, <5>3, <5>4
      <4> QED
        BY <3>2, <3>5, <4>3, <4>5, <4>6 DEF Kept, Owners, v, M, P
    <3> QED
      BY <2>3, <3>3, <3>4, <3>5 DEF Moves
  <2> QED
    BY <2>2, <2>3
<1>9. CASE \E r \in Refs : \E n \in 1 .. Leading(x.ty) : Over(x, to, n, r)
  <2>1. PICK r \in Refs : \E n \in 1 .. Leading(x.ty) : Over(x, to, n, r)
    BY <1>9
  <2>2. PICK n \in 1 .. Leading(x.ty) : Over(x, to, n, r)
    BY <2>1
  <2>3. /\ to # <<>> /\ Head(to) = r /\ to # Unstated /\ PlanCoercion(x.ty, to).derefs = n
        /\ Len(x.ty) + 1 - Len(to) = n
    BY <2>2, CoercesOver
  <2>4. x.ty # <<>> /\ Head(x.ty) \in Refs /\ x.ty[1] = Head(x.ty)
    BY <1>1, <2>2, HeadFacts DEF Over
  <2>5. n \in Nat /\ n >= 1 /\ n <= Len(x.ty) /\ \A i \in 1 .. n : x.ty[i] \in Pointers
    <3>1. Leading(x.ty) \in 0 .. Len(x.ty) /\ \A i \in 1 .. Leading(x.ty) : x.ty[i] \in Pointers
      BY <1>1, LeadingFacts
    <3> QED
      BY <1>1, <3>1
  <2>6. v = Cell(r, Deref(M, value.to, n - 1))
    BY <1>5, <2>3, <2>5
  <2>7. v.tag = r /\ v.to = Deref(M, value.to, n - 1)
    BY <2>6 DEF Cell
  <2>8. ~Moves(x, to)
    <3>1. CASE Head(x.ty) = "RefMut"
      BY <2>3, <2>4, <3>1 DEF Moves, Reborrows
    <3>2. CASE Head(x.ty) = "Ref"
      <4>1. Count(x.ty, {"Array"}) = 0
        <5>1. /\ Count(x.ty, {"Array"}) \in 0 .. Len(x.ty)
              /\ \A i \in 1 .. Count(x.ty, {"Array"}) : x.ty[i] \in {"Array"}
          BY <1>1, CountFacts
        <5>2. 1 \notin 1 .. Count(x.ty, {"Array"})
          BY <2>4, <3>2, <5>1
        <5> QED
          BY <1>1, <5>1, <5>2
      <4>2. IsCopy(x.ty)
        BY <2>4, <3>2, <4>1 DEF IsCopy
      <4> QED
        BY <4>2 DEF Moves
    <3> QED
      BY <2>4, <3>1, <3>2 DEF Refs
  <2> DEFINE j == IF x.op = "Plain" THEN n ELSE n - 1
  <2>9. j \in 0 .. Len(e.ty) /\ \A i \in 1 .. j : e.ty[i] \in Pointers
    <3>1. CASE x.op = "Plain"
      BY <1>2, <2>5, <3>1
    <3>2. CASE x.op # "Plain"
      <4>1. x.op \in Refs
        BY <1>2, <3>2 DEF Refs
      <4>2. Len(x.ty) = Len(e.ty) + 1 /\ \A i \in 1 .. Len(e.ty) : x.ty[i + 1] = e.ty[i]
        BY <4>1, UseFacts
      <4>3. \A i \in 1 .. n - 1 : i + 1 \in 1 .. n /\ i \in 1 .. Len(e.ty)
        BY <1>1, <2>5, <4>2
      <4>4. j = n - 1
        BY <3>2
      <4>5. n - 1 \in 0 .. Len(e.ty)
        BY <1>1, <2>5, <4>2
      <4>6. \A i \in 1 .. n - 1 : e.ty[i] \in Pointers
        <5> TAKE i \in 1 .. n - 1
        <5>1. i + 1 \in 1 .. n /\ e.ty[i] = x.ty[i + 1]
          BY <4>2, <4>3
        <5> QED
          BY <2>5, <5>1
      <4> QED
        BY <4>4, <4>5, <4>6
    <3> QED
      BY <3>1, <3>2
  <2>10. Deref(M, P, j) = v.to
    <3>1. CASE x.op = "Plain"
      <4>1. n \in 0 .. Len(e.ty) /\ \A i \in 1 .. n : e.ty[i] \in Pointers
        BY <2>9, <3>1
      <4>2. n <= Len(T[P]) /\ Len(T[P]) \in Nat
        <5>1. n \in 0 .. Len(Held(e.ty)) /\ Held(e.ty) \in Ty
          BY <1>1, <4>1, HeldPointers, HeldType
        <5>2. Len(Held(e.ty)) \in Nat
          BY <5>1, TyFacts
        <5> QED
          BY <1>4, <5>1, <5>2
      <4>3. 0 \in Nat /\ 0 + 1 = 1 /\ 0 + 1 <= Len(T[P]) /\ 1 \in Nat /\ n - 1 \in Nat /\ 1 + (n - 1) = n
        BY <2>5, <4>2
      <4>4. Deref(M, P, 0 + 1) = M[Deref(M, P, 0)].to /\ Deref(M, P, 0) = P
        BY <1>3, <1>4, <4>3, DerefNext, DerefNone
      <4>5. Deref(M, P, 1) = value.to
        BY <3>1, <4>3, <4>4 DEF value
      <4>6. Deref(M, Deref(M, P, 1), n - 1) = Deref(M, P, 1 + (n - 1))
        <5>1. 1 + (n - 1) <= Len(T[P])
          BY <4>2, <4>3
        <5> QED
          BY <1>3, <1>4, <4>3, <5>1, DerefTwice
      <4> QED
        BY <2>7, <3>1, <4>3, <4>5, <4>6
    <3>2. CASE x.op # "Plain"
      <4>1. value.to = P
        BY <3>2 DEF value, Cell
      <4> QED
        BY <2>7, <3>2, <4>1
    <3> QED
      BY <3>1, <3>2
  <2>11. r = "RefMut" => Changeable(e, j)
    <3> SUFFICES ASSUME r = "RefMut" PROVE Changeable(e, j)
      OBVIOUS
    <3>1. Changeable(e, IF x.op = "Plain" THEN n ELSE n - 1)
      BY <2>3 DEF Sound
    <3> QED
      BY <3>1
  <2> HIDE DEF j
  <2>12. v.to \notin G /\ (r = "RefMut" => v.to \notin F)
    <3>1. Deref(M, P, j) \notin G /\ (Changeable(e, j) => Deref(M, P, j) \notin F)
      BY <1>1, <2>9, PlaceApart DEF M, P
    <3> QED
      BY <2>10, <2>11, <3>1
  <2>13. v.tag \notin Owners
    BY <2>7 DEF Refs, Owners
  <2> QED
    BY <2>7, <2>8, <2>12, <2>13 DEF Kept, v
<1>10. to = Unstated \/ to = x.ty \/ \E r \in Refs : \E n \in 1 .. Leading(x.ty) : Over(x, to, n, r)
  BY <1>1, OverCases
<1> QED
  BY <1>8, <1>9, <1>10

-----------------------------------------------------------------------------
(* Memory kept apart *)

Live(ls) == {i \in DOMAIN ls : ls[i].live}

\* Pointers lead into memory.
Pointing(m) == \A c \in 1 .. Len(m) : m[c].tag # "int" => m[c].to \in 1 .. Len(m)
Known(m, G, L, F) == Len(m) \in Nat /\ G \subseteq 1 .. Len(m) /\ F \subseteq 1 .. Len(m) /\ L \subseteq F
\* What is frozen is frozen with all it owns, and nothing has two owners.
Closed(m, G, F) == \A c \in 1 .. Len(m) : c \notin G /\ m[c].tag \in Owners /\ c \in F => m[c].to \in F
Single(m, G) ==
    \A c, d \in 1 .. Len(m) :
        c \notin G /\ d \notin G /\ m[c].tag \in Owners /\ m[d].tag \in Owners /\ m[c].to = m[d].to => c = d
NotOwned(m, G, cell) == \A c \in 1 .. Len(m) : c \notin G /\ m[c].tag \in Owners => m[c].to # cell
\* A binding is the only owner of its cell, which is frozen if the binding is immutable.
Root(b, m, G, L, F) ==
    /\ b.cell \in 1 .. Len(m) /\ b.cell \notin G /\ b.cell \notin L
    /\ b.mut => b.cell \notin F
    /\ ~b.mut => b.cell \in F
    /\ NotOwned(m, G, b.cell)
\* The invariant: what may be changed, what is frozen and what was moved from are kept
\* apart, and live bindings have cells of their own.
Distinct(ls) == \A i, j \in Live(ls) : ls[i].cell = ls[j].cell => i = j
Apart(ls, m, G, L, F) ==
    /\ Pointing(m) /\ Known(m, G, L, F) /\ Guarded(m, G, L, F)
    /\ Closed(m, G, F) /\ Single(m, G)
    /\ \A i \in Live(ls) : Root(ls[i], m, G, L, F)
    /\ Distinct(ls)

\* O is what src owns: all of it, and nobody refers to it.
Whole(m, O, src, G, L) ==
    /\ src \in O /\ O \subseteq 1 .. Len(m) /\ O \cap G = {} /\ O \cap L = {}
    /\ \A c \in O : m[c].tag \in Owners => m[c].to \in O
    /\ \A d \in O : d # src => \E c \in O : m[c].tag \in Owners /\ m[c].to = d
    /\ \A c \in 1 .. Len(m) : m[c].tag \in Refs => m[c].to \notin O

\* v can be stored anew, with O, which it owns.
Storable(v, ls, m, G, F, O) ==
    /\ v.tag # "int" => v.to \in 1 .. Len(m)
    /\ v.tag \in Owners \cup Refs => v.to \notin G
    /\ v.tag = "RefMut" => v.to \notin F /\ v.to \notin O
    /\ v.tag \in Owners => v.to \in O /\ NotOwned(m, G, v.to)
    /\ O \subseteq 1 .. Len(m) /\ O \cap F = {}
    /\ \A i \in Live(ls) : ls[i].cell \notin O
    /\ \A c \in 1 .. Len(m) : c \notin G =>
          /\ m[c].tag = "RefMut" => m[c].to \notin O
          /\ m[c].tag \in Owners => (c \in O <=> m[c].to \in O)

\* A binding or a temporary is left: what it owns is free to be changed.
LEMMA LeaveApart ==
    ASSUME NEW ls, NEW m, NEW G, NEW L, NEW F, Apart(ls, m, G, L, F),
           NEW O, NEW src, Whole(m, O, src, G, L), NotOwned(m, G, src),
           NEW ls2, \A i \in Live(ls2) : i \in Live(ls) /\ ls2[i] = ls[i] /\ ls[i].cell # src
    PROVE  /\ Apart(ls2, m, G \cup {src}, L, F \ O)
           /\ Storable(m[src], ls2, m, G \cup {src}, F \ O, O)
<1> DEFINE G2 == G \cup {src}
           F2 == F \ O
           N == Len(m)
<1>1. /\ Pointing(m) /\ Known(m, G, L, F) /\ Guarded(m, G, L, F) /\ Closed(m, G, F) /\ Single(m, G)
      /\ (\A i \in Live(ls) : Root(ls[i], m, G, L, F)) /\ Distinct(ls)
  BY DEF Apart
<1>2. /\ src \in O /\ O \subseteq 1 .. N /\ O \cap G = {} /\ O \cap L = {}
      /\ \A c \in O : m[c].tag \in Owners => m[c].to \in O
      /\ \A d \in O : d # src => \E c \in O : m[c].tag \in Owners /\ m[c].to = d
      /\ \A c \in 1 .. N : m[c].tag \in Refs => m[c].to \notin O
  BY DEF Whole
<1>3. \A c \in 1 .. N : c \notin G2 => c \notin G /\ c # src
  OBVIOUS
<1>4. ASSUME NEW c \in 1 .. N, c \notin G, m[c].tag \in Owners, m[c].to \in O PROVE c \in O
  <2>1. m[c].to # src
    BY <1>4 DEF NotOwned
  <2>2. PICK d \in O : m[d].tag \in Owners /\ m[d].to = m[c].to
    BY <1>2, <1>4, <2>1
  <2>3. d \in 1 .. N /\ d \notin G
    BY <1>2, <2>2
  <2>4. c = d
    BY <1>1, <1>4, <2>2, <2>3 DEF Single
  <2> QED
    BY <2>2, <2>4
<1>5. ASSUME NEW i \in Live(ls2) PROVE ls2[i].cell \notin O
  <2>1. Root(ls[i], m, G, L, F) /\ ls2[i] = ls[i] /\ ls[i].cell # src
    BY <1>1
  <2>2. NotOwned(m, G, ls[i].cell)
    BY <2>1 DEF Root
  <2>3. ls[i].cell \notin O
    <3> SUFFICES ASSUME ls[i].cell \in O PROVE FALSE
      OBVIOUS
    <3>1. PICK c \in O : m[c].tag \in Owners /\ m[c].to = ls[i].cell
      BY <1>2, <2>1
    <3>2. c \in 1 .. N /\ c \notin G
      BY <1>2, <3>1
    <3> QED
      BY <2>2, <3>1, <3>2 DEF NotOwned
  <2> QED
    BY <2>1, <2>3
<1>6. Known(m, G2, L, F2)
  BY <1>1, <1>2 DEF Known
<1>7. /\ m[src].tag # "int" => m[src].to \in 1 .. N
      /\ m[src].tag \in Owners \cup Refs => m[src].to \notin G2
  <2>1. src \in 1 .. N /\ src \notin G
    BY <1>2
  <2>2. m[src].tag \in Refs => m[src].to # src
    BY <1>2, <2>1
  <2>3. m[src].tag \in Owners => m[src].to # src
    BY <2>1 DEF NotOwned
  <2> QED
    BY <1>1, <2>1, <2>2, <2>3 DEF Pointing, Guarded
<1>8. Guarded(m, G2, L, F2)
  <2> SUFFICES ASSUME NEW c \in 1 .. N, c \notin G2
               PROVE  /\ m[c].tag \in Owners \cup Refs => m[c].to \notin G2
                      /\ m[c].tag = "RefMut" /\ c \notin L => m[c].to \notin F2
                      /\ m[c].tag \in Owners /\ c \notin F2 => m[c].to \notin F2
                      /\ m[c].tag \in Owners \cup {"RefMut"} /\ c \notin L => m[c].to \notin L
    BY DEF Guarded
  <2>1. c \notin G
    OBVIOUS
  <2>2. m[c].tag \in Refs => m[c].to # src
    BY <1>2
  <2>3. m[c].tag \in Owners => m[c].to # src
    BY <2>1 DEF NotOwned
  <2>4. /\ m[c].tag \in Owners \cup Refs => m[c].to \notin G
        /\ m[c].tag = "RefMut" /\ c \notin L => m[c].to \notin F
        /\ m[c].tag \in Owners /\ c \notin F => m[c].to \notin F
        /\ m[c].tag \in Owners \cup {"RefMut"} /\ c \notin L => m[c].to \notin L
    BY <1>1, <2>1 DEF Guarded
  <2>5. m[c].tag \in Owners /\ c \in O => m[c].to \in O
    BY <1>2
  <2> QED
    BY <2>2, <2>3, <2>4, <2>5
<1>9. Closed(m, G2, F2)
  <2> SUFFICES ASSUME NEW c \in 1 .. N, c \notin G2, m[c].tag \in Owners, c \in F2
               PROVE  m[c].to \in F2
    BY DEF Closed
  <2>1. m[c].to \in F
    BY <1>1 DEF Closed
  <2>2. m[c].to \notin O
    BY <1>4
  <2> QED
    BY <2>1, <2>2
<1>10. Single(m, G2)
  BY <1>1 DEF Single
<1>11. ASSUME NEW i \in Live(ls2) PROVE Root(ls2[i], m, G2, L, F2)
  <2>1. Root(ls[i], m, G, L, F) /\ ls2[i] = ls[i] /\ ls[i].cell # src
    BY <1>1
  <2>2. ls[i].cell \notin O
    BY <1>5, <2>1
  <2>3. NotOwned(m, G2, ls[i].cell)
    BY <2>1 DEF Root, NotOwned
  <2> QED
    BY <2>1, <2>2, <2>3 DEF Root
<1>12. Distinct(ls2)
  BY <1>1 DEF Distinct
<1>13. Apart(ls2, m, G2, L, F2)
  BY <1>1, <1>6, <1>8, <1>9, <1>10, <1>11, <1>12 DEF Apart
<1>14. m[src].tag \in Owners => m[src].to \in O /\ NotOwned(m, G2, m[src].to)
  <2> SUFFICES ASSUME m[src].tag \in Owners PROVE m[src].to \in O /\ NotOwned(m, G2, m[src].to)
    OBVIOUS
  <2>1. src \in 1 .. N /\ src \notin G
    BY <1>2
  <2> QED
    BY <1>1, <1>2, <2>1 DEF Single, NotOwned
<1>15. m[src].tag = "RefMut" => m[src].to \notin F2 /\ m[src].to \notin O
  BY <1>1, <1>2 DEF Guarded, Refs
<1>16. ASSUME NEW c \in 1 .. N, c \notin G2
       PROVE  /\ m[c].tag = "RefMut" => m[c].to \notin O
              /\ m[c].tag \in Owners => (c \in O <=> m[c].to \in O)
  <2>1. m[c].tag = "RefMut" => m[c].to \notin O
    BY <1>2 DEF Refs
  <2>2. m[c].tag \in Owners /\ c \in O => m[c].to \in O
    BY <1>2
  <2>3. m[c].tag \in Owners /\ m[c].to \in O => c \in O
    BY <1>3, <1>4, <1>16
  <2> QED
    BY <2>1, <2>2, <2>3
<1> HIDE DEF G2, F2
<1>17. Storable(m[src], ls2, m, G2, F2, O)
  <2>1. O \subseteq 1 .. Len(m) /\ O \cap F2 = {}
    BY <1>2 DEF F2
  <2> QED
    BY <1>5, <1>7, <1>14, <1>15, <1>16, <2>1 DEF Storable
<1> QED
  BY <1>13, <1>17 DEF G2, F2

\* A new cell, for a new binding.
LEMMA AddApart ==
    ASSUME NEW ls, NEW m, NEW G, NEW L, NEW F, Apart(ls, m, G, L, F),
           NEW v, NEW O, Storable(v, ls, m, G, F, O),
           NEW m2, Len(m2) = Len(m) + 1, \A c \in 1 .. Len(m) : m2[c] = m[c], m2[Len(m) + 1] = v,
           NEW b, b.cell = Len(m) + 1, b.mut \in BOOLEAN,
           NEW ls2, NEW new, ls2[new] = b, \A i \in Live(ls2) : i = new \/ (i \in Live(ls) /\ ls2[i] = ls[i])
    PROVE  \E F2 : Apart(ls2, m2, G, L, F2)
<1> DEFINE N == Len(m)
           F2 == IF b.mut THEN F ELSE F \cup O \cup {N + 1}
<1>1. /\ Pointing(m) /\ Known(m, G, L, F) /\ Guarded(m, G, L, F) /\ Closed(m, G, F) /\ Single(m, G)
      /\ (\A i \in Live(ls) : Root(ls[i], m, G, L, F)) /\ Distinct(ls)
  BY DEF Apart
<1>2. /\ v.tag # "int" => v.to \in 1 .. N
      /\ v.tag \in Owners \cup Refs => v.to \notin G
      /\ v.tag = "RefMut" => v.to \notin F /\ v.to \notin O
      /\ v.tag \in Owners => v.to \in O /\ NotOwned(m, G, v.to)
      /\ O \subseteq 1 .. N /\ O \cap F = {}
      /\ \A i \in Live(ls) : ls[i].cell \notin O
      /\ \A c \in 1 .. N : c \notin G =>
            /\ m[c].tag = "RefMut" => m[c].to \notin O
            /\ m[c].tag \in Owners => (c \in O <=> m[c].to \in O)
  BY DEF Storable
<1>3. N \in Nat /\ G \subseteq 1 .. N /\ F \subseteq 1 .. N /\ L \subseteq F
  BY <1>1 DEF Known
<1>4. /\ Len(m2) \in Nat /\ Len(m2) = N + 1 /\ N + 1 \notin 1 .. N /\ N + 1 \in 1 .. Len(m2)
      /\ \A c \in 1 .. Len(m2) : c \in 1 .. N \/ c = N + 1
      /\ \A c \in 1 .. N : c \in 1 .. Len(m2)
  BY <1>3
<1>5. (\A c \in 1 .. N : m2[c] = m[c]) /\ m2[N + 1] = v
  OBVIOUS
<1>6. /\ F \subseteq F2 /\ F2 \subseteq 1 .. Len(m2)
      /\ \A c \in 1 .. N : c \in F2 => c \in F \/ c \in O
      /\ b.mut => F2 = F
      /\ ~b.mut => N + 1 \in F2 /\ O \subseteq F2
  BY <1>2, <1>3, <1>4
<1> DEFINE new1 == N + 1
<1>7. /\ new1 \notin 1 .. N /\ new1 \in 1 .. Len(m2) /\ m2[new1] = v /\ b.cell = new1
      /\ new1 \notin G /\ new1 \notin L /\ new1 \notin O
      /\ (b.mut => new1 \notin F2) /\ (~b.mut => new1 \in F2)
      /\ \A c \in 1 .. Len(m2) : c \in 1 .. N \/ c = new1
  BY <1>2, <1>3, <1>4, <1>5, <1>6
<1> HIDE DEF N, F2, new1
<1>8. Pointing(m2)
  BY <1>1, <1>2, <1>4, <1>5, <1>7 DEF Pointing, N
<1>9. Known(m2, G, L, F2)
  BY <1>3, <1>4, <1>6 DEF Known
<1>10. ASSUME NEW c \in 1 .. N PROVE m[c].tag # "int" => m[c].to \in 1 .. N /\ m[c].to # new1
  BY <1>1, <1>7 DEF Pointing, N
<1>11. "int" \notin Owners \cup Refs /\ "RefMut" \in Refs /\ "RefMut" # "int"
  BY DEF Owners, Refs
<1>12. Guarded(m2, G, L, F2)
  <2> SUFFICES ASSUME NEW c \in 1 .. Len(m2), c \notin G
               PROVE  /\ m2[c].tag \in Owners \cup Refs => m2[c].to \notin G
                      /\ m2[c].tag = "RefMut" /\ c \notin L => m2[c].to \notin F2
                      /\ m2[c].tag \in Owners /\ c \notin F2 => m2[c].to \notin F2
                      /\ m2[c].tag \in Owners \cup {"RefMut"} /\ c \notin L => m2[c].to \notin L
    BY DEF Guarded
  <2>1. CASE c \in 1 .. N
    <3>1. m2[c] = m[c]
      BY <1>5, <2>1
    <3>2. /\ m[c].tag \in Owners \cup Refs => m[c].to \notin G
          /\ m[c].tag = "RefMut" /\ c \notin L => m[c].to \notin F
          /\ m[c].tag \in Owners /\ c \notin F => m[c].to \notin F
          /\ m[c].tag \in Owners \cup {"RefMut"} /\ c \notin L => m[c].to \notin L
      BY <1>1, <2>1 DEF Guarded, N
    <3>3. m[c].tag = "RefMut" \/ m[c].tag \in Owners => m[c].to \in 1 .. N
      BY <1>10, <1>11, <2>1
    <3>4. /\ m[c].tag = "RefMut" => m[c].to \notin O
          /\ m[c].tag \in Owners /\ m[c].to \in O => c \in O
      BY <1>2, <2>1
    <3>5. c \in O /\ m[c].tag \in Owners /\ c \notin F2 => m[c].to \notin F2
      <4>1. c \in O => c \notin F
        BY <1>2
      <4> QED
        BY <1>6, <3>2, <4>1
    <3>6. m[c].tag = "RefMut" /\ c \notin L => m[c].to \notin F2
      BY <1>6, <3>2, <3>3, <3>4
    <3>7. m[c].tag \in Owners /\ c \notin F2 => m[c].to \notin F2
      BY <1>6, <3>2, <3>3, <3>4, <3>5
    <3> QED
      BY <3>1, <3>2, <3>6, <3>7
  <2>2. CASE c = new1
    <3>1. m2[c] = v
      BY <1>7, <2>2
    <3>2. v.tag = "RefMut" => v.to \notin F2 /\ v.to \notin L
      <4> SUFFICES ASSUME v.tag = "RefMut" PROVE v.to \notin F2 /\ v.to \notin L
        OBVIOUS
      <4>1. v.to \in 1 .. N /\ v.to \notin F /\ v.to \notin O
        BY <1>2, <1>11
      <4> QED
        BY <1>3, <1>6, <4>1
    <3>3. v.tag \in Owners => v.to \notin F /\ v.to \notin L
      BY <1>2, <1>3
    <3>4. v.tag \in Owners /\ c \notin F2 => v.to \notin F2
      BY <1>6, <1>7, <2>2, <3>3
    <3> QED
      BY <1>2, <3>1, <3>2, <3>3, <3>4
  <2> QED
    BY <1>7, <2>1, <2>2
<1>13. Closed(m2, G, F2)
  <2> SUFFICES ASSUME NEW c \in 1 .. Len(m2), c \notin G, m2[c].tag \in Owners, c \in F2
               PROVE  m2[c].to \in F2
    BY DEF Closed
  <2>1. CASE c \in 1 .. N
    <3>1. m2[c] = m[c]
      BY <1>5, <2>1
    <3>2. c \in F => m[c].to \in F
      BY <1>1, <2>1, <3>1 DEF Closed, N
    <3>3. c \in O => m[c].to \in O
      BY <1>2, <2>1, <3>1
    <3> QED
      BY <1>6, <2>1, <3>1, <3>2, <3>3
  <2>2. CASE c = new1
    BY <1>2, <1>6, <1>7, <2>2
  <2> QED
    BY <1>7, <2>1, <2>2
<1>14. Single(m2, G)
  <2> SUFFICES ASSUME NEW c \in 1 .. Len(m2), NEW d \in 1 .. Len(m2), c \notin G, d \notin G,
                      m2[c].tag \in Owners, m2[d].tag \in Owners, m2[c].to = m2[d].to
               PROVE  c = d
    BY DEF Single
  <2>1. CASE c \in 1 .. N /\ d \in 1 .. N
    BY <1>1, <1>5, <2>1 DEF Single, N
  <2>2. CASE c = new1 /\ d \in 1 .. N
    BY <1>2, <1>5, <1>7, <2>2 DEF NotOwned, N
  <2>3. CASE d = new1 /\ c \in 1 .. N
    BY <1>2, <1>5, <1>7, <2>3 DEF NotOwned, N
  <2> QED
    BY <1>7, <2>1, <2>2, <2>3
<1>15. Root(b, m2, G, L, F2)
  <2>1. NotOwned(m2, G, new1)
    <3> SUFFICES ASSUME NEW c \in 1 .. Len(m2), m2[c].tag \in Owners PROVE m2[c].to # new1
      BY DEF NotOwned
    <3>1. CASE c \in 1 .. N
      BY <1>5, <1>10, <1>11, <3>1
    <3>2. CASE c = new1
      BY <1>2, <1>7, <3>2
    <3> QED
      BY <1>7, <3>1, <3>2
  <2> QED
    BY <1>7, <2>1 DEF Root
<1>16. ASSUME NEW i \in Live(ls), ls2[i] = ls[i] PROVE Root(ls2[i], m2, G, L, F2) /\ ls2[i].cell # new1
  <2> DEFINE cell == ls[i].cell
  <2>1. /\ cell \in 1 .. N /\ cell \notin G /\ cell \notin L
        /\ ls[i].mut => cell \notin F
        /\ ~ls[i].mut => cell \in F
        /\ NotOwned(m, G, cell) /\ cell \notin O
    BY <1>1, <1>2 DEF Root, N
  <2> HIDE DEF cell
  <2>2. NotOwned(m2, G, cell)
    <3> SUFFICES ASSUME NEW c \in 1 .. Len(m2), c \notin G, m2[c].tag \in Owners PROVE m2[c].to # cell
      BY DEF NotOwned
    <3>1. CASE c \in 1 .. N
      BY <1>5, <2>1, <3>1 DEF NotOwned, N
    <3>2. CASE c = new1
      BY <1>2, <1>7, <2>1, <3>2
    <3> QED
      BY <1>7, <3>1, <3>2
  <2>3. ls[i].mut => cell \notin F2
    BY <1>6, <2>1
  <2>4. ~ls[i].mut => cell \in F2
    BY <1>6, <2>1
  <2> QED
    BY <1>4, <1>7, <1>16, <2>1, <2>2, <2>3, <2>4 DEF Root, cell
<1>17. ASSUME NEW i \in Live(ls2) PROVE Root(ls2[i], m2, G, L, F2)
  BY <1>15, <1>16
<1>18. Distinct(ls2)
  <2> SUFFICES ASSUME NEW i \in Live(ls2), NEW j \in Live(ls2), ls2[i].cell = ls2[j].cell PROVE i = j
    BY DEF Distinct
  <2>1. CASE i = new \/ j = new
    BY <1>7, <1>16, <2>1
  <2>2. CASE i # new /\ j # new
    BY <1>1, <2>2 DEF Distinct
  <2> QED
    BY <2>1, <2>2
<1>19. Apart(ls2, m2, G, L, F2)
  BY <1>8, <1>9, <1>12, <1>13, <1>14, <1>17, <1>18 DEF Apart
<1> QED
  BY <1>19

\* A cell that may be changed is given another value.
LEMMA PutApart ==
    ASSUME NEW ls, NEW m, NEW G, NEW L, NEW F, Apart(ls, m, G, L, F),
           NEW v, NEW O, Storable(v, ls, m, G, F, O),
           NEW p \in 1 .. Len(m), p \notin F,
           NEW m2, Len(m2) = Len(m), m2[p] = v, \A c \in 1 .. Len(m) : c # p => m2[c] = m[c]
    PROVE  Apart(ls, m2, G, L, F)
<1> DEFINE N == Len(m)
<1>1. /\ Pointing(m) /\ Known(m, G, L, F) /\ Guarded(m, G, L, F) /\ Closed(m, G, F) /\ Single(m, G)
      /\ (\A i \in Live(ls) : Root(ls[i], m, G, L, F)) /\ Distinct(ls)
  BY DEF Apart
<1>2. /\ v.tag # "int" => v.to \in 1 .. N
      /\ v.tag \in Owners \cup Refs => v.to \notin G
      /\ v.tag = "RefMut" => v.to \notin F
      /\ v.tag \in Owners => v.to \in O /\ NotOwned(m, G, v.to)
      /\ O \cap F = {}
      /\ \A i \in Live(ls) : ls[i].cell \notin O
  BY DEF Storable
<1>3. L \subseteq F
  BY <1>1 DEF Known
<1>4. \A c \in 1 .. Len(m2) : c = p \/ (c \in 1 .. N /\ c # p /\ m2[c] = m[c])
  OBVIOUS
<1>5. Pointing(m2)
  BY <1>1, <1>2, <1>4 DEF Pointing
<1>6. Known(m2, G, L, F)
  BY <1>1 DEF Known
<1>7. Guarded(m2, G, L, F)
  <2> SUFFICES ASSUME NEW c \in 1 .. Len(m2), c \notin G
               PROVE  /\ m2[c].tag \in Owners \cup Refs => m2[c].to \notin G
                      /\ m2[c].tag = "RefMut" /\ c \notin L => m2[c].to \notin F
                      /\ m2[c].tag \in Owners /\ c \notin F => m2[c].to \notin F
                      /\ m2[c].tag \in Owners \cup {"RefMut"} /\ c \notin L => m2[c].to \notin L
    BY DEF Guarded
  <2>1. CASE c = p
    <3>1. v.tag \in Owners => v.to \notin F
      BY <1>2
    <3> QED
      BY <1>2, <1>3, <2>1, <3>1
  <2>2. CASE c # p
    <3>1. m2[c] = m[c] /\ c \in 1 .. N
      BY <1>4, <2>2
    <3> QED
      BY <1>1, <3>1 DEF Guarded
  <2> QED
    BY <2>1, <2>2
<1>8. Closed(m2, G, F)
  BY <1>1, <1>4 DEF Closed
<1>9. Single(m2, G)
  <2> SUFFICES ASSUME NEW c \in 1 .. Len(m2), NEW d \in 1 .. Len(m2), c \notin G, d \notin G,
                      m2[c].tag \in Owners, m2[d].tag \in Owners, m2[c].to = m2[d].to
               PROVE  c = d
    BY DEF Single
  <2>1. CASE c # p /\ d # p
    BY <1>1, <1>4, <2>1 DEF Single
  <2>2. CASE c = p /\ d # p
    BY <1>2, <1>4, <2>2 DEF NotOwned
  <2>3. CASE d = p /\ c # p
    BY <1>2, <1>4, <2>3 DEF NotOwned
  <2> QED
    BY <2>1, <2>2, <2>3
<1>10. ASSUME NEW i \in Live(ls) PROVE Root(ls[i], m2, G, L, F)
  <2>1. Root(ls[i], m, G, L, F) /\ ls[i].cell \notin O
    BY <1>1, <1>2
  <2>2. NotOwned(m2, G, ls[i].cell)
    <3> SUFFICES ASSUME NEW c \in 1 .. Len(m2), c \notin G, m2[c].tag \in Owners PROVE m2[c].to # ls[i].cell
      BY DEF NotOwned
    <3>1. CASE c = p
      BY <1>2, <2>1, <3>1
    <3>2. CASE c # p
      BY <1>4, <2>1, <3>2 DEF Root, NotOwned
    <3> QED
      BY <3>1, <3>2
  <2> QED
    BY <2>1, <2>2 DEF Root
<1> QED
  BY <1>1, <1>5, <1>6, <1>7, <1>8, <1>9, <1>10 DEF Apart

\* Integers change, pointers stay.
LEMMA SameApart ==
    ASSUME NEW ls, NEW m, NEW G, NEW L, NEW F, Apart(ls, m, G, L, F),
           NEW m2, Len(m2) = Len(m), \A c \in 1 .. Len(m) : m2[c].tag = m[c].tag /\ m2[c].to = m[c].to
    PROVE  Apart(ls, m2, G, L, F)
<1>1. /\ Pointing(m) /\ Known(m, G, L, F) /\ Guarded(m, G, L, F) /\ Closed(m, G, F) /\ Single(m, G)
      /\ (\A i \in Live(ls) : Root(ls[i], m, G, L, F)) /\ Distinct(ls)
  BY DEF Apart
<1>2. Pointing(m2)
  BY <1>1 DEF Pointing
<1>3. Known(m2, G, L, F)
  BY <1>1 DEF Known
<1>4. Guarded(m2, G, L, F)
  BY <1>1 DEF Guarded
<1>5. Closed(m2, G, F)
  BY <1>1 DEF Closed
<1>6. Single(m2, G)
  BY <1>1 DEF Single
<1>7. ASSUME NEW cell, NotOwned(m, G, cell) PROVE NotOwned(m2, G, cell)
  BY <1>7 DEF NotOwned
<1>8. \A i \in Live(ls) : Root(ls[i], m2, G, L, F)
  BY <1>1, <1>7 DEF Root
<1> QED
  BY <1>1, <1>2, <1>3, <1>4, <1>5, <1>6, <1>8 DEF Apart

\* A temporary is given two new cells.
LEMMA StoredFacts ==
    ASSUME mem \in Seq(MemCell), NEW e
    PROVE  /\ Len(Stored(e)) \in Nat /\ Len(mem) \in Nat /\ Len(mem) <= Len(Stored(e))
           /\ \A c \in 1 .. Len(mem) : Stored(e)[c] = mem[c]
           /\ e.root # 0 => Stored(e) = mem
           /\ e.root = 0 => /\ Len(Stored(e)) = Len(mem) + 2
                            /\ Stored(e)[Len(mem) + 1].tag = "int"
                            /\ Stored(e)[Len(mem) + 2].tag = "Box" /\ Stored(e)[Len(mem) + 2].to = Len(mem) + 1
<1> DEFINE N == Len(mem)
           a == Cell("int", 0)
           b == Cell("Box", N + 1)
           t == <<a, b>>
<1>1. N \in Nat
  OBVIOUS
<1>2. CASE e.root # 0
  BY <1>1, <1>2 DEF Stored
<1>3. CASE e.root = 0
  <2>1. Stored(e) = mem \o t
    BY <1>3 DEF Stored
  <2>2. a \in MemCell /\ a.tag = "int"
    <3>1. "int" \in Ctors \cup {"int"} /\ 0 \in Nat
      OBVIOUS
    <3> QED
      BY <3>1, CellFacts
  <2>3. b \in MemCell /\ b.tag = "Box" /\ b.to = N + 1
    <3>1. "Box" \in Ctors \cup {"int"} /\ N + 1 \in Nat
      BY <1>1 DEF Ctors, Pointers
    <3> QED
      BY <3>1, CellFacts
  <2> HIDE DEF a, b
  <2>4. t \in Seq(MemCell) /\ Len(t) = 2 /\ t[1] = a /\ t[2] = b
    BY <2>2, <2>3
  <2> HIDE DEF t
  <2> DEFINE s == mem
  <2>5. s \in Seq(MemCell) /\ t \in Seq(MemCell)
    BY <2>4
  <2> HIDE DEF s
  <2>6. Len(s \o t) = Len(s) + Len(t) /\ \A c \in 1 .. Len(s) : (s \o t)[c] = s[c]
    BY <2>5, ConcatFacts
  <2>7. \A n \in 1 .. Len(t) : (s \o t)[Len(s) + n] = t[n]
    BY <2>5, ConcatFacts
  <2>8. (mem \o t)[N + 1] = a /\ (mem \o t)[N + 2] = b /\ Len(mem \o t) = N + 2
    BY <2>4, <2>6, <2>7 DEF s
  <2> HIDE DEF N
  <2>9. N + 2 \in Nat /\ N <= N + 2
    BY <1>1
  <2> QED
    BY <1>1, <1>3, <2>1, <2>2, <2>3, <2>6, <2>8, <2>9 DEF N, s
<1> QED
  BY <1>2, <1>3

LEMMA StoredApart ==
    ASSUME mem \in Seq(MemCell), NEW e, NEW ls, NEW G, NEW L, NEW F, Apart(ls, mem, G, L, F)
    PROVE  Apart(ls, Stored(e), G, L, F)
<1> DEFINE N == Len(mem)
           M == Stored(e)
<1>1. CASE e.root # 0
  BY <1>1, StoredFacts
<1>2. CASE e.root = 0
  <2>1. /\ N \in Nat /\ Len(M) = N + 2 /\ \A c \in 1 .. N : M[c] = mem[c]
        /\ M[N + 1].tag = "int" /\ M[N + 2].tag = "Box" /\ M[N + 2].to = N + 1
    BY <1>2, StoredFacts
  <2>2. /\ Pointing(mem) /\ Known(mem, G, L, F) /\ Guarded(mem, G, L, F) /\ Closed(mem, G, F) /\ Single(mem, G)
        /\ (\A i \in Live(ls) : Root(ls[i], mem, G, L, F)) /\ Distinct(ls)
    BY DEF Apart
  <2>3. G \subseteq 1 .. N /\ F \subseteq 1 .. N /\ L \subseteq F
    BY <2>2 DEF Known
  <2> DEFINE a == N + 1
             b == N + 2
  <2>4. /\ \A c \in 1 .. Len(M) : c \in 1 .. N \/ c = a \/ c = b
        /\ a \notin 1 .. N /\ b \notin 1 .. N /\ a \in 1 .. Len(M) /\ \A c \in 1 .. N : c \in 1 .. Len(M)
    BY <2>1
  <2>5. /\ a \notin G /\ a \notin F /\ a \notin L /\ b \notin F /\ b \notin G
        /\ M[a].tag = "int" /\ M[b].tag = "Box" /\ M[b].to = a
    BY <2>1, <2>3, <2>4
  <2>6. "int" \notin Owners \cup Refs /\ "RefMut" \notin Owners
    BY DEF Owners, Refs
  <2>7. ASSUME NEW c \in 1 .. N PROVE M[c] = mem[c] /\ (mem[c].tag # "int" => mem[c].to \in 1 .. N)
    BY <2>1, <2>2 DEF Pointing
  <2>8. Len(M) \in Nat
    BY <2>1
  <2> HIDE DEF N, M, a, b
  <2>9. Pointing(M)
    BY <2>4, <2>5, <2>7 DEF Pointing
  <2>10. Known(M, G, L, F)
    BY <2>3, <2>4, <2>8 DEF Known
  <2>11. Guarded(M, G, L, F)
    <3> SUFFICES ASSUME NEW c \in 1 .. Len(M), c \notin G
                 PROVE  /\ M[c].tag \in Owners \cup Refs => M[c].to \notin G
                        /\ M[c].tag = "RefMut" /\ c \notin L => M[c].to \notin F
                        /\ M[c].tag \in Owners /\ c \notin F => M[c].to \notin F
                        /\ M[c].tag \in Owners \cup {"RefMut"} /\ c \notin L => M[c].to \notin L
      BY DEF Guarded
    <3>1. CASE c \in 1 .. N
      BY <2>2, <2>7, <3>1 DEF Guarded, N
    <3>2. CASE c = a
      BY <2>5, <2>6, <3>2
    <3>3. CASE c = b
      BY <2>5, <3>3
    <3> QED
      BY <2>4, <3>1, <3>2, <3>3
  <2>12. Closed(M, G, F)
    BY <2>2, <2>4, <2>5, <2>7 DEF Closed, N
  <2>13. Single(M, G)
    <3> SUFFICES ASSUME NEW c \in 1 .. Len(M), NEW d \in 1 .. Len(M), c \notin G, d \notin G,
                        M[c].tag \in Owners, M[d].tag \in Owners, M[c].to = M[d].to
                 PROVE  c = d
      BY DEF Single
    <3>1. (c \in 1 .. N \/ c = b) /\ (d \in 1 .. N \/ d = b)
      BY <2>4, <2>5, <2>6
    <3>2. \A x \in {c, d} : x \in 1 .. N => M[x].to # a
      BY <2>4, <2>6, <2>7
    <3>3. CASE c \in 1 .. N /\ d \in 1 .. N
      BY <2>2, <2>7, <3>3 DEF Single, N
    <3> QED
      BY <2>5, <3>1, <3>2, <3>3
  <2>14. ASSUME NEW i \in Live(ls) PROVE Root(ls[i], M, G, L, F)
    <3>1. Root(ls[i], mem, G, L, F)
      BY <2>2
    <3>2. NotOwned(M, G, ls[i].cell)
      <4> SUFFICES ASSUME NEW c \in 1 .. Len(M), c \notin G, M[c].tag \in Owners PROVE M[c].to # ls[i].cell
        BY DEF NotOwned
      <4>1. CASE c \in 1 .. N
        BY <2>7, <3>1, <4>1 DEF Root, NotOwned, N
      <4>2. CASE c = b
        BY <2>4, <2>5, <3>1, <4>2 DEF Root, N
      <4> QED
        BY <2>4, <2>5, <2>6, <4>1, <4>2
    <3>3. ls[i].cell \in 1 .. Len(M)
      BY <2>4, <3>1 DEF Root, N
    <3> QED
      BY <3>1, <3>2, <3>3 DEF Root
  <2> QED
    BY <2>2, <2>9, <2>10, <2>11, <2>12, <2>13, <2>14 DEF Apart, M
<1> QED
  BY <1>1, <1>2

-----------------------------------------------------------------------------
(* A value is taken from where it was *)

LEMMA HeldLength ==
    ASSUME NEW ty \in Ty
    PROVE  Len(Held(ty)) <= Len(ty)
<1> DEFINE N == Len(ty)
<1>1. N \in Nat
  BY TyFacts
<1>2. PICK f \in [0 .. N -> Ty] : f = HeldOf(ty, f) /\ Held(ty) = f[N]
  BY HeldRecursion
<1> DEFINE S == {n \in 0 .. N : Len(f[n]) <= n}
<1>3. 0 \in S
  <2>1. f[0] = <<>>
    BY <1>1, <1>2 DEF HeldOf
  <2> QED
    BY <1>1, <2>1
<1>4. ASSUME NEW n \in 0 .. N - 1, n \in S PROVE n + 1 \in S
  <2>1. n + 1 \in 0 .. N /\ n + 1 # 0 /\ (n + 1) - 1 = n /\ n \in 0 .. N /\ Len(ty) + 1 - (n + 1) \in 1 .. N
    BY <1>1
  <2> DEFINE c == ty[Len(ty) + 1 - (n + 1)]
  <2>2. c \in Ctors
    BY <2>1, TyFacts
  <2>3. HeldOf(ty, f)[n + 1] = IF c \in Spread THEN f[(n + 1) - 1] ELSE <<c>> \o f[(n + 1) - 1]
    BY <2>1 DEF HeldOf
  <2> HIDE DEF c
  <2>4. f[n + 1] = IF c \in Spread THEN f[n] ELSE <<c>> \o f[n]
    BY <1>2, <2>1, <2>3
  <2>5. f[n] \in Ty /\ Len(f[n]) \in Nat /\ Len(f[n]) <= n
    BY <1>2, <1>4, <2>1, TyFacts
  <2>6. Len(<<c>> \o f[n]) = Len(f[n]) + 1
    BY <2>2, <2>5, PrefixedFacts
  <2>7. Len(f[n + 1]) <= n + 1
    BY <1>1, <2>4, <2>5, <2>6
  <2> QED
    BY <2>1, <2>7
<1>5. 0 .. N \subseteq S
  <2> HIDE DEF S, N
  <2> QED
    BY <1>1, <1>3, <1>4, UpwardInduction
<1> QED
  BY <1>1, <1>2, <1>5

LEMMA WholeTemporary ==
    ASSUME mem \in Seq(MemCell), Pointing(mem), NEW e, e.root = 0,
           NEW G, NEW L, NEW F, Known(mem, G, L, F)
    PROVE  /\ Whole(Stored(e), {Len(mem) + 1, Len(mem) + 2}, Len(mem) + 2, G, L)
           /\ NotOwned(Stored(e), G, Len(mem) + 2)
<1> DEFINE N == Len(mem)
           M == Stored(e)
           a == N + 1
           b == N + 2
<1>1. /\ N \in Nat /\ Len(M) = N + 2 /\ \A c \in 1 .. N : M[c] = mem[c]
      /\ M[a].tag = "int" /\ M[b].tag = "Box" /\ M[b].to = a
  BY StoredFacts
<1>2. G \subseteq 1 .. N /\ L \subseteq 1 .. N
  BY DEF Known
<1>3. /\ \A c \in 1 .. Len(M) : c \in 1 .. N \/ c = a \/ c = b
      /\ a \notin 1 .. N /\ b \notin 1 .. N /\ a \in 1 .. Len(M) /\ b \in 1 .. Len(M) /\ a # b
  BY <1>1
<1>4. ASSUME NEW c \in 1 .. N PROVE M[c] = mem[c] /\ (mem[c].tag # "int" => mem[c].to \in 1 .. N)
  BY <1>1 DEF Pointing
<1>5. "int" \notin Owners \cup Refs /\ "Box" \in Owners /\ "Box" \notin Refs
  BY DEF Owners, Refs
<1> HIDE DEF N, M, a, b
<1>6. ASSUME NEW c \in 1 .. Len(M), M[c].tag \in Owners \cup Refs
      PROVE  M[c].to # b /\ (M[c].tag \in Refs => M[c].to # a)
  <2>1. CASE c \in 1 .. N
    BY <1>3, <1>4, <1>5, <1>6, <2>1
  <2>2. CASE c = b
    BY <1>1, <1>3, <1>5, <2>2
  <2> QED
    BY <1>1, <1>3, <1>5, <1>6, <2>1, <2>2
<1>7. NotOwned(M, G, b)
  BY <1>6 DEF NotOwned
<1>8. Whole(M, {a, b}, b, G, L)
  <2>1. \A c \in {a, b} : M[c].tag \in Owners => M[c].to \in {a, b}
    BY <1>1, <1>5
  <2>2. \A d \in {a, b} : d # b => \E c \in {a, b} : M[c].tag \in Owners /\ M[c].to = d
    BY <1>1, <1>5
  <2>3. \A c \in 1 .. Len(M) : M[c].tag \in Refs => M[c].to \notin {a, b}
    BY <1>6
  <2>4. {a, b} \subseteq 1 .. Len(M) /\ {a, b} \cap G = {} /\ {a, b} \cap L = {}
    BY <1>2, <1>3
  <2> QED
    BY <2>1, <2>2, <2>3, <2>4 DEF Whole
<1> QED
  BY <1>7, <1>8 DEF M, N, a, b

LEMMA WholeBinding ==
    ASSUME NEW m, NEW T, Heap(m, T), NEW ls, NEW G, NEW L, NEW F, Apart(ls, m, G, L, F),
           NEW i \in Live(ls), Len(T[ls[i].cell]) <= MaxDepth,
           \A c \in 1 .. Len(m) : m[c].tag \in Refs => m[c].to \notin Owned(m, ls[i].cell)
    PROVE  Whole(m, Owned(m, ls[i].cell), ls[i].cell, G, L) /\ NotOwned(m, G, ls[i].cell)
<1> DEFINE src == ls[i].cell
           O == Owned(m, src)
           S == {c \in 1 .. Len(m) : c \notin G /\ c \notin L}
<1>1. Root(ls[i], m, G, L, F) /\ Guarded(m, G, L, F) /\ Pointing(m)
  BY DEF Apart
<1>2. src \in 1 .. Len(m) /\ src \notin G /\ src \notin L /\ NotOwned(m, G, src)
  BY <1>1 DEF Root
<1>3. \A c \in 1 .. Len(m) : m[c].tag \in Refs => m[c].to \notin O
  OBVIOUS
<1>4. Len(T[src]) <= MaxDepth
  OBVIOUS
<1> HIDE DEF src
<1>5. O \subseteq 1 .. Len(m) /\ src \in O /\ \A c \in O : m[c].tag \in Owners => m[c].to \in O
  BY <1>2, <1>4, OwnedClosed
<1>6. \A d \in O : d # src => \E c \in O : m[c].tag \in Owners /\ m[c].to = d
  BY <1>2, <1>4, OwnedBack
<1>7. O \subseteq S
  <2>1. src \in S
    BY <1>2
  <2>2. ASSUME NEW c \in S, m[c].tag \in Owners PROVE m[c].to \in S
    <3>1. m[c].tag # "int"
      BY <2>2 DEF Owners
    <3> QED
      BY <1>1, <2>2, <3>1 DEF Guarded, Pointing
  <2> HIDE DEF S
  <2> QED
    BY <1>2, <2>1, <2>2, OwnedLeast
<1>8. O \cap G = {} /\ O \cap L = {}
  BY <1>7
<1> HIDE DEF O
<1>9. Whole(m, O, src, G, L)
  BY <1>3, <1>5, <1>6, <1>8 DEF Whole
<1> QED
  BY <1>2, <1>9 DEF O, src

\* All types in use are within the bound, and memory is kept apart.
Shallow(ls) == \A i \in DOMAIN ls : Len(ls[i].ty) <= MaxDepth

LEMMA ReadyFor ==
    ASSUME locals \in Seq(Binding), NEW T, Heap(mem, T), Bound(T, locals),
           NEW G, NEW L, NEW F, Apart(locals, mem, G, L, F),
           NEW e, PathInv(e), NEW T2, Located(e, T, T2)
    PROVE  Ready(e, T2, G, L, F)
<1> DEFINE M == Stored(e)
           N == Len(mem)
<1>1. mem \in Seq(MemCell) /\ Heap(M, T2)
  BY DEF Heap, Located
<1>2. Apart(locals, M, G, L, F)
  BY <1>1, StoredApart
<1>3. Guarded(M, G, L, F)
  BY <1>2 DEF Apart
<1>4. CASE e.root # 0
  <2>1. e.root \in Live(locals) /\ M = mem /\ T2 = T
    BY <1>4 DEF PathInv, Rooted, Located, Live
  <2> DEFINE b == locals[e.root]
  <2>2. Root(b, mem, G, L, F)
    BY <2>1 DEF Apart
  <2>3. RootType(e) = b.ty /\ (MutRoot(e) <=> b.mut) /\ Start(e) = b.cell
    BY <1>4 DEF RootType, CheckRoot, MutRoot, Start
  <2>4. T[b.cell] = Held(b.ty)
    BY <2>1 DEF Bound, Live
  <2> HIDE DEF b
  <2> QED
    BY <1>1, <1>3, <2>1, <2>2, <2>3, <2>4 DEF Ready, Root
<1>5. CASE e.root = 0
  <2>1. /\ N \in Nat /\ Len(M) = N + 2
        /\ M[N + 1].tag = "int" /\ M[N + 2].tag = "Box" /\ M[N + 2].to = N + 1
    BY <1>1, <1>5, StoredFacts
  <2>2. Start(e) = N + 2 /\ RootType(e) = <<"Box">>
    BY <1>5 DEF Start, RootType, CheckRoot
  <2> DEFINE a == N + 1
             b == N + 2
             t == T2[b]
  <2>3. a \in 1 .. Len(M) /\ b \in 1 .. Len(M) /\ a \notin 1 .. N /\ b \notin 1 .. N
    BY <2>1
  <2>4. b \notin G /\ b \notin L /\ b \notin F
    BY <2>3 DEF Apart, Known
  <2>5. M[a].tag = "int" /\ M[b].tag = "Box" /\ M[b].to = a
    BY <2>1
  <2> HIDE DEF M, a, b
  <2>6. CellFits(T2, M[a], T2[a]) /\ CellFits(T2, M[b], t) /\ T2[a] \in Ty /\ t \in Ty
    BY <1>1, <2>3, HeapFacts
  <2>7. T2[a] = <<>>
    <3>1. "int" \notin Ctors
      BY DEF Ctors, Pointers, Refs
    <3>2. T2[a] # <<>> => T2[a][1] \in Ctors
      BY <2>6, HeadFacts
    <3> QED
      BY <2>5, <2>6, <3>1, <3>2 DEF CellFits
  <2>8. t # <<>> /\ t[1] = "Box" /\ Rest(t, 1) = <<>>
    BY <2>5, <2>6, <2>7 DEF CellFits
  <2> HIDE DEF t
  <2>9. Len(t) \in Nat /\ Len(t) >= 1
    BY <2>6, <2>8, HeadFacts
  <2>10. Len(t) = 1
    <3>1. 1 \in 0 .. Len(t)
      BY <2>9
    <3>2. Len(Rest(t, 1)) = Len(t) - 1
      BY <2>6, <3>1, RestFacts
    <3>3. Len(Rest(t, 1)) = 0
      BY <2>8
    <3> QED
      BY <2>9, <3>2, <3>3
  <2>11. t = <<"Box">>
    <3> DEFINE s == <<"Box">>
    <3>1. s \in Ty /\ s[1] = "Box" /\ Len(s) = 1
      BY BoxFacts
    <3> HIDE DEF s
    <3>2. \A i \in 1 .. Len(t) : t[i] = s[i]
      BY <2>8, <2>10, <3>1
    <3>3. t = s
      BY <2>6, <2>10, <3>1, <3>2, SameTy
    <3> QED
      BY <3>3 DEF s
  <2>12. T2[Start(e)] = Held(RootType(e))
    BY <2>2, <2>11, BoxFacts DEF t, b
  <2> QED
    BY <1>1, <1>3, <2>2, <2>3, <2>4, <2>12 DEF Ready, M, b
<1> QED
  BY <1>4, <1>5

\* What is left when the value of x is taken: the rest of memory, and a value to store.
Taken(x, to, G, L, F) ==
    \E G2, F2, O : /\ Apart(Moved(x, to), Stored(x.of), G2, L, F2)
                   /\ F2 \subseteq F
                   /\ Storable(ValueOf(x, to), Moved(x, to), Stored(x.of), G2, F2, O)

LEMMA UseApart ==
    ASSUME locals \in Seq(Binding), Shallow(locals), NEW T, Heap(mem, T), Bound(T, locals),
           NEW G, NEW L, NEW F, Apart(locals, mem, G, L, F),
           NEW x \in Expressions, NEW to, Stateable(x, to), Sound(x, to),
           Moves(x, to) => MayMove(x)
    PROVE  Taken(x, to, G, L, F)
<1> DEFINE e == x.of
           M == Stored(e)
           v == ValueOf(x, to)
           ls == Moved(x, to)
           src == Start(e)
<1>1. PathInv(e) /\ Deep(e)
  BY UseFacts
<1>2. PICK T2 : Located(e, T, T2)
  BY <1>1, StoredFits
<1>3. Ready(e, T2, G, L, F)
  BY <1>1, <1>2, ReadyFor
<1>4. Kept(v, x, to, M, src, G, F)
  BY <1>3, ValueApart
<1>5. mem \in Seq(MemCell) /\ Heap(M, T2)
  BY <1>2 DEF Heap, Located
<1>6. Apart(locals, M, G, L, F)
  BY <1>5, StoredApart
<1>7. v.tag # "int" => v.to \in 1 .. Len(M)
  <2>1. CellFits(T2, v, Held(UsedAt(x, to)))
    BY <1>2, ValueFits
  <2>2. Len(T2) = Len(M)
    BY <1>5, HeapFacts
  <2> QED
    BY <2>1, <2>2 DEF CellFits
<1>8. CASE ~Moves(x, to)
  <2>1. ls = locals
    BY <1>8 DEF Moved
  <2>2. Storable(v, locals, M, G, F, {})
    BY <1>4, <1>7, <1>8 DEF Storable, Kept
  <2> QED
    BY <1>6, <2>1, <2>2 DEF Taken
<1>9. CASE Moves(x, to)
  <2>1. v = M[src] /\ MayMove(x)
    BY <1>4, <1>9 DEF Kept
  <2>2. ASSUME NEW O, Whole(M, O, src, G, L), NotOwned(M, G, src),
               \A i \in Live(ls) : i \in Live(locals) /\ ls[i] = locals[i] /\ locals[i].cell # src
        PROVE  Taken(x, to, G, L, F)
    <3> HIDE DEF M, src, ls, v
    <3>1. Apart(ls, M, G \cup {src}, L, F \ O) /\ Storable(M[src], ls, M, G \cup {src}, F \ O, O)
      BY <1>6, <2>2, LeaveApart
    <3> DEFINE G2 == G \cup {src}
               F2 == F \ O
    <3>2. Apart(ls, M, G2, L, F2) /\ Storable(v, ls, M, G2, F2, O) /\ F2 \subseteq F
      BY <2>1, <3>1
    <3> HIDE DEF G2, F2
    <3> QED
      BY <3>2 DEF Taken, ls, M, v
  <2>3. CASE e.root = 0
    <3>1. ls = locals /\ src = Len(mem) + 2
      BY <2>3 DEF Moved, Start
    <3>2. Pointing(mem) /\ Known(mem, G, L, F)
      BY DEF Apart
    <3>3. Whole(M, {Len(mem) + 1, Len(mem) + 2}, src, G, L) /\ NotOwned(M, G, src)
      BY <1>5, <2>3, <3>1, <3>2, WholeTemporary
    <3>4. ASSUME NEW i \in Live(locals) PROVE locals[i].cell # src
      <4>1. Root(locals[i], mem, G, L, F)
        BY DEF Apart
      <4>2. Len(mem) \in Nat /\ locals[i].cell \in 1 .. Len(mem)
        BY <3>2, <4>1 DEF Root, Known
      <4> QED
        BY <3>1, <4>2
    <3> HIDE DEF M, src, ls
    <3> QED
      BY <2>2, <3>1, <3>3, <3>4
  <2>4. CASE e.root # 0
    <3> DEFINE r == e.root
    <3>1. r \in DOMAIN locals /\ r \in Live(locals)
      BY <1>1, <2>4 DEF PathInv, Rooted, Live
    <3>2. ls = [locals EXCEPT ![r].live = FALSE] /\ src = locals[r].cell /\ M = mem /\ T2 = T
      BY <1>2, <1>9, <2>4 DEF Moved, Start, Located
    <3>3. \A c \in 1 .. Len(M) : M[c].tag \in Refs => M[c].to \notin Owned(M, src)
      <4>1. DOMAIN mem = 1 .. Len(mem)
        BY <1>5
      <4> QED
        BY <2>1, <2>4, <3>2, <4>1 DEF MayMove
    <3>4. Len(T2[src]) <= MaxDepth
      <4>1. T2[src] = Held(locals[r].ty)
        BY <3>1, <3>2 DEF Bound
      <4>2. locals[r] \in Binding
        BY <3>1
      <4>3. locals[r].ty \in Ty
        BY <4>2 DEF Binding
      <4>4. Len(locals[r].ty) <= MaxDepth
        BY <3>1 DEF Shallow
      <4>5. Len(Held(locals[r].ty)) <= Len(locals[r].ty)
        BY <4>3, HeldLength
      <4>6. Len(Held(locals[r].ty)) \in Nat /\ Len(locals[r].ty) \in Nat /\ MaxDepth \in Nat
        BY <4>3, HeldType, TyFacts, PlacesAssumption
      <4> QED
        BY <4>1, <4>4, <4>5, <4>6
    <3>5. Whole(M, Owned(M, src), src, G, L) /\ NotOwned(M, G, src)
      <4>1. Len(T2[locals[r].cell]) <= MaxDepth
        BY <3>2, <3>4
      <4>2. \A c \in 1 .. Len(M) : M[c].tag \in Refs => M[c].to \notin Owned(M, locals[r].cell)
        BY <3>2, <3>3
      <4> HIDE DEF M
      <4>3. Whole(M, Owned(M, locals[r].cell), locals[r].cell, G, L) /\ NotOwned(M, G, locals[r].cell)
        BY <1>5, <1>6, <3>1, <4>1, <4>2, WholeBinding
      <4> QED
        BY <3>2, <4>3
    <3>6. ASSUME NEW i \in Live(ls) PROVE i \in Live(locals) /\ ls[i] = locals[i] /\ locals[i].cell # src
      <4>1. ~ls[r].live
        <5>1. locals[r] \in Binding
          BY <3>1
        <5> HIDE DEF r, ls
        <5> QED
          BY <3>1, <3>2, <5>1 DEF Binding
      <4>2. i # r /\ i \in DOMAIN locals
        BY <3>2, <4>1 DEF Live
      <4>3. ls[i] = locals[i]
        BY <3>2, <4>2
      <4>4. i \in Live(locals)
        BY <4>2, <4>3 DEF Live
      <4>5. Distinct(locals)
        BY DEF Apart
      <4>6. locals[i].cell # src
        BY <3>1, <3>2, <4>2, <4>4, <4>5 DEF Distinct
      <4> QED
        BY <4>3, <4>4, <4>6
    <3> HIDE DEF M, src, ls, r
    <3> QED
      BY <2>2, <3>5, <3>6
  <2> QED
    BY <2>3, <2>4
<1> QED
  BY <1>8, <1>9

-----------------------------------------------------------------------------
(* What is frozen stays *)

Unchanged(F) == \A c \in F : mem'[c] = mem[c]

LEMMA MovedKeeps ==
    ASSUME locals \in Seq(Binding), NEW x \in Expressions, NEW to
    PROVE  /\ DOMAIN Moved(x, to) = DOMAIN locals
           /\ \A i \in DOMAIN locals : Moved(x, to)[i].ty = locals[i].ty
<1> DEFINE r == x.of.root
           ls == Moved(x, to)
<1>1. CASE ls = locals
  BY <1>1
<1>2. CASE ls = [locals EXCEPT ![r].live = FALSE] /\ r # 0
  <2>1. PathInv(x.of)
    BY UsesOfPaths, PathsInv
  <2>2. r \in DOMAIN locals
    BY <1>2, <2>1 DEF PathInv, Rooted
  <2> HIDE DEF r, ls
  <2> DEFINE b == [locals[r] EXCEPT !.live = FALSE]
  <2>3. b.ty = locals[r].ty
    <3>1. locals[r] \in Binding
      BY <2>2
    <3> QED
      BY <3>1 DEF Binding
  <2>4. ls = [locals EXCEPT ![r] = b]
    BY <1>2
  <2> HIDE DEF b
  <2>5. DOMAIN ls = DOMAIN locals /\ \A i \in DOMAIN locals : ls[i].ty = locals[i].ty
    BY <2>2, <2>3, <2>4
  <2> QED
    BY <2>5 DEF ls
<1>3. ls = locals \/ (ls = [locals EXCEPT ![r].live = FALSE] /\ r # 0)
  BY DEF Moved
<1> QED
  BY <1>1, <1>2, <1>3

LEMMA LetApart ==
    ASSUME Typed(locals, mem), Shallow(locals), NEW G, NEW F, Apart(locals, mem, G, lent, F),
           NEW x \in Expressions, NEW to \in Targets(x), NEW mut \in BOOLEAN, Let(mut, x, to)
    PROVE  /\ Shallow(locals') /\ \E G2, F2 : Apart(locals', mem', G2, lent, F2)
           /\ Unchanged(F)
<1> DEFINE M == Stored(x.of)
           v == ValueOf(x, to)
           ls == Moved(x, to)
           ty == UsedAt(x, to)
           b == Local(mut, ty, Len(mem'))
<1>1. locals \in Seq(Binding) /\ Stateable(x, to)
  BY DEF Typed, Stateable
<1>2. PICK T : Heap(mem, T) /\ Bound(T, locals)
  BY DEF Typed
<1>3. /\ CheckBorrow(x) /\ Coerces(x, to) /\ (Moves(x, to) => MayMove(x))
      /\ Len(ty) <= MaxDepth
      /\ mem' = Append(M, v) /\ locals' = Append(ls, b)
  BY DEF Let, UsedAt
<1>4. Sound(x, to)
  BY <1>1, <1>3, UseIsSound
<1>5. Taken(x, to, G, lent, F)
  BY <1>1, <1>2, <1>3, <1>4, UseApart
<1>6. PICK G2, F2, O : /\ Apart(ls, M, G2, lent, F2) /\ F2 \subseteq F
                       /\ Storable(v, ls, M, G2, F2, O)
  BY <1>5 DEF Taken
<1>7. mem \in Seq(MemCell) /\ Len(mem) \in Nat
  BY <1>2, HeapFacts DEF Heap
<1>8. Len(M) \in Nat /\ Len(mem) <= Len(M) /\ \A c \in 1 .. Len(mem) : M[c] = mem[c]
  BY <1>7, StoredFacts
<1>9. M \in Seq(MemCell)
  <2>1. PICK T2 : Located(x.of, T, T2)
    BY <1>1, <1>2, UseFacts, StoredFits
  <2> QED
    BY <2>1 DEF Located, Heap
<1>10. ls \in Seq(Binding) /\ DOMAIN ls = DOMAIN locals /\ \A i \in DOMAIN locals : ls[i].ty = locals[i].ty
  <2>1. ls \in Seq(Binding)
    BY <1>1, MovedFacts
  <2>2. DOMAIN ls = DOMAIN locals /\ \A i \in DOMAIN locals : ls[i].ty = locals[i].ty
    BY <1>1, MovedKeeps
  <2> QED
    BY <2>1, <2>2
<1> HIDE DEF M, v, ls, ty
<1>11. Len(mem') = Len(M) + 1 /\ mem'[Len(M) + 1] = v /\ \A c \in 1 .. Len(M) : mem'[c] = M[c]
  BY <1>3, <1>9
<1>12. b.cell = Len(M) + 1 /\ b.mut = mut /\ b.ty = ty
  BY <1>11 DEF Local
<1> HIDE DEF b
<1> DEFINE new == Len(ls) + 1
<1>13. /\ Len(ls) \in Nat /\ DOMAIN ls = 1 .. Len(ls)
       /\ DOMAIN locals' = 1 .. new /\ locals'[new] = b
       /\ \A i \in 1 .. Len(ls) : locals'[i] = ls[i]
  BY <1>3, <1>10
<1>14. \A i \in DOMAIN locals' : i = new \/ (i \in DOMAIN ls /\ locals'[i] = ls[i])
  BY <1>13
<1> HIDE DEF new
<1>15. \A i \in Live(locals') : i = new \/ (i \in Live(ls) /\ locals'[i] = ls[i])
  BY <1>14 DEF Live
<1>16. \E F3 : Apart(locals', mem', G2, lent, F3)
  <2>1. b.mut \in BOOLEAN
    BY <1>12
  <2> DEFINE m2 == mem'
             ls2 == locals'
  <2>2. Len(m2) = Len(M) + 1 /\ m2[Len(M) + 1] = v /\ \A c \in 1 .. Len(M) : m2[c] = M[c]
    BY <1>11
  <2>3. ls2[new] = b /\ \A i \in Live(ls2) : i = new \/ (i \in Live(ls) /\ ls2[i] = ls[i])
    BY <1>13, <1>15 DEF new
  <2> HIDE DEF m2, ls2
  <2>4. \E F3 : Apart(ls2, m2, G2, lent, F3)
    BY <1>6, <1>12, <2>1, <2>2, <2>3, AddApart
  <2> QED
    BY <2>4 DEF m2, ls2
<1>17. Shallow(locals')
  BY <1>3, <1>10, <1>12, <1>13, <1>14 DEF Shallow, new
<1>18. Unchanged(F)
  <2> SUFFICES ASSUME NEW c \in F PROVE mem'[c] = mem[c]
    BY DEF Unchanged
  <2>1. c \in 1 .. Len(mem)
    BY DEF Apart, Known
  <2>2. c \in 1 .. Len(M)
    BY <1>7, <1>8, <2>1
  <2> QED
    BY <1>8, <1>11, <2>1, <2>2
<1> QED
  BY <1>16, <1>17, <1>18

\* The cell that a statement changes.
LEMMA CellApart ==
    ASSUME locals \in Seq(Binding), NEW T, Heap(mem, T), Bound(T, locals),
           NEW G, NEW L, NEW F, Apart(locals, mem, G, L, F),
           NEW e, PathInv(e), Deep(e), e.root # 0, NEW j \in 0 .. Leading(e.ty), Changeable(e, j)
    PROVE  Deref(mem, PlaceOf(e), j) \in 1 .. Len(mem) /\ Deref(mem, PlaceOf(e), j) \notin F
<1>1. PICK T2 : Located(e, T, T2)
  BY StoredFits
<1>2. Ready(e, T2, G, L, F) /\ Stored(e) = mem
  BY <1>1, ReadyFor DEF Located
<1>3. e.ty \in Ty /\ Len(e.ty) \in Nat
  BY TyFacts DEF PathInv, Expr
<1>4. j \in 0 .. Len(e.ty) /\ \A i \in 1 .. j : e.ty[i] \in Pointers
  <2>1. Leading(e.ty) \in 0 .. Len(e.ty) /\ \A i \in 1 .. Leading(e.ty) : e.ty[i] \in Pointers
    BY <1>3, LeadingFacts
  <2> QED
    BY <1>3, <2>1
<1>5. Deref(Stored(e), PlaceOf(e), j) \in 1 .. Len(Stored(e))
  BY <1>2, <1>4, PlaceApart
<1>6. Deref(Stored(e), PlaceOf(e), j) \notin F
  BY <1>2, <1>4, PlaceApart
<1> QED
  BY <1>2, <1>5, <1>6

LEMMA AssignApart ==
    ASSUME Typed(locals, mem), Shallow(locals), NEW G, NEW F, Apart(locals, mem, G, lent, F),
           NEW lhs \in Paths, NEW x \in Expressions, x.ty = lhs.ty \/ lhs.ty \in Targets(x), Assign(lhs, x)
    PROVE  /\ Shallow(locals') /\ \E G2, F2 : Apart(locals', mem', G2, lent, F2)
           /\ Unchanged(F)
<1> DEFINE M == Stored(x.of)
           v == ValueOf(x, lhs.ty)
           ls == Moved(x, lhs.ty)
           p == PlaceOf(lhs)
<1>1. locals \in Seq(Binding) /\ Stateable(x, lhs.ty) /\ PathInv(lhs) /\ Deep(lhs)
  BY PathsDeep DEF Typed, Stateable
<1>2. PICK T : Heap(mem, T) /\ Bound(T, locals)
  BY DEF Typed
<1>3. /\ CheckBorrow(x) /\ Coerces(x, lhs.ty) /\ lhs.place.writable /\ (Moves(x, lhs.ty) => MayMove(x))
      /\ mem' = IF lhs.root = 0 THEN M ELSE [M EXCEPT ![p] = v]
      /\ locals' = ls
  BY DEF Assign, CheckAssign
<1>4. Sound(x, lhs.ty)
  BY <1>1, <1>3, UseIsSound
<1>5. Taken(x, lhs.ty, G, lent, F)
  BY <1>1, <1>2, <1>3, <1>4, UseApart
<1>6. PICK G2, F2, O : /\ Apart(ls, M, G2, lent, F2) /\ F2 \subseteq F
                       /\ Storable(v, ls, M, G2, F2, O)
  BY <1>5 DEF Taken
<1>7. mem \in Seq(MemCell) /\ Len(mem) \in Nat
  BY <1>2, HeapFacts DEF Heap
<1>8. Len(M) \in Nat /\ Len(mem) <= Len(M) /\ \A c \in 1 .. Len(mem) : M[c] = mem[c]
  BY <1>7, StoredFacts
<1>9. M \in Seq(MemCell)
  <2>1. PICK T2 : Located(x.of, T, T2)
    BY <1>1, <1>2, UseFacts, StoredFits
  <2> QED
    BY <2>1 DEF Located, Heap
<1>10. Shallow(locals')
  <2>1. DOMAIN ls = DOMAIN locals /\ \A i \in DOMAIN locals : ls[i].ty = locals[i].ty
    BY <1>1, MovedKeeps
  <2> QED
    BY <1>3, <2>1 DEF Shallow
<1>11. F \subseteq 1 .. Len(mem)
  BY DEF Apart, Known
<1> HIDE DEF M, v, ls, p
<1>12. CASE lhs.root = 0
  <2>1. mem' = M
    BY <1>3, <1>12
  <2>2. Unchanged(F)
    BY <1>8, <1>11, <2>1 DEF Unchanged
  <2> QED
    BY <1>3, <1>6, <1>10, <2>1, <2>2
<1>13. CASE lhs.root # 0
  <2>1. p \in 1 .. Len(mem) /\ p \notin F
    <3>1. Changeable(lhs, 0)
      BY <1>1, <1>3, BitsHere
    <3>2. 0 \in 0 .. Leading(lhs.ty)
      <4>1. lhs.ty \in Ty
        BY <1>1 DEF PathInv, Expr
      <4> QED
        BY <4>1, LeadingFacts
    <3>3. Deref(mem, p, 0) \in 1 .. Len(mem) /\ Deref(mem, p, 0) \notin F
      BY <1>1, <1>2, <1>13, <3>1, <3>2, CellApart DEF p
    <3>4. p \in 1 .. Len(mem)
      <4>1. PICK U : Located(lhs, T, U)
        BY <1>1, <1>2, StoredFits
      <4> QED
        BY <1>13, <4>1 DEF Located, p
    <3>5. Deref(mem, p, 0) = p
      BY <1>2, <3>4, DerefNone
    <3> QED
      BY <3>3, <3>5
  <2>2. p \in 1 .. Len(M) /\ p \notin F2
    BY <1>6, <1>7, <1>8, <2>1
  <2> DEFINE m2 == [M EXCEPT ![p] = v]
  <2>3. Len(m2) = Len(M) /\ m2[p] = v /\ \A c \in 1 .. Len(M) : c # p => m2[c] = M[c]
    BY <1>9, <2>2
  <2>4. mem' = m2
    BY <1>3, <1>13
  <2> HIDE DEF m2
  <2>5. Apart(ls, m2, G2, lent, F2)
    BY <1>6, <2>2, <2>3, PutApart
  <2>6. Unchanged(F)
    <3> SUFFICES ASSUME NEW c \in F PROVE m2[c] = mem[c]
      BY <2>4 DEF Unchanged
    <3>1. c \in 1 .. Len(mem) /\ c # p
      BY <1>11, <2>1
    <3>2. c \in 1 .. Len(M)
      BY <1>7, <1>8, <3>1
    <3> QED
      BY <1>8, <2>3, <3>1, <3>2
  <2> QED
    BY <1>3, <1>10, <2>4, <2>5, <2>6
<1> QED
  BY <1>12, <1>13

LEMMA ChangedApart ==
    ASSUME Typed(locals, mem), Shallow(locals), NEW G, NEW F, Apart(locals, mem, G, lent, F),
           NEW e \in Paths, NEW k \in 0 .. Leading(e.ty), Changeable(e, k), Changed(e, k), UNCHANGED locals
    PROVE  /\ Shallow(locals') /\ \E G2, F2 : Apart(locals', mem', G2, lent, F2)
           /\ Unchanged(F)
<1>1. locals \in Seq(Binding) /\ PathInv(e) /\ Deep(e)
  BY PathsDeep DEF Typed
<1>2. PICK T : Heap(mem, T) /\ Bound(T, locals)
  BY DEF Typed
<1>3. Shallow(locals') /\ locals' = locals
  BY DEF Shallow
<1>4. CASE e.root = 0
  <2>1. mem' = mem
    BY <1>4 DEF Changed
  <2> QED
    BY <1>3, <2>1 DEF Unchanged
<1>5. CASE e.root # 0
  <2> DEFINE p == Deref(mem, PlaceOf(e), k)
             cell == [mem[p] EXCEPT !.n = @ + 1]
  <2>1. p \in 1 .. Len(mem) /\ p \notin F
    BY <1>1, <1>2, <1>5, CellApart
  <2>2. mem' = [mem EXCEPT ![p] = cell]
    BY <1>5 DEF Changed
  <2> HIDE DEF p
  <2>3. mem[p] \in MemCell /\ mem \in Seq(MemCell)
    BY <1>2, <2>1, HeapFacts DEF Heap
  <2>4. cell.tag = mem[p].tag /\ cell.to = mem[p].to
    BY <2>3, CellChanged
  <2> HIDE DEF cell
  <2> DEFINE m2 == [mem EXCEPT ![p] = cell]
  <2>5. Len(m2) = Len(mem) /\ m2[p] = cell /\ \A c \in 1 .. Len(mem) : c # p => m2[c] = mem[c]
    BY <2>1, <2>3
  <2>6. mem' = m2
    BY <2>2
  <2> HIDE DEF m2
  <2>7. \A c \in 1 .. Len(mem) : m2[c].tag = mem[c].tag /\ m2[c].to = mem[c].to
    BY <2>4, <2>5
  <2>8. Apart(locals, m2, G, lent, F)
    BY <2>5, <2>7, SameApart
  <2>9. Unchanged(F)
    <3>1. F \subseteq 1 .. Len(mem)
      BY DEF Apart, Known
    <3> QED
      BY <2>1, <2>5, <2>6, <3>1 DEF Unchanged
  <2> QED
    BY <1>3, <2>6, <2>8, <2>9
<1> QED
  BY <1>4, <1>5

Protected(ls, m, L) == Shallow(ls) /\ \E G, F : Apart(ls, m, G, L, F)

LEMMA FrozenIsKept ==
    ASSUME Typed(locals, mem), NEW G, NEW F, Apart(locals, mem, G, lent, F)
    PROVE  Frozen \subseteq F
<1>1. PICK T : Heap(mem, T) /\ Bound(T, locals)
  BY DEF Typed
<1>2. /\ Pointing(mem) /\ Known(mem, G, lent, F) /\ Guarded(mem, G, lent, F) /\ Closed(mem, G, F)
      /\ \A i \in Live(locals) : Root(locals[i], mem, G, lent, F)
  BY DEF Apart
<1>3. ASSUME NEW i \in Live(locals), ~locals[i].mut PROVE Owned(mem, locals[i].cell) \subseteq F
  <2> DEFINE cell == locals[i].cell
             S == {c \in F : c \notin G}
  <2>1. cell \in 1 .. Len(mem) /\ cell \notin G /\ cell \in F
    BY <1>2, <1>3 DEF Root
  <2>2. ASSUME NEW c \in S, c \in 1 .. Len(mem), mem[c].tag \in Owners PROVE mem[c].to \in S
    BY <1>2, <2>2 DEF Closed, Guarded
  <2>3. cell \in S
    BY <2>1
  <2> HIDE DEF S, cell
  <2>4. Owned(mem, cell) \subseteq S
    BY <1>1, <2>1, <2>2, <2>3, OwnedLeast
  <2> QED
    BY <2>4 DEF S, cell
<1>4. lent \subseteq F
  BY <1>2 DEF Known
<1>5. ASSUME NEW c \in Frozen, c \notin lent PROVE c \in F
  <2>1. PICK l \in {locals[i] : i \in {i \in DOMAIN locals : locals[i].live /\ ~locals[i].mut}} :
            c \in Owned(mem, l.cell)
    BY <1>5 DEF Frozen
  <2>2. PICK i \in DOMAIN locals : locals[i].live /\ ~locals[i].mut /\ l = locals[i]
    BY <2>1
  <2> QED
    BY <1>3, <2>1, <2>2 DEF Live
<1> QED
  BY <1>4, <1>5

LEMMA NextApart ==
    ASSUME Typed(locals, mem), Shallow(locals), NEW G, NEW F, Apart(locals, mem, G, lent, F), Next
    PROVE  /\ Shallow(locals') /\ \E G2, F2 : Apart(locals', mem', G2, lent, F2)
           /\ Unchanged(F) /\ lent' = lent
<1>0. locals \in Seq(Binding)
  BY DEF Typed
<1>1. CASE UNCHANGED <<locals, mem>> /\ lent' = lent
  BY <1>1 DEF Shallow, Unchanged
<1>2. CASE LetStatement
  <2>1. PICK x \in Expressions : \E to \in Targets(x) :
            RejectLet(x, to) \/ \E mut \in BOOLEAN : Let(mut, x, to)
    BY <1>2 DEF LetStatement
  <2>2. PICK to \in Targets(x) : RejectLet(x, to) \/ \E mut \in BOOLEAN : Let(mut, x, to)
    BY <2>1
  <2>3. CASE RejectLet(x, to)
    BY <1>1, <2>3 DEF RejectLet, Rejected, Judge
  <2>4. ASSUME NEW mut \in BOOLEAN, Let(mut, x, to)
        PROVE  /\ Shallow(locals') /\ \E G2, F2 : Apart(locals', mem', G2, lent, F2)
               /\ Unchanged(F) /\ lent' = lent
    <3>1. lent' = lent
      BY <2>4 DEF Let, Judge
    <3> QED
      BY <2>4, <3>1, LetApart
  <2> QED
    BY <2>2, <2>3, <2>4
<1>3. CASE Assignment
  <2>1. PICK lhs \in Paths : \E x \in {y \in Expressions : y.ty = lhs.ty \/ lhs.ty \in Targets(y)} :
            Assign(lhs, x) \/ RejectAssign(lhs, x)
    BY <1>3 DEF Assignment
  <2>2. PICK x \in Expressions : /\ x.ty = lhs.ty \/ lhs.ty \in Targets(x)
                                 /\ Assign(lhs, x) \/ RejectAssign(lhs, x)
    BY <2>1
  <2>3. CASE Assign(lhs, x)
    <3>1. lent' = lent
      BY <2>3 DEF Assign, Judge
    <3> QED
      BY <2>2, <2>3, <3>1, AssignApart
  <2>4. CASE RejectAssign(lhs, x)
    BY <1>1, <2>4 DEF RejectAssign, Rejected, Judge
  <2> QED
    BY <2>2, <2>3, <2>4
<1>4. CASE CompoundAssignment
  <2>1. PICK lhs \in {e \in Paths : e.ty = <<>>} : AddAssign(lhs) \/ RejectAddAssign(lhs)
    BY <1>4 DEF CompoundAssignment
  <2>2. CASE AddAssign(lhs)
    <3>0. PathInv(lhs) /\ lhs \in Paths
      BY <1>0, PathsInv
    <3>1. 0 \in 0 .. Leading(lhs.ty)
      <4>1. lhs.ty \in Ty
        BY <3>0 DEF PathInv, Expr
      <4> QED
        BY <4>1, LeadingFacts
    <3>2. Changed(lhs, 0) /\ UNCHANGED locals /\ lhs.place.writable /\ lent' = lent
      BY <2>2 DEF AddAssign, Judge
    <3>3. Changeable(lhs, 0)
      BY <1>0, <3>0, <3>2, BitsHere
    <3> QED
      BY <3>0, <3>1, <3>2, <3>3, ChangedApart
  <2>3. CASE RejectAddAssign(lhs)
    BY <1>1, <2>3 DEF RejectAddAssign, Rejected, Judge
  <2> QED
    BY <2>1, <2>2, <2>3
<1>5. CASE MethodCall
  <2>1. PICK e \in Paths : CallMethod(e) \/ RejectCall(e)
    BY <1>5 DEF MethodCall, Receivers
  <2>2. CASE CallMethod(e)
    <3>0. PathInv(e) /\ e.ty \in Ty
      BY <1>0, PathsInv DEF PathInv, Expr
    <3>1. Leading(e.ty) \in 0 .. Leading(e.ty)
      <4>1. Leading(e.ty) \in 0 .. Len(e.ty) /\ Len(e.ty) \in Nat
        BY <3>0, LeadingFacts, TyFacts
      <4> QED
        BY <4>1
    <3>2. Changed(e, Leading(e.ty)) /\ UNCHANGED locals /\ CheckMethod(e) /\ lent' = lent
      BY <2>2 DEF CallMethod, Judge
    <3>3. Changeable(e, Leading(e.ty))
      BY <1>0, <3>0, <3>2, CallIsSound
    <3> QED
      BY <3>1, <3>2, <3>3, ChangedApart
  <2>3. CASE RejectCall(e)
    BY <1>1, <2>3 DEF RejectCall, Rejected, Judge
  <2> QED
    BY <2>1, <2>2, <2>3
<1> QED
  BY <1>2, <1>3, <1>4, <1>5 DEF Next

-----------------------------------------------------------------------------
(* The parameters are apart: chains next to each other *)

Linked(m) ==
    /\ \A c \in 1 .. Len(m) : /\ m[c].tag = "int" => m[c].to = 0
                              /\ m[c].tag # "int" => m[c].to = c + 1 /\ c + 1 \in 1 .. Len(m)
    /\ Len(m) > 0 => m[Len(m)].tag = "int"
First(m, c) == c \in 1 .. Len(m) /\ \A b \in 1 .. Len(m) : b + 1 = c => m[b].tag = "int"

LEMMA LinkedChain ==
    ASSUME NEW m \in Seq(MemCell), Linked(m), NEW ty \in Ty,
           NEW first \in Nat, first - 1 = Len(m), NEW m2, m2 = m \o Chain(first, ty)
    PROVE  /\ m2 \in Seq(MemCell) /\ Linked(m2) /\ First(m2, first)
           /\ \A c : First(m, c) => First(m2, c)
<1> DEFINE N == Len(m)
           h == Held(ty)
           chain == Chain(first, ty)
<1>1. N \in Nat /\ N + 1 \in Nat /\ first = N + 1
  OBVIOUS
<1>2. h \in Ty /\ Len(h) \in Nat /\ \A n \in 1 .. Len(h) : h[n] \in Ctors
  BY HeldType, TyFacts
<1>3. /\ chain \in Seq(MemCell) /\ Len(chain) = Len(h) + 1
      /\ chain[Len(h) + 1] = Cell("int", 0)
      /\ \A n \in 1 .. Len(h) : chain[n] = Cell(h[n], (N + 1) + n)
  BY <1>1, ChainFacts
<1> HIDE DEF chain, h
<1>4. m2 \in Seq(MemCell) /\ Len(m2) = Len(m) + Len(chain)
  BY <1>3, ConcatFacts DEF chain
<1>5. \A c \in 1 .. Len(m) : m2[c] = m[c]
  <2>1. \A c \in 1 .. Len(m) : (m \o chain)[c] = m[c]
    BY <1>3, ConcatFacts
  <2> QED
    BY <2>1 DEF chain
<1>6. \A n \in 1 .. Len(chain) : m2[Len(m) + n] = chain[n]
  <2>1. \A n \in 1 .. Len(chain) : (m \o chain)[Len(m) + n] = chain[n]
    BY <1>3, ConcatFacts
  <2> QED
    BY <2>1 DEF chain
<1>7. Len(m2) = N + Len(h) + 1 /\ Len(m2) \in Nat
  BY <1>2, <1>3, <1>4
<1>8. ASSUME NEW n \in 1 .. Len(h)
      PROVE  m2[N + n].tag = h[n] /\ m2[N + n].tag # "int" /\ m2[N + n].to = (N + n) + 1
  <2>1. n \in 1 .. Len(chain) /\ (N + 1) + n = (N + n) + 1 /\ (N + n) + 1 \in Nat
    BY <1>1, <1>2, <1>3
  <2>2. m2[N + n] = Cell(h[n], (N + n) + 1)
    BY <1>3, <1>6, <2>1
  <2>3. h[n] \in Ctors \cup {"int"} /\ h[n] # "int"
    BY <1>2 DEF Ctors, Pointers, Refs
  <2>4. Cell(h[n], (N + n) + 1).tag = h[n] /\ Cell(h[n], (N + n) + 1).to = (N + n) + 1
    BY <2>1, <2>3, CellFacts
  <2> QED
    BY <2>2, <2>3, <2>4
<1>9. m2[N + (Len(h) + 1)].tag = "int" /\ m2[N + (Len(h) + 1)].to = 0
  <2>1. Len(h) + 1 \in 1 .. Len(chain)
    BY <1>2, <1>3
  <2>2. m2[N + (Len(h) + 1)] = Cell("int", 0)
    BY <1>3, <1>6, <2>1
  <2>3. Cell("int", 0).tag = "int" /\ Cell("int", 0).to = 0
    <3>1. "int" \in Ctors \cup {"int"} /\ 0 \in Nat
      OBVIOUS
    <3> QED
      BY <3>1, CellFacts
  <2> QED
    BY <2>2, <2>3
<1>10. N + (Len(h) + 1) = Len(m2) /\ Len(m2) > 0
  BY <1>1, <1>2, <1>7
<1>11. ASSUME NEW c \in 1 .. Len(m2)
       PROVE  c \in 1 .. N \/ c = Len(m2) \/ \E n \in 1 .. Len(h) : c = N + n
  <2>1. CASE c <= N
    BY <1>1, <2>1
  <2>2. CASE c > N /\ c < Len(m2)
    <3>1. c - N \in 1 .. Len(h) /\ c = N + (c - N)
      BY <1>1, <1>2, <1>7, <2>2
    <3> QED
      BY <3>1
  <2>3. CASE c >= Len(m2)
    <3> DEFINE K == Len(m2)
    <3>1. K \in Nat /\ c \in 1 .. K /\ c >= K
      BY <1>7, <2>3
    <3> HIDE DEF K
    <3>2. c = K
      BY <3>1
    <3> QED
      BY <3>2 DEF K
  <2>4. c <= N \/ c > N
    BY <1>1
  <2>5. c < Len(m2) \/ c >= Len(m2)
    BY <1>7
  <2> QED
    BY <2>1, <2>2, <2>3, <2>4, <2>5
<1>12. ASSUME NEW c \in 1 .. Len(m2)
       PROVE  /\ m2[c].tag = "int" => m2[c].to = 0
              /\ m2[c].tag # "int" => m2[c].to = c + 1 /\ c + 1 \in 1 .. Len(m2)
  <2>1. CASE c \in 1 .. N
    <3>1. m2[c] = m[c]
      BY <1>5, <2>1
    <3>2. /\ m[c].tag = "int" => m[c].to = 0
          /\ m[c].tag # "int" => m[c].to = c + 1 /\ c + 1 \in 1 .. N
      BY <2>1 DEF Linked
    <3>3. c + 1 \in 1 .. N => c + 1 \in 1 .. Len(m2)
      BY <1>1, <1>2, <1>7
    <3> QED
      BY <3>1, <3>2, <3>3
  <2>2. CASE c = Len(m2)
    BY <1>9, <1>10, <2>2
  <2>3. ASSUME NEW n \in 1 .. Len(h), c = N + n
        PROVE  m2[c].tag # "int" /\ m2[c].to = c + 1 /\ c + 1 \in 1 .. Len(m2)
    <3>1. c + 1 \in 1 .. Len(m2)
      BY <1>1, <1>2, <1>7, <2>3
    <3> QED
      BY <1>8, <2>3, <3>1
  <2> QED
    BY <1>11, <2>1, <2>2, <2>3
<1>13. Linked(m2)
  BY <1>9, <1>10, <1>12 DEF Linked
<1>14. First(m2, N + 1)
  <2>1. N + 1 \in 1 .. Len(m2)
    BY <1>1, <1>2, <1>7
  <2>2. ASSUME NEW b \in 1 .. Len(m2), b + 1 = N + 1 PROVE m2[b].tag = "int"
    <3>1. b = N /\ N > 0 /\ N \in 1 .. N
      <4>1. b \in Nat /\ b > 0
        OBVIOUS
      <4> HIDE DEF N
      <4> QED
        BY <1>1, <2>2, <4>1
    <3>2. m2[N] = m[N] /\ m[N].tag = "int"
      BY <1>5, <3>1 DEF Linked
    <3> QED
      BY <3>1, <3>2
  <2> QED
    BY <2>1, <2>2 DEF First
<1>15. ASSUME NEW c, First(m, c) PROVE First(m2, c)
  <2>1. c \in 1 .. N /\ \A b \in 1 .. N : b + 1 = c => m[b].tag = "int"
    BY <1>15 DEF First
  <2>2. c \in 1 .. Len(m2)
    BY <1>1, <1>2, <1>7, <2>1
  <2>3. ASSUME NEW b \in 1 .. Len(m2), b + 1 = c PROVE m2[b].tag = "int"
    <3>1. b \in 1 .. N
      BY <1>1, <2>1, <2>3
    <3> QED
      BY <1>5, <2>1, <2>3, <3>1
  <2> QED
    BY <2>2, <2>3 DEF First
<1> QED
  BY <1>4, <1>13, <1>14, <1>15

\* Owned, over any number of pointers, by an immutable binding of ls.
OwnedFrom(ls, m) ==
    {c \in 1 .. Len(m) : \E i \in Live(ls) : /\ ~ls[i].mut /\ ls[i].cell <= c
                                            /\ \A b \in ls[i].cell .. (c - 1) : m[b].tag \in Owners}

LEMMA SharedFacts ==
    ASSUME NEW m \in Seq(MemCell), Linked(m)
    PROVE  /\ BehindShared(m) \subseteq 1 .. Len(m)
           /\ \A c \in 1 .. Len(m) : c + 1 \in BehindShared(m) =>
                 m[c].tag # "int" /\ (m[c].tag = "Ref" \/ c \in BehindShared(m))
           /\ \A c \in BehindShared(m) : m[c].tag # "int" => c + 1 \in BehindShared(m)
<1> DEFINE N == Len(m)
           L == BehindShared(m)
           In(d) == \E b \in 1 .. (d - 1) : m[b].tag = "Ref" /\ \A c \in b .. (d - 1) : m[c].to = c + 1
<1>1. N \in Nat /\ DOMAIN m = 1 .. N
  OBVIOUS
<1>2. \A d : d \in L <=> d \in 1 .. N /\ In(d)
  BY <1>1 DEF BehindShared
<1> HIDE DEF L
<1>3. \A c \in 1 .. N : /\ m[c].tag = "int" => m[c].to = 0
                        /\ m[c].tag # "int" => m[c].to = c + 1 /\ c + 1 \in 1 .. N
  BY DEF Linked
<1>4. ASSUME NEW c \in 1 .. N, c + 1 \in L PROVE m[c].tag # "int" /\ (m[c].tag = "Ref" \/ c \in L)
  <2>1. (c + 1) - 1 = c
    BY <1>1
  <2>2. PICK b \in 1 .. c : m[b].tag = "Ref" /\ \A d \in b .. c : m[d].to = d + 1
    BY <1>2, <1>4, <2>1
  <2>3. m[c].to = c + 1
    BY <1>1, <2>2
  <2>4. m[c].tag # "int"
    BY <1>1, <1>3, <2>3
  <2>5. CASE b = c
    BY <2>2, <2>4, <2>5
  <2>6. CASE b # c
    <3>1. b \in 1 .. (c - 1) /\ \A d \in b .. (c - 1) : d \in b .. c
      BY <1>1, <2>6
    <3>2. In(c)
      BY <2>2, <3>1
    <3> HIDE DEF In
    <3> QED
      BY <1>2, <2>4, <3>2
  <2> QED
    BY <2>5, <2>6
<1>5. ASSUME NEW c \in L, m[c].tag # "int" PROVE c + 1 \in L
  <2>1. c \in 1 .. N /\ In(c)
    BY <1>2
  <2>2. m[c].to = c + 1 /\ c + 1 \in 1 .. N /\ (c + 1) - 1 = c
    BY <1>1, <1>3, <1>5, <2>1
  <2>3. PICK b \in 1 .. (c - 1) : m[b].tag = "Ref" /\ \A d \in b .. (c - 1) : m[d].to = d + 1
    BY <2>1
  <2>4. b \in 1 .. c /\ \A d \in b .. c : d \in b .. (c - 1) \/ d = c
    BY <1>1, <2>1, <2>3
  <2>5. \A d \in b .. c : m[d].to = d + 1
    BY <2>2, <2>3, <2>4
  <2>6. In(c + 1)
    BY <2>2, <2>3, <2>4, <2>5
  <2> HIDE DEF In
  <2> QED
    BY <1>2, <2>2, <2>6
<1> QED
  BY <1>2, <1>4, <1>5 DEF L

LEMMA OwnedFromFacts ==
    ASSUME NEW m \in Seq(MemCell), Linked(m), NEW ls, \A i \in Live(ls) : First(m, ls[i].cell)
    PROVE  /\ \A c \in 1 .. Len(m) : c + 1 \in OwnedFrom(ls, m) /\ m[c].tag # "int" =>
                 m[c].tag \in Owners /\ c \in OwnedFrom(ls, m)
           /\ \A c \in OwnedFrom(ls, m) : m[c].tag \in Owners => c + 1 \in OwnedFrom(ls, m)
           /\ \A i \in Live(ls) : ~ls[i].mut => ls[i].cell \in OwnedFrom(ls, m)
           /\ \A i \in Live(ls) : ls[i].cell \in OwnedFrom(ls, m) =>
                 \E j \in Live(ls) : ~ls[j].mut /\ ls[j].cell = ls[i].cell
<1> DEFINE N == Len(m)
           O == OwnedFrom(ls, m)
           From(i, c) == /\ ~ls[i].mut /\ ls[i].cell <= c
                         /\ \A b \in ls[i].cell .. (c - 1) : m[b].tag \in Owners
<1>1. N \in Nat
  OBVIOUS
<1>2. \A c : c \in O <=> c \in 1 .. N /\ \E i \in Live(ls) : From(i, c)
  BY DEF OwnedFrom
<1> HIDE DEF O
<1>3. "int" \notin Owners
  BY DEF Owners
<1>4. \A i \in Live(ls) : ls[i].cell \in 1 .. N /\ \A b \in 1 .. N : b + 1 = ls[i].cell => m[b].tag = "int"
  BY DEF First
<1>5. ASSUME NEW c \in 1 .. N, c + 1 \in O, m[c].tag # "int" PROVE m[c].tag \in Owners /\ c \in O
  <2>1. PICK i \in Live(ls) : From(i, c + 1)
    BY <1>2, <1>5
  <2>2. ls[i].cell \in 1 .. N /\ ls[i].cell # c + 1
    BY <1>4, <1>5
  <2>3. ls[i].cell <= c /\ (c + 1) - 1 = c /\ c \in ls[i].cell .. c
        /\ \A b \in ls[i].cell .. (c - 1) : b \in ls[i].cell .. c
    BY <1>1, <2>1, <2>2
  <2>4. m[c].tag \in Owners /\ From(i, c)
    BY <2>1, <2>3
  <2> HIDE DEF From
  <2> QED
    BY <1>2, <2>4
<1>6. ASSUME NEW c \in O, m[c].tag \in Owners PROVE c + 1 \in O
  <2>1. PICK i \in Live(ls) : From(i, c)
    BY <1>2
  <2>2. c \in 1 .. N /\ c + 1 \in 1 .. N
    BY <1>2, <1>3, <1>6 DEF Linked
  <2>3. ls[i].cell \in 1 .. N /\ ls[i].cell <= c + 1 /\ (c + 1) - 1 = c
        /\ \A b \in ls[i].cell .. c : b \in ls[i].cell .. (c - 1) \/ b = c
    BY <1>1, <1>4, <2>1, <2>2
  <2>4. From(i, c + 1)
    BY <1>6, <2>1, <2>3
  <2> HIDE DEF From
  <2> QED
    BY <1>2, <2>2, <2>4
<1>7. ASSUME NEW i \in Live(ls), ~ls[i].mut PROVE ls[i].cell \in O
  <2>1. ls[i].cell \in 1 .. N
    BY <1>4
  <2>2. From(i, ls[i].cell)
    BY <1>1, <1>7, <2>1
  <2> HIDE DEF From
  <2> QED
    BY <1>2, <2>1, <2>2
<1>8. ASSUME NEW i \in Live(ls), ls[i].cell \in O
      PROVE  \E j \in Live(ls) : ~ls[j].mut /\ ls[j].cell = ls[i].cell
  <2>1. PICK j \in Live(ls) : From(j, ls[i].cell)
    BY <1>2, <1>8
  <2>2. ls[i].cell \in 1 .. N /\ ls[j].cell \in 1 .. N
    BY <1>4
  <2>3. ls[j].cell = ls[i].cell
    <3> SUFFICES ASSUME ls[j].cell # ls[i].cell PROVE FALSE
      OBVIOUS
    <3> DEFINE b == ls[i].cell - 1
    <3>1. b \in 1 .. N /\ b + 1 = ls[i].cell /\ b \in ls[j].cell .. (ls[i].cell - 1)
      BY <1>1, <2>1, <2>2
    <3>2. m[b].tag = "int"
      BY <1>4, <3>1
    <3>3. m[b].tag \in Owners
      BY <2>1, <3>1
    <3> QED
      BY <1>3, <3>2, <3>3
  <2> QED
    BY <2>1, <2>3
<1> QED
  BY <1>5, <1>6, <1>7, <1>8 DEF O

LEMMA LinkedApart ==
    ASSUME NEW m \in Seq(MemCell), Linked(m), NEW ls \in Seq(Binding),
           \A i \in Live(ls) : First(m, ls[i].cell), Distinct(ls)
    PROVE  \E F : Apart(ls, m, {}, BehindShared(m), F)
<1> DEFINE N == Len(m)
           L == BehindShared(m)
           O == OwnedFrom(ls, m)
           F == L \cup O
<1>1. /\ N \in Nat
      /\ \A c \in 1 .. N : /\ m[c].tag = "int" => m[c].to = 0
                           /\ m[c].tag # "int" => m[c].to = c + 1 /\ c + 1 \in 1 .. N
  BY DEF Linked
<1>2. /\ L \subseteq 1 .. N
      /\ \A c \in 1 .. N : c + 1 \in L => m[c].tag # "int" /\ (m[c].tag = "Ref" \/ c \in L)
      /\ \A c \in L : m[c].tag # "int" => c + 1 \in L
  BY SharedFacts
<1>3. \A c \in 1 .. N : c + 1 \in O /\ m[c].tag # "int" => m[c].tag \in Owners /\ c \in O
  BY OwnedFromFacts
<1>4. \A c \in O : m[c].tag \in Owners => c + 1 \in O
  BY OwnedFromFacts
<1>5. \A i \in Live(ls) : ~ls[i].mut => ls[i].cell \in O
  BY OwnedFromFacts
<1>6. \A i \in Live(ls) : ls[i].cell \in O => \E j \in Live(ls) : ~ls[j].mut /\ ls[j].cell = ls[i].cell
  BY OwnedFromFacts
<1>7. O \subseteq 1 .. N
  BY DEF OwnedFrom
<1>8. "int" \notin Owners \cup Refs /\ "Ref" \notin Owners /\ "RefMut" \notin Owners /\ "RefMut" # "int" /\ "RefMut" # "Ref"
  BY DEF Owners, Refs
<1>9. \A i \in Live(ls) : ls[i].cell \in 1 .. N /\ \A b \in 1 .. N : b + 1 = ls[i].cell => m[b].tag = "int"
  BY DEF First
<1> HIDE DEF L, O, N
<1>10. Pointing(m)
  BY <1>1 DEF Pointing, N
<1>11. Known(m, {}, L, F)
  BY <1>1, <1>2, <1>7 DEF Known, N
<1>12. Guarded(m, {}, L, F)
  <2> SUFFICES ASSUME NEW c \in 1 .. N
               PROVE  /\ m[c].tag = "RefMut" /\ c \notin L => m[c].to \notin F
                      /\ m[c].tag \in Owners /\ c \notin F => m[c].to \notin F
                      /\ m[c].tag \in Owners \cup {"RefMut"} /\ c \notin L => m[c].to \notin L
    BY DEF Guarded, N
  <2>1. m[c].tag \in Owners \cup {"RefMut"} => m[c].tag # "int" /\ m[c].tag # "Ref" /\ m[c].to = c + 1
    BY <1>1, <1>8
  <2>2. m[c].tag \in Owners \cup {"RefMut"} /\ c \notin L => c + 1 \notin L
    BY <1>2, <2>1
  <2>3. m[c].tag = "RefMut" => c + 1 \notin O
    BY <1>3, <1>8
  <2>4. m[c].tag \in Owners /\ c \notin O => c + 1 \notin O
    BY <1>3, <2>1
  <2> QED
    BY <2>1, <2>2, <2>3, <2>4
<1>13. Closed(m, {}, F)
  <2> SUFFICES ASSUME NEW c \in 1 .. N, m[c].tag \in Owners, c \in F PROVE m[c].to \in F
    BY DEF Closed, N
  <2>1. m[c].tag # "int" /\ m[c].to = c + 1
    BY <1>1, <1>8
  <2> QED
    BY <1>2, <1>4, <2>1
<1>14. Single(m, {})
  <2> SUFFICES ASSUME NEW c \in 1 .. N, NEW d \in 1 .. N, m[c].tag \in Owners, m[d].tag \in Owners,
                      m[c].to = m[d].to
               PROVE  c = d
    BY DEF Single, N
  <2>1. m[c].to = c + 1 /\ m[d].to = d + 1
    BY <1>1, <1>8
  <2>2. c + 1 = d + 1
    BY <2>1
  <2>3. c \in Int /\ d \in Int
    OBVIOUS
  <2> QED
    BY <2>2, <2>3
<1>15. ASSUME NEW i \in Live(ls) PROVE Root(ls[i], m, {}, L, F)
  <2> DEFINE cell == ls[i].cell
  <2>1. cell \in 1 .. N /\ \A b \in 1 .. N : b + 1 = cell => m[b].tag = "int"
    BY <1>9
  <2>2. cell \notin L
    <3> SUFFICES ASSUME cell \in L PROVE FALSE
      OBVIOUS
    <3> DEFINE b == cell - 1
    <3>1. b \in 1 .. N /\ b + 1 = cell
      <4>1. L = BehindShared(m) /\ DOMAIN m = 1 .. N
        BY DEF L, N
      <4>2. \E d \in 1 .. (cell - 1) : m[d].tag = "Ref"
        BY <4>1 DEF BehindShared
      <4> QED
        BY <1>1, <2>1, <4>2
    <3>2. m[b].tag = "int" /\ m[b].tag # "int"
      BY <1>2, <2>1, <3>1
    <3> QED
      BY <3>2
  <2>3. NotOwned(m, {}, cell)
    <3> SUFFICES ASSUME NEW c \in 1 .. N, m[c].tag \in Owners PROVE m[c].to # cell
      BY DEF NotOwned, N
    <3>1. m[c].tag # "int" /\ m[c].to = c + 1
      BY <1>1, <1>8
    <3> QED
      BY <2>1, <3>1
  <2>4. ls[i].mut => cell \notin O
    <3> SUFFICES ASSUME ls[i].mut, cell \in O PROVE FALSE
      OBVIOUS
    <3>1. PICK j \in Live(ls) : ~ls[j].mut /\ ls[j].cell = cell
      BY <1>6
    <3>2. j = i
      BY <3>1 DEF Distinct
    <3> QED
      BY <3>1, <3>2
  <2>5. ~ls[i].mut => cell \in O
    BY <1>5
  <2> QED
    BY <2>1, <2>2, <2>3, <2>4, <2>5 DEF Root, N
<1>16. Apart(ls, m, {}, L, F)
  BY <1>10, <1>11, <1>12, <1>13, <1>14, <1>15 DEF Apart
<1> QED
  BY <1>16 DEF L

LEMMA ParamDepth ==
    ASSUME NEW params, params \in Params
    PROVE  \A i \in 1 .. Len(params) : Len(params[i].ty) <= MaxDepth
<1> DEFINE R == [mut : BOOLEAN, ty : Types]
<1>1. params \in Seq(R)
  BY DEF Params
<1>2. \A r \in R : r.ty \in Types
  OBVIOUS
<1>3. \A ty \in Types : Len(ty) <= MaxDepth
  BY DEF Types
<1> HIDE DEF R
<1>4. \A i \in 1 .. Len(params) : params[i] \in R
  BY <1>1
<1> QED
  BY <1>2, <1>3, <1>4

LEMMA InitApart ==
    ASSUME Init
    PROVE  Protected(locals, mem, lent)
<1>1. PICK f \in Functions :
        /\ locals = [i \in DOMAIN f.params |->
                        Local(f.params[i].mut, f.params[i].ty, Len(Memory(f.params)[i - 1]) + 1)]
        /\ mem = Memory(f.params)[Len(f.params)]
  BY DEF Init
<1> DEFINE params == f.params
           N == Len(params)
           m(i) == Memory(params)[i]
           at(j) == Len(m(j - 1)) + 1
<1>2. params \in Params
  BY PlacesAssumption DEF Params
<1>3. N \in Nat /\ DOMAIN params = 1 .. N /\ \A i \in 1 .. N : params[i].mut \in BOOLEAN /\ params[i].ty \in Ty
  BY <1>2, ParamFacts
<1>4. m(0) = <<>> /\ \A i \in 1 .. N : m(i) = m(i - 1) \o Chain(Len(m(i - 1)) + 1, params[i].ty)
  BY <1>2, MemoryGrows
<1>5. locals = [i \in 1 .. N |-> Local(params[i].mut, params[i].ty, at(i))] /\ mem = m(N)
  BY <1>1, <1>3
<1>6. \A i \in 1 .. N : Len(params[i].ty) <= MaxDepth
  BY <1>2, ParamDepth
<1> HIDE DEF params, N, m
<1> DEFINE Good(i) == /\ m(i) \in Seq(MemCell) /\ Linked(m(i))
                      /\ \A j \in 1 .. i : First(m(i), at(j))
           S == {i \in 0 .. N : Good(i)}
<1>7. 0 \in S
  <2>1. <<>> \in Seq(MemCell) /\ Len(<<>>) = 0 /\ 1 .. 0 = {}
    BY EmptySeq
  <2>2. Linked(<<>>)
    BY <2>1 DEF Linked
  <2>3. m(0) \in Seq(MemCell) /\ Linked(m(0))
    BY <1>4, <2>1, <2>2
  <2>4. Good(0)
    <3> HIDE DEF at
    <3> QED
      BY <2>1, <2>3
  <2>5. 0 \in 0 .. N
    BY <1>3
  <2> HIDE DEF Good
  <2> QED
    BY <2>4, <2>5
<1>8. ASSUME NEW i \in 0 .. N - 1, i \in S PROVE i + 1 \in S
  <2>1. i + 1 \in 1 .. N /\ (i + 1) - 1 = i /\ i + 1 \in 0 .. N
    BY <1>3
  <2>2. m(i) \in Seq(MemCell) /\ Linked(m(i)) /\ \A j \in 1 .. i : First(m(i), at(j))
    BY <1>8
  <2>3. m(i + 1) = m(i) \o Chain(Len(m(i)) + 1, params[i + 1].ty) /\ params[i + 1].ty \in Ty
    BY <1>3, <1>4, <2>1
  <2> DEFINE a == m(i)
             b == m(i + 1)
             t == params[i + 1].ty
             first == Len(a) + 1
  <2>4. a \in Seq(MemCell) /\ Linked(a) /\ t \in Ty /\ b = a \o Chain(first, t) /\ first \in Nat /\ first - 1 = Len(a)
    BY <2>2, <2>3
  <2> HIDE DEF a, b, t, first
  <2>5. b \in Seq(MemCell) /\ Linked(b) /\ First(b, first)
    <3>1. b \in Seq(MemCell)
      BY <2>4, LinkedChain
    <3>2. Linked(b)
      BY <2>4, LinkedChain
    <3>3. First(b, first)
      BY <2>4, LinkedChain
    <3> QED
      BY <3>1, <3>2, <3>3
  <2>6. \A c : First(a, c) => First(b, c)
    BY <2>4, LinkedChain
  <2>7. at(i + 1) = first
    BY <2>1 DEF a, first
  <2> HIDE DEF at
  <2>8. \A j \in 1 .. i + 1 : First(b, at(j))
    <3> TAKE j \in 1 .. i + 1
    <3>1. CASE j = i + 1
      BY <2>5, <2>7, <3>1
    <3>2. CASE j \in 1 .. i
      BY <2>2, <2>6, <3>2 DEF a
    <3> QED
      BY <1>3, <3>1, <3>2
  <2> QED
    BY <2>1, <2>5, <2>8 DEF b
<1>9. 0 .. N \subseteq S
  <2> HIDE DEF S
  <2> QED
    BY <1>3, <1>7, <1>8, UpwardInduction
<1>10. ASSUME NEW i \in 0 .. N PROVE Good(i)
  BY <1>9
<1>11. Good(N) /\ Len(mem) \in Nat
  <2>1. N \in 0 .. N
    BY <1>3
  <2>2. Good(N)
    BY <1>10, <2>1
  <2> QED
    BY <1>5, <2>2
<1>12. ASSUME NEW i \in 1 .. N
       PROVE  /\ locals[i] \in Binding /\ locals[i].cell = at(i) /\ locals[i].ty = params[i].ty
              /\ First(mem, at(i))
  <2>1. First(m(N), at(i))
    BY <1>11
  <2>2. at(i) \in Nat
    BY <1>5, <1>11, <2>1 DEF First
  <2>3. locals[i] = Local(params[i].mut, params[i].ty, at(i))
    BY <1>5
  <2> HIDE DEF at
  <2> QED
    BY <1>3, <1>5, <2>1, <2>2, <2>3 DEF Local, Binding
<1>13. locals \in Seq(Binding) /\ DOMAIN locals = 1 .. N
  <2>1. DOMAIN locals = 1 .. N /\ locals = [i \in 1 .. N |-> locals[i]]
    BY <1>5
  <2>2. locals \in [1 .. N -> Binding]
    BY <1>12, <2>1
  <2> QED
    BY <1>3, <2>1, <2>2
<1>14. ASSUME NEW j \in 1 .. N, NEW k \in 1 .. N, j < k PROVE at(j) < at(k)
  <2>1. k - 1 \in 0 .. N /\ j \in 1 .. k - 1
    BY <1>3, <1>14
  <2>2. Good(k - 1)
    BY <1>10, <2>1
  <2>3. First(m(k - 1), at(j)) /\ Len(m(k - 1)) \in Nat
    BY <2>1, <2>2
  <2>4. at(j) \in 1 .. Len(m(k - 1))
    BY <2>3 DEF First
  <2> DEFINE x == at(j)
             y == Len(m(k - 1))
  <2>5. x \in 1 .. y /\ y \in Nat /\ at(k) = y + 1
    BY <2>3, <2>4
  <2> HIDE DEF x, y, at
  <2>6. x < y + 1
    BY <2>5
  <2> QED
    BY <2>5, <2>6 DEF x
<1>15. Distinct(locals)
  <2> SUFFICES ASSUME NEW i \in Live(locals), NEW j \in Live(locals), locals[i].cell = locals[j].cell
               PROVE  i = j
    BY DEF Distinct
  <2>1. i \in 1 .. N /\ j \in 1 .. N
    BY <1>13 DEF Live
  <2>2. at(i) = at(j) /\ at(i) \in Nat
    BY <1>12, <2>1 DEF First
  <2>3. ~(i < j) /\ ~(j < i)
    <3> HIDE DEF at
    <3> QED
      BY <1>14, <2>1, <2>2
  <2> QED
    BY <1>3, <2>1, <2>3
<1>16. \A i \in Live(locals) : First(mem, locals[i].cell)
  BY <1>12, <1>13 DEF Live
<1>17. \E F : Apart(locals, mem, {}, lent, F)
  <2>1. lent = BehindShared(mem)
    BY DEF Init
  <2>2. mem \in Seq(MemCell) /\ Linked(mem)
    BY <1>5, <1>11
  <2> QED
    BY <1>13, <1>15, <1>16, <2>1, <2>2, LinkedApart
<1>18. Shallow(locals)
  BY <1>6, <1>12, <1>13 DEF Shallow
<1> QED
  BY <1>17, <1>18 DEF Protected

-----------------------------------------------------------------------------
(* What holds of every function *)

TypeSafe == Typed(locals, mem)
KeptApart == Protected(locals, mem, lent)

\* Types can be given to all cells so that every binding's cell has what its type holds
\* and every pointer leads to a cell of the type it points to: whatever statements the
\* checker accepts, the lowered code stores and adjusts values of the recorded types.
THEOREM MemoryIsTyped == Spec => []TypeSafe
<1>1. Init => TypeSafe
  BY InitTyped DEF TypeSafe
<1>2. TypeSafe /\ [Next]_vars => TypeSafe'
  BY NextTyped DEF TypeSafe
<1> QED
  BY <1>1, <1>2, PTL DEF Spec

\* The adjustments recorded for a coercion dereference as often as it crosses levels:
\* what memory holds for a binding matches its type, reference by reference.
THEOREM PointersAreFollowed == Spec => []ValuesFitTypes
<1>1. TypeSafe => ValuesFitTypes
  BY TypedFits DEF TypeSafe
<1> QED
  BY <1>1, MemoryIsTyped, PTL

\* writable and mutable_access_blocked, carried along any path through references, boxes,
\* fields, arrays and vectors, decide every borrow, coercion, assignment and method call
\* as the language does: what is accepted is sound, and what is sound is accepted.
THEOREM TwoBitsSuffice == Spec => []AcceptsTheSound
<1>1. Init => AcceptsTheSound
  BY InitTyped
<1>2. TypeSafe /\ AcceptsTheSound /\ [Next]_vars => AcceptsTheSound'
  <2> SUFFICES ASSUME TypeSafe, AcceptsTheSound, [Next]_vars PROVE AcceptsTheSound'
    OBVIOUS
  <2>1. CASE Next
    BY <2>1, VerdictKept DEF TypeSafe, Typed
  <2>2. CASE UNCHANGED vars
    BY <2>2 DEF vars, AcceptsTheSound
  <2> QED
    BY <2>1, <2>2
<1> QED
  BY <1>1, <1>2, MemoryIsTyped, PTL DEF Spec

\* Memory stays apart, and what is frozen in it is left alone.
LEMMA NextProtected ==
    ASSUME TypeSafe, KeptApart, [Next]_vars
    PROVE  KeptApart' /\ \A c \in Frozen : mem'[c] = mem[c]
<1>1. CASE UNCHANGED vars
  <2>1. locals' = locals /\ mem' = mem /\ lent' = lent
    BY <1>1 DEF vars
  <2> QED
    BY <2>1 DEF KeptApart, Protected, Shallow
<1>2. CASE Next
  <2>1. PICK G, F : Apart(locals, mem, G, lent, F)
    BY DEF KeptApart, Protected
  <2>2. Typed(locals, mem) /\ Shallow(locals)
    BY DEF TypeSafe, KeptApart, Protected
  <2>3. /\ Shallow(locals') /\ \E G2, F2 : Apart(locals', mem', G2, lent, F2)
        /\ Unchanged(F) /\ lent' = lent
    BY <1>2, <2>1, <2>2, NextApart
  <2>4. Frozen \subseteq F
    BY <2>1, <2>2, FrozenIsKept
  <2>5. Protected(locals', mem', lent')
    BY <2>3 DEF Protected
  <2>6. KeptApart'
    BY <2>5 DEF KeptApart
  <2> QED
    BY <2>3, <2>4, <2>6 DEF Unchanged
<1> QED
  BY <1>1, <1>2

\* The value of an immutable binding with all it owns, and what the caller has lent for
\* reading, never changes, whatever statements the checker accepts: mutable references,
\* boxes and vectors of any depth never lead to it, because memory is kept apart.
THEOREM NothingFrozenChanges == Spec => FrozenStays
<1>1. Init => KeptApart
  BY InitApart DEF KeptApart
<1>2. TypeSafe /\ KeptApart /\ [Next]_vars => KeptApart'
  BY NextProtected
<1>3. TypeSafe /\ KeptApart /\ [Next]_vars => [\A c \in Frozen : mem'[c] = mem[c]]_vars
  BY NextProtected
<1> QED
  BY <1>1, <1>2, <1>3, MemoryIsTyped, PTL DEF Spec, FrozenStays
=============================================================================
