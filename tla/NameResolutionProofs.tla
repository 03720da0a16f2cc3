-------------------------- MODULE NameResolutionProofs --------------------------
(* NameResolution, proved for every crate: the passes never panic, bind each use *)
(* to what lexical scoping says, report exactly the faults, and leave nothing    *)
(* unbound in a crate they accept.  The tasks of a walk are sorted, so a node is *)
(* dealt with exactly when it is not pending; the tables, the scopes and the     *)
(* bindings are described as functions of what has been dealt with.              *)
EXTENDS NameResolution, InductionLemmas, SequenceTheorems, TLAPS

Path == Seq(Nat \ {0})

\* q is strictly below p; p is left of q.
Under(p, q) == Len(p) < Len(q) /\ \A k \in 1 .. Len(p) : q[k] = p[k]
Left(p, q) == \E k \in 1 .. Len(p) : k <= Len(q) /\ p[k] < q[k] /\ \A j \in 1 .. (k - 1) : p[j] = q[j]

\* A path is a sequence of places among the children, counted from one.
LEMMA PathFacts ==
    ASSUME NEW p \in Path
    PROVE  Len(p) \in Nat /\ DOMAIN p = 1 .. Len(p) /\ \A k \in 1 .. Len(p) : p[k] \in Nat \ {0}
BY DEF Path

\* The path of a child is one longer than its parent's.
LEMMA ChildFacts ==
    ASSUME NEW p \in Path, NEW i \in Nat \ {0}
    PROVE  /\ Append(p, i) \in Path /\ Len(Append(p, i)) = Len(p) + 1
           /\ \A k \in 1 .. Len(p) : Append(p, i)[k] = p[k]
           /\ Append(p, i)[Len(p) + 1] = i
           /\ Front(Append(p, i)) = p /\ Last(Append(p, i)) = i
           /\ Append(p, i) # <<>>
BY DEF Path, Front, Last

\* Paths with the same elements are the same.
LEMMA PathEqual ==
    ASSUME NEW p \in Path, NEW q \in Path, Len(p) = Len(q), \A k \in 1 .. Len(p) : p[k] = q[k]
    PROVE  p = q
BY DEF Path

\* The path of a parent, and the place of a node in it.
LEMMA FrontFacts ==
    ASSUME NEW p \in Path, p # <<>>
    PROVE  /\ Front(p) \in Path /\ Len(Front(p)) = Len(p) - 1 /\ Last(p) \in Nat \ {0} /\ Last(p) = p[Len(p)]
           /\ Len(p) >= 1
           /\ \A k \in 1 .. Len(p) - 1 : Front(p)[k] = p[k]
           /\ p = Append(Front(p), Last(p))
<1>1. Len(p) \in Nat /\ Len(p) >= 1 /\ Len(p) \in 1 .. Len(p)
  BY DEF Path
<1>2. Front(p) \in Path /\ Len(Front(p)) = Len(p) - 1 /\ \A k \in 1 .. Len(p) - 1 : Front(p)[k] = p[k]
  <2> DEFINE n == Len(p) - 1
  <2>1. \A k \in 1 .. n : p[k] \in Nat \ {0}
    BY <1>1, PathFacts
  <2>2. n \in Int /\ n >= 0 /\ 1 \in Int
    BY <1>1
  <2>3. Front(p) = SubSeq(p, 1, n)
    BY DEF Front
  <2> HIDE DEF n
  <2>4. /\ SubSeq(p, 1, n) \in Seq(Nat \ {0})
        /\ Len(SubSeq(p, 1, n)) = IF 1 <= n THEN n - 1 + 1 ELSE 0
        /\ \A k \in 1 .. n - 1 + 1 : SubSeq(p, 1, n)[k] = p[1 + k - 1]
    BY <2>1, <2>2, SubSeqProperties
  <2>5. Len(SubSeq(p, 1, n)) = n
    BY <2>2, <2>4
  <2>6. \A k \in 1 .. n : k \in 1 .. n - 1 + 1 /\ 1 + k - 1 = k
    BY <2>2
  <2>7. \A k \in 1 .. n : SubSeq(p, 1, n)[k] = p[k]
    BY <2>4, <2>6
  <2> QED
    BY <2>3, <2>4, <2>5, <2>7 DEF Path, n
<1>3. \A k \in 1 .. Len(p) - 1 : Front(p)[k] = p[k]
  BY <1>2
<1>4. Last(p) \in Nat \ {0} /\ Last(p) = p[Len(p)]
  BY <1>1, PathFacts DEF Last
<1>5. p = Append(Front(p), Last(p))
  <2> DEFINE q == Append(Front(p), Last(p))
  <2>1. q \in Path /\ Len(q) = Len(p) /\ q[Len(p)] = p[Len(p)]
    BY <1>1, <1>2, <1>4, ChildFacts
  <2>2. \A k \in 1 .. Len(p) - 1 : q[k] = p[k]
    BY <1>1, <1>2, <1>3, <1>4, ChildFacts
  <2> HIDE DEF q
  <2>3. \A k \in 1 .. Len(p) : q[k] = p[k]
    BY <1>1, <2>1, <2>2
  <2>4. p = q
    BY <2>1, <2>3, PathEqual
  <2> QED
    BY <2>4 DEF q
<1> QED
  BY <1>1, <1>2, <1>3, <1>4, <1>5

\* What is below a node below p is below p.
LEMMA UnderUnder ==
    ASSUME NEW p \in Path, NEW q \in Path, NEW r \in Path, Under(p, q), Under(q, r)
    PROVE  Under(p, r)
BY PathFacts DEF Under

\* What is below a node left of q is left of q.
LEMMA LeftUnder ==
    ASSUME NEW p \in Path, NEW q \in Path, NEW r \in Path, Left(p, q), Under(p, r)
    PROVE  Left(r, q)
BY PathFacts DEF Under, Left

\* What is below a node is right of what the node is right of.
LEMMA UnderLeft ==
    ASSUME NEW p \in Path, NEW q \in Path, NEW r \in Path, Left(q, p), Under(p, r)
    PROVE  Left(q, r)
BY PathFacts DEF Under, Left

\* Left excludes every other order.
LEMMA LeftApart ==
    ASSUME NEW p \in Path, NEW q \in Path, Left(p, q)
    PROVE  p # q /\ ~Under(p, q) /\ ~Under(q, p) /\ ~Left(q, p)
BY PathFacts DEF Under, Left

\* Below is strict.
LEMMA UnderApart ==
    ASSUME NEW p \in Path, NEW q \in Path, Under(p, q)
    PROVE  p # q /\ ~Under(q, p)
BY PathFacts DEF Under

\* Directly below is below, and what is below is below a child.
LEMMA UnderChild ==
    ASSUME NEW p \in Path, NEW i \in Nat \ {0}
    PROVE  Under(p, Append(p, i))
BY ChildFacts, PathFacts DEF Under

\* What p is above, p is the parent of or above the parent of.
LEMMA UnderFront ==
    ASSUME NEW p \in Path, NEW q \in Path, Under(p, q)
    PROVE  q # <<>> /\ (p = Front(q) \/ Under(p, Front(q)))
<1>1. Len(p) \in Nat /\ Len(q) \in Nat /\ Len(p) < Len(q) /\ Len(p) <= Len(q) - 1
  BY PathFacts DEF Under
<1>2. q # <<>>
  BY <1>1
<1>3. Front(q) \in Path /\ Len(Front(q)) = Len(q) - 1 /\ \A k \in 1 .. Len(q) - 1 : Front(q)[k] = q[k]
  BY <1>2, FrontFacts
<1>4. \A k \in 1 .. Len(p) : Front(q)[k] = p[k]
  BY <1>1, <1>3 DEF Under
<1>5. CASE Len(p) = Len(q) - 1
  BY <1>3, <1>4, <1>5, PathEqual, <1>2
<1>6. CASE Len(p) < Len(q) - 1
  BY <1>2, <1>3, <1>4, <1>6 DEF Under
<1> QED
  BY <1>1, <1>5, <1>6

\* A node is below its parent.
LEMMA FrontUnder ==
    ASSUME NEW q \in Path, q # <<>>
    PROVE  Under(Front(q), q)
BY FrontFacts, PathFacts DEF Under

\* The child of p on the way to q.
Toward(p, q) == Append(p, q[Len(p) + 1])

\* The child of p that leads to q.
LEMMA TowardFacts ==
    ASSUME NEW p \in Path, NEW q \in Path, Under(p, q)
    PROVE  /\ Toward(p, q) \in Path /\ q[Len(p) + 1] \in Nat \ {0}
           /\ Toward(p, q) = q \/ Under(Toward(p, q), q)
<1> DEFINE i == q[Len(p) + 1]
           c == Toward(p, q)
<1>1. Len(p) \in Nat /\ Len(q) \in Nat /\ Len(p) < Len(q) /\ Len(p) + 1 \in 1 .. Len(q)
  BY PathFacts DEF Under
<1>2. i \in Nat \ {0}
  BY <1>1, PathFacts
<1>3. c \in Path /\ Len(c) = Len(p) + 1 /\ c[Len(p) + 1] = i /\ \A k \in 1 .. Len(p) : c[k] = p[k]
  BY <1>2, ChildFacts DEF Toward
<1> HIDE DEF c
<1>4. \A k \in 1 .. Len(c) : c[k] = q[k]
  <2>1. \A k \in 1 .. Len(p) : q[k] = p[k]
    BY DEF Under
  <2>2. \A k \in 1 .. Len(c) : k \in 1 .. Len(p) \/ k = Len(p) + 1
    BY <1>1, <1>3
  <2> QED
    BY <1>3, <2>1, <2>2
<1>5. CASE Len(c) = Len(q)
  <2>1. c = q
    BY <1>3, <1>4, <1>5, PathEqual
  <2> QED
    BY <1>2, <1>3, <2>1 DEF c
<1>6. CASE Len(c) < Len(q)
  <2>1. Under(c, q)
    BY <1>4, <1>6 DEF Under
  <2> QED
    BY <1>2, <1>3, <2>1 DEF c
<1> QED
  BY <1>1, <1>3, <1>5, <1>6

\* Children stand in the order of their places.
LEMMA LeftChildren ==
    ASSUME NEW p \in Path, NEW i \in Nat \ {0}, NEW j \in Nat \ {0}, i < j
    PROVE  Left(Append(p, i), Append(p, j))
<1> DEFINE c == Append(p, i)
           d == Append(p, j)
<1>1. Len(p) \in Nat /\ Len(c) = Len(p) + 1 /\ Len(d) = Len(p) + 1
      /\ c[Len(p) + 1] = i /\ d[Len(p) + 1] = j
      /\ \A k \in 1 .. Len(p) : c[k] = p[k] /\ d[k] = p[k]
  BY ChildFacts, PathFacts
<1> HIDE DEF c, d
<1>2. Left(c, d)
  <2>1. Len(p) + 1 \in 1 .. Len(c) /\ (Len(p) + 1) - 1 = Len(p)
    BY <1>1
  <2> QED
    BY <1>1, <2>1 DEF Left
<1> QED
  BY <1>2 DEF c, d

\* What is left of a child is left of the parent, or below the parent.
LEMMA ChildLeft ==
    ASSUME NEW p \in Path, NEW i \in Nat \ {0}, NEW r \in Path, Left(Append(p, i), r)
    PROVE  Left(p, r) \/ Under(p, r)
<1> DEFINE c == Append(p, i)
<1>1. Len(p) \in Nat /\ Len(c) = Len(p) + 1 /\ \A k \in 1 .. Len(p) : c[k] = p[k]
  BY ChildFacts, PathFacts
<1>2. PICK k \in 1 .. Len(c) : k <= Len(r) /\ c[k] < r[k] /\ \A j \in 1 .. (k - 1) : c[j] = r[j]
  BY DEF Left
<1> HIDE DEF c
<1>3. CASE k \in 1 .. Len(p)
  <2>1. p[k] < r[k] /\ \A j \in 1 .. (k - 1) : p[j] = r[j]
    BY <1>1, <1>2, <1>3
  <2> QED
    BY <1>2, <1>3, <2>1 DEF Left
<1>4. CASE k = Len(p) + 1
  <2>1. Len(r) \in Nat /\ Len(p) < Len(r) /\ k - 1 = Len(p)
    BY <1>1, <1>2, <1>4, PathFacts
  <2> QED
    BY <1>1, <1>2, <2>1 DEF Under
<1> QED
  BY <1>1, <1>3, <1>4

-----------------------------------------------------------------------------
(* The tasks of a pass: the rest of a walk over the tree *)

Tasks == [do : {"visit", "leave", "close", "bind"}, at : Path]
TasksIn(s) == {s[k] : k \in 1 .. Len(s)}

\* t comes after s: t is to the right of s, or finishes a node that s is below.
Ordered(s, t) == IF t.do = "visit" THEN Left(s.at, t.at) ELSE Under(t.at, s.at)
Sorted(s) == s \in Seq(Tasks) /\ \A k, l \in 1 .. Len(s) : k < l => Ordered(s[k], s[l])

\* A visit of r is still to come.
Pending(s, r) == \E t \in TasksIn(s) : t.do = "visit" /\ (t.at = r \/ Under(t.at, r))

\* What stands in for the visit of p: visits of children, and what finishes p.
Fan(s, p) == /\ Sorted(s)
             /\ \A t \in TasksIn(s) : IF t.do = "visit" THEN t.at # <<>> /\ Front(t.at) = p ELSE t.at = p

\* The tasks of a sorted stack, and its head.
LEMMA TaskFacts ==
    ASSUME NEW s, Sorted(s)
    PROVE  /\ Len(s) \in Nat /\ \A t \in TasksIn(s) : t \in Tasks /\ t.at \in Path
           /\ s # <<>> => Len(s) >= 1 /\ Head(s) = s[1] /\ Head(s) \in TasksIn(s)
<1>1. s \in Seq(Tasks)
  BY DEF Sorted
<1>2. Len(s) \in Nat /\ \A k \in 1 .. Len(s) : s[k] \in Tasks
  BY <1>1, ElementOfSeq
<1>3. \A t \in Tasks : t.at \in Path
  BY DEF Tasks
<1>4. \A t \in TasksIn(s) : t \in Tasks
  BY <1>2 DEF TasksIn
<1>5. s # <<>> => Len(s) >= 1 /\ Head(s) = s[1]
  BY <1>1
<1>6. s # <<>> => s[1] \in TasksIn(s)
  BY <1>2, <1>5 DEF TasksIn
<1> QED
  BY <1>2, <1>3, <1>4, <1>5, <1>6

\* What follows the head is sorted, and comes after the head.
LEMMA RestFacts ==
    ASSUME NEW s, Sorted(s), s # <<>>
    PROVE  /\ Sorted(Tail(s)) /\ TasksIn(s) = {Head(s)} \cup TasksIn(Tail(s))
           /\ \A t \in TasksIn(Tail(s)) : Ordered(Head(s), t)
<1> DEFINE r == Tail(s)
<1>1. s \in Seq(Tasks) /\ Len(s) \in Nat /\ Len(s) >= 1 /\ Head(s) = s[1]
  BY TaskFacts DEF Sorted
<1>2. r \in Seq(Tasks) /\ Len(r) = Len(s) - 1 /\ \A i \in 1 .. Len(r) : r[i] = s[i + 1]
  BY <1>1, HeadTailProperties
<1> HIDE DEF r
<1>3. \A i \in 1 .. Len(r) : i + 1 \in 1 .. Len(s) /\ 1 \in 1 .. Len(s) /\ 1 < i + 1
  BY <1>1, <1>2
<1>4. Sorted(r)
  <2>1. \A k, l \in 1 .. Len(r) : k < l => k + 1 < l + 1
    BY <1>1, <1>2
  <2> QED
    BY <1>2, <1>3, <2>1 DEF Sorted
<1>5. \A t \in TasksIn(r) : Ordered(s[1], t)
  <2>1. \A i \in 1 .. Len(r) : Ordered(s[1], s[i + 1])
    BY <1>3 DEF Sorted
  <2> QED
    BY <1>2, <2>1 DEF TasksIn
<1>6. TasksIn(s) = {s[1]} \cup TasksIn(r)
  <2>1. ASSUME NEW k \in 1 .. Len(s) PROVE s[k] \in {s[1]} \cup TasksIn(r)
    <3>1. CASE k = 1
      BY <3>1
    <3>2. CASE k # 1
      <4>1. k - 1 \in 1 .. Len(r) /\ (k - 1) + 1 = k
        BY <1>1, <1>2, <3>2
      <4> QED
        BY <1>2, <4>1 DEF TasksIn
    <3> QED
      BY <3>1, <3>2
  <2>2. 1 \in 1 .. Len(s)
    BY <1>1
  <2>3. \A i \in 1 .. Len(r) : r[i] \in TasksIn(s)
    BY <1>2, <1>3 DEF TasksIn
  <2>4. TasksIn(s) \subseteq {s[1]} \cup TasksIn(r)
    BY <2>1 DEF TasksIn
  <2>5. TasksIn(r) \subseteq TasksIn(s)
    BY <2>3 DEF TasksIn
  <2>6. s[1] \in TasksIn(s)
    BY <2>2 DEF TasksIn
  <2> QED
    BY <2>4, <2>5, <2>6
<1> QED
  BY <1>1, <1>4, <1>5, <1>6 DEF r

\* Two sorted stacks, the second after the first, are a sorted stack.
LEMMA ConcatSorted ==
    ASSUME NEW s, NEW r, Sorted(s), Sorted(r),
           \A a \in TasksIn(s), b \in TasksIn(r) : Ordered(a, b)
    PROVE  Sorted(s \o r) /\ TasksIn(s \o r) = TasksIn(s) \cup TasksIn(r)
<1> DEFINE c == s \o r
           n == Len(s)
<1>1. s \in Seq(Tasks) /\ r \in Seq(Tasks) /\ n \in Nat /\ Len(r) \in Nat
  BY DEF Sorted
<1>2. /\ c \in Seq(Tasks) /\ Len(c) = n + Len(r)
      /\ \A i \in 1 .. n + Len(r) : c[i] = IF i <= n THEN s[i] ELSE r[i - n]
  BY <1>1, ConcatProperties
<1>3. \A i \in 1 .. n : i \in 1 .. Len(c) /\ c[i] = s[i]
  BY <1>1, <1>2
<1>4. \A i \in 1 .. Len(r) : n + i \in 1 .. Len(c) /\ c[n + i] = r[i]
  <2>1. \A i \in 1 .. Len(r) : n + i \in 1 .. n + Len(r) /\ ~(n + i <= n) /\ (n + i) - n = i
    BY <1>1
  <2> QED
    BY <1>2, <2>1
<1>5. \A i \in 1 .. Len(c) : i \in 1 .. n \/ (i - n \in 1 .. Len(r) /\ i > n /\ c[i] = r[i - n])
  BY <1>1, <1>2
<1> HIDE DEF c
<1>6. TasksIn(c) = TasksIn(s) \cup TasksIn(r)
  <2>1. TasksIn(s) \subseteq TasksIn(c)
    BY <1>3 DEF TasksIn, n
  <2>2. TasksIn(r) \subseteq TasksIn(c)
    BY <1>4 DEF TasksIn
  <2>3. \A i \in 1 .. Len(c) : c[i] \in TasksIn(s) \cup TasksIn(r)
    BY <1>3, <1>5 DEF TasksIn, n
  <2>4. TasksIn(c) \subseteq TasksIn(s) \cup TasksIn(r)
    BY <2>3 DEF TasksIn
  <2> QED
    BY <2>1, <2>2, <2>4
<1>7. ASSUME NEW k \in 1 .. Len(c), NEW l \in 1 .. Len(c), k < l PROVE Ordered(c[k], c[l])
  <2>1. CASE l \in 1 .. n
    <3>1. k \in 1 .. n
      BY <1>1, <1>2, <1>7, <2>1
    <3> QED
      BY <1>3, <1>7, <2>1, <3>1 DEF Sorted, n
  <2>2. CASE k \in 1 .. n /\ l - n \in 1 .. Len(r) /\ c[l] = r[l - n]
    <3>1. c[k] \in TasksIn(s) /\ c[l] \in TasksIn(r)
      BY <1>3, <2>2 DEF TasksIn, n
    <3> QED
      BY <3>1
  <2>3. CASE k - n \in 1 .. Len(r) /\ c[k] = r[k - n] /\ l - n \in 1 .. Len(r) /\ c[l] = r[l - n]
    <3>1. k - n < l - n
      BY <1>1, <1>2, <1>7
    <3> QED
      BY <2>3, <3>1 DEF Sorted
  <2> QED
    BY <1>5, <2>1, <2>2, <2>3
<1>8. Sorted(c)
  BY <1>2, <1>7 DEF Sorted, c
<1> QED
  BY <1>6, <1>8 DEF c

\* Each task that stands in for p is at p or below it.
LEMMA FanTask ==
    ASSUME NEW p \in Path, NEW f, Fan(f, p), NEW a \in TasksIn(f)
    PROVE  a.at \in Path /\ IF a.do = "visit" THEN Under(p, a.at) ELSE a.at = p
<1>1. a.at \in Path
  BY TaskFacts DEF Fan
<1>2. IF a.do = "visit" THEN a.at # <<>> /\ Front(a.at) = p ELSE a.at = p
  BY DEF Fan
<1> QED
  BY <1>1, <1>2, FrontUnder

\* The first task is replaced.
LEMMA Replaced ==
    ASSUME NEW s, Sorted(s), s # <<>>, NEW p, p = Head(s).at, NEW f, Fan(f, p)
    PROVE  Sorted(f \o Tail(s)) /\ TasksIn(f \o Tail(s)) = TasksIn(f) \cup TasksIn(Tail(s))
<1>1. Sorted(Tail(s)) /\ p \in Path /\ Sorted(f) /\ \A b \in TasksIn(Tail(s)) : b.at \in Path /\ Ordered(Head(s), b)
  BY TaskFacts, RestFacts DEF Fan
<1>2. ASSUME NEW a \in TasksIn(f), NEW b \in TasksIn(Tail(s)) PROVE Ordered(a, b)
  <2>1. a.at \in Path /\ (a.at = p \/ Under(p, a.at))
    BY <1>1, FanTask
  <2>2. CASE b.do = "visit"
    <3>1. Left(p, b.at)
      BY <1>1, <2>2 DEF Ordered
    <3>2. Left(a.at, b.at)
      BY <1>1, <2>1, <3>1, LeftUnder
    <3> QED
      BY <2>2, <3>2 DEF Ordered
  <2>3. CASE b.do # "visit"
    <3>1. Under(b.at, p)
      BY <1>1, <2>3 DEF Ordered
    <3>2. Under(b.at, a.at)
      BY <1>1, <2>1, <3>1, UnderUnder
    <3> QED
      BY <2>3, <3>2 DEF Ordered
  <2> QED
    BY <2>2, <2>3
<1> QED
  BY <1>1, <1>2, ConcatSorted

\* What the first task leaves to come.
LEMMA BehindHead ==
    ASSUME NEW s, Sorted(s), s # <<>>, NEW p, p = Head(s).at, NEW b \in TasksIn(Tail(s))
    PROVE  b \in TasksIn(s) /\ b.at \in Path /\ p \in Path
           /\ IF b.do = "visit" THEN Left(p, b.at) ELSE Under(b.at, p)
<1>1. TasksIn(s) = {Head(s)} \cup TasksIn(Tail(s)) /\ Ordered(Head(s), b)
  BY RestFacts
<1>2. b \in TasksIn(s) /\ b.at \in Path /\ p \in Path
  BY <1>1, TaskFacts
<1> QED
  BY <1>1, <1>2 DEF Ordered

\* Nothing becomes pending.
LEMMA PendingBefore ==
    ASSUME NEW s, Sorted(s), s # <<>>, NEW p, p = Head(s).at, NEW f, Fan(f, p),
           Head(s).do = "visit" \/ f = <<>>, NEW r \in Path, Pending(f \o Tail(s), r)
    PROVE  Pending(s, r)
<1>1. TasksIn(f \o Tail(s)) = TasksIn(f) \cup TasksIn(Tail(s)) /\ TasksIn(s) = {Head(s)} \cup TasksIn(Tail(s)) /\ p \in Path
  BY Replaced, RestFacts, TaskFacts
<1>2. PICK t \in TasksIn(f \o Tail(s)) : t.do = "visit" /\ (t.at = r \/ Under(t.at, r))
  BY DEF Pending
<1>3. CASE t \in TasksIn(Tail(s))
  BY <1>1, <1>2, <1>3 DEF Pending
<1>4. CASE t \in TasksIn(f)
  <2>1. t.at \in Path /\ Under(p, t.at)
    BY <1>1, <1>2, <1>4, FanTask
  <2>2. Under(p, r)
    BY <1>1, <1>2, <2>1, UnderUnder
  <2>3. Head(s).do = "visit"
    <3>1. Len(<<>>) = 0 /\ 1 .. 0 = {}
      BY EmptySeq
    <3> QED
      BY <1>4, <3>1 DEF TasksIn
  <2> QED
    BY <1>1, <2>2, <2>3 DEF Pending
<1> QED
  BY <1>1, <1>2, <1>3, <1>4

\* What is no longer pending is the node visited, or below it and passed over.
LEMMA PendingAfter ==
    ASSUME NEW s, Sorted(s), s # <<>>, NEW p, p = Head(s).at, NEW f, Fan(f, p),
           NEW r \in Path, Pending(s, r), Head(s).do = "visit" => r # p,
           Head(s).do = "visit" /\ Under(p, r) => Task("visit", Toward(p, r)) \in TasksIn(f)
    PROVE  Pending(f \o Tail(s), r)
<1>1. TasksIn(f \o Tail(s)) = TasksIn(f) \cup TasksIn(Tail(s)) /\ TasksIn(s) = {Head(s)} \cup TasksIn(Tail(s)) /\ p \in Path
  BY Replaced, RestFacts, TaskFacts
<1>2. PICK t \in TasksIn(s) : t.do = "visit" /\ (t.at = r \/ Under(t.at, r))
  BY DEF Pending
<1>3. CASE t \in TasksIn(Tail(s))
  BY <1>1, <1>2, <1>3 DEF Pending
<1>4. CASE t = Head(s)
  <2>1. Under(p, r) /\ Task("visit", Toward(p, r)) \in TasksIn(f)
    BY <1>2, <1>4
  <2>2. Toward(p, r) = r \/ Under(Toward(p, r), r)
    BY <1>1, <2>1, TowardFacts
  <2>3. Task("visit", Toward(p, r)).do = "visit" /\ Task("visit", Toward(p, r)).at = Toward(p, r)
    BY DEF Task
  <2> QED
    BY <1>1, <2>1, <2>2, <2>3 DEF Pending
<1> QED
  BY <1>1, <1>2, <1>3, <1>4

\* Where the first task is, nothing to the left is pending.
LEMMA LeftIsPast ==
    ASSUME NEW s, Sorted(s), s # <<>>, NEW p, p = Head(s).at, NEW q \in Path, Left(q, p)
    PROVE  ~Pending(s, q)
<1>1. TasksIn(s) = {Head(s)} \cup TasksIn(Tail(s)) /\ p \in Path
  BY RestFacts, TaskFacts
<1>2. p # q /\ ~Under(p, q) /\ ~Left(p, q)
  BY <1>1, LeftApart
<1>3. ASSUME NEW b \in TasksIn(Tail(s)), b.do = "visit", b.at = q \/ Under(b.at, q) PROVE FALSE
  <2>1. b.at \in Path /\ Left(p, b.at)
    BY <1>3, BehindHead
  <2>2. Left(p, q)
    BY <1>1, <1>3, <2>1, UnderLeft
  <2> QED
    BY <1>2, <2>2
<1> QED
  BY <1>1, <1>2, <1>3 DEF Pending

-----------------------------------------------------------------------------
(* The tree *)

\* The tree is closed under parents, and a node has as many children as it says.
LEMMA NodeFacts ==
    ASSUME crate \in Crates, NEW p \in DOMAIN crate
    PROVE  /\ p \in Path /\ crate[p].size \in Nat
           /\ \A i \in 1 .. crate[p].size : Append(p, i) \in DOMAIN crate
           /\ p # <<>> => Front(p) \in DOMAIN crate /\ Last(p) \in 1 .. crate[Front(p)].size
BY CratesAssumption DEF Tree, Path

\* The root is the crate.
LEMMA RootFacts ==
    ASSUME crate \in Crates
    PROVE  <<>> \in DOMAIN crate /\ crate[<<>>].op = "crate"
BY CratesAssumption DEF Tree

\* Which nodes stand where: items in the crate and in impls, the target first in an impl.
LEMMA GrammarFacts ==
    ASSUME crate \in Crates, NEW p \in DOMAIN crate, p # <<>>
    PROVE  /\ Here(p).op \in ItemOps \cup PathOps \cup OtherOps
           /\ Here(p).op \in ItemOps <=> Here(Front(p)).op = "crate" \/ (Here(Front(p)).op = "impl" /\ Last(p) # 1)
           /\ Here(Front(p)).op = "impl" /\ Last(p) # 1 => Here(p).op \in ValueOps
           /\ Here(Front(p)).op = "impl" /\ Last(p) = 1 =>
                Here(p).op = "ty" /\ Here(p).name = Here(Front(p)).name
           /\ Here(p).op \in {"struct"} \cup ValueOps => Here(p).name \notin Keywords
           /\ Here(p).op = "impl" => Here(p).size # 0
           /\ Here(p).op \in {"fn", "struct"} => Here(p).params \in Seq(STRING \ Keywords)
           /\ Here(p).op = "fn" => Here(p).receiver \in BOOLEAN
           /\ Here(p).op = "let" => Here(Front(p)).op = "block" /\ Here(p).name \notin Keywords
           /\ Here(p).op \in PathOps => Here(p).size = 0 /\ Here(p).name # NoName
<1>1. Grammar(crate)
  BY CratesAssumption
<1> QED
  BY <1>1 DEF Grammar, Here

\* On the way from a node down to another one there are only nodes.
LEMMA PathUnderTree ==
    ASSUME crate \in Crates, NEW p \in DOMAIN crate, NEW r \in DOMAIN crate, Under(p, r)
    PROVE  Toward(p, r) \in DOMAIN crate /\ r[Len(p) + 1] \in 1 .. crate[p].size
<1> DEFINE Holds(q) == Toward(p, q) \in DOMAIN crate /\ q[Len(p) + 1] \in 1 .. crate[p].size
           N == Len(r) - Len(p) - 1
           S == {n \in 0 .. N : \A q \in DOMAIN crate : Len(q) = Len(p) + 1 + n /\ Under(p, q) => Holds(q)}
<1>1. p \in Path /\ r \in Path /\ Len(p) \in Nat /\ Len(r) \in Nat /\ Len(p) < Len(r) /\ N \in Nat
  BY NodeFacts, PathFacts DEF Under
<1>2. 0 \in S
  <2> SUFFICES ASSUME NEW q \in DOMAIN crate, Len(q) = Len(p) + 1, Under(p, q) PROVE Holds(q)
    BY <1>1
  <2>1. q \in Path /\ q # <<>>
    BY NodeFacts, <1>1, UnderFront
  <2>2. Len(Front(q)) = Len(q) - 1 /\ Last(q) = q[Len(q)] /\ q = Append(Front(q), Last(q))
    BY <2>1, FrontFacts
  <2>3. ~Under(p, Front(q))
    BY <1>1, <2>2 DEF Under
  <2>4. Front(q) = p
    BY <1>1, <2>1, <2>3, UnderFront
  <2>5. Last(q) = q[Len(p) + 1] /\ q = Toward(p, q)
    BY <1>1, <2>2, <2>4 DEF Toward
  <2> QED
    BY <2>1, <2>4, <2>5, NodeFacts
<1>3. ASSUME NEW n \in 0 .. N - 1, n \in S PROVE n + 1 \in S
  <2>1. n + 1 \in 0 .. N /\ n \in Nat
    BY <1>1
  <2> SUFFICES ASSUME NEW q \in DOMAIN crate, Len(q) = Len(p) + 1 + (n + 1), Under(p, q) PROVE Holds(q)
    BY <2>1
  <2>2. q \in Path /\ q # <<>>
    BY NodeFacts, <1>1, UnderFront
  <2> DEFINE u == Front(q)
  <2>3. u \in Path /\ u \in DOMAIN crate /\ Len(u) = Len(q) - 1 /\ \A k \in 1 .. Len(q) - 1 : u[k] = q[k]
    BY <2>2, FrontFacts, NodeFacts
  <2> HIDE DEF u
  <2>4. Len(u) = Len(p) + 1 + n /\ p # u
    BY <1>1, <2>1, <2>3
  <2>5. Under(p, u)
    BY <1>1, <2>1, <2>2, <2>4, UnderFront DEF u
  <2>6. Len(p) + 1 \in 1 .. Len(q) - 1
    BY <1>1, <2>1
  <2>7. u[Len(p) + 1] = q[Len(p) + 1]
    BY <2>3, <2>6
  <2> HIDE DEF Holds
  <2>8. Holds(u)
    BY <1>3, <2>3, <2>4, <2>5
  <2> QED
    BY <2>7, <2>8 DEF Holds, Toward
<1>4. 0 .. N \subseteq S
  <2> HIDE DEF S
  <2> QED
    BY <1>1, <1>2, <1>3, UpwardInduction
<1>5. N \in S
  <2>1. N \in 0 .. N
    BY <1>1
  <2> HIDE DEF S, N
  <2> QED
    BY <1>4, <2>1
<1>6. Len(r) = Len(p) + 1 + N
  BY <1>1
<1>7. \A q \in DOMAIN crate : Len(q) = Len(p) + 1 + N /\ Under(p, q) => Holds(q)
  <2> HIDE DEF N, Holds
  <2> QED
    BY <1>5
<1>8. Holds(r)
  <2> HIDE DEF N, Holds
  <2> QED
    BY <1>6, <1>7
<1> QED
  BY <1>8

\* A function on 1 .. n is a sequence.
LEMMA IsSequence ==
    ASSUME NEW T, NEW n \in Nat, NEW s \in [1 .. n -> T]
    PROVE  s \in Seq(T) /\ Len(s) = n
OBVIOUS

\* Visits of the children first .. last of p, in this order.
LEMMA VisitsSorted ==
    ASSUME NEW p \in Path, NEW n \in Nat, NEW o \in Nat, NEW s,
           s = [i \in 1 .. n |-> Task("visit", Append(p, i + o))]
    PROVE  Fan(s, p) /\ TasksIn(s) = {Task("visit", Append(p, i)) : i \in (1 + o) .. (n + o)} /\ s \in Seq(Tasks)
<1>1. \A i \in 1 .. n : /\ i + o \in Nat \ {0}
                        /\ Task("visit", Append(p, i + o)) \in Tasks
                        /\ Append(p, i + o) \in Path
                        /\ Append(p, i + o) # <<>> /\ Front(Append(p, i + o)) = p
  <2> SUFFICES ASSUME NEW i \in 1 .. n PROVE
                   /\ i + o \in Nat \ {0}
                   /\ Task("visit", Append(p, i + o)) \in Tasks
                   /\ Append(p, i + o) \in Path
                   /\ Append(p, i + o) # <<>> /\ Front(Append(p, i + o)) = p
    OBVIOUS
  <2> DEFINE j == i + o
  <2>1. j \in Nat \ {0}
    OBVIOUS
  <2> HIDE DEF j
  <2>2. Append(p, j) \in Path /\ Append(p, j) # <<>> /\ Front(Append(p, j)) = p
    BY <2>1, ChildFacts
  <2>3. Task("visit", Append(p, j)) \in Tasks
    BY <2>2 DEF Tasks, Task
  <2> QED
    BY <2>1, <2>2, <2>3 DEF j
<1>2. s \in Seq(Tasks) /\ Len(s) = n
  <2> DEFINE e(i) == Task("visit", Append(p, i + o))
  <2>1. s = [i \in 1 .. n |-> e(i)] /\ \A i \in 1 .. n : e(i) \in Tasks
    BY <1>1
  <2> HIDE DEF e
  <2>2. s \in [1 .. n -> Tasks]
    BY <2>1
  <2> QED
    BY <2>2, IsSequence
<1>3. ASSUME NEW k \in 1 .. n, NEW l \in 1 .. n, k < l PROVE Ordered(s[k], s[l])
  <2>1. k + o \in Nat \ {0} /\ l + o \in Nat \ {0} /\ k + o < l + o
    BY <1>3
  <2>2. Left(Append(p, k + o), Append(p, l + o))
    BY <2>1, LeftChildren
  <2>3. s[k].at = Append(p, k + o) /\ s[l].at = Append(p, l + o) /\ s[l].do = "visit"
    BY DEF Task
  <2> QED
    BY <2>2, <2>3 DEF Ordered
<1>4. Sorted(s)
  BY <1>2, <1>3 DEF Sorted
<1>5. \A i \in 1 .. n : s[i].do = "visit" /\ s[i].at # <<>> /\ Front(s[i].at) = p
  BY <1>1 DEF Task
<1>6. Fan(s, p)
  <2>1. \A t \in TasksIn(s) : t.do = "visit" /\ t.at # <<>> /\ Front(t.at) = p
    BY <1>2, <1>5 DEF TasksIn
  <2> QED
    BY <1>4, <2>1 DEF Fan
<1>7. TasksIn(s) = {Task("visit", Append(p, i)) : i \in (1 + o) .. (n + o)}
  <2>1. \A i \in 1 .. n : i + o \in (1 + o) .. (n + o)
    OBVIOUS
  <2>2. \A i \in (1 + o) .. (n + o) : i - o \in 1 .. n /\ (i - o) + o = i
    OBVIOUS
  <2>3. \A i \in 1 .. n : s[i] = Task("visit", Append(p, i + o))
    OBVIOUS
  <2> HIDE DEF Task
  <2>4. ASSUME NEW i \in (1 + o) .. (n + o) PROVE Task("visit", Append(p, i)) \in TasksIn(s)
    <3>1. s[i - o] = Task("visit", Append(p, i))
      BY <2>2, <2>3
    <3> QED
      BY <1>2, <2>2, <3>1 DEF TasksIn
  <2> QED
    BY <1>2, <2>1, <2>3, <2>4 DEF TasksIn
<1> QED
  BY <1>2, <1>6, <1>7

ChildTasks(p) == {Task("visit", Append(p, i)) : i \in 1 .. Here(p).size}

\* The visits of the children stand in for the visit of their parent.
LEMMA ChildrenFan ==
    ASSUME crate \in Crates, NEW p \in DOMAIN crate
    PROVE  Fan(Children(p), p) /\ TasksIn(Children(p)) = ChildTasks(p) /\ Children(p) \in Seq(Tasks)
<1>1. p \in Path /\ Here(p).size \in Nat
  BY NodeFacts DEF Here
<1> DEFINE n == Here(p).size
<1>2. Children(p) = [i \in 1 .. n |-> Task("visit", Append(p, i + 0))]
  <2>1. \A i \in 1 .. n : i + 0 = i
    BY <1>1
  <2> QED
    BY <2>1 DEF Children
<1>3. TasksIn(Children(p)) = {Task("visit", Append(p, i)) : i \in (1 + 0) .. (n + 0)}
  BY <1>1, <1>2, VisitsSorted
<1>4. (1 + 0) .. (n + 0) = 1 .. n
  BY <1>1
<1>5. Fan(Children(p), p)
  BY <1>1, <1>2, VisitsSorted
<1>6. Children(p) \in Seq(Tasks)
  BY <1>5 DEF Fan, Sorted
<1> QED
  BY <1>3, <1>4, <1>5, <1>6 DEF ChildTasks

\* Children but the first.
LEMMA AssociatesFan ==
    ASSUME crate \in Crates, NEW p \in DOMAIN crate, Here(p).size # 0
    PROVE  /\ Fan(Associates(p), p)
           /\ TasksIn(Associates(p)) = {Task("visit", Append(p, i)) : i \in 2 .. Here(p).size}
<1>1. p \in Path /\ Here(p).size \in Nat
  BY NodeFacts DEF Here
<1> DEFINE n == Here(p).size
           s == Associates(p)
           m == n - 1
<1>2. Children(p) \in Seq(Tasks) /\ Children(p) = [i \in 1 .. n |-> Task("visit", Append(p, i))]
  BY ChildrenFan DEF Children
<1>3. Len(Children(p)) = n /\ Children(p) # <<>> /\ m \in Nat
  <2>1. Len(Children(p)) = n
    BY <1>1, <1>2
  <2> QED
    BY <1>1, <1>2, <2>1
<1>4. s \in Seq(Tasks) /\ Len(s) = m /\ \A i \in 1 .. Len(s) : s[i] = Children(p)[i + 1]
  BY <1>2, <1>3, HeadTailProperties DEF Associates
<1>5. \A i \in 1 .. m : s[i] = Task("visit", Append(p, i + 1))
  <2>1. \A i \in 1 .. m : i + 1 \in 1 .. n
    BY <1>1, <1>3
  <2> QED
    BY <1>2, <1>4, <2>1
<1>6. s = [i \in 1 .. m |-> Task("visit", Append(p, i + 1))]
  BY <1>4, <1>5
<1> HIDE DEF m, s
<1>7. Fan(s, p)
  BY <1>1, <1>3, <1>6, VisitsSorted
<1>8. TasksIn(s) = {Task("visit", Append(p, i)) : i \in (1 + 1) .. (m + 1)}
  BY <1>1, <1>3, <1>6, VisitsSorted
<1>9. (1 + 1) .. (m + 1) = 2 .. n
  BY <1>1, <1>3 DEF m
<1> QED
  BY <1>7, <1>8, <1>9 DEF s

\* With what is done at the end.
LEMMA FinishedFan ==
    ASSUME NEW p \in Path, NEW s, Fan(s, p), \A t \in TasksIn(s) : t.do = "visit",
           NEW do \in {"leave", "close", "bind"}
    PROVE  Fan(Append(s, Task(do, p)), p) /\ TasksIn(Append(s, Task(do, p))) = TasksIn(s) \cup {Task(do, p)}
<1> DEFINE t == Task(do, p)
           r == <<t>>
<1>1. t \in Tasks /\ t.do = do /\ t.at = p
  BY DEF Tasks, Task
<1> HIDE DEF t
<1>2. r \in Seq(Tasks) /\ Len(r) = 1 /\ r[1] = t /\ 1 .. 1 = {1}
  BY <1>1
<1> HIDE DEF r
<1>3. TasksIn(r) = {t} /\ Sorted(r)
  BY <1>2 DEF TasksIn, Sorted
<1>4. \A a \in TasksIn(s) : Under(p, a.at)
  BY FanTask
<1>5. \A a \in TasksIn(s), b \in TasksIn(r) : Ordered(a, b)
  BY <1>1, <1>3, <1>4 DEF Ordered
<1>6. Sorted(s)
  BY DEF Fan
<1>7. Sorted(s \o r) /\ TasksIn(s \o r) = TasksIn(s) \cup {t}
  BY <1>3, <1>5, <1>6, ConcatSorted
<1>8. s \o r = Append(s, t)
  BY <1>1, <1>6 DEF Sorted, r
<1>9. Fan(Append(s, t), p)
  BY <1>1, <1>7, <1>8 DEF Fan
<1> QED
  BY <1>7, <1>8, <1>9 DEF t

\* A visit may be done with nothing left.
LEMMA EmptyFan ==
    ASSUME NEW p
    PROVE  Fan(<<>>, p) /\ TasksIn(<<>>) = {}
<1>1. Len(<<>>) = 0 /\ 1 .. 0 = {} /\ <<>> \in Seq(Tasks)
  BY EmptySeq
<1> QED
  BY <1>1 DEF Fan, Sorted, TasksIn

-----------------------------------------------------------------------------
(* A step of a walk *)

\* The tasks that stand in for the visit of p leave out no child to the right of one they have.
Filled(f, p) ==
  \A i \in 1 .. Here(p).size, j \in 1 .. Here(p).size :
     i < j /\ Task("visit", Append(p, i)) \in TasksIn(f) => Task("visit", Append(p, j)) \in TasksIn(f)

\* What is to the right of the first task is pending.
RightPending(s) == s # <<>> => \A r \in DOMAIN crate : Left(Head(s).at, r) => Pending(s, r)

\* The tasks stand at nodes.
AtNodes(s) == \A t \in TasksIn(s) : t.at \in DOMAIN crate

\* Left is transitive.
LEMMA LeftLeft ==
    ASSUME NEW p \in Path, NEW q \in Path, NEW r \in Path, Left(p, q), Left(q, r)
    PROVE  Left(p, r)
<1>1. PICK k \in 1 .. Len(p) : k <= Len(q) /\ p[k] < q[k] /\ \A j \in 1 .. (k - 1) : p[j] = q[j]
  BY DEF Left
<1>2. PICK l \in 1 .. Len(q) : l <= Len(r) /\ q[l] < r[l] /\ \A j \in 1 .. (l - 1) : q[j] = r[j]
  BY DEF Left
<1>3. /\ Len(p) \in Nat /\ Len(q) \in Nat /\ Len(r) \in Nat /\ k \in Nat /\ l \in Nat
      /\ \A i \in 1 .. Len(p) : p[i] \in Nat
      /\ \A i \in 1 .. Len(q) : q[i] \in Nat
      /\ \A i \in 1 .. Len(r) : r[i] \in Nat
  BY PathFacts
<1>4. CASE k < l
  <2>1. k \in 1 .. (l - 1) /\ k <= Len(r) /\ 1 .. (k - 1) \subseteq 1 .. (l - 1)
    BY <1>1, <1>2, <1>3, <1>4
  <2>2. p[k] < r[k] /\ \A j \in 1 .. (k - 1) : p[j] = r[j]
    BY <1>1, <1>2, <2>1
  <2> QED
    BY <2>1, <2>2 DEF Left
<1>5. CASE k = l
  <2>1. p[k] < r[k] /\ \A j \in 1 .. (k - 1) : p[j] = r[j]
    <3>1. p[k] \in Nat /\ q[k] \in Nat /\ r[k] \in Nat
      BY <1>1, <1>2, <1>3, <1>5
    <3> QED
      BY <1>1, <1>2, <1>5, <3>1
  <2> QED
    BY <1>2, <1>5, <2>1 DEF Left
<1>6. CASE k > l
  <2>1. l \in 1 .. (k - 1) /\ l \in 1 .. Len(p) /\ 1 .. (l - 1) \subseteq 1 .. (k - 1)
    BY <1>1, <1>2, <1>3, <1>6
  <2>2. p[l] < r[l] /\ \A j \in 1 .. (l - 1) : p[j] = r[j]
    BY <1>1, <1>2, <2>1
  <2> QED
    BY <1>2, <2>1, <2>2 DEF Left
<1> QED
  BY <1>3, <1>4, <1>5, <1>6

\* Two nodes: one is the other, below the other or beside it.
LEMMA Related ==
    ASSUME NEW p \in Path, NEW q \in Path
    PROVE  p = q \/ Under(p, q) \/ Under(q, p) \/ Left(p, q) \/ Left(q, p)
<1> DEFINE D == {k \in 1 .. Len(p) : k <= Len(q) /\ p[k] # q[k]}
<1>1. /\ Len(p) \in Nat /\ Len(q) \in Nat
      /\ \A i \in 1 .. Len(p) : p[i] \in Nat
      /\ \A i \in 1 .. Len(q) : q[i] \in Nat
  BY PathFacts
<1>2. CASE D = {}
  <2>1. \A k \in 1 .. Len(p) : k <= Len(q) => p[k] = q[k]
    BY <1>2
  <2>2. CASE Len(p) = Len(q)
    BY <1>1, <2>1, <2>2, PathEqual
  <2>3. CASE Len(p) < Len(q)
    BY <1>1, <2>1, <2>3 DEF Under
  <2>4. CASE Len(q) < Len(p)
    <3>1. \A k \in 1 .. Len(q) : k \in 1 .. Len(p) /\ k <= Len(q)
      BY <1>1, <2>4
    <3> QED
      BY <1>1, <2>1, <2>4, <3>1 DEF Under
  <2> QED
    BY <1>1, <2>2, <2>3, <2>4
<1>3. CASE D # {}
  <2>1. D \subseteq Nat
    BY <1>1
  <2>2. PICK k \in D : \A j \in D : k <= j
    BY <1>3, <2>1, Smallest
  <2>3. \A j \in 1 .. (k - 1) : j \in 1 .. Len(p) /\ j <= Len(q) /\ ~(k <= j)
    BY <1>1, <2>2
  <2>4. \A j \in 1 .. (k - 1) : p[j] = q[j]
    BY <2>2, <2>3
  <2>5. k \in 1 .. Len(p) /\ k \in 1 .. Len(q) /\ p[k] # q[k] /\ p[k] \in Nat /\ q[k] \in Nat /\ k <= Len(p) /\ k <= Len(q)
    BY <1>1, <2>2
  <2>6. CASE p[k] < q[k]
    BY <2>4, <2>5, <2>6 DEF Left
  <2>7. CASE q[k] < p[k]
    BY <2>4, <2>5, <2>7 DEF Left
  <2> QED
    BY <2>5, <2>6, <2>7
<1> QED
  BY <1>2, <1>3

\* What is below p and right of its child i is below a later child.
LEMMA PastChild ==
    ASSUME NEW p \in Path, NEW i \in Nat \ {0}, NEW r \in Path, Left(Append(p, i), r), Under(p, r)
    PROVE  i < r[Len(p) + 1]
<1> DEFINE c == Append(p, i)
<1>1. Len(p) \in Nat /\ Len(c) = Len(p) + 1 /\ c[Len(p) + 1] = i /\ \A k \in 1 .. Len(p) : c[k] = p[k] /\ p[k] \in Nat
  BY ChildFacts, PathFacts
<1>2. PICK k \in 1 .. Len(c) : k <= Len(r) /\ c[k] < r[k] /\ \A j \in 1 .. (k - 1) : c[j] = r[j]
  BY DEF Left
<1> HIDE DEF c
<1>3. \A j \in 1 .. Len(p) : r[j] = p[j]
  BY DEF Under
<1>4. k \notin 1 .. Len(p)
  <2> SUFFICES ASSUME k \in 1 .. Len(p) PROVE FALSE
    OBVIOUS
  <2>1. c[k] = p[k] /\ r[k] = p[k] /\ p[k] \in Nat
    BY <1>1, <1>3
  <2> QED
    BY <1>2, <2>1
<1>5. k = Len(p) + 1
  BY <1>1, <1>4
<1> QED
  BY <1>1, <1>2, <1>5

\* A task is its kind and its place.
LEMMA TaskEqual ==
    ASSUME NEW t \in Tasks
    PROVE  t = Task(t.do, t.at)
BY DEF Tasks, Task

\* A task of the walk handled: its fan stands in for it.
StepOf(s, f) ==
  /\ crate \in Crates /\ Sorted(s) /\ s # <<>> /\ AtNodes(s) /\ RightPending(s)
  /\ Fan(f, Head(s).at) /\ Filled(f, Head(s).at) /\ AtNodes(f)
  /\ Head(s).do = "visit" \/ f = <<>>

\* r is passed over or handled with the first task.
Handled(s, f, r) ==
  /\ Head(s).do = "visit"
  /\ \/ r = Head(s).at
     \/ Under(Head(s).at, r) /\ Task("visit", Toward(Head(s).at, r)) \notin TasksIn(f)

\* A step of a walk ends the wait for exactly the visits it handles.
LEMMA StepPending ==
    ASSUME NEW s, NEW f, StepOf(s, f), NEW r \in DOMAIN crate
    PROVE  Pending(f \o Tail(s), r) <=> Pending(s, r) /\ ~Handled(s, f, r)
<1> DEFINE p == Head(s).at
           n == f \o Tail(s)
<1>0. Sorted(s) /\ s # <<>> /\ Fan(f, p) /\ (Head(s).do = "visit" \/ f = <<>>) /\ crate \in Crates
  BY DEF StepOf
<1>1. /\ p \in Path /\ r \in Path
      /\ TasksIn(n) = TasksIn(f) \cup TasksIn(Tail(s))
  BY <1>0, TaskFacts, NodeFacts, Replaced
<1> HIDE DEF p, n
<1>2. ASSUME Pending(s, r), ~Handled(s, f, r) PROVE Pending(n, r)
  <2>1. Head(s).do = "visit" => r # p
    BY <1>2 DEF Handled, p
  <2>2. Head(s).do = "visit" /\ Under(p, r) => Task("visit", Toward(p, r)) \in TasksIn(f)
    BY <1>2 DEF Handled, p
  <2> QED
    BY <1>0, <1>1, <1>2, <2>1, <2>2, PendingAfter DEF p, n
<1>3. ASSUME Pending(n, r) PROVE Pending(s, r)
  BY <1>0, <1>1, <1>3, PendingBefore DEF p, n
<1>4. ASSUME Pending(n, r), Handled(s, f, r) PROVE FALSE
  <2>1. PICK t \in TasksIn(n) : t.do = "visit" /\ (t.at = r \/ Under(t.at, r))
    BY <1>4 DEF Pending
  <2>2. CASE t \in TasksIn(Tail(s))
    <3>1. t.at \in Path /\ Left(p, t.at)
      BY <1>0, <2>1, <2>2, BehindHead DEF p
    <3>2. Left(p, r)
      BY <1>1, <2>1, <3>1, UnderLeft
    <3>3. r # p /\ ~Under(p, r)
      BY <1>1, <3>2, LeftApart
    <3> QED
      BY <1>4, <3>3 DEF Handled, p
  <2>3. CASE t \in TasksIn(f)
    <3>1. t.at \in Path /\ Under(p, t.at) /\ t.at # <<>> /\ Front(t.at) = p /\ t \in Tasks
      BY <1>0, <1>1, <2>1, <2>3, FanTask, TaskFacts DEF Fan
    <3>2. Under(p, r) /\ r # p
      BY <1>1, <2>1, <3>1, UnderUnder, UnderApart
    <3>3. t.at = Toward(p, r)
      <4>1. t.at = Append(p, Last(t.at)) /\ Last(t.at) \in Nat \ {0} /\ Len(p) = Len(t.at) - 1 /\ Last(t.at) = t.at[Len(t.at)] /\ Len(t.at) >= 1
        BY <3>1, FrontFacts
      <4>2. Len(t.at) \in 1 .. Len(t.at) /\ Len(t.at) = Len(p) + 1
        BY <3>1, <4>1, PathFacts
      <4>3. r[Len(p) + 1] = t.at[Len(p) + 1]
        BY <2>1, <4>2 DEF Under
      <4> QED
        BY <4>1, <4>2, <4>3 DEF Toward
    <3>4. t = Task("visit", Toward(p, r))
      BY <2>1, <3>1, <3>3, TaskEqual
    <3> QED
      BY <1>4, <2>3, <3>2, <3>4 DEF Handled, p
  <2> QED
    BY <1>1, <2>1, <2>2, <2>3
<1> QED
  BY <1>2, <1>3, <1>4 DEF n

\* After a step the stack is still sorted, and has the new tasks in place of the head.
LEMMA StepTasks ==
    ASSUME NEW s, NEW f, StepOf(s, f)
    PROVE  /\ Sorted(f \o Tail(s)) /\ AtNodes(f \o Tail(s))
           /\ TasksIn(f \o Tail(s)) = TasksIn(f) \cup TasksIn(Tail(s))
           /\ TasksIn(s) = {Head(s)} \cup TasksIn(Tail(s))
           /\ Head(s) \notin TasksIn(Tail(s))
<1> DEFINE p == Head(s).at
<1>0. Sorted(s) /\ s # <<>> /\ Fan(f, p) /\ AtNodes(s) /\ AtNodes(f)
  BY DEF StepOf
<1>1. /\ Sorted(f \o Tail(s)) /\ TasksIn(f \o Tail(s)) = TasksIn(f) \cup TasksIn(Tail(s))
      /\ TasksIn(s) = {Head(s)} \cup TasksIn(Tail(s))
  BY <1>0, Replaced, RestFacts
<1>2. ASSUME Head(s) \in TasksIn(Tail(s)) PROVE FALSE
  <2>1. p \in Path /\ IF Head(s).do = "visit" THEN Left(p, p) ELSE Under(p, p)
    BY <1>0, <1>2, BehindHead
  <2> QED
    BY <2>1, LeftApart, UnderApart
<1> QED
  BY <1>0, <1>1, <1>2 DEF AtNodes

\* After a step everything right of the head is still to come.
LEMMA StepRight ==
    ASSUME NEW s, NEW f, StepOf(s, f)
    PROVE  RightPending(f \o Tail(s))
<1> DEFINE p == Head(s).at
           n == f \o Tail(s)
<1>0. Sorted(s) /\ s # <<>> /\ Fan(f, p) /\ Filled(f, p) /\ RightPending(s) /\ crate \in Crates /\ AtNodes(s) /\ AtNodes(f)
  BY DEF StepOf
<1>1. p \in Path /\ TasksIn(n) = TasksIn(f) \cup TasksIn(Tail(s)) /\ Sorted(n) /\ p \in DOMAIN crate
  BY <1>0, TaskFacts, StepTasks DEF AtNodes
<1> SUFFICES ASSUME n # <<>>, NEW r \in DOMAIN crate, Left(Head(n).at, r) PROVE Pending(n, r)
  BY DEF RightPending
<1> HIDE DEF p, n
<1> DEFINE h == Head(n)
<1>2. h \in TasksIn(n) /\ r \in Path
  BY <1>0, <1>1, TaskFacts, NodeFacts
<1>3. ASSUME Left(p, r) PROVE Pending(n, r)
  <2>1. Pending(s, r)
    BY <1>0, <1>3 DEF RightPending, p
  <2>2. r # p /\ ~Under(p, r)
    BY <1>1, <1>2, <1>3, LeftApart
  <2>3. ~Handled(s, f, r)
    BY <2>2 DEF Handled, p
  <2> QED
    BY <2>1, <2>3, StepPending DEF n
<1>4. CASE h \in TasksIn(Tail(s))
  <2>1. h.at \in Path /\ IF h.do = "visit" THEN Left(p, h.at) ELSE Under(h.at, p)
    BY <1>0, <1>4, BehindHead DEF p
  <2>2. Left(p, r)
    <3>1. CASE h.do = "visit"
      BY <1>1, <1>2, <2>1, <3>1, LeftLeft
    <3>2. CASE h.do # "visit"
      BY <1>1, <1>2, <2>1, <3>2, LeftUnder
    <3> QED
      BY <3>1, <3>2
  <2> QED
    BY <1>3, <2>2
<1>5. CASE h \in TasksIn(f) /\ h.do # "visit"
  <2>1. h.at = p
    BY <1>0, <1>5 DEF Fan
  <2> QED
    BY <1>3, <2>1
<1>6. CASE h \in TasksIn(f) /\ h.do = "visit"
  <2>1. h.at \in Path /\ h.at # <<>> /\ Front(h.at) = p /\ h \in Tasks /\ h.at \in DOMAIN crate
    BY <1>0, <1>1, <1>6, FanTask, TaskFacts DEF Fan, AtNodes
  <2> DEFINE i == Last(h.at)
             j == r[Len(p) + 1]
  <2>2. h.at = Append(p, i) /\ i \in Nat \ {0} /\ i \in 1 .. Here(p).size
    BY <1>0, <2>1, FrontFacts, NodeFacts DEF Here
  <2>3. CASE Left(p, r)
    BY <1>3, <2>3
  <2>4. CASE Under(p, r)
    <3>1. i < j
      BY <1>1, <1>2, <2>2, <2>4, PastChild
    <3>2. j \in 1 .. Here(p).size
      BY <1>0, <1>1, <2>4, PathUnderTree DEF Here
    <3>3. h = Task("visit", Append(p, i))
      BY <1>6, <2>1, <2>2, TaskEqual
    <3>4. Task("visit", Append(p, j)) \in TasksIn(f)
      BY <1>0, <1>6, <2>2, <3>1, <3>2, <3>3 DEF Filled
    <3>5. ~Handled(s, f, r)
      <4>1. r # p
        BY <1>1, <1>2, <2>4, UnderApart
      <4> QED
        BY <3>4, <4>1 DEF Handled, p, Toward
    <3>6. Pending(s, r)
      <4>1. f # <<>>
        <5>1. Len(<<>>) = 0 /\ 1 .. 0 = {}
          BY EmptySeq
        <5> QED
          BY <1>6, <5>1 DEF TasksIn
      <4>2. Head(s).do = "visit" /\ Head(s) \in TasksIn(s)
        BY <1>0, <4>1, TaskFacts DEF StepOf
      <4> QED
        BY <2>4, <4>2 DEF Pending, p
    <3> QED
      BY <3>5, <3>6, StepPending DEF n
  <2>5. Left(p, r) \/ Under(p, r)
    BY <1>1, <1>2, <2>2, ChildLeft
  <2> QED
    BY <2>3, <2>4, <2>5
<1> QED
  BY <1>1, <1>2, <1>4, <1>5, <1>6

-----------------------------------------------------------------------------
(* The tree, and the ways to handle a task *)

\* A pass under way, with a task to do.
Walking(s) == crate \in Crates /\ Sorted(s) /\ s # <<>> /\ AtNodes(s) /\ RightPending(s)

\* The head is a task at a node, and its own visit is still to come.
LEMMA HeadFacts ==
    ASSUME NEW s, Walking(s)
    PROVE  /\ Head(s) \in TasksIn(s) /\ Head(s) \in Tasks /\ Head(s).at \in DOMAIN crate /\ Head(s).at \in Path
           /\ TasksIn(s) = {Head(s)} \cup TasksIn(Tail(s))
           /\ Head(s).do = "visit" => Pending(s, Head(s).at)
<1>1. Head(s) \in TasksIn(s) /\ Head(s) \in Tasks /\ Head(s).at \in DOMAIN crate /\ Head(s).at \in Path
  BY TaskFacts DEF Walking, AtNodes
<1>2. TasksIn(s) = {Head(s)} \cup TasksIn(Tail(s))
  BY RestFacts DEF Walking
<1> QED
  BY <1>1, <1>2 DEF Pending

\* Of a node nothing is put back.
LEMMA PassOver ==
    ASSUME NEW s, Walking(s)
    PROVE  /\ StepOf(s, <<>>)
           /\ \A r \in DOMAIN crate : Handled(s, <<>>, r) <=> Head(s).do = "visit" /\ (r = Head(s).at \/ Under(Head(s).at, r))
<1>1. Fan(<<>>, Head(s).at) /\ TasksIn(<<>>) = {}
  BY EmptyFan
<1> QED
  BY <1>1 DEF StepOf, Filled, AtNodes, Handled, Walking

\* All children are put back.
LEMMA GoInside ==
    ASSUME NEW s, Walking(s), Head(s).do = "visit", NEW f, Fan(f, Head(s).at),
           \A t \in TasksIn(f) : t.do = "visit" => t \in ChildTasks(Head(s).at),
           ChildTasks(Head(s).at) \subseteq TasksIn(f)
    PROVE  /\ StepOf(s, f)
           /\ \A r \in DOMAIN crate : Handled(s, f, r) <=> r = Head(s).at
<1> DEFINE p == Head(s).at
<1>1. p \in DOMAIN crate /\ p \in Path /\ crate \in Crates
  BY HeadFacts DEF Walking
<1>2. AtNodes(f)
  <2>1. \A i \in 1 .. Here(p).size : Append(p, i) \in DOMAIN crate
    BY <1>1, NodeFacts DEF Here
  <2>2. ASSUME NEW t \in ChildTasks(p) PROVE t.at \in DOMAIN crate
    <3>1. PICK i \in 1 .. Here(p).size : t = Task("visit", Append(p, i))
      BY <2>2 DEF ChildTasks
    <3> QED
      BY <2>1, <3>1 DEF Task
  <2>3. \A t \in TasksIn(f) : t.do # "visit" => t.at = p
    BY DEF Fan
  <2> QED
    BY <1>1, <2>2, <2>3 DEF AtNodes
<1>3. Filled(f, p)
  BY DEF Filled, ChildTasks
<1>4. ASSUME NEW r \in DOMAIN crate PROVE Handled(s, f, r) <=> r = p
  <2>1. Under(p, r) => Task("visit", Toward(p, r)) \in TasksIn(f)
    <3>1. Under(p, r) => r[Len(p) + 1] \in 1 .. Here(p).size
      BY <1>1, PathUnderTree DEF Here
    <3> QED
      BY <3>1 DEF ChildTasks, Toward
  <2> QED
    BY <2>1 DEF Handled
<1> QED
  BY <1>2, <1>3, <1>4 DEF StepOf, Walking

\* All children but the first are put back.
LEMMA GoBeyond ==
    ASSUME NEW s, Walking(s), Head(s).do = "visit", NEW f, Fan(f, Head(s).at),
           \A t \in TasksIn(f) : t.do = "visit" => \E i \in 2 .. Here(Head(s).at).size : t = Task("visit", Append(Head(s).at, i)),
           \A i \in 2 .. Here(Head(s).at).size : Task("visit", Append(Head(s).at, i)) \in TasksIn(f)
    PROVE  /\ StepOf(s, f)
           /\ \A r \in DOMAIN crate : Handled(s, f, r) <=> r = Head(s).at \/ (Under(Head(s).at, r) /\ r[Len(Head(s).at) + 1] = 1)
<1> DEFINE p == Head(s).at
           n == Here(p).size
<1>1. p \in DOMAIN crate /\ p \in Path /\ crate \in Crates /\ n \in Nat
  BY HeadFacts, NodeFacts DEF Walking, Here
<1>2. AtNodes(f)
  <2>1. \A i \in 1 .. n : Append(p, i) \in DOMAIN crate
    BY <1>1, NodeFacts DEF Here
  <2>2. 2 .. n \subseteq 1 .. n
    BY <1>1
  <2>3. \A t \in TasksIn(f) : t.do # "visit" => t.at = p
    BY DEF Fan
  <2>4. ASSUME NEW t \in TasksIn(f), t.do = "visit" PROVE t.at \in DOMAIN crate
    <3>1. PICK i \in 2 .. n : t = Task("visit", Append(p, i))
      BY <2>4
    <3> QED
      BY <2>1, <2>2, <3>1 DEF Task
  <2> QED
    BY <1>1, <2>3, <2>4 DEF AtNodes
<1>3. ASSUME NEW i \in 1 .. n PROVE Task("visit", Append(p, i)) \in TasksIn(f) <=> i # 1
  <2>1. CASE i # 1
    <3>1. i \in 2 .. n
      BY <1>1, <2>1
    <3> QED
      BY <2>1, <3>1
  <2>2. CASE i = 1
    <3>1. ASSUME NEW j \in 2 .. n, Task("visit", Append(p, i)) = Task("visit", Append(p, j)) PROVE FALSE
      <4>1. j \in Nat \ {0} /\ i \in Nat \ {0} /\ i # j
        BY <1>1, <2>2
      <4>2. Append(p, i) = Append(p, j)
        BY <3>1 DEF Task
      <4>3. Last(Append(p, i)) = i /\ Last(Append(p, j)) = j
        BY <1>1, <4>1, ChildFacts
      <4> QED
        BY <4>1, <4>2, <4>3
    <3>3. Task("visit", Append(p, i)).do = "visit"
      BY DEF Task
    <3> QED
      BY <2>2, <3>1, <3>3
  <2> QED
    BY <2>1, <2>2
<1>4. Filled(f, p)
  <2>1. \A i \in 1 .. n, j \in 1 .. n : i < j => j # 1
    BY <1>1
  <2> QED
    BY <1>3, <2>1 DEF Filled
<1>5. ASSUME NEW r \in DOMAIN crate PROVE Handled(s, f, r) <=> r = p \/ (Under(p, r) /\ r[Len(p) + 1] = 1)
  <2>1. Under(p, r) => r[Len(p) + 1] \in 1 .. n
    BY <1>1, PathUnderTree DEF Here
  <2> QED
    BY <1>3, <2>1 DEF Handled, Toward
<1> QED
  BY <1>2, <1>4, <1>5 DEF StepOf, Walking

\* The start of a pass: all is pending; its end: nothing is.
LEMMA PassStarts ==
    ASSUME crate \in Crates
    PROVE  /\ Sorted(Children(<<>>)) /\ AtNodes(Children(<<>>)) /\ RightPending(Children(<<>>))
           /\ \A r \in DOMAIN crate \ {<<>>} : Pending(Children(<<>>), r)
           /\ \A t \in TasksIn(Children(<<>>)) : t.do = "visit" /\ Len(t.at) = 1
           /\ <<>> \in Path
<1> DEFINE s == Children(<<>>)
<1>1. <<>> \in DOMAIN crate /\ <<>> \in Path /\ Len(<<>>) = 0
  BY RootFacts, NodeFacts, EmptySeq
<1>2. Fan(s, <<>>) /\ TasksIn(s) = ChildTasks(<<>>) /\ Sorted(s)
  BY <1>1, ChildrenFan DEF Fan
<1>3. \A i \in 1 .. Here(<<>>).size : Append(<<>>, i) \in DOMAIN crate
  BY <1>1, NodeFacts DEF Here
<1>4. AtNodes(s)
  BY <1>2, <1>3 DEF AtNodes, ChildTasks, Task
<1>5. ASSUME NEW r \in DOMAIN crate, r # <<>> PROVE Pending(s, r)
  <2>1. r \in Path /\ Under(<<>>, r)
    <3>1. r \in Path /\ Len(r) \in Nat
      BY NodeFacts, PathFacts
    <3>2. Len(r) # 0
      BY <1>5, <3>1, EmptySeq DEF Path
    <3> QED
      BY <1>1, <3>1, <3>2 DEF Under
  <2>2. r[Len(<<>>) + 1] \in 1 .. Here(<<>>).size
    BY <1>1, <2>1, PathUnderTree DEF Here
  <2>3. Task("visit", Toward(<<>>, r)) \in TasksIn(s)
    BY <1>2, <2>2 DEF ChildTasks, Toward
  <2>4. Toward(<<>>, r) = r \/ Under(Toward(<<>>, r), r)
    BY <1>1, <2>1, TowardFacts
  <2> QED
    BY <2>3, <2>4 DEF Pending, Task
<1>6. RightPending(s)
  <2> SUFFICES ASSUME s # <<>>, NEW r \in DOMAIN crate, Left(Head(s).at, r) PROVE Pending(s, r)
    BY DEF RightPending
  <2>1. Head(s).at \in Path
    BY <1>2, TaskFacts
  <2>2. ~Left(Head(s).at, <<>>)
    BY <1>1, <2>1, PathFacts DEF Left
  <2> QED
    BY <1>5, <2>2
<1>7. \A t \in TasksIn(s) : t.do = "visit" /\ Len(t.at) = 1
  <2>1. ASSUME NEW i \in 1 .. Here(<<>>).size PROVE Len(Append(<<>>, i)) = 1
    <3>1. i \in Nat \ {0}
      BY <1>1, NodeFacts DEF Here
    <3> QED
      BY <1>1, <3>1, ChildFacts
  <2> QED
    BY <1>2, <2>1 DEF ChildTasks, Task
<1> QED
  BY <1>1, <1>2, <1>4, <1>5, <1>6, <1>7

\* Nothing is to come when the stack is empty.
LEMMA PassEnds ==
    ASSUME NEW r
    PROVE  ~Pending(<<>>, r)
BY EmptyFan DEF Pending

-----------------------------------------------------------------------------
(* Where things stand *)

\* A child of the root is an item.
LEMMA ItemPlace ==
    ASSUME crate \in Crates, NEW p \in DOMAIN crate, Len(p) = 1
    PROVE  /\ p # <<>> /\ Front(p) = <<>> /\ p = <<p[1]>> /\ p[1] \in Nat \ {0}
           /\ Here(p).op \in ItemOps
<1>1. p \in Path /\ <<>> \in Path /\ Len(<<>>) = 0
  BY NodeFacts, PassStarts, EmptySeq
<1>2. p # <<>>
  BY <1>1
<1>3. Front(p) = <<>>
  <2>1. Front(p) \in Path /\ Len(Front(p)) = 0
    BY <1>1, <1>2, FrontFacts
  <2> QED
    BY <2>1, EmptySeq DEF Path
<1>4. p = <<p[1]>> /\ p[1] \in Nat \ {0}
  BY <1>1 DEF Path
<1>5. Here(<<>>).op = "crate"
  BY RootFacts DEF Here
<1> QED
  BY <1>2, <1>3, <1>4, <1>5, GrammarFacts

\* An item is a child of the root or of an impl.
LEMMA ItemOpPlace ==
    ASSUME crate \in Crates, NEW p \in DOMAIN crate, Here(p).op \in ItemOps
    PROVE  /\ p # <<>>
           /\ Len(p) = 1 \/ (/\ Len(p) = 2 /\ Here(p).op \in ValueOps /\ Front(p) \in DOMAIN crate
                             /\ Len(Front(p)) = 1 /\ Here(Front(p)).op = "impl" /\ Last(p) # 1)
<1>0. <<>> \in DOMAIN crate /\ Here(<<>>).op = "crate" /\ <<>> \in Path /\ Len(<<>>) = 0 /\ "crate" \notin ItemOps
  BY RootFacts, PassStarts, EmptySeq DEF Here, ItemOps, ValueOps
<1>1. p # <<>> /\ p \in Path
  BY <1>0, NodeFacts
<1>2. Front(p) \in DOMAIN crate /\ Front(p) \in Path /\ Len(Front(p)) = Len(p) - 1 /\ Len(p) \in Nat
  BY <1>1, NodeFacts, FrontFacts, PathFacts
<1>3. \A q \in DOMAIN crate : Here(q).op = "crate" => q = <<>>
  BY <1>0, GrammarFacts DEF ItemOps, PathOps, OtherOps, ValueOps
<1>4. CASE Here(Front(p)).op = "crate"
  BY <1>0, <1>1, <1>2, <1>3, <1>4
<1>5. CASE Here(Front(p)).op = "impl" /\ Last(p) # 1
  <2>1. Here(p).op \in ValueOps
    BY <1>1, <1>5, GrammarFacts
  <2>2. Front(p) # <<>>
    BY <1>0, <1>5
  <2>3. Here(Front(Front(p))).op = "crate" \/ (Here(Front(Front(p))).op = "impl" /\ Last(Front(p)) # 1)
    <3>1. Here(Front(p)).op \in ItemOps
      BY <1>5 DEF ItemOps
    <3> QED
      BY <1>2, <2>2, <3>1, GrammarFacts
  <2>4. ~(Here(Front(Front(p))).op = "impl" /\ Last(Front(p)) # 1)
    <3>1. Here(Front(p)).op \notin ValueOps
      BY <1>5 DEF ValueOps
    <3> QED
      BY <1>2, <2>2, <3>1, GrammarFacts
  <2>5. Front(Front(p)) = <<>>
    BY <1>2, <1>3, <2>2, <2>3, <2>4, NodeFacts
  <2>6. Len(Front(Front(p))) = Len(Front(p)) - 1
    BY <1>2, <2>2, FrontFacts
  <2>7. Len(Front(p)) = 1 /\ Len(p) = 2
    <3>1. Len(Front(Front(p))) = 0
      BY <1>0, <2>5
    <3>2. Len(Front(p)) \in Nat /\ Len(Front(p)) = Len(p) - 1 /\ Len(p) \in Nat
      BY <1>2, PathFacts
    <3> QED
      BY <2>6, <3>1, <3>2
  <2> QED
    BY <1>1, <1>2, <1>5, <2>1, <2>7
<1> QED
  BY <1>1, <1>4, <1>5, GrammarFacts

\* Structs and impls are children of the root.
LEMMA TopOpPlace ==
    ASSUME crate \in Crates, NEW p \in DOMAIN crate, Here(p).op \in {"struct", "impl"}
    PROVE  Len(p) = 1 /\ p # <<>> /\ p = <<p[1]>>
<1>1. Here(p).op \in ItemOps /\ Here(p).op \notin ValueOps
  BY DEF ItemOps, ValueOps
<1>2. Len(p) = 1 /\ p # <<>>
  BY <1>1, ItemOpPlace
<1> QED
  BY <1>2, ItemPlace

\* The items before one are to its left.
LEMMA ItemsBeside ==
    ASSUME NEW p \in Path, NEW q \in Path, Len(p) = 1, Len(q) = 1
    PROVE  /\ Left(p, q) <=> p[1] < q[1]
           /\ p = q <=> p[1] = q[1]
           /\ ~Under(p, q)
<1>1. p[1] \in Nat /\ q[1] \in Nat /\ 1 .. 1 = {1} /\ 1 .. 0 = {}
  BY PathFacts
<1>2. p = q <=> p[1] = q[1]
  BY <1>1, PathEqual
<1>3. Left(p, q) <=> p[1] < q[1]
  <2>1. p[1] < q[1] => Left(p, q)
    <3>1. 1 \in 1 .. Len(p) /\ 1 <= Len(q) /\ \A j \in 1 .. (1 - 1) : p[j] = q[j]
      OBVIOUS
    <3> QED
      BY <3>1 DEF Left
  <2>2. Left(p, q) => p[1] < q[1]
    BY <1>1 DEF Left
  <2> QED
    BY <2>1, <2>2
<1> QED
  BY <1>2, <1>3 DEF Under

\* The order of two nodes of the second level.
LEMMA AssociatesBeside ==
    ASSUME NEW p \in Path, NEW q \in Path, Len(p) = 2, Len(q) = 2
    PROVE  /\ Left(p, q) <=> p[1] < q[1] \/ (p[1] = q[1] /\ p[2] < q[2])
           /\ p = q <=> p[1] = q[1] /\ p[2] = q[2]
           /\ ~Under(p, q)
<1>1. p[1] \in Nat /\ q[1] \in Nat /\ p[2] \in Nat /\ q[2] \in Nat /\ 1 .. 2 = {1, 2} /\ 1 .. 1 = {1} /\ 1 .. 0 = {}
  <2>1. 1 .. 2 = {1, 2} /\ 1 .. 1 = {1} /\ 1 .. 0 = {}
    OBVIOUS
  <2>2. 1 \in 1 .. Len(p) /\ 2 \in 1 .. Len(p) /\ 1 \in 1 .. Len(q) /\ 2 \in 1 .. Len(q)
    OBVIOUS
  <2>3. p[1] \in Nat /\ p[2] \in Nat
    BY <2>2, PathFacts
  <2>4. q[1] \in Nat /\ q[2] \in Nat
    BY <2>2, PathFacts
  <2> QED
    BY <2>1, <2>3, <2>4
<1>2. p = q <=> p[1] = q[1] /\ p[2] = q[2]
  BY <1>1, PathEqual
<1>3. Left(p, q) <=> p[1] < q[1] \/ (p[1] = q[1] /\ p[2] < q[2])
  <2>1. p[1] < q[1] => Left(p, q)
    <3>1. 1 \in 1 .. Len(p) /\ 1 <= Len(q) /\ \A j \in 1 .. (1 - 1) : p[j] = q[j]
      OBVIOUS
    <3> QED
      BY <3>1 DEF Left
  <2>2. p[1] = q[1] /\ p[2] < q[2] => Left(p, q)
    <3>1. 2 \in 1 .. Len(p) /\ 2 <= Len(q)
      OBVIOUS
    <3>2. p[1] = q[1] => \A j \in 1 .. (2 - 1) : p[j] = q[j]
      BY <1>1
    <3> QED
      BY <3>1, <3>2 DEF Left
  <2>3. ASSUME Left(p, q) PROVE p[1] < q[1] \/ (p[1] = q[1] /\ p[2] < q[2])
    <3>1. PICK k \in 1 .. Len(p) : k <= Len(q) /\ p[k] < q[k] /\ \A j \in 1 .. (k - 1) : p[j] = q[j]
      BY <2>3 DEF Left
    <3>2. CASE k = 1
      BY <3>1, <3>2
    <3>3. CASE k = 2
      <4>1. 1 \in 1 .. (k - 1)
        BY <3>3
      <4> QED
        BY <3>1, <3>3, <4>1
    <3> QED
      BY <1>1, <3>1, <3>2, <3>3
  <2> QED
    BY <2>1, <2>2, <2>3
<1> QED
  BY <1>2, <1>3 DEF Under

\* Of two nodes the one that is not pending is to the left, if the other is the first task.
LEMMA SeenIsLeft ==
    ASSUME NEW s, Walking(s), Head(s).do = "visit", NEW q \in DOMAIN crate,
           ~Under(q, Head(s).at)
    PROVE  ~Pending(s, q) <=> Left(q, Head(s).at)
<1> DEFINE p == Head(s).at
<1>1. p \in Path /\ q \in Path /\ Head(s) \in TasksIn(s)
  BY HeadFacts, NodeFacts DEF Walking
<1>2. Left(q, p) => ~Pending(s, q)
  BY <1>1, LeftIsPast DEF Walking
<1>3. p = q \/ Under(p, q) => Pending(s, q)
  BY <1>1 DEF Pending
<1>4. Left(p, q) => Pending(s, q)
  BY DEF Walking, RightPending
<1> QED
  BY <1>1, <1>2, <1>3, <1>4, Related

-----------------------------------------------------------------------------
(* The collection of items *)

ItemsOf(ops) == {q \in Nodes : Len(q) = 1 /\ Here(q).op \in ops}

\* The namespace ns has, besides what is built in, the first of nodes with each name,
\* as far as they are not still to come in s.
Namespace(s, ns, nodes, second, builtin, kind) ==
  /\ DOMAIN ns = builtin \cup {Here(q).name : q \in {q \in nodes : ~Pending(s, q)}}
  /\ \A x \in builtin : ns[x] = Def(kind, <<>>)
  /\ \A q \in nodes \ second : ~Pending(s, q) => ns[Here(q).name] = Def(kind, q)

NamespaceOf(s, ns, ops, builtin, kind) == Namespace(s, ns, ItemsOf(ops), Second(ops, builtin), builtin, kind)

SecondItems == Second(ValueOps, BuiltinValues) \cup Second({"struct"}, BuiltinTypes)
Definable == ItemsOf({"struct"} \cup ValueOps) \ SecondItems
DefOf(q) == Def(IF Here(q).op = "struct" THEN "type" ELSE "value", q)
ItemFaultsOf(p) == {ParamId(p, k) : k \in IF Here(p).op = "struct" THEN Repeated(Here(p).params) ELSE {}}
                   \cup (IF p \in SecondItems THEN {p} ELSE {})

NoMembers == [x \in {} |-> NoDef]
BuiltinMembersOf == [x \in BuiltinMembers |-> Def("member", <<>>)]

Collecting(s, ty, va, me, nd, di) ==
  /\ \A t \in TasksIn(s) : t.do = "visit" /\ Len(t.at) = 1
  /\ NamespaceOf(s, ty, {"struct"}, BuiltinTypes, "type")
  /\ NamespaceOf(s, va, ValueOps, BuiltinValues, "value")
  /\ nd = [q \in {q \in Definable : ~Pending(s, q)} |-> DefOf(q)]
  /\ me = [t \in {<<>>} \cup {q \in Definable : ~Pending(s, q) /\ Here(q).op = "struct"} |->
             IF t = <<>> THEN BuiltinMembersOf ELSE NoMembers]
  /\ di = UNION {ItemFaultsOf(q) : q \in {q \in ItemsOf(ItemOps) : ~Pending(s, q)}}

\* At the visit of an item its name is taken exactly when an earlier item or a builtin
\* has it.
LEMMA SecondFacts ==
    ASSUME crate \in Crates, NEW s, Walking(s), Head(s).do = "visit", NEW p, p = Head(s).at, Len(p) = 1,
           NEW ops, NEW builtin, NEW kind, NEW ns, NamespaceOf(s, ns, ops, builtin, kind), Here(p).op \in ops
    PROVE  Here(p).name \in DOMAIN ns <=> p \in Second(ops, builtin)
<1>1. p \in DOMAIN crate /\ p \in Path
  BY HeadFacts
<1>2. ASSUME NEW q \in ItemsOf(ops) PROVE ~Pending(s, q) <=> q[1] < p[1]
  <2>1. q \in DOMAIN crate /\ q \in Path /\ Len(q) = 1
    BY NodeFacts DEF ItemsOf, Nodes
  <2>2. ~Under(q, p) /\ (Left(q, p) <=> q[1] < p[1])
    BY <1>1, <2>1, ItemsBeside
  <2> QED
    BY <2>1, <2>2, SeenIsLeft
<1>3. \A x : Items(ops, x) = {q \in ItemsOf(ops) : Here(q).name = x}
  BY DEF Items, ItemsOf
<1>4. Here(p).name \in DOMAIN ns <=> Here(p).name \in builtin \/ \E q \in Items(ops, Here(p).name) : q[1] < p[1]
  <2>1. DOMAIN ns = builtin \cup {Here(q).name : q \in {q \in ItemsOf(ops) : ~Pending(s, q)}}
    BY DEF NamespaceOf, Namespace
  <2>2. Here(p).name \in DOMAIN ns <=> Here(p).name \in builtin \/ \E q \in ItemsOf(ops) : ~Pending(s, q) /\ Here(q).name = Here(p).name
    BY <2>1
  <2>3. Here(p).name \in DOMAIN ns <=> Here(p).name \in builtin \/ \E q \in ItemsOf(ops) : q[1] < p[1] /\ Here(q).name = Here(p).name
    BY <1>2, <2>2
  <2> QED
    BY <1>3, <2>3
<1> QED
  BY <1>1, <1>4 DEF Second, Nodes

\* An item has been handled: the first one is no longer pending, no other changes.
LEMMA ItemHandled ==
    ASSUME NEW s, Walking(s), Head(s).do = "visit", NEW p, p = Head(s).at, Len(p) = 1,
           NEW ops
    PROVE  \A q \in ItemsOf(ops) : ~Pending(<<>> \o Tail(s), q) <=> ~Pending(s, q) \/ q = p
<1> SUFFICES ASSUME NEW q \in ItemsOf(ops) PROVE ~Pending(<<>> \o Tail(s), q) <=> ~Pending(s, q) \/ q = p
  OBVIOUS
<1>1. q \in DOMAIN crate /\ q \in Path /\ Len(q) = 1 /\ p \in Path
  BY HeadFacts, NodeFacts DEF ItemsOf, Nodes, Walking
<1>2. ~Under(p, q)
  BY <1>1, ItemsBeside
<1>3. Handled(s, <<>>, q) <=> q = p
  BY <1>1, <1>2, PassOver
<1> QED
  BY <1>1, <1>3, StepPending, PassOver

\* A namespace is not disturbed by a step that handles none of its items.
LEMMA NamespaceKept ==
    ASSUME NEW s, NEW n, NEW ns, NEW nodes, NEW second, NEW builtin, NEW kind,
           Namespace(s, ns, nodes, second, builtin, kind), \A q \in nodes : ~Pending(n, q) <=> ~Pending(s, q)
    PROVE  Namespace(n, ns, nodes, second, builtin, kind)
BY DEF Namespace

\* A namespace stays what it should be when the visited item is defined in it.
LEMMA NamespaceGrows ==
    ASSUME NEW s, NEW n, NEW ns, NEW nodes, NEW second, NEW builtin, NEW kind, NEW p \in nodes,
           Namespace(s, ns, nodes, second, builtin, kind),
           \A q \in nodes : ~Pending(n, q) <=> ~Pending(s, q) \/ q = p,
           Here(p).name \in DOMAIN ns <=> p \in second, NEW ns2,
           ns2 = IF p \in second THEN ns ELSE Defined(ns, Here(p).name, Def(kind, p))
    PROVE  Namespace(n, ns2, nodes, second, builtin, kind)
<1> DEFINE x == Here(p).name
<1>1. {q \in nodes : ~Pending(n, q)} = {q \in nodes : ~Pending(s, q)} \cup {p}
  OBVIOUS
<1>2. DOMAIN ns2 = DOMAIN ns \cup {x} /\ \A y \in DOMAIN ns : ns2[y] = ns[y]
  <2>1. CASE p \in second
    BY <2>1
  <2>2. CASE p \notin second
    BY <2>2 DEF Defined
  <2> QED
    BY <2>1, <2>2
<1>3. p \notin second => ns2[x] = Def(kind, p)
  BY DEF Defined
<1>4. DOMAIN ns2 = builtin \cup {Here(q).name : q \in {q \in nodes : ~Pending(n, q)}}
  BY <1>1, <1>2 DEF Namespace
<1>5. \A y \in builtin : ns2[y] = Def(kind, <<>>)
  BY <1>2 DEF Namespace
<1>6. ASSUME NEW q \in nodes \ second, ~Pending(n, q) PROVE ns2[Here(q).name] = Def(kind, q)
  <2>1. CASE q = p
    BY <1>3, <1>6, <2>1
  <2>2. CASE q # p
    <3>1. ~Pending(s, q)
      BY <1>6, <2>2
    <3>2. Here(q).name \in DOMAIN ns /\ ns[Here(q).name] = Def(kind, q)
      BY <1>6, <3>1 DEF Namespace
    <3> QED
      BY <1>2, <3>2
  <2> QED
    BY <2>1, <2>2
<1> QED
  BY <1>4, <1>5, <1>6 DEF Namespace

\* The two above, for the item at the head of the walk.
LEMMA NamespaceStep ==
    ASSUME crate \in Crates, NEW s, Walking(s), Head(s).do = "visit", NEW p, p = Head(s).at, Len(p) = 1,
           NEW ops, NEW builtin, NEW kind, NEW ns, NamespaceOf(s, ns, ops, builtin, kind), NEW ns2,
           ns2 = IF Here(p).op \in ops /\ p \notin Second(ops, builtin) THEN Defined(ns, Here(p).name, Def(kind, p)) ELSE ns
    PROVE  NamespaceOf(<<>> \o Tail(s), ns2, ops, builtin, kind)
<1>1. p \in DOMAIN crate
  BY HeadFacts
<1>2. \A q \in ItemsOf(ops) : ~Pending(<<>> \o Tail(s), q) <=> ~Pending(s, q) \/ q = p
  BY ItemHandled
<1>3. CASE Here(p).op \notin ops
  <2>1. p \notin ItemsOf(ops)
    BY <1>3 DEF ItemsOf
  <2>2. \A q \in ItemsOf(ops) : ~Pending(<<>> \o Tail(s), q) <=> ~Pending(s, q)
    BY <1>2, <2>1
  <2>3. ns2 = ns
    BY <1>3
  <2> QED
    BY <2>2, <2>3, NamespaceKept DEF NamespaceOf
<1>4. CASE Here(p).op \in ops
  <2>1. p \in ItemsOf(ops)
    BY <1>1, <1>4 DEF ItemsOf, Nodes
  <2>2. Here(p).name \in DOMAIN ns <=> p \in Second(ops, builtin)
    BY <1>4, SecondFacts
  <2>3. ns2 = IF p \in Second(ops, builtin) THEN ns ELSE Defined(ns, Here(p).name, Def(kind, p))
    BY <1>4
  <2> QED
    BY <1>2, <2>1, <2>2, <2>3, NamespaceGrows DEF NamespaceOf
<1> QED
  BY <1>3, <1>4

\* The tables with what the item p adds to them.
CollectedItem(p, ty, va, me, nd, di, ty2, va2, me2, nd2, di2) ==
  /\ ty2 = IF Here(p).op \in {"struct"} /\ p \notin Second({"struct"}, BuiltinTypes)
           THEN Defined(ty, Here(p).name, Def("type", p)) ELSE ty
  /\ va2 = IF Here(p).op \in ValueOps /\ p \notin Second(ValueOps, BuiltinValues)
           THEN Defined(va, Here(p).name, Def("value", p)) ELSE va
  /\ nd2 = IF p \in Definable THEN [q \in DOMAIN nd \cup {p} |-> IF q \in {p} THEN DefOf(p) ELSE nd[q]] ELSE nd
  /\ me2 = IF p \in Definable /\ Here(p).op = "struct" THEN Bound(me, p, NoMembers) ELSE me
  /\ di2 = di \cup ItemFaultsOf(p)

\* One visited item keeps the tables of the collection what they should be.
LEMMA CollectingStep ==
    ASSUME crate \in Crates, NEW s, Walking(s), Head(s).do = "visit", NEW p, p = Head(s).at, Len(p) = 1,
           NEW ty, NEW va, NEW me, NEW nd, NEW di, Collecting(s, ty, va, me, nd, di),
           NEW ty2, NEW va2, NEW me2, NEW nd2, NEW di2,
           CollectedItem(p, ty, va, me, nd, di, ty2, va2, me2, nd2, di2)
    PROVE  Collecting(<<>> \o Tail(s), ty2, va2, me2, nd2, di2) /\ p \notin DOMAIN nd
<1> DEFINE n == <<>> \o Tail(s)
<1>0. /\ ty2 = IF Here(p).op \in {"struct"} /\ p \notin Second({"struct"}, BuiltinTypes)
                THEN Defined(ty, Here(p).name, Def("type", p)) ELSE ty
      /\ va2 = IF Here(p).op \in ValueOps /\ p \notin Second(ValueOps, BuiltinValues)
                THEN Defined(va, Here(p).name, Def("value", p)) ELSE va
      /\ nd2 = IF p \in Definable THEN [q \in DOMAIN nd \cup {p} |-> IF q \in {p} THEN DefOf(p) ELSE nd[q]] ELSE nd
      /\ me2 = IF p \in Definable /\ Here(p).op = "struct" THEN Bound(me, p, NoMembers) ELSE me
      /\ di2 = di \cup ItemFaultsOf(p)
  BY DEF CollectedItem
<1>1. p \in DOMAIN crate /\ p \in Path /\ Pending(s, p) /\ Here(p).op \in ItemOps
  BY HeadFacts, ItemPlace
<1>2. \A ops : \A q \in ItemsOf(ops) : ~Pending(n, q) <=> ~Pending(s, q) \/ q = p
  BY ItemHandled
<1>3. NamespaceOf(n, ty2, {"struct"}, BuiltinTypes, "type")
  <2>1. NamespaceOf(s, ty, {"struct"}, BuiltinTypes, "type")
    BY DEF Collecting
  <2> QED
    BY <1>0, <2>1, NamespaceStep
<1>4. NamespaceOf(n, va2, ValueOps, BuiltinValues, "value")
  <2>1. NamespaceOf(s, va, ValueOps, BuiltinValues, "value")
    BY DEF Collecting
  <2> QED
    BY <1>0, <2>1, NamespaceStep
<1>5. \A t \in TasksIn(n) : t.do = "visit" /\ Len(t.at) = 1
  <2>1. TasksIn(n) \subseteq TasksIn(s)
    BY StepTasks, PassOver, EmptyFan
  <2> QED
    BY <2>1 DEF Collecting
<1> HIDE DEF n
<1>6. \A q \in Definable : ~Pending(n, q) <=> ~Pending(s, q) \/ q = p
  BY <1>2 DEF Definable
<1>7. nd = [q \in {q \in Definable : ~Pending(s, q)} |-> DefOf(q)] /\ p \notin DOMAIN nd
  BY <1>1 DEF Collecting
<1>8. nd2 = [q \in {q \in Definable : ~Pending(n, q)} |-> DefOf(q)]
  <2>1. CASE p \in Definable
    <3>1. {q \in Definable : ~Pending(n, q)} = DOMAIN nd \cup {p}
      BY <1>6, <1>7, <2>1
    <3>2. \A q \in DOMAIN nd \cup {p} : (IF q \in {p} THEN DefOf(p) ELSE nd[q]) = DefOf(q)
      BY <1>7
    <3> QED
      BY <1>0, <2>1, <3>1, <3>2
  <2>2. CASE p \notin Definable
    <3>1. {q \in Definable : ~Pending(n, q)} = {q \in Definable : ~Pending(s, q)}
      BY <1>6, <2>2
    <3> QED
      BY <1>0, <1>7, <2>2, <3>1
  <2> QED
    BY <2>1, <2>2
<1>9. me2 = [t \in {<<>>} \cup {q \in Definable : ~Pending(n, q) /\ Here(q).op = "struct"} |->
               IF t = <<>> THEN BuiltinMembersOf ELSE NoMembers]
  <2>1. me = [t \in {<<>>} \cup {q \in Definable : ~Pending(s, q) /\ Here(q).op = "struct"} |->
               IF t = <<>> THEN BuiltinMembersOf ELSE NoMembers]
    BY DEF Collecting
  <2>2. CASE p \in Definable /\ Here(p).op = "struct"
    <3>1. {q \in Definable : ~Pending(n, q) /\ Here(q).op = "struct"} = {q \in Definable : ~Pending(s, q) /\ Here(q).op = "struct"} \cup {p}
      BY <1>6, <2>2
    <3>2. p # <<>>
      BY <1>1, ItemPlace
    <3> QED
      BY <1>0, <2>1, <2>2, <3>1, <3>2 DEF Bound
  <2>3. CASE ~(p \in Definable /\ Here(p).op = "struct")
    <3>1. {q \in Definable : ~Pending(n, q) /\ Here(q).op = "struct"} = {q \in Definable : ~Pending(s, q) /\ Here(q).op = "struct"}
      BY <1>6, <2>3
    <3> QED
      BY <1>0, <2>1, <2>3, <3>1
  <2> QED
    BY <2>2, <2>3
<1>10. di2 = UNION {ItemFaultsOf(q) : q \in {q \in ItemsOf(ItemOps) : ~Pending(n, q)}}
  <2>1. di = UNION {ItemFaultsOf(q) : q \in {q \in ItemsOf(ItemOps) : ~Pending(s, q)}}
    BY DEF Collecting
  <2>2. p \in ItemsOf(ItemOps)
    BY <1>1 DEF ItemsOf, Nodes
  <2>3. {q \in ItemsOf(ItemOps) : ~Pending(n, q)} = {q \in ItemsOf(ItemOps) : ~Pending(s, q)} \cup {p}
    BY <1>2, <2>2
  <2> QED
    BY <1>0, <2>1, <2>3
<1>11. Collecting(n, ty2, va2, me2, nd2, di2)
  BY <1>3, <1>4, <1>5, <1>8, <1>9, <1>10 DEF Collecting
<1> QED
  BY <1>7, <1>11 DEF n

-----------------------------------------------------------------------------
(* The steps of the collection *)

WalkInv == crate \in Crates /\ Sorted(todo) /\ AtNodes(todo) /\ RightPending(todo)
CollectInv == Collecting(todo, types, values, members, node_def, diagnostics)
Quiet == scopes = <<>> /\ self_ty = NoDef /\ in_impl = FALSE

\* What is read off the crate does not change, since the crate does not.
LEMMA SameTree ==
    ASSUME crate' = crate
    PROVE  /\ Nodes' = Nodes
           /\ \A p : Here(p)' = Here(p)
           /\ \A ops : ItemsOf(ops)' = ItemsOf(ops)
           /\ \A ops, x : Items(ops, x)' = Items(ops, x)
           /\ \A ops, builtin : Second(ops, builtin)' = Second(ops, builtin)
<1>1. Nodes' = Nodes /\ \A p : Here(p)' = Here(p)
  BY DEF Nodes, Here
<1>2. \A ops : ItemsOf(ops)' = ItemsOf(ops)
  BY <1>1 DEF ItemsOf
<1>3. \A ops, x : Items(ops, x)' = Items(ops, x)
  BY <1>1 DEF Items
<1>4. \A ops, builtin : Second(ops, builtin)' = Second(ops, builtin)
  BY <1>1, <1>3 DEF Second
<1> QED
  BY <1>1, <1>2, <1>3, <1>4

\* The state of the walk, carried over to the next state.
LEMMA SameWalk ==
    ASSUME crate' = crate, crate \in Crates, Sorted(todo'), AtNodes(todo'), RightPending(todo')
    PROVE  WalkInv'
BY DEF WalkInv, AtNodes, RightPending

\* The state of the collection, carried over to the next state.
LEMMA SameCollecting ==
    ASSUME crate' = crate, Collecting(todo', types', values', members', node_def', diagnostics')
    PROVE  CollectInv'
<1>1. Definable' = Definable /\ SecondItems' = SecondItems
  BY SameTree DEF Definable, SecondItems
<1>2. \A q : DefOf(q)' = DefOf(q) /\ ItemFaultsOf(q)' = ItemFaultsOf(q)
  BY <1>1, SameTree DEF DefOf, ItemFaultsOf
<1>3. \A s, ns, nodes, second, builtin, kind :
        Namespace(s, ns, nodes, second, builtin, kind)' <=> Namespace(s, ns, nodes, second, builtin, kind)
  <2>1. \A S : {Here(q).name : q \in S}' = {Here(q).name : q \in S}
    BY DEF Here
  <2> SUFFICES ASSUME NEW s, NEW ns, NEW nodes, NEW second, NEW builtin, NEW kind
               PROVE  Namespace(s, ns, nodes, second, builtin, kind)' <=> Namespace(s, ns, nodes, second, builtin, kind)
    OBVIOUS
  <2>2. {Here(q).name : q \in {q \in nodes : ~Pending(s, q)}}' = {Here(q).name : q \in {q \in nodes : ~Pending(s, q)}}
    BY <2>1
  <2> QED
    BY <2>2, SameTree DEF Namespace
<1>4. \A s, ns, ops, builtin, kind : NamespaceOf(s, ns, ops, builtin, kind)' <=> NamespaceOf(s, ns, ops, builtin, kind)
  BY <1>3, SameTree DEF NamespaceOf
<1> QED
  BY <1>1, <1>2, <1>4, SameTree DEF CollectInv, Collecting

\* A node recorded for the first time does not panic.
LEMMA Recorded ==
    ASSUME NEW p, NEW d, Record(p, d), p \notin DOMAIN node_def
    PROVE  node_def' = [q \in DOMAIN node_def \cup {p} |-> IF q \in {p} THEN d ELSE node_def[q]] /\ panicked' = FALSE
<1> DEFINE e == [q \in {p} |-> d]
<1>1. DOMAIN e = {p} /\ e[p] = d
  OBVIOUS
<1>2. /\ node_def' = [q \in DOMAIN node_def \cup DOMAIN e |-> IF q \in DOMAIN e THEN e[q] ELSE node_def[q]]
      /\ panicked' = (DOMAIN e \cap DOMAIN node_def # {})
  BY DEF Record, RecordAll
<1> HIDE DEF e
<1>3. DOMAIN e \cap DOMAIN node_def = {}
  BY <1>1
<1>4. \A q \in DOMAIN node_def \cup {p} : (IF q \in DOMAIN e THEN e[q] ELSE node_def[q]) = IF q \in {p} THEN d ELSE node_def[q]
  BY <1>1
<1> QED
  BY <1>1, <1>2, <1>3, <1>4

\* The task of a handler.
LEMMA Handling ==
    ASSUME WalkInv, NEW ph, NEW do, NEW ops, Handles(ph, do, ops)
    PROVE  /\ Walking(todo) /\ Head(todo).do = do /\ P = Head(todo).at /\ P \in DOMAIN crate /\ P \in Path
           /\ Here(P).op \in ops /\ This = Here(P) /\ phase = ph /\ ~panicked
           /\ Head(todo) \in TasksIn(todo) /\ todo # <<>>
<1>1. Walking(todo)
  BY DEF WalkInv, Walking, Handles
<1> QED
  BY <1>1, HeadFacts DEF Handles, P, This, Walking

\* The walk goes on.
LEMMA WalkOn ==
    ASSUME NEW f, StepOf(todo, f), Then(f), crate' = crate
    PROVE  WalkInv' /\ todo' = f \o Tail(todo)
<1>1. Sorted(f \o Tail(todo)) /\ AtNodes(f \o Tail(todo)) /\ RightPending(f \o Tail(todo)) /\ crate \in Crates
  BY StepTasks, StepRight DEF StepOf
<1>2. todo' = f \o Tail(todo)
  BY DEF Then
<1> QED
  BY <1>1, <1>2, SameWalk

\* The walk of the collection stands at an item of the crate.
LEMMA CollectHead ==
    ASSUME WalkInv, CollectInv, NEW ops, Handles("collect", "visit", ops)
    PROVE  Len(P) = 1 /\ Walking(todo) /\ StepOf(todo, <<>>)
<1>1. Walking(todo) /\ Head(todo) \in TasksIn(todo) /\ P = Head(todo).at
  BY Handling
<1>2. Len(P) = 1
  BY <1>1 DEF CollectInv, Collecting
<1> QED
  BY <1>1, <1>2, PassOver

\* What the handlers of the collection have in common.
LEMMA CollectItem ==
    ASSUME WalkInv, CollectInv, NEW ops, Handles("collect", "visit", ops), Then(<<>>), crate' = crate,
           types' = IF Here(P).op \in {"struct"} /\ P \notin Second({"struct"}, BuiltinTypes)
                    THEN Defined(types, Here(P).name, Def("type", P)) ELSE types,
           values' = IF Here(P).op \in ValueOps /\ P \notin Second(ValueOps, BuiltinValues)
                    THEN Defined(values, Here(P).name, Def("value", P)) ELSE values,
           P \in Definable => Record(P, DefOf(P)),
           P \notin Definable => UNCHANGED unrecorded,
           members' = IF P \in Definable /\ Here(P).op = "struct" THEN Bound(members, P, NoMembers) ELSE members,
           diagnostics' = diagnostics \cup ItemFaultsOf(P)
    PROVE  WalkInv' /\ CollectInv' /\ panicked' = FALSE
<1> DEFINE nd2 == IF P \in Definable THEN [q \in DOMAIN node_def \cup {P} |-> IF q \in {P} THEN DefOf(P) ELSE node_def[q]] ELSE node_def
           n == <<>> \o Tail(todo)
<1>1. Len(P) = 1 /\ Walking(todo) /\ StepOf(todo, <<>>)
  BY CollectHead
<1>2. WalkInv' /\ todo' = n
  BY <1>1, WalkOn
<1>3. crate \in Crates /\ Head(todo).do = "visit" /\ P = Head(todo).at /\ ~panicked
  BY Handling DEF WalkInv
<1>4. Collecting(todo, types, values, members, node_def, diagnostics)
  BY DEF CollectInv
<1>5. Collecting(n, types', values', members', nd2, diagnostics') /\ P \notin DOMAIN node_def
  <2>1. CollectedItem(P, types, values, members, node_def, diagnostics, types', values', members', nd2, diagnostics')
    BY DEF CollectedItem
  <2> HIDE DEF nd2
  <2> QED
    BY <1>1, <1>3, <1>4, <2>1, CollectingStep
<1>6. node_def' = nd2 /\ panicked' = FALSE
  <2>1. CASE P \in Definable
    BY <1>5, <2>1, Recorded
  <2>2. CASE P \notin Definable
    BY <1>3, <2>2 DEF unrecorded
  <2> QED
    BY <2>1, <2>2
<1> QED
  BY <1>2, <1>5, <1>6, SameCollecting

\* What a handler of the collection reads in the tables, told from the crate.
LEMMA CollectFacts ==
    ASSUME WalkInv, CollectInv, NEW ops, Handles("collect", "visit", ops)
    PROVE  /\ Here(P).op \in ValueOps => /\ Here(P).name \in DOMAIN values <=> P \in Second(ValueOps, BuiltinValues)
                                         /\ P \in Definable <=> P \notin Second(ValueOps, BuiltinValues)
                                         /\ ItemFaultsOf(P) = IF P \in Second(ValueOps, BuiltinValues) THEN {P} ELSE {}
                                         /\ DefOf(P) = Def("value", P) /\ Here(P).op # "struct"
           /\ Here(P).op = "struct" => /\ Here(P).name \in DOMAIN types <=> P \in Second({"struct"}, BuiltinTypes)
                                       /\ P \in Definable <=> P \notin Second({"struct"}, BuiltinTypes)
                                       /\ ItemFaultsOf(P) = {ParamId(P, k) : k \in Repeated(Here(P).params)}
                                                            \cup (IF P \in Second({"struct"}, BuiltinTypes) THEN {P} ELSE {})
                                       /\ DefOf(P) = Def("type", P) /\ Here(P).op \notin ValueOps
           /\ Here(P).op = "impl" => P \notin Definable /\ ItemFaultsOf(P) = {} /\ Here(P).op \notin ValueOps
<1>1. /\ Len(P) = 1 /\ Walking(todo) /\ Head(todo).do = "visit" /\ P = Head(todo).at /\ P \in DOMAIN crate /\ crate \in Crates
  BY Handling, CollectHead DEF WalkInv
<1>2. "struct" \notin ValueOps /\ "impl" \notin ValueOps
  BY DEF ValueOps
<1>3. P \in SecondItems <=> \/ Here(P).op \in ValueOps /\ P \in Second(ValueOps, BuiltinValues)
                            \/ Here(P).op = "struct" /\ P \in Second({"struct"}, BuiltinTypes)
  BY DEF SecondItems, Second
<1>4. Here(P).op \in ValueOps => (Here(P).name \in DOMAIN values <=> P \in Second(ValueOps, BuiltinValues))
  <2>1. NamespaceOf(todo, values, ValueOps, BuiltinValues, "value")
    BY DEF CollectInv, Collecting
  <2> QED
    BY <1>1, <2>1, SecondFacts
<1>5. Here(P).op = "struct" => (Here(P).name \in DOMAIN types <=> P \in Second({"struct"}, BuiltinTypes))
  <2>1. NamespaceOf(todo, types, {"struct"}, BuiltinTypes, "type")
    BY DEF CollectInv, Collecting
  <2>2. Here(P).op = "struct" => Here(P).op \in {"struct"}
    OBVIOUS
  <2> QED
    BY <1>1, <2>1, <2>2, SecondFacts
<1>6. Here(P).op \in {"struct"} \cup ValueOps => (P \in Definable <=> P \notin SecondItems)
  BY <1>1 DEF Definable, ItemsOf, Nodes
<1>7. Here(P).op = "impl" => P \notin Definable
  BY <1>2 DEF Definable, ItemsOf
<1>8. ItemFaultsOf(P) = {ParamId(P, k) : k \in IF Here(P).op = "struct" THEN Repeated(Here(P).params) ELSE {}}
                        \cup (IF P \in SecondItems THEN {P} ELSE {})
  BY DEF ItemFaultsOf
<1>9. Here(P).op # "struct" => ItemFaultsOf(P) = IF P \in SecondItems THEN {P} ELSE {}
  BY <1>8
<1> QED
  BY <1>2, <1>3, <1>4, <1>5, <1>6, <1>7, <1>8, <1>9 DEF DefOf

\* Every handler of the collection keeps its invariant.
LEMMA CollectSteps ==
    ASSUME WalkInv, CollectInv, Quiet, CollectValue \/ CollectStruct \/ SkipImpl
    PROVE  WalkInv' /\ CollectInv' /\ Quiet' /\ phase' = "collect" /\ panicked' = FALSE
<1>1. CASE CollectValue
  <2>1. Handles("collect", "visit", ValueOps) /\ This = Here(P) /\ Here(P).op \in ValueOps /\ phase = "collect" /\ ~panicked
    BY <1>1, Handling DEF CollectValue
  <2>2. /\ Here(P).name \in DOMAIN values <=> P \in Second(ValueOps, BuiltinValues)
        /\ P \in Definable <=> P \notin Second(ValueOps, BuiltinValues)
        /\ ItemFaultsOf(P) = IF P \in Second(ValueOps, BuiltinValues) THEN {P} ELSE {}
        /\ DefOf(P) = Def("value", P) /\ Here(P).op # "struct"
    BY <2>1, CollectFacts
  <2>3. Then(<<>>) /\ crate' = crate /\ phase' = phase /\ types' = types /\ members' = members /\ Quiet'
    BY <1>1 DEF CollectValue, Quiet, context
  <2>4. values' = IF Here(P).op \in ValueOps /\ P \notin Second(ValueOps, BuiltinValues)
                  THEN Defined(values, Here(P).name, Def("value", P)) ELSE values
    BY <1>1, <2>1, <2>2 DEF CollectValue
  <2>5. (P \in Definable => Record(P, DefOf(P))) /\ (P \notin Definable => UNCHANGED unrecorded)
    BY <1>1, <2>1, <2>2 DEF CollectValue
  <2>6. diagnostics' = diagnostics \cup ItemFaultsOf(P)
    BY <1>1, <2>1, <2>2 DEF CollectValue, Report
  <2> QED
    BY <2>1, <2>2, <2>3, <2>4, <2>5, <2>6, CollectItem
<1>2. CASE CollectStruct
  <2>1. Handles("collect", "visit", {"struct"}) /\ This = Here(P) /\ Here(P).op = "struct" /\ phase = "collect" /\ ~panicked
    BY <1>2, Handling DEF CollectStruct
  <2>2. /\ Here(P).name \in DOMAIN types <=> P \in Second({"struct"}, BuiltinTypes)
        /\ P \in Definable <=> P \notin Second({"struct"}, BuiltinTypes)
        /\ ItemFaultsOf(P) = {ParamId(P, k) : k \in Repeated(Here(P).params)}
                                                            \cup (IF P \in Second({"struct"}, BuiltinTypes) THEN {P} ELSE {})
        /\ DefOf(P) = Def("type", P) /\ Here(P).op \notin ValueOps
    BY <2>1, CollectFacts
  <2>3. Then(<<>>) /\ crate' = crate /\ phase' = phase /\ values' = values /\ Quiet'
    BY <1>2 DEF CollectStruct, Quiet, context
  <2>4. types' = IF Here(P).op \in {"struct"} /\ P \notin Second({"struct"}, BuiltinTypes)
                 THEN Defined(types, Here(P).name, Def("type", P)) ELSE types
    BY <1>2, <2>1, <2>2 DEF CollectStruct
  <2>5. (P \in Definable => Record(P, DefOf(P))) /\ (P \notin Definable => UNCHANGED unrecorded)
    BY <1>2, <2>1, <2>2 DEF CollectStruct
  <2>6. members' = IF P \in Definable /\ Here(P).op = "struct" THEN Bound(members, P, NoMembers) ELSE members
    BY <1>2, <2>1, <2>2 DEF CollectStruct, NoMembers
  <2>7. diagnostics' = diagnostics \cup ItemFaultsOf(P)
    BY <1>2, <2>1, <2>2 DEF CollectStruct, Report
  <2>8. values' = IF Here(P).op \in ValueOps /\ P \notin Second(ValueOps, BuiltinValues)
                    THEN Defined(values, Here(P).name, Def("value", P)) ELSE values
    BY <2>2, <2>3
  <2> QED
    BY <2>1, <2>3, <2>4, <2>5, <2>6, <2>7, <2>8, CollectItem
<1>3. CASE SkipImpl
  <2>1. Handles("collect", "visit", {"impl"}) /\ Here(P).op = "impl" /\ phase = "collect" /\ ~panicked
    BY <1>3, Handling DEF SkipImpl
  <2>2. P \notin Definable /\ ItemFaultsOf(P) = {} /\ Here(P).op \notin ValueOps
    BY <2>1, CollectFacts
  <2>3. /\ Then(<<>>) /\ crate' = crate /\ phase' = phase /\ Quiet' /\ UNCHANGED <<tables, unrecorded, diagnostics>>
    BY <1>3 DEF SkipImpl, Quiet, context, unrecorded
  <2>4. diagnostics' = diagnostics \cup ItemFaultsOf(P)
    BY <2>2, <2>3
  <2>5. /\ types' = IF Here(P).op \in {"struct"} /\ P \notin Second({"struct"}, BuiltinTypes)
                    THEN Defined(types, Here(P).name, Def("type", P)) ELSE types
        /\ values' = IF Here(P).op \in ValueOps /\ P \notin Second(ValueOps, BuiltinValues)
                    THEN Defined(values, Here(P).name, Def("value", P)) ELSE values
        /\ members' = IF P \in Definable /\ Here(P).op = "struct" THEN Bound(members, P, NoMembers) ELSE members
    BY <2>1, <2>2, <2>3 DEF tables
  <2>6. UNCHANGED unrecorded
    BY <2>3
  <2> QED
    BY <2>1, <2>2, <2>3, <2>4, <2>5, <2>6, CollectItem
<1> QED
  BY <1>1, <1>2, <1>3

-----------------------------------------------------------------------------
(* What the collection leaves: complete tables of items *)

Structs == ItemsOf({"struct"})
Impls == ItemsOf({"impl"})
Definables == ItemsOf({"struct"} \cup ValueOps)

ItemTables(ty, va) ==
  /\ ItemFaults = {}
  /\ Namespace(<<>>, ty, Structs, {}, BuiltinTypes, "type")
  /\ Namespace(<<>>, va, ItemsOf(ValueOps), {}, BuiltinValues, "value")

\* The element of a singleton.
LEMMA TheOnly ==
    ASSUME NEW x
    PROVE  The({x}) = x
BY DEF The

WithName(nodes, x) == {q \in nodes : Here(q).name = x}
\* The name x means found, the only one to have it, or what is built in, or nothing.
LooksUp(ns, builtin, kind, x, found) ==
  /\ x \in DOMAIN ns <=> x \in builtin \/ found # {}
  /\ found # {} => x \notin builtin /\ The(found) \in found /\ ns[x] = Def(kind, The(found))
  /\ x \in builtin => ns[x] = Def(kind, <<>>)
  /\ \A q \in found : found = {q}

\* In a complete namespace a name means what has it.
LEMMA NamespaceLookup ==
    ASSUME NEW ns, NEW nodes, NEW builtin, NEW kind, Namespace(<<>>, ns, nodes, {}, builtin, kind),
           <<>> \notin nodes, NEW x
    PROVE  LooksUp(ns, builtin, kind, x, WithName(nodes, x))
<1> DEFINE found == WithName(nodes, x)
<1>1. \A q \in nodes : ~Pending(<<>>, q)
  BY PassEnds
<1>2. /\ DOMAIN ns = builtin \cup {Here(q).name : q \in nodes}
      /\ \A y \in builtin : ns[y] = Def(kind, <<>>)
      /\ \A q \in nodes : ns[Here(q).name] = Def(kind, q)
  BY <1>1 DEF Namespace
<1>3. \A q \in found : ns[x] = Def(kind, q) /\ q \in nodes
  BY <1>2 DEF WithName
<1> HIDE DEF found
<1>7. found # {} <=> x \in {Here(q).name : q \in nodes}
  BY DEF found, WithName
<1>4. \A p, q : Def(kind, p) = Def(kind, q) => p = q
  BY DEF Def
<1>5. \A q \in found : found = {q}
  BY <1>3, <1>4
<1>6. ASSUME found # {} PROVE x \notin builtin /\ The(found) \in found /\ ns[x] = Def(kind, The(found))
  <2>1. PICK q \in found : TRUE
    BY <1>6
  <2>2. The(found) = q
    BY <1>5, <2>1, TheOnly
  <2>3. q # <<>>
    BY <1>3, <2>1
  <2> QED
    BY <1>2, <1>3, <1>4, <2>1, <2>2, <2>3
<1> QED
  BY <1>2, <1>7, <1>5, <1>6 DEF LooksUp, found

\* The collection reports the faults of the items, and without any leaves complete
\* tables.
LEMMA CollectEnds ==
    ASSUME crate \in Crates, NEW ty, NEW va, NEW me, NEW nd, NEW di, Collecting(<<>>, ty, va, me, nd, di)
    PROVE  /\ di = ItemFaults
           /\ \A q \in DOMAIN nd : Here(q).op \in ItemOps
           /\ ItemFaults = {} => /\ ItemTables(ty, va)
                                 /\ nd = [q \in Definables |-> DefOf(q)]
                                 /\ me = [t \in {<<>>} \cup Structs |-> IF t = <<>> THEN BuiltinMembersOf ELSE NoMembers]
<1>1. \A q : ~Pending(<<>>, q)
  BY PassEnds
<1>2. di = UNION {ItemFaultsOf(q) : q \in ItemsOf(ItemOps)}
  BY <1>1 DEF Collecting
<1>3. \A d : d \in UNION {ItemFaultsOf(q) : q \in ItemsOf(ItemOps)} <=> d \in ItemFaults
  <2> TAKE d
  <2>1. \A q \in ItemsOf(ItemOps) :
          d \in ItemFaultsOf(q) <=> \/ Here(q).op = "struct" /\ \E k \in Repeated(Here(q).params) : d = ParamId(q, k)
                                    \/ d = q /\ q \in SecondItems
    BY DEF ItemFaultsOf
  <2>2. d \in Repeats("struct") <=> \E q \in ItemsOf(ItemOps) : Here(q).op = "struct" /\ \E k \in Repeated(Here(q).params) : d = ParamId(q, k)
    <3>1. UsesOf({"struct"}) = {q \in ItemsOf(ItemOps) : Here(q).op = "struct"}
      <4>1. ASSUME NEW q \in DOMAIN crate, Here(q).op = "struct" PROVE Len(q) = 1 /\ q # <<>> /\ Here(q).name # NoName
        <5>1. Len(q) = 1 /\ q # <<>>
          BY <4>1, TopOpPlace
        <5> QED
          BY <4>1, <5>1, GrammarFacts DEF Keywords
      <4>2. "struct" \in ItemOps
        BY DEF ItemOps
      <4> QED
        BY <4>1, <4>2 DEF UsesOf, ItemsOf, Nodes
    <3> QED
      BY <3>1 DEF Repeats
  <2>3. SecondItems \subseteq ItemsOf(ItemOps)
    BY DEF SecondItems, Second, ItemsOf, ItemOps
  <2> QED
    BY <2>1, <2>2, <2>3 DEF ItemFaults, SecondItems
<1>4. di = ItemFaults
  <2>1. \A d : d \in di <=> d \in ItemFaults
    BY <1>2, <1>3
  <2>2. di \subseteq ItemFaults /\ ItemFaults \subseteq di
    BY <2>1
  <2> QED
    BY <2>2
<1>5. \A q \in DOMAIN nd : Here(q).op \in ItemOps
  BY DEF Collecting, Definable, ItemsOf, ItemOps
<1>6. ASSUME ItemFaults = {} PROVE /\ ItemTables(ty, va)
                                 /\ nd = [q \in Definables |-> DefOf(q)]
                                 /\ me = [t \in {<<>>} \cup Structs |-> IF t = <<>> THEN BuiltinMembersOf ELSE NoMembers]
  <2>1. Second(ValueOps, BuiltinValues) = {} /\ Second({"struct"}, BuiltinTypes) = {}
    BY <1>6 DEF ItemFaults
  <2>2. Definable = Definables
    BY <2>1 DEF Definable, Definables, SecondItems
  <2>3. ItemTables(ty, va)
    BY <1>6, <2>1 DEF ItemTables, Collecting, NamespaceOf, Structs
  <2>4. nd = [q \in Definables |-> DefOf(q)]
    BY <1>1, <2>2 DEF Collecting
  <2>5. {q \in Definable : ~Pending(<<>>, q) /\ Here(q).op = "struct"} = Structs
    BY <1>1, <2>2 DEF Definables, Structs, ItemsOf
  <2>6. me = [t \in {<<>>} \cup Structs |-> IF t = <<>> THEN BuiltinMembersOf ELSE NoMembers]
    BY <2>5 DEF Collecting
  <2> QED
    BY <2>3, <2>4, <2>6
<1> QED
  BY <1>4, <1>5, <1>6

\* The type of this name.
TypeNamed(x) == IF Items({"struct"}, x) # {} THEN Def("type", The(Items({"struct"}, x)))
                ELSE IF x \in BuiltinTypes THEN Def("type", <<>>) ELSE NoDef

\* In complete tables a name is bound to the one item of that name.
LEMMA TypesAreItems ==
    ASSUME crate \in Crates, NEW ty, NEW va, ItemTables(ty, va), NEW x
    PROVE  /\ (IF x \in DOMAIN ty THEN ty[x] ELSE NoDef) = TypeNamed(x)
           /\ x \in DOMAIN ty \ BuiltinTypes <=> Items({"struct"}, x) # {}
           /\ x \in DOMAIN ty <=> TypeNamed(x) # NoDef
           /\ \A q \in Structs : Items({"struct"}, Here(q).name) = {q} /\ ty[Here(q).name] = Def("type", q) /\ TypeNamed(Here(q).name) = Def("type", q)
           /\ TypeNamed(x) # NoDef => TypeNamed(x).at \in {<<>>} \cup Structs
<1>1. <<>> \notin Structs
  <2>1. Len(<<>>) # 1
    BY EmptySeq
  <2> QED
    BY <2>1 DEF Structs, ItemsOf
<1>2. \A y : Items({"struct"}, y) = {q \in Structs : Here(q).name = y} /\ Items({"struct"}, y) = WithName(Structs, y)
  BY DEF Items, Structs, ItemsOf, WithName
<1>3. Namespace(<<>>, ty, Structs, {}, BuiltinTypes, "type")
  BY DEF ItemTables
<1>4. \A y : /\ y \in DOMAIN ty <=> y \in BuiltinTypes \/ Items({"struct"}, y) # {}
             /\ Items({"struct"}, y) # {} => y \notin BuiltinTypes /\ The(Items({"struct"}, y)) \in Items({"struct"}, y) /\ ty[y] = Def("type", The(Items({"struct"}, y)))
             /\ y \in BuiltinTypes => ty[y] = Def("type", <<>>)
             /\ \A q \in Items({"struct"}, y) : Items({"struct"}, y) = {q}
  <2> TAKE y
  <2>1. LooksUp(ty, BuiltinTypes, "type", y, WithName(Structs, y))
    BY <1>1, <1>3, NamespaceLookup
  <2> QED
    BY <1>2, <2>1 DEF LooksUp
<1>5. \A p : Def("type", p) # NoDef /\ Def("type", p).at = p
  BY DEF NoDef, Def
<1>6. ASSUME NEW q \in Structs PROVE Items({"struct"}, Here(q).name) = {q} /\ ty[Here(q).name] = Def("type", q) /\ TypeNamed(Here(q).name) = Def("type", q)
  <2>1. q \in Items({"struct"}, Here(q).name)
    BY <1>2
  <2>2. Items({"struct"}, Here(q).name) = {q}
    BY <1>4, <2>1
  <2>3. The(Items({"struct"}, Here(q).name)) = q
    BY <2>2, TheOnly
  <2> QED
    BY <1>4, <2>1, <2>2, <2>3 DEF TypeNamed
<1>7. (IF x \in DOMAIN ty THEN ty[x] ELSE NoDef) = TypeNamed(x)
  BY <1>4 DEF TypeNamed
<1>8. x \in DOMAIN ty \ BuiltinTypes <=> Items({"struct"}, x) # {}
  BY <1>4
<1>9. x \in DOMAIN ty <=> TypeNamed(x) # NoDef
  BY <1>4, <1>5 DEF TypeNamed
<1>10. TypeNamed(x) # NoDef => TypeNamed(x).at \in {<<>>} \cup Structs
  <2>1. Items({"struct"}, x) # {} => The(Items({"struct"}, x)) \in Structs
    BY <1>2, <1>4
  <2> QED
    BY <1>5, <2>1 DEF TypeNamed
<1> QED
  BY <1>6, <1>7, <1>8, <1>9, <1>10

-----------------------------------------------------------------------------
(* The collection of impls *)

Assoc == {q \in Nodes : Len(q) = 2 /\ Here(q).op \in ValueOps /\ Here(Front(q)).op = "impl" /\ Front(q) \notin NoTarget}
AssocOf(t) == {q \in Assoc : Here(Front(q)).name = Here(t).name}
Targets == {q \in Nodes : Len(q) = 2 /\ Last(q) = 1 /\ Here(Front(q)).op = "impl" /\ Front(q) \notin NoTarget}
NodeDefOf(ty, q) == IF q \in Definables THEN DefOf(q) ELSE IF q \in Assoc THEN Def("member", q) ELSE ty[Here(q).name]
RecordedIn(s) == Definables \cup {q \in Impls \ NoTarget : ~Pending(s, q)} \cup {q \in Targets : ~Pending(s, Front(q))}
                 \cup {q \in Assoc \ SecondAssociates : ~Pending(s, q)}

Implementing(s, ty, va, me, nd, di) ==
  /\ \A t \in TasksIn(s) : t.do = "visit" /\ (Len(t.at) = 1 \/ (t.at \in Assoc /\ ~Pending(s, Front(t.at))))
  /\ ItemTables(ty, va)
  /\ nd = [q \in RecordedIn(s) |-> NodeDefOf(ty, q)]
  /\ DOMAIN me = {<<>>} \cup Structs /\ me[<<>>] = BuiltinMembersOf
  /\ \A t \in Structs : Namespace(s, me[t], AssocOf(t), SecondAssociates, {}, "member")
  /\ di = {d \in ImplFaults : ~Pending(s, d)}

\* A node of the second level and its parent.
LEMMA NodeAtTwo ==
    ASSUME crate \in Crates, NEW q \in DOMAIN crate, Len(q) = 2
    PROVE  /\ q \in Path /\ q # <<>>
           /\ Front(q) \in DOMAIN crate /\ Front(q) \in Path /\ Len(Front(q)) = 1
           /\ Last(q) = q[2] /\ Front(q)[1] = q[1] /\ q = Append(Front(q), Last(q))
<1>1. q \in Path
  BY NodeFacts
<1>2. q # <<>>
  <2>1. Len(<<>>) = 0
    BY EmptySeq
  <2> QED
    BY <2>1
<1>3. Front(q) \in DOMAIN crate
  BY <1>2, NodeFacts
<1>4. /\ Front(q) \in Path /\ Len(Front(q)) = Len(q) - 1 /\ Last(q) = q[Len(q)] /\ q = Append(Front(q), Last(q))
      /\ \A k \in 1 .. Len(q) - 1 : Front(q)[k] = q[k]
  BY <1>1, <1>2, FrontFacts
<1>5. 1 \in 1 .. Len(q) - 1
  OBVIOUS
<1>6. Front(q)[1] = q[1]
  BY <1>4, <1>5
<1>7. Len(Front(q)) = 1 /\ Last(q) = q[2]
  BY <1>4
<1> QED
  BY <1>1, <1>2, <1>3, <1>4, <1>6, <1>7

\* The faults of impls are at impls and at their items.
LEMMA FaultPlace ==
    ASSUME crate \in Crates
    PROVE  NoTarget \subseteq Impls /\ SecondAssociates \subseteq Assoc
<1>1. NoTarget \subseteq Impls
  BY DEF NoTarget, Impls, ItemsOf
<1>2. ASSUME NEW q \in SecondAssociates PROVE q \in Assoc
  <2>1. q \in Nodes /\ Here(q).op \in ValueOps /\ Len(q) = 2 /\ Front(q) \notin NoTarget
    BY DEF SecondAssociates, UsesOf
  <2>2. Here(Front(q)).op = "impl"
    BY <2>1, ItemOpPlace DEF Nodes, ItemOps
  <2> QED
    BY <2>1, <2>2 DEF Assoc
<1> QED
  BY <1>1, <1>2

\* An associated item stands in an impl of a struct.
LEMMA AssocFacts ==
    ASSUME crate \in Crates, NEW q \in Assoc
    PROVE  /\ q \in DOMAIN crate /\ q \in Path /\ q # <<>> /\ Len(q) = 2
           /\ Front(q) \in Impls \ NoTarget /\ Front(q) \in DOMAIN crate /\ Front(q) \in Path /\ Len(Front(q)) = 1
           /\ Last(q) # 1 /\ Last(q) = q[2] /\ Front(q)[1] = q[1] /\ q = Append(Front(q), Last(q))
           /\ Here(q).name \notin Keywords
<1>1. q \in DOMAIN crate /\ Len(q) = 2 /\ Here(q).op \in ValueOps /\ Here(Front(q)).op = "impl" /\ Front(q) \notin NoTarget
  BY DEF Assoc, Nodes
<1>2. q \in Path /\ q # <<>>
  BY <1>1, NodeAtTwo
<1>3. /\ Front(q) \in DOMAIN crate /\ Front(q) \in Path /\ Len(Front(q)) = 1 /\ Last(q) = q[2]
      /\ q = Append(Front(q), Last(q)) /\ Front(q)[1] = q[1]
  BY <1>1, NodeAtTwo
<1>4. Last(q) # 1
  BY <1>1, <1>2, GrammarFacts DEF ItemOps
<1>5. Here(q).name \notin Keywords
  BY <1>1, <1>2, GrammarFacts
<1>6. Front(q) \in Impls
  BY <1>1, <1>3 DEF Impls, ItemsOf, Nodes
<1> QED
  BY <1>1, <1>2, <1>3, <1>4, <1>5, <1>6

\* The target of an impl is its first child, of the impl's name.
LEMMA TargetFacts ==
    ASSUME crate \in Crates, NEW q \in Targets
    PROVE  /\ q \in DOMAIN crate /\ q \in Path /\ q # <<>> /\ Len(q) = 2 /\ Last(q) = 1
           /\ Front(q) \in Impls \ NoTarget /\ q = Append(Front(q), 1)
           /\ Here(q).op = "ty" /\ Here(q).name = Here(Front(q)).name
           /\ Here(q).size = 0
<1>1. q \in DOMAIN crate /\ Len(q) = 2 /\ Last(q) = 1 /\ Here(Front(q)).op = "impl" /\ Front(q) \notin NoTarget
  BY DEF Targets, Nodes
<1>2. q \in Path /\ q # <<>>
  BY <1>1, NodeAtTwo
<1>3. Front(q) \in DOMAIN crate /\ q = Append(Front(q), Last(q)) /\ Len(Front(q)) = 1
  BY <1>1, NodeAtTwo
<1>4. Here(q).op = "ty" /\ Here(q).name = Here(Front(q)).name
  BY <1>1, <1>2, GrammarFacts
<1>5. Front(q) \in Impls
  BY <1>1, <1>3 DEF Impls, ItemsOf, Nodes
<1>6. HasTarget(Front(q))
  BY <1>1, <1>3 DEF NoTarget, Nodes
<1>7. Here(q).size = 0
  BY <1>1, <1>3, <1>6 DEF HasTarget
<1> QED
  BY <1>1, <1>2, <1>3, <1>4, <1>5, <1>7

\* An impl has a node for its target, good or bad.
LEMMA ImplFacts ==
    ASSUME crate \in Crates, NEW p \in Impls
    PROVE  /\ p \in DOMAIN crate /\ p \in Path /\ Len(p) = 1 /\ Here(p).op = "impl" /\ Here(p).size \in Nat \ {0}
           /\ p \in NoTarget <=> Items({"struct"}, Here(p).name) = {} \/ Here(Append(p, 1)).size # 0
           /\ p \notin NoTarget => Append(p, 1) \in Targets
<1>1. p \in DOMAIN crate /\ Len(p) = 1 /\ Here(p).op = "impl"
  BY DEF Impls, ItemsOf, Nodes
<1>2. p \in Path /\ p # <<>>
  BY <1>1, NodeFacts, ItemPlace
<1>3. Here(p).size \in Nat \ {0}
  BY <1>1, <1>2, GrammarFacts, NodeFacts DEF Here
<1>4. p \in NoTarget <=> Items({"struct"}, Here(p).name) = {} \/ Here(Append(p, 1)).size # 0
  BY <1>1 DEF NoTarget, Nodes, HasTarget
<1>5. ASSUME p \notin NoTarget PROVE Append(p, 1) \in Targets
  <2>1. 1 \in Nat \ {0} /\ 1 \in 1 .. Here(p).size
    BY <1>3
  <2>2. Append(p, 1) \in DOMAIN crate
    BY <1>1, <2>1, NodeFacts DEF Here
  <2>3. Len(Append(p, 1)) = 2 /\ Front(Append(p, 1)) = p /\ Last(Append(p, 1)) = 1
    <3>1. Len(Append(p, 1)) = Len(p) + 1 /\ Front(Append(p, 1)) = p /\ Last(Append(p, 1)) = 1
      BY <1>2, <2>1, ChildFacts
    <3>2. Len(p) + 1 = 2
      BY <1>1
    <3> QED
      BY <3>1, <3>2
  <2> QED
    BY <1>1, <1>5, <2>2, <2>3 DEF Targets, Nodes
<1> QED
  BY <1>1, <1>2, <1>3, <1>4, <1>5

\* The struct an impl is for.
LEMMA TargetStruct ==
    ASSUME crate \in Crates, NEW ty, NEW va, ItemTables(ty, va), NEW i \in Impls \ NoTarget
    PROVE  /\ Here(i).name \in DOMAIN ty \ BuiltinTypes
           /\ \E t \in Structs : /\ ty[Here(i).name] = Def("type", t) /\ TypeNamed(Here(i).name) = Def("type", t)
                                 /\ Here(t).name = Here(i).name
                                 /\ \A u \in Structs : Here(u).name = Here(i).name => u = t
<1>1. Items({"struct"}, Here(i).name) # {}
  BY ImplFacts
<1>2. Here(i).name \in DOMAIN ty \ BuiltinTypes
  BY <1>1, TypesAreItems
<1>3. PICK t \in Items({"struct"}, Here(i).name) : TRUE
  BY <1>1
<1>4. t \in Structs /\ Here(t).name = Here(i).name
  BY <1>3 DEF Items, Structs, ItemsOf
<1>5. ty[Here(i).name] = Def("type", t) /\ TypeNamed(Here(i).name) = Def("type", t) /\ Items({"struct"}, Here(i).name) = {t}
  BY <1>4, TypesAreItems
<1>6. \A u \in Structs : Here(u).name = Here(i).name => u \in Items({"struct"}, Here(i).name)
  BY DEF Items, Structs, ItemsOf
<1> QED
  BY <1>2, <1>4, <1>5, <1>6

\* What the associated items of a struct are.
LEMMA AssocMembers ==
    ASSUME crate \in Crates, NEW t \in Structs, NEW x
    PROVE  Members(Here(t).name, x) = WithName(AssocOf(t), x)
<1>1. ASSUME NEW q \in Nodes, Len(q) = 2, Here(Front(q)).op = "impl"
      PROVE  Front(q) \notin NoTarget <=> HasTarget(Front(q))
  <2>1. Front(q) \in Nodes /\ Len(Front(q)) = 1
    BY <1>1, NodeAtTwo DEF Nodes
  <2> QED
    BY <1>1, <2>1 DEF NoTarget
<1> QED
  BY <1>1 DEF Members, WithName, AssocOf, Assoc

\* The tables of items are where the collection of impls starts from.
LEMMA ImplementingStarts ==
    ASSUME crate \in Crates, NEW ty, NEW va, NEW me, NEW nd, ItemTables(ty, va),
           nd = [q \in Definables |-> DefOf(q)],
           me = [t \in {<<>>} \cup Structs |-> IF t = <<>> THEN BuiltinMembersOf ELSE NoMembers]
    PROVE  Implementing(Children(<<>>), ty, va, me, nd, {})
<1> DEFINE s == Children(<<>>)
<1>1. \A r \in DOMAIN crate \ {<<>>} : Pending(s, r)
  BY PassStarts
<1>2. \A t \in TasksIn(s) : t.do = "visit" /\ Len(t.at) = 1
  BY PassStarts
<1> HIDE DEF s
<1>3. \A q \in Assoc : Pending(s, q)
  BY <1>1, AssocFacts
<1>4. \A q \in Impls : Pending(s, q)
  BY <1>1, ItemPlace DEF Impls, ItemsOf, Nodes
<1>5. \A q \in Targets : Pending(s, Front(q))
  BY <1>4, TargetFacts
<1>6. RecordedIn(s) = Definables
  BY <1>3, <1>4, <1>5 DEF RecordedIn
<1>7. nd = [q \in RecordedIn(s) |-> NodeDefOf(ty, q)]
  BY <1>6 DEF NodeDefOf
<1>8. <<>> \notin Structs
  <2>1. Len(<<>>) = 0
    BY EmptySeq
  <2> QED
    BY <2>1 DEF Structs, ItemsOf
<1>9. \A t \in Structs : Namespace(s, me[t], AssocOf(t), SecondAssociates, {}, "member")
  <2> SUFFICES ASSUME NEW t \in Structs PROVE Namespace(s, me[t], AssocOf(t), SecondAssociates, {}, "member")
    OBVIOUS
  <2>1. me[t] = NoMembers
    BY <1>8
  <2>2. \A q \in AssocOf(t) : Pending(s, q)
    BY <1>3 DEF AssocOf
  <2>3. {Here(q).name : q \in {q \in AssocOf(t) : ~Pending(s, q)}} = {}
    BY <2>2
  <2> QED
    BY <2>1, <2>2, <2>3 DEF Namespace, NoMembers
<1>10. {} = {d \in ImplFaults : ~Pending(s, d)}
  <2>1. ImplFaults \subseteq Impls \cup Assoc
    BY FaultPlace DEF ImplFaults
  <2> QED
    BY <1>3, <1>4, <2>1
<1>11. DOMAIN me = {<<>>} \cup Structs /\ me[<<>>] = BuiltinMembersOf
  OBVIOUS
<1> QED
  BY <1>2, <1>7, <1>9, <1>10, <1>11 DEF Implementing, s

\* A small fact of arithmetic, kept apart.
LEMMA OneTwo ==
    ASSUME NEW k
    PROVE  k = 1 => k + 1 = 2 /\ k # 2
OBVIOUS

ImplFan(p) == IF p \in Impls \ NoTarget THEN Associates(p) ELSE <<>>
\* The nodes bound when p is visited.
NewAt(p) == IF p \in Impls \ NoTarget THEN {p, Append(p, 1)} ELSE {p} \cap (Assoc \ SecondAssociates)
StructOf(ty, p) == ty[Here(Front(p)).name].at

ImplementedItem(p, ty, me, nd, di, me2, nd2, di2) ==
  /\ nd2 = [q \in DOMAIN nd \cup NewAt(p) |-> IF q \in NewAt(p) THEN NodeDefOf(ty, q) ELSE nd[q]]
  /\ me2 = IF p \in Assoc \ SecondAssociates
           THEN [me EXCEPT ![StructOf(ty, p)] = Defined(@, Here(p).name, Def("member", p))] ELSE me
  /\ di2 = di \cup ({p} \cap ImplFaults)

\* A visit of an impl is done but for its associated items.
LEMMA ImplHandled ==
    ASSUME NEW s, Walking(s), Head(s).do = "visit", NEW p, p = Head(s).at, Len(p) = 1 \/ p \in Assoc
    PROVE  /\ StepOf(s, ImplFan(p))
           /\ \A r \in ItemsOf(ItemOps) \cup Assoc : Handled(s, ImplFan(p), r) <=> r = p
           /\ \A t \in TasksIn(ImplFan(p)) : t.do = "visit" /\ t.at \in Assoc /\ Front(t.at) = p
<1>0. crate \in Crates /\ p \in DOMAIN crate /\ p \in Path
  BY HeadFacts DEF Walking
<1>1. \A r \in ItemsOf(ItemOps) : r \in DOMAIN crate /\ r \in Path /\ Len(r) = 1
  BY <1>0, NodeFacts DEF ItemsOf, Nodes
<1>2. \A r \in Assoc : r \in DOMAIN crate /\ r \in Path /\ Len(r) = 2
  BY <1>0, AssocFacts
<1>3. \A r \in ItemsOf(ItemOps) : ~Under(p, r)
  <2>1. Len(p) = 1 \/ Len(p) = 2
    BY <1>2
  <2> QED
    BY <1>1, <2>1 DEF Under
<1>4. \A r \in Assoc : Under(p, r) => Len(p) = 1 /\ p = Front(r)
  <2> SUFFICES ASSUME NEW r \in Assoc, Under(p, r) PROVE Len(p) = 1 /\ p = Front(r)
    OBVIOUS
  <2>1. Len(p) = 1
    BY <1>2 DEF Under
  <2>2. p[1] = r[1]
    BY <2>1 DEF Under
  <2>3. Front(r) \in Path /\ Len(Front(r)) = 1 /\ Front(r)[1] = r[1]
    BY <1>0, AssocFacts
  <2>4. p = Front(r)
    BY <1>0, <2>1, <2>2, <2>3, ItemsBeside
  <2> QED
    BY <2>1, <2>4
<1>5. CASE p \in Impls \ NoTarget
  <2> DEFINE f == Associates(p)
             n == Here(p).size
  <2>1. Len(p) = 1 /\ n \in Nat \ {0} /\ Here(p).op = "impl"
    BY <1>0, <1>5, ImplFacts
  <2>2. Fan(f, p) /\ TasksIn(f) = {Task("visit", Append(p, i)) : i \in 2 .. n}
    BY <1>0, <2>1, AssociatesFan
  <2>3. \A t \in TasksIn(f) : \E i \in 2 .. n : t = Task("visit", Append(p, i))
    BY <2>2
  <2>4. \A i \in 2 .. n : Task("visit", Append(p, i)) \in TasksIn(f)
    BY <2>2
  <2> HIDE DEF f
  <2>5. StepOf(s, f) /\ \A r \in DOMAIN crate : Handled(s, f, r) <=> r = p \/ (Under(p, r) /\ r[Len(p) + 1] = 1)
    BY <2>2, <2>3, <2>4, GoBeyond
  <2>6. ASSUME NEW r \in Assoc PROVE ~(r[Len(p) + 1] = 1)
    <3>1. Len(p) + 1 = 2
      BY <2>1, OneTwo
    <3> QED
      BY <1>0, <3>1, AssocFacts
  <2>7. ASSUME NEW t \in TasksIn(f) PROVE t.do = "visit" /\ t.at \in Assoc /\ Front(t.at) = p
    <3>1. PICK i \in 2 .. n : t = Task("visit", Append(p, i))
      BY <2>3
    <3>2. i \in Nat \ {0} /\ i \in 1 .. n /\ i # 1
      BY <2>1
    <3> DEFINE c == Append(p, i)
    <3>3. c \in DOMAIN crate
      BY <1>0, <3>2, NodeFacts DEF Here
    <3>4. Len(c) = Len(p) + 1 /\ Front(c) = p /\ Last(c) = i /\ c # <<>>
      BY <1>0, <3>2, ChildFacts
    <3> HIDE DEF c
    <3>5. Here(c).op \in ValueOps
      BY <1>0, <2>1, <3>2, <3>3, <3>4, GrammarFacts
    <3>6. Len(c) = 2
      BY <2>1, <3>4
    <3>7. c \in Assoc
      BY <1>5, <2>1, <3>3, <3>4, <3>5, <3>6 DEF Assoc, Nodes
    <3> QED
      BY <3>1, <3>4, <3>7 DEF Task, c
  <2> QED
    BY <1>1, <1>2, <1>3, <1>5, <2>5, <2>6, <2>7 DEF ImplFan, f
<1>6. CASE p \notin Impls \ NoTarget
  <2>1. \A r \in Assoc : ~Under(p, r)
    BY <1>0, <1>4, <1>6, AssocFacts
  <2>2. StepOf(s, <<>>) /\ \A r \in DOMAIN crate : Handled(s, <<>>, r) <=> (r = p \/ Under(p, r))
    BY PassOver
  <2>3. TasksIn(<<>>) = {}
    BY EmptyFan
  <2> QED
    BY <1>1, <1>2, <1>3, <1>6, <2>1, <2>2, <2>3 DEF ImplFan
<1> QED
  BY <1>5, <1>6

\* A name is taken when an associated item before has it.
LEMMA SecondAssociateFacts ==
    ASSUME NEW s, Walking(s), Head(s).do = "visit", NEW p, p = Head(s).at, p \in Assoc,
           NEW t \in Structs, p \in AssocOf(t), NEW ns, Namespace(s, ns, AssocOf(t), SecondAssociates, {}, "member")
    PROVE  Here(p).name \in DOMAIN ns <=> p \in SecondAssociates
<1>0. crate \in Crates /\ p \in Nodes /\ p \in Path /\ Len(p) = 2 /\ Here(p).name # NoName /\ Here(p).op \in ValueOps /\ Front(p) \notin NoTarget
  <2>1. crate \in Crates
    BY DEF Walking
  <2> QED
    BY <2>1, AssocFacts DEF Assoc, Keywords
<1>1. ASSUME NEW q \in AssocOf(t) PROVE ~Pending(s, q) <=> q[1] < p[1] \/ (q[1] = p[1] /\ q[2] < p[2])
  <2>1. q \in Path /\ Len(q) = 2 /\ q \in DOMAIN crate
    BY <1>0, AssocFacts DEF AssocOf
  <2>2. ~Under(q, p) /\ (Left(q, p) <=> q[1] < p[1] \/ (q[1] = p[1] /\ q[2] < p[2]))
    BY <1>0, <2>1, AssociatesBeside
  <2> QED
    BY <2>1, <2>2, SeenIsLeft
<1>2. Here(p).name \in DOMAIN ns <=> \E q \in AssocOf(t) : ~Pending(s, q) /\ Here(q).name = Here(p).name
  BY DEF Namespace
<1>3. Here(Front(p)).name = Here(t).name
  BY DEF AssocOf
<1>4. Members(Here(t).name, Here(p).name) = {q \in AssocOf(t) : Here(q).name = Here(p).name}
  BY <1>0, AssocMembers DEF WithName
<1>5. p \in SecondAssociates <=> \E q \in Members(Here(t).name, Here(p).name) : q[1] < p[1] \/ (q[1] = p[1] /\ q[2] < p[2])
  BY <1>0, <1>3 DEF SecondAssociates, UsesOf
<1> QED
  BY <1>1, <1>2, <1>4, <1>5

\* One visited item or associated item keeps the tables of members what they should be.
LEMMA ImplementingStep ==
    ASSUME NEW s, Walking(s), Head(s).do = "visit", NEW p, p = Head(s).at,
           NEW ty, NEW va, NEW me, NEW nd, NEW di, Implementing(s, ty, va, me, nd, di),
           NEW me2, NEW nd2, NEW di2, ImplementedItem(p, ty, me, nd, di, me2, nd2, di2)
    PROVE  Implementing(ImplFan(p) \o Tail(s), ty, va, me2, nd2, di2) /\ NewAt(p) \cap DOMAIN nd = {}
<1> DEFINE n == ImplFan(p) \o Tail(s)
           Rel == ItemsOf(ItemOps) \cup Assoc
<1>0. crate \in Crates /\ p \in DOMAIN crate /\ p \in Path /\ Pending(s, p) /\ Head(s) \in TasksIn(s)
  BY HeadFacts DEF Walking
<1>1. Len(p) = 1 \/ p \in Assoc
  BY <1>0 DEF Implementing
<1>2. /\ StepOf(s, ImplFan(p))
      /\ \A r \in Rel : Handled(s, ImplFan(p), r) <=> r = p
      /\ \A t \in TasksIn(ImplFan(p)) : t.do = "visit" /\ t.at \in Assoc /\ Front(t.at) = p
  BY <1>1, ImplHandled
<1>3. Rel \subseteq DOMAIN crate
  BY <1>0, AssocFacts DEF ItemsOf, Nodes
<1>4. \A r \in Rel : ~Pending(n, r) <=> ~Pending(s, r) \/ r = p
  BY <1>0, <1>2, <1>3, StepPending
<1>5. TasksIn(n) = TasksIn(ImplFan(p)) \cup TasksIn(Tail(s)) /\ TasksIn(s) = {Head(s)} \cup TasksIn(Tail(s))
  BY <1>2, StepTasks
<1>6. Impls \subseteq Rel /\ ImplFaults \subseteq Rel /\ p \in Rel
  <2>1. Impls \subseteq Rel
    BY DEF Impls, ItemsOf, ItemOps
  <2>2. Len(p) = 1 => p \in Rel
    BY <1>0, ItemPlace DEF ItemsOf, Nodes
  <2> QED
    BY <1>0, <1>1, <2>1, <2>2, FaultPlace DEF ImplFaults
<1> HIDE DEF n
<1>7. \A t \in TasksIn(n) : t.do = "visit" /\ (Len(t.at) = 1 \/ (t.at \in Assoc /\ ~Pending(n, Front(t.at))))
  <2> SUFFICES ASSUME NEW t \in TasksIn(n)
               PROVE t.do = "visit" /\ (Len(t.at) = 1 \/ (t.at \in Assoc /\ ~Pending(n, Front(t.at))))
    OBVIOUS
  <2>1. CASE t \in TasksIn(ImplFan(p))
    BY <1>2, <1>4, <1>6, <2>1
  <2>2. CASE t \in TasksIn(Tail(s))
    <3>1. t.do = "visit" /\ (Len(t.at) = 1 \/ (t.at \in Assoc /\ ~Pending(s, Front(t.at))))
      BY <1>5, <2>2 DEF Implementing
    <3>2. t.at \in Assoc => Front(t.at) \in Rel
      BY <1>0, <1>6, AssocFacts
    <3> QED
      BY <1>4, <3>1, <3>2
  <2> QED
    BY <1>5, <2>1, <2>2
<1>8. RecordedIn(n) = RecordedIn(s) \cup NewAt(p) /\ NewAt(p) \cap RecordedIn(s) = {}
  <2>0. p \notin Definables \/ p \notin Impls
    BY DEF Definables, Impls, ItemsOf, ValueOps
  <2>1. CASE p \in Impls \ NoTarget
    <3>1. NewAt(p) = {p, Append(p, 1)} /\ p \notin Assoc /\ Append(p, 1) \in Targets /\ Front(Append(p, 1)) = p /\ Len(p) = 1
      <4>1. Append(p, 1) \in Targets /\ Len(p) = 1
        BY <1>0, <2>1, ImplFacts
      <4>2. Front(Append(p, 1)) = p
        BY <1>0, ChildFacts
      <4>3. p \notin Assoc
        BY <4>1 DEF Assoc
      <4> QED
        BY <2>1, <4>1, <4>2, <4>3 DEF NewAt
    <3>2. \A q \in Targets : Front(q) = p <=> q = Append(p, 1)
      BY <1>0, <3>1, TargetFacts
    <3>3. \A q \in Targets : Front(q) \in Rel
      BY <1>0, <1>6, TargetFacts
    <3>4. \A q \in Targets : ~Pending(n, Front(q)) <=> ~Pending(s, Front(q)) \/ q = Append(p, 1)
      BY <1>4, <3>2, <3>3
    <3>5. \A q \in Impls \ NoTarget : ~Pending(n, q) <=> ~Pending(s, q) \/ q = p
      BY <1>4, <1>6
    <3>6. \A q \in Assoc \ SecondAssociates : ~Pending(n, q) <=> ~Pending(s, q)
      BY <1>4, <3>1
    <3>7. RecordedIn(n) = RecordedIn(s) \cup {p, Append(p, 1)}
      BY <2>1, <3>1, <3>4, <3>5, <3>6 DEF RecordedIn
    <3>8. p \notin RecordedIn(s)
      <4>1. p \notin Targets
        BY <3>1, OneTwo DEF Targets
      <4> QED
        BY <1>0, <2>0, <2>1, <3>1, <4>1 DEF RecordedIn
    <3>9. Append(p, 1) \notin RecordedIn(s)
      <4>1. Len(Append(p, 1)) = 2 /\ Append(p, 1) \notin Assoc
        BY <1>0, <3>1, TargetFacts, AssocFacts
      <4>2. Append(p, 1) \notin Definables /\ Append(p, 1) \notin Impls
        BY <4>1, OneTwo DEF Definables, Impls, ItemsOf
      <4> QED
        BY <1>0, <3>1, <4>1, <4>2 DEF RecordedIn
    <3> QED
      BY <3>1, <3>7, <3>8, <3>9
  <2>2. CASE p \notin Impls \ NoTarget
    <3>1. NewAt(p) = {p} \cap (Assoc \ SecondAssociates)
      BY <2>2 DEF NewAt
    <3>2. \A q \in Targets : ~Pending(n, Front(q)) <=> ~Pending(s, Front(q))
      <4>1. \A q \in Targets : Front(q) \in Rel /\ Front(q) # p
        BY <1>0, <1>6, <2>2, TargetFacts
      <4> QED
        BY <1>4, <4>1
    <3>3. \A q \in Impls \ NoTarget : ~Pending(n, q) <=> ~Pending(s, q)
      BY <1>4, <1>6, <2>2
    <3>4. \A q \in Assoc \ SecondAssociates : ~Pending(n, q) <=> ~Pending(s, q) \/ q = p
      BY <1>4
    <3>5. RecordedIn(n) = RecordedIn(s) \cup NewAt(p)
      BY <3>1, <3>2, <3>3, <3>4 DEF RecordedIn
    <3>6. p \in Assoc => p \notin RecordedIn(s)
      <4>1. p \in Assoc => p \notin Definables /\ p \notin Impls /\ p \notin Targets
        BY <1>0, AssocFacts DEF Definables, Impls, ItemsOf, Targets
      <4> QED
        BY <1>0, <4>1 DEF RecordedIn
    <3> QED
      BY <3>1, <3>5, <3>6
  <2> QED
    BY <2>1, <2>2
<1>9. nd = [q \in RecordedIn(s) |-> NodeDefOf(ty, q)]
  BY DEF Implementing
<1>10. nd2 = [q \in RecordedIn(n) |-> NodeDefOf(ty, q)] /\ NewAt(p) \cap DOMAIN nd = {}
  <2>1. nd2 = [q \in DOMAIN nd \cup NewAt(p) |-> IF q \in NewAt(p) THEN NodeDefOf(ty, q) ELSE nd[q]]
    BY DEF ImplementedItem
  <2>2. DOMAIN nd = RecordedIn(s) /\ \A q \in RecordedIn(s) : nd[q] = NodeDefOf(ty, q)
    BY <1>9
  <2>3. \A q \in DOMAIN nd \cup NewAt(p) : (IF q \in NewAt(p) THEN NodeDefOf(ty, q) ELSE nd[q]) = NodeDefOf(ty, q)
    BY <2>2
  <2>4. DOMAIN nd \cup NewAt(p) = RecordedIn(n)
    BY <1>8, <2>2
  <2> QED
    BY <1>8, <2>1, <2>2, <2>3, <2>4
<1>11. ItemTables(ty, va)
  BY DEF Implementing
<1>12. di2 = {d \in ImplFaults : ~Pending(n, d)}
  <2>1. di2 = di \cup ({p} \cap ImplFaults) /\ di = {d \in ImplFaults : ~Pending(s, d)}
    BY DEF ImplementedItem, Implementing
  <2>2. \A d \in ImplFaults : ~Pending(n, d) <=> ~Pending(s, d) \/ d = p
    BY <1>4, <1>6
  <2> QED
    BY <2>1, <2>2
<1>13. /\ DOMAIN me2 = {<<>>} \cup Structs /\ me2[<<>>] = BuiltinMembersOf
       /\ \A t \in Structs : Namespace(n, me2[t], AssocOf(t), SecondAssociates, {}, "member")
  <2>0. <<>> \notin Structs
    <3>1. Len(<<>>) = 0
      BY EmptySeq
    <3> QED
      BY <3>1 DEF Structs, ItemsOf
  <2>1. /\ DOMAIN me = {<<>>} \cup Structs /\ me[<<>>] = BuiltinMembersOf
        /\ \A t \in Structs : Namespace(s, me[t], AssocOf(t), SecondAssociates, {}, "member")
    BY DEF Implementing
  <2>2. \A t : AssocOf(t) \subseteq Assoc
    BY DEF AssocOf
  <2>3. \A t \in Structs : p \notin AssocOf(t) => Namespace(n, me[t], AssocOf(t), SecondAssociates, {}, "member")
    <3> SUFFICES ASSUME NEW t \in Structs, p \notin AssocOf(t) PROVE Namespace(n, me[t], AssocOf(t), SecondAssociates, {}, "member")
      OBVIOUS
    <3>1. \A q \in AssocOf(t) : ~Pending(n, q) <=> ~Pending(s, q)
      BY <1>4, <2>2
    <3> QED
      BY <2>1, <3>1, NamespaceKept
  <2>4. CASE p \notin Assoc
    <3>1. me2 = me
      BY <2>4 DEF ImplementedItem
    <3>2. \A t \in Structs : p \notin AssocOf(t)
      BY <2>2, <2>4
    <3> QED
      BY <2>1, <2>3, <3>1, <3>2
  <2>5. CASE p \in Assoc
    <3>1. Front(p) \in Impls \ NoTarget
      BY <1>0, <2>5, AssocFacts
    <3>2. PICK t \in Structs : /\ ty[Here(Front(p)).name] = Def("type", t) /\ Here(t).name = Here(Front(p)).name
                               /\ \A u \in Structs : Here(u).name = Here(Front(p)).name => u = t
      BY <1>0, <1>11, <3>1, TargetStruct
    <3>3. StructOf(ty, p) = t
      BY <3>2 DEF StructOf, Def
    <3>4. p \in AssocOf(t) /\ \A u \in Structs \ {t} : p \notin AssocOf(u)
      BY <2>5, <3>2 DEF AssocOf
    <3>5. Here(p).name \in DOMAIN me[t] <=> p \in SecondAssociates
      BY <2>1, <2>5, <3>4, SecondAssociateFacts
    <3> DEFINE g == IF p \in SecondAssociates THEN me[t] ELSE Defined(me[t], Here(p).name, Def("member", p))
    <3>6. \A q \in AssocOf(t) : ~Pending(n, q) <=> ~Pending(s, q) \/ q = p
      BY <1>4, <2>2
    <3>7. Namespace(n, g, AssocOf(t), SecondAssociates, {}, "member")
      <4>1. g = IF p \in SecondAssociates THEN me[t] ELSE Defined(me[t], Here(p).name, Def("member", p))
        OBVIOUS
      <4>2. Namespace(s, me[t], AssocOf(t), SecondAssociates, {}, "member")
        BY <2>1
      <4> HIDE DEF g
      <4> QED
        BY <3>4, <3>5, <3>6, <4>1, <4>2, NamespaceGrows
    <3>8. me2 = IF p \notin SecondAssociates THEN [me EXCEPT ![t] = Defined(@, Here(p).name, Def("member", p))] ELSE me
      BY <2>5, <3>3 DEF ImplementedItem
    <3>9. DOMAIN me2 = DOMAIN me /\ me2[t] = g /\ \A u \in DOMAIN me \ {t} : me2[u] = me[u]
      BY <2>1, <3>8
    <3> HIDE DEF g
    <3> QED
      BY <2>0, <2>1, <2>3, <3>4, <3>7, <3>9
  <2> QED
    BY <2>4, <2>5
<1> QED
  BY <1>7, <1>10, <1>11, <1>12, <1>13 DEF Implementing, n

-----------------------------------------------------------------------------
(* The steps of the collection of impls *)

ImplInv == Implementing(todo, types, values, members, node_def, diagnostics)

\* Namespaces depend on the crate only.
LEMMA SameNamespace ==
    ASSUME crate' = crate
    PROVE  \A s, ns, nodes, second, builtin, kind :
             Namespace(s, ns, nodes, second, builtin, kind)' <=> Namespace(s, ns, nodes, second, builtin, kind)
<1>1. \A S : {Here(q).name : q \in S}' = {Here(q).name : q \in S}
  BY DEF Here
<1> SUFFICES ASSUME NEW s, NEW ns, NEW nodes, NEW second, NEW builtin, NEW kind
             PROVE  Namespace(s, ns, nodes, second, builtin, kind)' <=> Namespace(s, ns, nodes, second, builtin, kind)
  OBVIOUS
<1>2. {Here(q).name : q \in {q \in nodes : ~Pending(s, q)}}' = {Here(q).name : q \in {q \in nodes : ~Pending(s, q)}}
  BY <1>1
<1> QED
  BY <1>2, SameTree DEF Namespace

\* Sets of items depend on the crate only.
LEMMA SameItems ==
    ASSUME crate' = crate
    PROVE  /\ Structs' = Structs /\ Impls' = Impls /\ Definables' = Definables
           /\ NoTarget' = NoTarget /\ Assoc' = Assoc /\ Targets' = Targets
           /\ \A t : AssocOf(t)' = AssocOf(t)
           /\ SecondAssociates' = SecondAssociates /\ ImplFaults' = ImplFaults /\ ItemFaults' = ItemFaults
           /\ \A ops : UsesOf(ops)' = UsesOf(ops)
           /\ \A op : Repeats(op)' = Repeats(op)
           /\ \A ty, q : NodeDefOf(ty, q)' = NodeDefOf(ty, q)
           /\ \A ty, va : ItemTables(ty, va)' <=> ItemTables(ty, va)
<1>1. Structs' = Structs /\ Impls' = Impls /\ Definables' = Definables
  BY SameTree DEF Structs, Impls, Definables
<1>2. NoTarget' = NoTarget
  BY SameTree DEF NoTarget, HasTarget
<1>3. Assoc' = Assoc /\ Targets' = Targets
  BY <1>2, SameTree DEF Assoc, Targets
<1>4. \A t : AssocOf(t)' = AssocOf(t)
  BY <1>3, SameTree DEF AssocOf
<1>5. \A ops : UsesOf(ops)' = UsesOf(ops)
  BY SameTree DEF UsesOf
<1>6. SecondAssociates' = SecondAssociates
  <2>1. \A x, y : Members(x, y)' = Members(x, y)
    BY SameTree DEF Members, HasTarget
  <2> QED
    BY <1>2, <1>5, <2>1, SameTree DEF SecondAssociates
<1>7. ImplFaults' = ImplFaults
  BY <1>2, <1>6 DEF ImplFaults
<1>8. \A op : Repeats(op)' = Repeats(op)
  <2>1. \A op : {{ParamId(p, k) : k \in Repeated(Here(p).params)} : p \in UsesOf({op})}' = {{ParamId(p, k) : k \in Repeated(Here(p).params)} : p \in UsesOf({op})}
    <3>1. \A op : UsesOf({op})' = UsesOf({op})
      BY <1>5
    <3>2. \A S : {{ParamId(p, k) : k \in Repeated(Here(p).params)} : p \in S}' = {{ParamId(p, k) : k \in Repeated(Here(p).params)} : p \in S}
      BY DEF Here
    <3> QED
      BY <3>1, <3>2
  <2> QED
    BY <2>1 DEF Repeats
<1>9. ItemFaults' = ItemFaults
  BY <1>8, SameTree DEF ItemFaults
<1>10. \A ty, q : NodeDefOf(ty, q)' = NodeDefOf(ty, q)
  BY <1>1, <1>3, SameTree DEF NodeDefOf, DefOf
<1>11. \A ty, va : ItemTables(ty, va)' <=> ItemTables(ty, va)
  BY <1>1, <1>9, SameTree, SameNamespace DEF ItemTables
<1> QED
  BY <1>1, <1>2, <1>3, <1>4, <1>5, <1>6, <1>7, <1>8, <1>9, <1>10, <1>11

\* The state of the collection of impls, carried over to the next state.
LEMMA SameImplementing ==
    ASSUME crate' = crate, Implementing(todo', types', values', members', node_def', diagnostics')
    PROVE  ImplInv'
<1>1. \A s : RecordedIn(s)' = RecordedIn(s)
  BY SameItems DEF RecordedIn
<1> QED
  BY <1>1, SameItems, SameNamespace DEF ImplInv, Implementing

\* Nodes recorded for the first time do not panic.
LEMMA RecordedAll ==
    ASSUME NEW S, NEW d, RecordAll([q \in S |-> d]), S \cap DOMAIN node_def = {}
    PROVE  node_def' = [q \in DOMAIN node_def \cup S |-> IF q \in S THEN d ELSE node_def[q]] /\ panicked' = FALSE
<1> DEFINE e == [q \in S |-> d]
<1>1. DOMAIN e = S /\ \A q \in S : e[q] = d
  OBVIOUS
<1>2. /\ node_def' = [q \in DOMAIN node_def \cup DOMAIN e |-> IF q \in DOMAIN e THEN e[q] ELSE node_def[q]]
      /\ panicked' = (DOMAIN e \cap DOMAIN node_def # {})
  BY DEF RecordAll
<1> HIDE DEF e
<1>3. DOMAIN e \cap DOMAIN node_def = {}
  BY <1>1
<1>4. \A q \in DOMAIN node_def \cup S : (IF q \in DOMAIN e THEN e[q] ELSE node_def[q]) = IF q \in S THEN d ELSE node_def[q]
  BY <1>1
<1> QED
  BY <1>1, <1>2, <1>3, <1>4

\* The step of the collection of impls at the head of the walk.
LEMMA ImplementingHere ==
    ASSUME Walking(todo), Head(todo).do = "visit", P = Head(todo).at, ImplInv, NEW me2, NEW nd2, NEW di2,
           ImplementedItem(P, types, members, node_def, diagnostics, me2, nd2, di2)
    PROVE  Implementing(ImplFan(P) \o Tail(todo), types, values, me2, nd2, di2) /\ NewAt(P) \cap DOMAIN node_def = {}
<1>1. Implementing(todo, types, values, members, node_def, diagnostics)
  BY DEF ImplInv
<1> QED
  BY <1>1, ImplementingStep

\* A visit, with what it adds.
LEMMA ImplItem ==
    ASSUME WalkInv, ImplInv, NEW ops, Handles("impls", "visit", ops), Then(ImplFan(P)), crate' = crate,
           types' = types, values' = values,
           NewAt(P) = {} => UNCHANGED unrecorded,
           NewAt(P) # {} => \E d : RecordAll([q \in NewAt(P) |-> d]) /\ \A q \in NewAt(P) : NodeDefOf(types, q) = d,
           members' = IF P \in Assoc \ SecondAssociates
                      THEN [members EXCEPT ![StructOf(types, P)] = Defined(@, Here(P).name, Def("member", P))] ELSE members,
           diagnostics' = diagnostics \cup ({P} \cap ImplFaults)
    PROVE  WalkInv' /\ ImplInv' /\ panicked' = FALSE
<1> DEFINE nd2 == [q \in DOMAIN node_def \cup NewAt(P) |-> IF q \in NewAt(P) THEN NodeDefOf(types, q) ELSE node_def[q]]
<1>1. Walking(todo) /\ Head(todo).do = "visit" /\ P = Head(todo).at /\ ~panicked /\ Head(todo) \in TasksIn(todo)
  BY Handling
<1>2. Implementing(todo, types, values, members, node_def, diagnostics)
  BY DEF ImplInv
<1>3. ImplementedItem(P, types, members, node_def, diagnostics, members', nd2, diagnostics')
  BY DEF ImplementedItem
<1> HIDE DEF nd2
<1>4. Implementing(ImplFan(P) \o Tail(todo), types, values, members', nd2, diagnostics') /\ NewAt(P) \cap DOMAIN node_def = {}
  BY <1>1, <1>3, ImplementingHere
<1>5. node_def' = nd2 /\ panicked' = FALSE
  <2>1. CASE NewAt(P) = {}
    <3>1. node_def' = node_def /\ panicked' = FALSE
      BY <1>1, <2>1 DEF unrecorded
    <3>2. node_def = [q \in RecordedIn(todo) |-> NodeDefOf(types, q)]
      BY <1>2 DEF Implementing
    <3>3. node_def = [q \in DOMAIN node_def |-> node_def[q]]
      BY <3>2
    <3> QED
      BY <2>1, <3>1, <3>3 DEF nd2
  <2>2. CASE NewAt(P) # {}
    <3>1. PICK d : RecordAll([q \in NewAt(P) |-> d]) /\ \A q \in NewAt(P) : NodeDefOf(types, q) = d
      BY <2>2
    <3>2. node_def' = [q \in DOMAIN node_def \cup NewAt(P) |-> IF q \in NewAt(P) THEN d ELSE node_def[q]] /\ panicked' = FALSE
      BY <1>4, <3>1, RecordedAll
    <3>3. \A q \in DOMAIN node_def \cup NewAt(P) : (IF q \in NewAt(P) THEN d ELSE node_def[q]) = IF q \in NewAt(P) THEN NodeDefOf(types, q) ELSE node_def[q]
      BY <3>1
    <3> QED
      BY <3>2, <3>3 DEF nd2
  <2> QED
    BY <2>1, <2>2
<1>6. StepOf(todo, ImplFan(P))
  <2>1. Len(P) = 1 \/ P \in Assoc
    BY <1>1, <1>2 DEF Implementing
  <2> QED
    BY <1>1, <2>1, ImplHandled
<1>7. WalkInv' /\ todo' = ImplFan(P) \o Tail(todo)
  BY <1>6, WalkOn
<1> QED
  BY <1>4, <1>5, <1>7, SameImplementing

\* Every handler of the collection of impls keeps its invariant.
LEMMA ImplSteps ==
    ASSUME WalkInv, ImplInv, Quiet, SkipOther \/ CollectImpl \/ CollectAssociated
    PROVE  WalkInv' /\ ImplInv' /\ Quiet' /\ phase' = "impls" /\ panicked' = FALSE
<1>0. crate \in Crates /\ ItemTables(types, values)
  BY DEF WalkInv, ImplInv, Implementing
<1>1. CASE SkipOther
  <2>1. Handles("impls", "visit", {"fn", "const", "struct"}) /\ Here(P).op \in {"fn", "const", "struct"} /\ phase = "impls" /\ Len(P) = 1 /\ ~panicked
    BY <1>1, Handling DEF SkipOther
  <2>2. P \notin Impls /\ P \notin Assoc
    BY <2>1, OneTwo DEF Impls, ItemsOf, Assoc
  <2>3. NewAt(P) = {} /\ ImplFan(P) = <<>> /\ {P} \cap ImplFaults = {}
    BY <1>0, <2>2, FaultPlace DEF NewAt, ImplFan, ImplFaults
  <2>4. /\ Then(<<>>) /\ crate' = crate /\ phase' = phase /\ types' = types /\ values' = values /\ members' = members
        /\ UNCHANGED unrecorded /\ diagnostics' = diagnostics /\ Quiet'
    BY <1>1 DEF SkipOther, tables, unrecorded, context, Quiet
  <2>5. /\ Then(ImplFan(P)) /\ diagnostics' = diagnostics \cup ({P} \cap ImplFaults)
        /\ members' = IF P \in Assoc \ SecondAssociates
                      THEN [members EXCEPT ![StructOf(types, P)] = Defined(@, Here(P).name, Def("member", P))] ELSE members
    BY <2>2, <2>3, <2>4
  <2> QED
    BY <2>1, <2>3, <2>4, <2>5, ImplItem
<1>2. CASE CollectImpl
  <2>1. Handles("impls", "visit", {"impl"}) /\ Here(P).op = "impl" /\ This = Here(P) /\ phase = "impls" /\ P \in DOMAIN crate /\ ~panicked /\ P \in Path
    BY <1>2, Handling DEF CollectImpl
  <2>2. P \in Impls /\ P \notin Assoc /\ P \notin Definables
    <3>1. Len(P) = 1
      BY <1>0, <2>1, TopOpPlace
    <3> QED
      BY <2>1, <3>1, OneTwo DEF Impls, ItemsOf, Assoc, Nodes, Definables, ValueOps
  <2>3. P \in NoTarget <=> Here(P).name \notin DOMAIN types \ BuiltinTypes \/ Here(Append(P, 1)).size # 0
    BY <1>0, <2>2, ImplFacts, TypesAreItems
  <2>4. crate' = crate /\ phase' = phase /\ types' = types /\ values' = values /\ members' = members /\ Quiet'
    BY <1>2 DEF CollectImpl, tables, context, Quiet
  <2>5. members' = IF P \in Assoc \ SecondAssociates
                   THEN [members EXCEPT ![StructOf(types, P)] = Defined(@, Here(P).name, Def("member", P))] ELSE members
    BY <2>2, <2>4
  <2>6. CASE P \in NoTarget
    <3>1. NewAt(P) = {} /\ ImplFan(P) = <<>> /\ {P} \cap ImplFaults = {P}
      BY <2>2, <2>6 DEF NewAt, ImplFan, ImplFaults
    <3>2. Report({P}) /\ Then(<<>>) /\ UNCHANGED unrecorded
      BY <1>2, <2>1, <2>3, <2>6 DEF CollectImpl
    <3>3. Then(ImplFan(P)) /\ diagnostics' = diagnostics \cup ({P} \cap ImplFaults)
      BY <3>1, <3>2 DEF Report
    <3> QED
      BY <2>1, <2>4, <2>5, <3>1, <3>2, <3>3, ImplItem
  <2>7. CASE P \notin NoTarget
    <3> DEFINE d == types[Here(P).name]
    <3>1. NewAt(P) = {P, Append(P, 1)} /\ ImplFan(P) = Associates(P)
      BY <2>2, <2>7 DEF NewAt, ImplFan
    <3>2. {P} \cap ImplFaults = {}
      BY <1>0, <2>2, <2>7, FaultPlace DEF ImplFaults
    <3>3. RecordAll([q \in {P, Append(P, 1)} |-> d]) /\ Then(Associates(P)) /\ diagnostics' = diagnostics
      BY <1>2, <2>1, <2>3, <2>7 DEF CollectImpl
    <3>4. NodeDefOf(types, P) = d /\ NodeDefOf(types, Append(P, 1)) = d
      <4> DEFINE c == Append(P, 1)
      <4>1. c \in Targets /\ Front(c) = P
        BY <1>0, <2>1, <2>2, <2>7, ImplFacts, ChildFacts
      <4> HIDE DEF c
      <4>2. Len(c) = 2 /\ Last(c) = 1 /\ Here(c).name = Here(P).name
        BY <1>0, <4>1, TargetFacts
      <4>3. c \notin Definables /\ c \notin Assoc
        <5>1. c \notin Definables
          BY <4>2, OneTwo DEF Definables, ItemsOf
        <5> QED
          BY <1>0, <4>2, <5>1, AssocFacts
      <4> QED
        BY <2>2, <4>2, <4>3 DEF NodeDefOf, c
    <3> HIDE DEF d
    <3>5. RecordAll([q \in NewAt(P) |-> d]) /\ \A q \in NewAt(P) : NodeDefOf(types, q) = d
      BY <3>1, <3>3, <3>4
    <3>6. NewAt(P) # {} /\ Then(ImplFan(P)) /\ diagnostics' = diagnostics \cup ({P} \cap ImplFaults)
      BY <3>1, <3>2, <3>3
    <3> QED
      BY <2>1, <2>4, <2>5, <3>5, <3>6, ImplItem
  <2> QED
    BY <2>6, <2>7
<1>3. CASE CollectAssociated
  <2>1. /\ Handles("impls", "visit", ValueOps) /\ This = Here(P) /\ Len(P) = 2 /\ phase = "impls" /\ ~panicked
        /\ Walking(todo) /\ Head(todo).do = "visit" /\ P = Head(todo).at /\ Head(todo) \in TasksIn(todo)
    BY <1>3, Handling DEF CollectAssociated
  <2>2. P \in Assoc /\ ~Pending(todo, Front(P))
    BY <2>1, OneTwo DEF ImplInv, Implementing
  <2>3. Front(P) \in Impls \ NoTarget /\ P \notin Impls /\ P \notin Definables /\ Front(P) \notin Definables /\ Front(P) \notin Assoc
    <3>1. Front(P) \in Impls \ NoTarget /\ Len(Front(P)) = 1
      BY <1>0, <2>2, AssocFacts
    <3> QED
      BY <2>1, <3>1, OneTwo DEF Impls, Definables, ItemsOf, Assoc, ValueOps
  <2>4. node_def[Front(P)] = types[Here(Front(P)).name]
    <3>1. Front(P) \in RecordedIn(todo)
      BY <2>2, <2>3 DEF RecordedIn
    <3>2. node_def = [q \in RecordedIn(todo) |-> NodeDefOf(types, q)]
      BY DEF ImplInv, Implementing
    <3> QED
      BY <2>3, <3>1, <3>2 DEF NodeDefOf
  <2>5. PICK t \in Structs : types[Here(Front(P)).name] = Def("type", t) /\ Here(t).name = Here(Front(P)).name
    BY <1>0, <2>3, TargetStruct
  <2>6. node_def[Front(P)].at = t /\ StructOf(types, P) = t /\ P \in AssocOf(t)
    BY <2>2, <2>4, <2>5 DEF StructOf, Def, AssocOf
  <2>7. Here(P).name \in DOMAIN members[t] <=> P \in SecondAssociates
    <3>1. Namespace(todo, members[t], AssocOf(t), SecondAssociates, {}, "member")
      BY DEF ImplInv, Implementing
    <3> QED
      BY <2>1, <2>2, <2>6, <3>1, SecondAssociateFacts
  <2>8. crate' = crate /\ phase' = phase /\ types' = types /\ values' = values /\ Then(<<>>) /\ Quiet'
    BY <1>3 DEF CollectAssociated, context, Quiet
  <2>9. ImplFan(P) = <<>> /\ NewAt(P) = {P} \cap (Assoc \ SecondAssociates)
    BY <2>3 DEF ImplFan, NewAt
  <2>10. {P} \cap ImplFaults = {P} \cap SecondAssociates
    BY <1>0, <2>3, FaultPlace DEF ImplFaults
  <2>11. CASE P \in SecondAssociates
    <3>1. Report({P}) /\ UNCHANGED <<members, unrecorded>>
      BY <1>3, <2>1, <2>6, <2>7, <2>11 DEF CollectAssociated
    <3>2. diagnostics' = diagnostics \cup ({P} \cap ImplFaults) /\ NewAt(P) = {} /\ Then(ImplFan(P)) /\ UNCHANGED unrecorded
      BY <2>8, <2>9, <2>10, <2>11, <3>1 DEF Report
    <3>3. members' = IF P \in Assoc \ SecondAssociates
                     THEN [members EXCEPT ![StructOf(types, P)] = Defined(@, Here(P).name, Def("member", P))] ELSE members
      BY <2>11, <3>1
    <3> QED
      BY <2>1, <2>8, <3>2, <3>3, ImplItem
  <2>12. CASE P \notin SecondAssociates
    <3>1. /\ members' = [members EXCEPT ![t] = Defined(@, Here(P).name, Def("member", P))]
          /\ RecordMember(P) /\ diagnostics' = diagnostics
      BY <1>3, <2>1, <2>6, <2>7, <2>12 DEF CollectAssociated
    <3>2. diagnostics' = diagnostics \cup ({P} \cap ImplFaults) /\ NewAt(P) = {P} /\ Then(ImplFan(P))
      BY <2>2, <2>8, <2>9, <2>10, <2>12, <3>1
    <3>3. members' = IF P \in Assoc \ SecondAssociates
                     THEN [members EXCEPT ![StructOf(types, P)] = Defined(@, Here(P).name, Def("member", P))] ELSE members
      BY <2>2, <2>6, <2>12, <3>1
    <3>4. NodeDefOf(types, P) = Def("member", P)
      BY <2>2, <2>3 DEF NodeDefOf
    <3>5. RecordAll([q \in NewAt(P) |-> Def("member", P)])
      BY <3>1, <3>2 DEF RecordMember, Record
    <3>6. \E d : RecordAll([q \in NewAt(P) |-> d]) /\ \A q \in NewAt(P) : NodeDefOf(types, q) = d
      BY <3>2, <3>4, <3>5
    <3>7. NewAt(P) # {}
      BY <3>2
    <3> QED
      BY <2>1, <2>8, <3>2, <3>3, <3>6, <3>7, ImplItem
  <2> QED
    BY <2>11, <2>12
<1> QED
  BY <1>1, <1>2, <1>3

-----------------------------------------------------------------------------
(* What the collection of impls leaves: complete tables of members *)

Base(ty, va, me) ==
  /\ ItemTables(ty, va) /\ ImplFaults = {}
  /\ DOMAIN me = {<<>>} \cup Structs /\ me[<<>>] = BuiltinMembersOf
  /\ \A t \in Structs : Namespace(<<>>, me[t], AssocOf(t), {}, {}, "member")
Fixed == Definables \cup Impls \cup Targets \cup Assoc
UseOps == {"use", "len", "member", "constof", "ty"}

\* A use is no definition.
LEMMA UsesApart ==
    ASSUME crate \in Crates
    PROVE  /\ \A q \in Uses : q \in DOMAIN crate /\ Here(q).op \in UseOps /\ Here(q).name # NoName
           /\ Uses \cap (Definables \cup Impls \cup Assoc) = {}
<1>1. \A q \in Uses : q \in DOMAIN crate /\ Here(q).op \in UseOps /\ Here(q).name # NoName
  BY DEF Uses, UsesOf, Nodes, UseOps
<1>2. \A q \in Definables \cup Impls \cup Assoc : Here(q).op \in {"struct", "fn", "const", "impl"}
  BY DEF Definables, Impls, Assoc, ItemsOf, ValueOps
<1>3. UseOps \cap {"struct", "fn", "const", "impl"} = {}
  BY DEF UseOps
<1> QED
  BY <1>1, <1>2, <1>3

\* The name of a struct is neither built in nor a keyword.
LEMMA StructNames ==
    ASSUME crate \in Crates, ItemFaults = {}, NEW t \in Structs
    PROVE  /\ t \in DOMAIN crate /\ Here(t).op = "struct" /\ Len(t) = 1 /\ t # <<>>
           /\ Here(t).name \notin BuiltinTypes /\ Here(t).name \notin Keywords
<1>1. t \in DOMAIN crate /\ Here(t).op = "struct" /\ Len(t) = 1
  BY DEF Structs, ItemsOf, Nodes
<1>2. t # <<>>
  BY <1>1, ItemPlace
<1>3. Here(t).name \notin Keywords
  BY <1>1, <1>2, GrammarFacts
<1>4. Second({"struct"}, BuiltinTypes) = {}
  BY DEF ItemFaults
<1> QED
  BY <1>1, <1>2, <1>3, <1>4 DEF Second, Nodes

\* No type is called Self or self.
LEMMA NoKeywordNamesAType ==
    ASSUME crate \in Crates, ItemFaults = {}, NEW x \in Keywords
    PROVE  TypeNamed(x) = NoDef /\ Items({"struct"}, x) = {}
<1>1. Items({"struct"}, x) = {}
  <2>1. \A q \in Items({"struct"}, x) : q \in Structs /\ Here(q).name = x
    BY DEF Items, Structs, ItemsOf
  <2> QED
    BY <2>1, StructNames
<1>2. x \notin BuiltinTypes
  BY DEF Keywords, BuiltinTypes, NoName
<1> QED
  BY <1>1, <1>2 DEF TypeNamed

\* The target of an impl means the struct.
LEMMA TargetMeaning ==
    ASSUME crate \in Crates, NEW ty, NEW va, ItemTables(ty, va), NEW q \in Targets
    PROVE  /\ q \in Uses => Meaning(q) = ty[Here(q).name] /\ Meaning(q) # NoDef
           /\ NodeDefOf(ty, q) = ty[Here(q).name] /\ Here(q).size = 0
<1> DEFINE x == Here(q).name
<1>1. q \in DOMAIN crate /\ Len(q) = 2 /\ Here(q).op = "ty" /\ Front(q) \in Impls \ NoTarget /\ x = Here(Front(q)).name
      /\ Here(q).size = 0
  BY TargetFacts
<1>2. Items({"struct"}, x) # {}
  BY <1>1, ImplFacts
<1>3. ItemFaults = {}
  BY DEF ItemTables
<1>4. x \notin Keywords /\ x \notin BuiltinTypes
  <2>1. PICK t \in Items({"struct"}, x) : TRUE
    BY <1>2
  <2>2. t \in Structs /\ Here(t).name = x
    BY <2>1 DEF Items, Structs, ItemsOf
  <2> QED
    BY <1>3, <2>2, StructNames
<1>5. x \in DOMAIN ty /\ ty[x] = TypeNamed(x) /\ TypeNamed(x) # NoDef
  BY <1>2, TypesAreItems
<1>6. TypeAt(q, x) = TypeNamed(x)
  <2>1. x # "Self"
    BY <1>4 DEF Keywords
  <2> QED
    BY <1>2, <2>1 DEF TypeAt, TypeNamed
<1>7. Meaning(q) = TypeAt(q, x)
  BY <1>1 DEF Meaning
<1>8. q \notin Definables /\ q \notin Assoc
  <2>1. q \notin Definables
    BY <1>1, OneTwo DEF Definables, ItemsOf
  <2>2. "ty" \notin ValueOps
    BY DEF ValueOps
  <2> QED
    BY <1>1, <2>1, <2>2 DEF Assoc
<1> QED
  BY <1>1, <1>4, <1>5, <1>6, <1>7, <1>8 DEF NodeDefOf

\* The collection of impls reports their faults, and without any leaves complete tables.
LEMMA ImplementingEnds ==
    ASSUME crate \in Crates, NEW ty, NEW va, NEW me, NEW nd, NEW di, Implementing(<<>>, ty, va, me, nd, di)
    PROVE  /\ di = ImplFaults /\ ItemFaults = {}
           /\ \A q \in Uses \cap DOMAIN nd : nd[q] = Meaning(q)
           /\ ImplFaults = {} => Base(ty, va, me) /\ nd = [q \in Fixed |-> NodeDefOf(ty, q)]
<1>0. ItemTables(ty, va) /\ ItemFaults = {}
  BY DEF Implementing, ItemTables
<1>1. di = ImplFaults
  BY PassEnds DEF Implementing
<1>2. nd = [q \in RecordedIn(<<>>) |-> NodeDefOf(ty, q)]
  BY DEF Implementing
<1>3. RecordedIn(<<>>) = Definables \cup (Impls \ NoTarget) \cup Targets \cup (Assoc \ SecondAssociates)
  BY PassEnds DEF RecordedIn
<1>4. ASSUME NEW q \in Uses \cap DOMAIN nd PROVE nd[q] = Meaning(q)
  <2>1. q \in Targets /\ nd[q] = NodeDefOf(ty, q)
    BY <1>2, <1>3, UsesApart
  <2> QED
    BY <1>0, <2>1, TargetMeaning
<1>5. ASSUME ImplFaults = {} PROVE Base(ty, va, me) /\ nd = [q \in Fixed |-> NodeDefOf(ty, q)]
  <2>1. NoTarget = {} /\ SecondAssociates = {}
    BY <1>5 DEF ImplFaults
  <2>2. RecordedIn(<<>>) = Fixed
    BY <1>3, <2>1 DEF Fixed
  <2>3. DOMAIN me = {<<>>} \cup Structs /\ me[<<>>] = BuiltinMembersOf
    BY DEF Implementing
  <2>4. \A t \in Structs : Namespace(<<>>, me[t], AssocOf(t), {}, {}, "member")
    BY <2>1 DEF Implementing
  <2> QED
    BY <1>0, <1>2, <1>5, <2>2, <2>3, <2>4 DEF Base
<1> QED
  BY <1>0, <1>1, <1>4, <1>5

-----------------------------------------------------------------------------
(* Types and members of types, looked up *)

SelfAt(p) == IF Here(<<p[1]>>).op \in {"struct", "impl"} THEN TypeNamed(Here(<<p[1]>>).name) ELSE NoDef
Meant(p, name) == IF name # "Self" THEN name
                  ELSE IF Here(<<p[1]>>).op \in {"struct", "impl"} THEN Here(<<p[1]>>).name ELSE NoName

\* Self stands for the name of the struct or of the target of the impl around.
LEMMA TypeAtNamed ==
    ASSUME NEW p, NEW name
    PROVE  TypeAt(p, name) = TypeNamed(Meant(p, name))
BY DEF TypeAt, TypeNamed, Meant

\* A type looked up means what scoping says.
LEMMA TypeLookup ==
    ASSUME crate \in Crates, Base(types, values, members), NEW p, self_ty = SelfAt(p), NEW name
    PROVE  TypeSegment(name) = TypeAt(p, name)
<1>1. ItemTables(types, values) /\ ItemFaults = {}
  BY DEF Base, ItemTables
<1>2. TypeAt(p, name) = TypeNamed(Meant(p, name))
  BY TypeAtNamed
<1>3. CASE name = "Self"
  <2>1. TypeNamed(NoName) = NoDef
    BY <1>1, NoKeywordNamesAType DEF Keywords
  <2> QED
    BY <1>2, <1>3, <2>1 DEF TypeSegment, SelfAt, Meant
<1>4. CASE name # "Self"
  <2>1. (IF name \in DOMAIN types THEN types[name] ELSE NoDef) = TypeNamed(name)
    BY <1>1, TypesAreItems
  <2> QED
    BY <1>2, <1>4, <2>1 DEF TypeSegment, Meant
<1> QED
  BY <1>3, <1>4

\* A member looked up means what scoping says.
LEMMA MemberLookup ==
    ASSUME crate \in Crates, Base(types, values, members), NEW p, self_ty = SelfAt(p), NEW of, NEW name
    PROVE  Associated(of, name) = Associate(p, of, name)
<1> DEFINE t == TypeAt(p, of)
<1>1. ItemTables(types, values) /\ ItemFaults = {}
  BY DEF Base, ItemTables
<1>2. TypeSegment(of) = t
  BY TypeLookup
<1>3. t # NoDef => t.at \in {<<>>} \cup Structs
  <2>1. t = TypeNamed(Meant(p, of))
    BY TypeAtNamed
  <2> QED
    BY <1>1, <2>1, TypesAreItems
<1> HIDE DEF t
<1>4. Associated(of, name) = IF t # NoDef /\ name \in DOMAIN members[t.at] THEN members[t.at][name] ELSE NoDef
  BY <1>2 DEF Associated
<1>5. Associate(p, of, name) = IF t = NoDef THEN NoDef
        ELSE IF t.at = <<>> THEN (IF name \in BuiltinMembers THEN Def("member", <<>>) ELSE NoDef)
        ELSE IF Members(Here(t.at).name, name) = {} THEN NoDef ELSE Def("member", The(Members(Here(t.at).name, name)))
  BY DEF Associate, t
<1>6. CASE t = NoDef
  BY <1>4, <1>5, <1>6
<1>7. CASE t # NoDef /\ t.at = <<>>
  <2>1. members[t.at] = [x \in BuiltinMembers |-> Def("member", <<>>)]
    BY <1>7 DEF Base, BuiltinMembersOf
  <2>2. DOMAIN members[t.at] = BuiltinMembers /\ (name \in BuiltinMembers => members[t.at][name] = Def("member", <<>>))
    BY <2>1
  <2> QED
    BY <1>4, <1>5, <1>7, <2>2
<1>8. CASE t # NoDef /\ t.at # <<>>
  <2> DEFINE u == t.at
             found == Members(Here(u).name, name)
  <2>1. u \in Structs
    BY <1>3, <1>8
  <2> HIDE DEF u
  <2>2. Namespace(<<>>, members[u], AssocOf(u), {}, {}, "member")
    BY <2>1 DEF Base
  <2>3. found = WithName(AssocOf(u), name)
    BY <2>1, AssocMembers
  <2>4. <<>> \notin AssocOf(u)
    BY AssocFacts DEF AssocOf
  <2>5. LooksUp(members[u], {}, "member", name, found)
    BY <2>2, <2>3, <2>4, NamespaceLookup
  <2> HIDE DEF found
  <2>6. (name \in DOMAIN members[u] <=> found # {}) /\ (found # {} => members[u][name] = Def("member", The(found)))
    BY <2>5 DEF LooksUp
  <2>7. Associated(of, name) = IF name \in DOMAIN members[u] THEN members[u][name] ELSE NoDef
    BY <1>4, <1>8 DEF u
  <2>8. Associate(p, of, name) = IF found = {} THEN NoDef ELSE Def("member", The(found))
    BY <1>5, <1>8 DEF u, found
  <2> QED
    BY <2>6, <2>7, <2>8
<1> QED
  BY <1>6, <1>7, <1>8

-----------------------------------------------------------------------------
(* The nodes that are open: what finishes them is still to do *)

Posts == {"leave", "close", "bind"}
Finished(do) == IF do = "leave" THEN {"struct", "impl"} ELSE IF do = "close" THEN {"fn", "block"} ELSE {"let"}
Opened(s, do) == {q \in DOMAIN crate : Task(do, q) \in TasksIn(s)}
\* No target of an impl is visited; a node is open while the walk is inside.
Shaped(s) ==
  /\ \A t \in TasksIn(s) : /\ t.at # <<>> /\ t.at \notin Targets
                           /\ t.do \in Posts => Here(t.at).op \in Finished(t.do)
  /\ \A do \in Posts, q \in DOMAIN crate, t \in TasksIn(s) :
        Here(q).op \in Finished(do) /\ Under(q, t.at) => Task(do, q) \in TasksIn(s)
\* The nodes the walk has come to.
SeenBy(s) == {q \in DOMAIN crate : ~Pending(s, q)}

\* The parts of a task.
LEMMA TaskParts ==
    ASSUME NEW do, NEW p
    PROVE  Task(do, p).do = do /\ Task(do, p).at = p
BY DEF Task

\* What is open has been come to.
LEMMA OpenIsSeen ==
    ASSUME NEW s, Sorted(s), NEW do \in Posts, NEW q \in Path, Task(do, q) \in TasksIn(s)
    PROVE  ~Pending(s, q)
<1> SUFFICES ASSUME NEW t \in TasksIn(s), t.do = "visit", t.at = q \/ Under(t.at, q) PROVE FALSE
  BY DEF Pending
<1>1. PICK k \in 1 .. Len(s) : s[k] = t
  BY DEF TasksIn
<1>2. PICK l \in 1 .. Len(s) : s[l] = Task(do, q)
  BY DEF TasksIn
<1>3. Task(do, q).do = do /\ Task(do, q).at = q /\ do # "visit"
  BY TaskParts DEF Posts
<1>4. t.at \in Path /\ Len(s) \in Nat
  BY TaskFacts
<1>5. k # l
  BY <1>1, <1>2, <1>3
<1>6. CASE k < l
  <2>1. Ordered(t, Task(do, q))
    BY <1>1, <1>2, <1>6 DEF Sorted
  <2>2. Under(q, t.at)
    BY <1>3, <2>1 DEF Ordered
  <2> QED
    BY <1>4, <2>2, UnderApart
<1>7. CASE l < k
  <2>1. Ordered(Task(do, q), t)
    BY <1>1, <1>2, <1>7 DEF Sorted
  <2>2. Left(q, t.at)
    BY <1>3, <2>1 DEF Ordered
  <2> QED
    BY <1>4, <2>2, LeftApart
<1> QED
  BY <1>4, <1>5, <1>6, <1>7

\* At the first task, what is open is what the walk is inside of.
LEMMA OpenAbove ==
    ASSUME NEW s, Walking(s), Shaped(s), NEW do \in Posts, NEW q \in DOMAIN crate, Task(do, q) # Head(s)
    PROVE  q \in Opened(s, do) <=> Here(q).op \in Finished(do) /\ Under(q, Head(s).at)
<1>1. Head(s) \in TasksIn(s) /\ Head(s).at \in Path /\ TasksIn(s) = {Head(s)} \cup TasksIn(Tail(s))
  BY HeadFacts
<1>2. Task(do, q).do = do /\ Task(do, q).at = q /\ do # "visit"
  BY TaskParts DEF Posts
<1>3. ASSUME q \in Opened(s, do) PROVE Here(q).op \in Finished(do) /\ Under(q, Head(s).at)
  <2>1. Task(do, q) \in TasksIn(s)
    BY <1>3 DEF Opened
  <2>2. Task(do, q) \in TasksIn(Tail(s))
    BY <1>1, <2>1
  <2>3. Under(q, Head(s).at)
    BY <1>2, <2>2, BehindHead DEF Walking
  <2>4. Here(q).op \in Finished(do)
    BY <1>2, <2>1 DEF Shaped
  <2> QED
    BY <2>3, <2>4
<1>4. ASSUME Here(q).op \in Finished(do) /\ Under(q, Head(s).at) PROVE q \in Opened(s, do)
  BY <1>1, <1>4 DEF Shaped, Opened
<1> QED
  BY <1>3, <1>4

\* The handler of a node puts back what finishes it.
Finishing(s, f) ==
  /\ \A t \in TasksIn(f) : /\ t.do = "visit" => t.at \notin Targets
                           /\ t.do \in Posts => Here(t.at).op \in Finished(t.do)
  /\ Head(s).do = "visit" => \A do \in Posts : Here(Head(s).at).op \in Finished(do) => Task(do, Head(s).at) \in TasksIn(f)

\* After a step each finishing task is still above the tasks before it, and each open
\* node has one.
LEMMA ShapeStep ==
    ASSUME NEW s, NEW f, StepOf(s, f), Walking(s), Shaped(s), Finishing(s, f)
    PROVE  Shaped(f \o Tail(s))
<1> DEFINE n == f \o Tail(s)
           p == Head(s).at
<1>1. /\ TasksIn(n) = TasksIn(f) \cup TasksIn(Tail(s)) /\ TasksIn(s) = {Head(s)} \cup TasksIn(Tail(s))
      /\ AtNodes(n) /\ Head(s) \notin TasksIn(Tail(s))
  BY StepTasks
<1>2. Head(s) \in TasksIn(s) /\ Head(s) \in Tasks /\ p \in DOMAIN crate /\ p \in Path /\ crate \in Crates
  BY HeadFacts DEF Walking
<1>3. \A t \in TasksIn(f) : t.at \in Path /\ IF t.do = "visit" THEN Under(p, t.at) ELSE t.at = p
  BY <1>2, FanTask DEF StepOf
<1>4. p # <<>> /\ p \notin Targets
  BY <1>2 DEF Shaped
<1> HIDE DEF n
<1>5. ASSUME NEW t \in TasksIn(n)
      PROVE  t.at # <<>> /\ t.at \notin Targets /\ (t.do \in Posts => Here(t.at).op \in Finished(t.do))
  <2>1. CASE t \in TasksIn(Tail(s))
    BY <1>1, <2>1 DEF Shaped
  <2>2. CASE t \in TasksIn(f)
    <3>1. t.do \in Posts => Here(t.at).op \in Finished(t.do)
      BY <2>2 DEF Finishing
    <3>2. CASE t.do = "visit"
      <4>1. Under(p, t.at) /\ t.at \in Path /\ t.at \notin Targets
        BY <1>3, <2>2, <3>2 DEF Finishing
      <4>2. Under(<<>>, p)
        BY <1>2, <1>4, EmptySeq, PathFacts DEF Under
      <4>3. t.at # <<>>
        BY <1>2, <4>1, UnderFront
      <4> QED
        BY <3>1, <4>1, <4>3
    <3>3. CASE t.do # "visit"
      BY <1>3, <1>4, <2>2, <3>1, <3>3
    <3> QED
      BY <3>2, <3>3
  <2> QED
    BY <1>1, <2>1, <2>2
<1>6. ASSUME NEW do \in Posts, NEW q \in DOMAIN crate, NEW t \in TasksIn(n), Here(q).op \in Finished(do), Under(q, t.at)
      PROVE  Task(do, q) \in TasksIn(n)
  <2>0. q \in Path /\ t.at \in Path /\ do # "visit"
    BY <1>1, <1>2, NodeFacts DEF AtNodes, Posts
  <2>1. CASE t \in TasksIn(Tail(s))
    <3>1. Task(do, q) \in TasksIn(s)
      BY <1>1, <1>6, <2>1 DEF Shaped
    <3>2. Task(do, q) # Head(s)
      <4> SUFFICES ASSUME Task(do, q) = Head(s) PROVE FALSE
        OBVIOUS
      <4>1. p = q
        BY TaskParts
      <4>2. IF t.do = "visit" THEN Left(p, t.at) ELSE Under(t.at, p)
        BY <2>1, BehindHead DEF Walking
      <4> QED
        BY <1>6, <2>0, <4>1, <4>2, LeftApart, UnderApart
    <3> QED
      BY <1>1, <3>1, <3>2
  <2>2. CASE t \in TasksIn(f)
    <3>1. q = p \/ Under(q, p)
      <4>1. CASE t.do = "visit"
        <5>1. t.at # <<>> /\ Front(t.at) = p
          BY <2>2, <4>1 DEF StepOf, Fan
        <5> QED
          BY <1>6, <2>0, <5>1, UnderFront
      <4>2. CASE t.do # "visit"
        BY <1>3, <1>6, <2>2, <4>2
      <4> QED
        BY <4>1, <4>2
    <3>2. CASE Head(s).do = "visit"
      <4>1. CASE q = p
        BY <1>1, <1>6, <3>2, <4>1 DEF Finishing
      <4>2. CASE Under(q, p)
        <5>1. Task(do, q) \in TasksIn(s)
          BY <1>2, <1>6, <4>2 DEF Shaped
        <5>2. Task(do, q) # Head(s)
          BY <2>0, <3>2, TaskParts
        <5> QED
          BY <1>1, <5>1, <5>2
      <4> QED
        BY <3>1, <4>1, <4>2
    <3>3. CASE Head(s).do # "visit"
      <4>1. f = <<>>
        BY <3>3 DEF StepOf
      <4>2. TasksIn(f) = {}
        BY <4>1, EmptyFan
      <4> QED
        BY <2>2, <4>2
    <3> QED
      BY <3>2, <3>3
  <2> QED
    BY <1>1, <2>1, <2>2
<1> QED
  BY <1>5, <1>6 DEF Shaped, n

\* What a visit opens, and what a finishing task closes.
LEMMA VisitOpens ==
    ASSUME NEW s, NEW f, StepOf(s, f), Walking(s), Finishing(s, f), Head(s).do = "visit", NEW do \in Posts
    PROVE  Opened(f \o Tail(s), do) = Opened(s, do) \cup (IF Here(Head(s).at).op \in Finished(do) THEN {Head(s).at} ELSE {})
<1> DEFINE n == f \o Tail(s)
           p == Head(s).at
<1>1. TasksIn(n) = TasksIn(f) \cup TasksIn(Tail(s)) /\ TasksIn(s) = {Head(s)} \cup TasksIn(Tail(s))
  BY StepTasks
<1>2. p \in DOMAIN crate /\ p \in Path /\ do # "visit"
  BY HeadFacts DEF Posts
<1>3. \A q \in DOMAIN crate : Task(do, q) \in TasksIn(f) => q = p
  BY <1>2, FanTask, TaskParts DEF StepOf
<1>4. Task(do, p) \in TasksIn(f) <=> Here(p).op \in Finished(do)
  <2>1. Task(do, p).do = do /\ Task(do, p).at = p
    BY TaskParts
  <2> QED
    BY <2>1 DEF Finishing
<1>5. \A q : Task(do, q) # Head(s)
  BY <1>2, TaskParts
<1> HIDE DEF n, p
<1>6. \A q \in DOMAIN crate : Task(do, q) \in TasksIn(n) <=> Task(do, q) \in TasksIn(s) \/ (q = p /\ Here(p).op \in Finished(do))
  BY <1>1, <1>3, <1>4, <1>5
<1>7. Opened(n, do) = Opened(s, do) \cup (IF Here(p).op \in Finished(do) THEN {p} ELSE {})
  BY <1>2, <1>6 DEF Opened
<1> QED
  BY <1>7 DEF n, p

\* A finishing task closes its node and sees nothing new.
LEMMA FinishCloses ==
    ASSUME NEW s, Walking(s), Head(s).do \in Posts, NEW do \in Posts
    PROVE  /\ StepOf(s, <<>>) /\ Finishing(s, <<>>)
           /\ Opened(<<>> \o Tail(s), do) = Opened(s, do) \ (IF Head(s).do = do THEN {Head(s).at} ELSE {})
           /\ SeenBy(<<>> \o Tail(s)) = SeenBy(s)
<1> DEFINE n == <<>> \o Tail(s)
           p == Head(s).at
<1>1. StepOf(s, <<>>) /\ Head(s).do # "visit"
  BY PassOver DEF Posts
<1>2. TasksIn(<<>>) = {}
  BY EmptyFan
<1>3. TasksIn(n) = TasksIn(Tail(s)) /\ TasksIn(s) = {Head(s)} \cup TasksIn(Tail(s)) /\ Head(s) \notin TasksIn(Tail(s))
  BY <1>1, <1>2, StepTasks
<1>4. Head(s) = Task(Head(s).do, p)
  BY HeadFacts, TaskEqual
<1>5. \A q : Task(do, q) = Head(s) <=> Head(s).do = do /\ q = p
  BY <1>4, TaskParts
<1>6. \A r \in DOMAIN crate : Pending(n, r) <=> Pending(s, r)
  BY <1>1, StepPending DEF Handled
<1>7. SeenBy(n) = SeenBy(s)
  BY <1>6 DEF SeenBy
<1>8. Finishing(s, <<>>)
  BY <1>1, <1>2 DEF Finishing
<1> HIDE DEF n, p
<1>9. \A q \in DOMAIN crate : Task(do, q) \in TasksIn(n) <=> Task(do, q) \in TasksIn(s) /\ ~(Head(s).do = do /\ q = p)
  BY <1>3, <1>5
<1>10. Opened(n, do) = Opened(s, do) \ (IF Head(s).do = do THEN {p} ELSE {})
  BY <1>9 DEF Opened
<1> QED
  BY <1>1, <1>7, <1>8, <1>10 DEF n, p

-----------------------------------------------------------------------------
(* What is in the scope of a function or a block *)

\* A prefix is the node itself or above it.
LEMMA PrefixUnder ==
    ASSUME NEW q \in Path, NEW p \in Path
    PROVE  IsPrefix(q, p) <=> q = p \/ Under(q, p)
<1>1. Len(q) \in Nat /\ Len(p) \in Nat /\ (\A k \in 1 .. Len(q) : q[k] \in Nat \ {0}) /\ (\A k \in 1 .. Len(p) : p[k] \in Nat \ {0})
  BY PathFacts
<1> DEFINE n == Len(q)
<1>2. CASE n <= Len(p)
  <2>0. n \in Int /\ 1 \in Int /\ n \in Nat
    BY <1>1
  <2> HIDE DEF n
  <2>1. \A k \in 1 .. n : q[k] \in Nat \ {0} /\ p[k] \in Nat \ {0}
    BY <1>1, <1>2, <2>0 DEF n
  <2>2. /\ SubSeq(q, 1, n) \in Seq(Nat \ {0}) /\ Len(SubSeq(q, 1, n)) = IF 1 <= n THEN n - 1 + 1 ELSE 0
        /\ \A k \in 1 .. n - 1 + 1 : SubSeq(q, 1, n)[k] = q[1 + k - 1]
    BY <2>0, <2>1, SubSeqProperties
  <2>3. /\ SubSeq(p, 1, n) \in Seq(Nat \ {0}) /\ Len(SubSeq(p, 1, n)) = IF 1 <= n THEN n - 1 + 1 ELSE 0
        /\ \A k \in 1 .. n - 1 + 1 : SubSeq(p, 1, n)[k] = p[1 + k - 1]
    BY <2>0, <2>1, SubSeqProperties
  <2>4. \A k \in 1 .. n : SubSeq(q, 1, n)[k] = q[k] /\ SubSeq(p, 1, n)[k] = p[k]
    <3> TAKE k \in 1 .. n
    <3>1. k \in 1 .. n - 1 + 1 /\ 1 + k - 1 = k
      BY <2>0
    <3> QED
      BY <2>2, <2>3, <3>1
  <2>5. Len(SubSeq(q, 1, n)) = n /\ Len(SubSeq(p, 1, n)) = n
    BY <2>0, <2>2, <2>3
  <2>6. SubSeq(q, 1, n) = SubSeq(p, 1, n) <=> \A k \in 1 .. n : q[k] = p[k]
    <3>1. ASSUME SubSeq(q, 1, n) = SubSeq(p, 1, n) PROVE \A k \in 1 .. n : q[k] = p[k]
      BY <2>4, <3>1
    <3>2. ASSUME \A k \in 1 .. n : q[k] = p[k] PROVE SubSeq(q, 1, n) = SubSeq(p, 1, n)
      <4>1. \A k \in 1 .. Len(SubSeq(q, 1, n)) : SubSeq(q, 1, n)[k] = SubSeq(p, 1, n)[k]
        BY <2>4, <2>5, <3>2
      <4> QED
        BY <2>2, <2>3, <2>5, <4>1, SeqEqual
    <3> QED
      BY <3>1, <3>2
  <2>7. IsPrefix(q, p) <=> \A k \in 1 .. n : q[k] = p[k]
    BY <1>2, <2>6 DEF IsPrefix, n
  <2>8. (\A k \in 1 .. n : q[k] = p[k]) <=> q = p \/ Under(q, p)
    <3>1. CASE n = Len(p)
      <4>1. (\A k \in 1 .. n : q[k] = p[k]) => q = p
        BY <3>1, PathEqual DEF n
      <4> QED
        BY <1>1, <3>1, <4>1 DEF Under, n
    <3>2. CASE n < Len(p)
      BY <1>1, <3>2 DEF Under, n
    <3> QED
      BY <1>1, <1>2, <3>1, <3>2 DEF n
  <2> QED
    BY <2>7, <2>8
<1>3. CASE ~(n <= Len(p))
  BY <1>1, <1>3 DEF IsPrefix, Under
<1> QED
  BY <1>2, <1>3

\* The parameters of a function with this name: one at most.
ParamsOf(f, x) ==
  (IF x = "self" /\ Here(f).receiver /\ Len(f) = 2 THEN {ParamId(f, 0)} ELSE {})
  \cup {ParamId(f, k) : k \in {k \in DOMAIN Here(f).params \ Repeated(Here(f).params) : Here(f).params[k] = x}}
\* The bound variables of a block with this name.
LetsIn(seen, open, q, x) == {l \in seen \ open : Here(l).op = "let" /\ Front(l) = q /\ Here(l).name = x}

\* Only the last of the parameters of a name is bound.
LEMMA ParamsFacts ==
    ASSUME NEW ps \in Seq(STRING \ Keywords)
    PROVE  /\ DOMAIN ps = 1 .. Len(ps) /\ Len(ps) \in Nat /\ 0 \notin DOMAIN ps /\ Repeated(ps) \subseteq DOMAIN ps
           /\ \A k \in DOMAIN ps : ps[k] # "self"
           /\ \A j, k \in DOMAIN ps \ Repeated(ps) : ps[j] = ps[k] => j = k
<1>1. Len(ps) \in Nat /\ DOMAIN ps = 1 .. Len(ps) /\ \A k \in 1 .. Len(ps) : ps[k] \in STRING \ Keywords
  OBVIOUS
<1>2. "self" \in Keywords
  BY DEF Keywords
<1>3. ASSUME NEW j \in DOMAIN ps \ Repeated(ps), NEW k \in DOMAIN ps \ Repeated(ps), ps[j] = ps[k] PROVE j = k
  <2>1. ~(j < k)
    BY <1>1, <1>3 DEF Repeated
  <2>2. ~(k < j)
    BY <1>1, <1>3 DEF Repeated
  <2> QED
    BY <1>1, <2>1, <2>2
<1> QED
  BY <1>1, <1>2, <1>3 DEF Repeated

\* A function is an item of the crate or of an impl.
LEMMA FunctionPlace ==
    ASSUME crate \in Crates, NEW f \in DOMAIN crate, Here(f).op = "fn"
    PROVE  /\ f \in Path /\ f # <<>> /\ Here(f).params \in Seq(STRING \ Keywords) /\ Here(f).receiver \in BOOLEAN
           /\ Len(f) = 1 \/ (Len(f) = 2 /\ Front(f) \in DOMAIN crate /\ Here(Front(f)).op = "impl" /\ Len(Front(f)) = 1)
<1>1. Here(f).op \in ItemOps
  BY DEF ItemOps, ValueOps
<1>2. f # <<>> /\ (Len(f) = 1 \/ (Len(f) = 2 /\ Front(f) \in DOMAIN crate /\ Len(Front(f)) = 1 /\ Here(Front(f)).op = "impl"))
  BY <1>1, ItemOpPlace
<1> QED
  BY <1>2, GrammarFacts, NodeFacts

\* A function has one bound parameter of a name.
LEMMA ParamsOfOne ==
    ASSUME crate \in Crates, NEW f \in DOMAIN crate, Here(f).op = "fn", NEW x, NEW d \in ParamsOf(f, x)
    PROVE  ParamsOf(f, x) = {d} /\ The(ParamsOf(f, x)) = d
<1>1. Here(f).params \in Seq(STRING \ Keywords)
  BY FunctionPlace
<1> DEFINE ps == Here(f).params
<1>2. /\ \A k \in DOMAIN ps : ps[k] # "self"
      /\ \A j, k \in DOMAIN ps \ Repeated(ps) : ps[j] = ps[k] => j = k
  BY <1>1, ParamsFacts
<1> HIDE DEF ps
<1>3. ParamsOf(f, x) = {d}
  <2>1. CASE x = "self"
    BY <1>2, <2>1 DEF ParamsOf, ps
  <2>2. CASE x # "self"
    <3>1. ParamsOf(f, x) = {ParamId(f, k) : k \in {k \in DOMAIN ps \ Repeated(ps) : ps[k] = x}}
      BY <2>2 DEF ParamsOf, ps
    <3>2. PICK k \in {i \in DOMAIN ps \ Repeated(ps) : ps[i] = x} : d = ParamId(f, k)
      BY <3>1
    <3>3. \A j \in {i \in DOMAIN ps \ Repeated(ps) : ps[i] = x} : j = k
      BY <1>2, <3>2
    <3> QED
      BY <3>1, <3>2, <3>3
  <2> QED
    BY <2>1, <2>2
<1> QED
  BY <1>3, TheOnly

\* There is one function at most around a node, and every block around it is inside.
LEMMA OneFunction ==
    ASSUME crate \in Crates, NEW p \in Path, NEW f \in DOMAIN crate, Here(f).op = "fn", Under(f, p)
    PROVE  /\ \A g \in DOMAIN crate : Here(g).op = "fn" /\ Under(g, p) => g = f
           /\ \A b \in DOMAIN crate : Here(b).op = "block" /\ Under(b, p) => Under(f, b)
<1>0. \A g \in DOMAIN crate : g \in Path
  BY NodeFacts
<1>1. \A g \in DOMAIN crate : Under(g, p) => g = f \/ Under(f, g) \/ Under(g, f)
  <2> SUFFICES ASSUME NEW g \in DOMAIN crate, Under(g, p) PROVE g = f \/ Under(f, g) \/ Under(g, f)
    OBVIOUS
  <2>1. g \in Path /\ f \in Path
    BY <1>0
  <2>2. ~Left(f, g)
    BY <2>1, UnderLeft, LeftApart
  <2>3. ~Left(g, f)
    BY <2>1, UnderLeft, LeftApart
  <2> QED
    BY <2>1, <2>2, <2>3, Related
<1>2. ASSUME NEW h \in DOMAIN crate, Here(h).op = "fn", NEW g \in DOMAIN crate, Under(g, h)
      PROVE  Here(g).op \in {"impl", "crate"}
  <2>1. h \in Path /\ h # <<>> /\ (Len(h) = 1 \/ (Len(h) = 2 /\ Front(h) \in DOMAIN crate /\ Here(Front(h)).op = "impl" /\ Len(Front(h)) = 1))
    BY <1>2, FunctionPlace
  <2>2. g = Front(h) \/ Under(g, Front(h))
    BY <1>0, <1>2, <2>1, UnderFront
  <2>3. g \in Path /\ Len(g) \in Nat /\ (Len(g) = 0 => g = <<>>)
    BY <1>0, PathFacts DEF Path
  <2>4. CASE Len(h) = 1
    <3>1. Len(g) < 1
      BY <1>2, <2>4 DEF Under
    <3>2. g = <<>>
      BY <2>3, <3>1
    <3> QED
      BY <3>2, RootFacts DEF Here
  <2>5. CASE Len(h) = 2
    <3>1. Len(Front(h)) = 1 /\ Here(Front(h)).op = "impl"
      BY <2>1, <2>5
    <3>2. CASE g = Front(h)
      BY <3>1, <3>2
    <3>3. CASE Under(g, Front(h))
      <4>1. Len(g) < 1
        BY <3>1, <3>3 DEF Under
      <4>2. g = <<>>
        BY <2>3, <4>1
      <4> QED
        BY <4>2, RootFacts DEF Here
    <3> QED
      BY <2>2, <3>2, <3>3
  <2> QED
    BY <2>1, <2>4, <2>5
<1>3. ASSUME NEW g \in DOMAIN crate, Here(g).op = "fn", Under(g, p) PROVE g = f
  <2>1. ~Under(f, g) /\ ~Under(g, f)
    BY <1>2, <1>3
  <2> QED
    BY <1>1, <1>3, <2>1
<1>4. ASSUME NEW b \in DOMAIN crate, Here(b).op = "block", Under(b, p) PROVE Under(f, b)
  <2>1. ~Under(b, f) /\ b # f
    BY <1>2, <1>4
  <2> QED
    BY <1>1, <1>4, <2>1
<1> QED
  BY <1>3, <1>4

\* At a use: the lets that count are the bound ones of the blocks around.
LEMMA LetsSeen ==
    ASSUME NEW s, Walking(s), Shaped(s), Head(s).do = "visit", NEW p, p = Head(s).at, Here(p).op # "let", NEW x
    PROVE  \A l : l \in LetsFor(p, x) <=> /\ l \in DOMAIN crate /\ l # <<>> /\ Front(l) \in Opened(s, "close")
                                          /\ Here(Front(l)).op = "block"
                                          /\ l \in LetsIn(SeenBy(s), Opened(s, "bind"), Front(l), x)
<1>1. p \in DOMAIN crate /\ p \in Path /\ crate \in Crates /\ Len(p) \in Nat
  BY HeadFacts, PathFacts DEF Walking
<1>2. ASSUME NEW l \in DOMAIN crate, Here(l).op = "let", Here(l).name = x
      PROVE  /\ l # <<>> /\ Here(Front(l)).op = "block" /\ Front(l) \in DOMAIN crate
             /\ l \in LetsFor(p, x) <=> Left(l, p) /\ Under(Front(l), p)
             /\ Front(l) \in Opened(s, "close") <=> Under(Front(l), p)
             /\ l \in SeenBy(s) \ Opened(s, "bind") <=> Left(l, p)
  <2>1. l \in Path /\ l # <<>>
    BY <1>1, <1>2, NodeFacts, RootFacts DEF Here
  <2>2. Here(Front(l)).op = "block" /\ Front(l) \in DOMAIN crate
    BY <1>1, <1>2, <2>1, NodeFacts, GrammarFacts
  <2>3. /\ Front(l) \in Path /\ Len(Front(l)) = Len(l) - 1 /\ Last(l) \in Nat \ {0} /\ Last(l) = l[Len(l)] /\ Len(l) >= 1 /\ Len(l) \in Nat
        /\ \A k \in 1 .. Len(l) - 1 : Front(l)[k] = l[k]
    BY <2>1, FrontFacts, PathFacts
  <2>4. IsPrefix(Front(l), p) <=> Front(l) = p \/ Under(Front(l), p)
    BY <1>1, <2>3, PrefixUnder
  <2>5. l \in LetsFor(p, x) <=> IsPrefix(Front(l), p) /\ Len(p) >= Len(l) /\ p[Len(l)] > Last(l)
    BY <1>2 DEF LetsFor, Nodes
  <2>6. ASSUME l \in LetsFor(p, x) PROVE Left(l, p) /\ Under(Front(l), p)
    <3>1. Len(p) >= Len(l) /\ p[Len(l)] > Last(l) /\ Len(l) \in 1 .. Len(p)
      BY <1>1, <2>3, <2>5, <2>6
    <3>2. Under(Front(l), p)
      <4>1. Front(l) # p
        BY <2>3, <3>1
      <4> QED
        BY <2>4, <2>5, <2>6, <4>1
    <3>3. p[Len(l)] \in Nat
      BY <1>1, <3>1, PathFacts
    <3>4. Left(l, p)
      <4>1. \A j \in 1 .. (Len(l) - 1) : l[j] = p[j]
        BY <2>3, <3>2 DEF Under
      <4>2. l[Len(l)] < p[Len(l)] /\ Len(l) <= Len(p) /\ Len(l) \in 1 .. Len(l)
        BY <2>3, <3>1, <3>3
      <4> QED
        BY <4>1, <4>2 DEF Left
    <3> QED
      BY <3>2, <3>4
  <2>7. ASSUME Left(l, p), Under(Front(l), p) PROVE l \in LetsFor(p, x)
    <3>1. PICK k \in 1 .. Len(l) : k <= Len(p) /\ l[k] < p[k]
      BY <2>7 DEF Left
    <3>2. ~(k <= Len(l) - 1)
      <4> SUFFICES ASSUME k <= Len(l) - 1 PROVE FALSE
        OBVIOUS
      <4>1. k \in 1 .. Len(l) - 1
        BY <2>3
      <4>2. p[k] = l[k]
        BY <2>3, <2>7, <4>1 DEF Under
      <4>3. l[k] \in Nat
        BY <2>1, PathFacts
      <4> QED
        BY <3>1, <4>2, <4>3
    <3>3. k = Len(l)
      BY <2>3, <3>2
    <3>4. p[Len(l)] \in Nat /\ Len(l) <= Len(p)
      BY <1>1, <2>3, <3>1, <3>3, PathFacts
    <3> QED
      BY <2>3, <2>4, <2>5, <2>7, <3>1, <3>3, <3>4
  <2>8. Front(l) \in Opened(s, "close") <=> Under(Front(l), p)
    <3>1. Task("close", Front(l)) # Head(s)
      BY TaskParts
    <3>2. Here(Front(l)).op \in Finished("close")
      BY <2>2 DEF Finished
    <3>3. "close" \in Posts
      BY DEF Posts
    <3> QED
      BY <2>2, <3>1, <3>2, <3>3, OpenAbove
  <2>9. l \in Opened(s, "bind") <=> Under(l, p)
    <3>1. Task("bind", l) # Head(s)
      BY TaskParts
    <3>2. Here(l).op \in Finished("bind")
      BY <1>2 DEF Finished
    <3>3. "bind" \in Posts
      BY DEF Posts
    <3> QED
      BY <1>2, <3>1, <3>2, <3>3, OpenAbove
  <2>10. l \in SeenBy(s) \ Opened(s, "bind") <=> Left(l, p)
    <3>1. CASE Under(l, p)
      BY <1>1, <2>1, <2>9, <3>1, LeftApart
    <3>2. CASE ~Under(l, p)
      <4>1. l # p
        BY <1>2
      <4>2. ~Pending(s, l) <=> Left(l, p)
        BY <3>2, SeenIsLeft
      <4> QED
        BY <2>9, <3>2, <4>2 DEF SeenBy
    <3> QED
      BY <3>1, <3>2
  <2> QED
    BY <2>1, <2>2, <2>6, <2>7, <2>8, <2>10
<1>3. \A l : l \in LetsFor(p, x) => l \in DOMAIN crate /\ Here(l).op = "let" /\ Here(l).name = x
  BY DEF LetsFor, Nodes
<1>4. \A l : l \in LetsIn(SeenBy(s), Opened(s, "bind"), Front(l), x) <=> l \in SeenBy(s) \ Opened(s, "bind") /\ Here(l).op = "let" /\ Here(l).name = x
  BY DEF LetsIn
<1>5. SeenBy(s) \subseteq DOMAIN crate
  BY DEF SeenBy
<1> QED
  BY <1>2, <1>3, <1>4, <1>5

\* At a use: the parameters that count are those of the function around.
LEMMA ParametersSeen ==
    ASSUME NEW s, Walking(s), Shaped(s), Head(s).do = "visit", NEW p, p = Head(s).at, Here(p).op # "fn", NEW x
    PROVE  \A d : d \in ParametersFor(p, x) <=> \E f \in Opened(s, "close") : Here(f).op = "fn" /\ d \in ParamsOf(f, x)
<1>1. p \in DOMAIN crate /\ p \in Path /\ crate \in Crates
  BY HeadFacts DEF Walking
<1>2. \A f : f \in Function(p) <=> f \in Opened(s, "close") /\ Here(f).op = "fn"
  <2>1. ASSUME NEW f \in DOMAIN crate, Here(f).op = "fn" PROVE f \in Function(p) <=> f \in Opened(s, "close")
    <3>1. f \in Path /\ f # p
      BY <1>1, <2>1, NodeFacts
    <3>2. IsPrefix(f, p) <=> Under(f, p)
      BY <1>1, <3>1, PrefixUnder
    <3>3. Task("close", f) # Head(s) /\ "close" \in Posts /\ Here(f).op \in Finished("close")
      BY <2>1, TaskParts DEF Posts, Finished
    <3>4. f \in Opened(s, "close") <=> Under(f, p)
      BY <3>3, OpenAbove
    <3> QED
      BY <2>1, <3>2, <3>4 DEF Function, Nodes
  <2>2. \A f : f \in Function(p) \/ f \in Opened(s, "close") => f \in DOMAIN crate
    BY DEF Function, Nodes, Opened
  <2>3. \A f : f \in Function(p) => Here(f).op = "fn"
    BY DEF Function
  <2> QED
    BY <2>1, <2>2, <2>3
<1>3. \A d : d \in ParametersFor(p, x) <=> \E f \in Function(p) : d \in ParamsOf(f, x)
  <2> TAKE d
  <2> DEFINE A == {ParamId(f, 0) : f \in {f \in Function(p) : x = "self" /\ Here(f).receiver /\ Len(f) = 2}}
             V(f) == {ParamId(f, k) : k \in {k \in DOMAIN Here(f).params \ Repeated(Here(f).params) : Here(f).params[k] = x}}
  <2>1. d \in A <=> \E f \in Function(p) : x = "self" /\ Here(f).receiver /\ Len(f) = 2 /\ d = ParamId(f, 0)
    OBVIOUS
  <2>2. \A f : d \in ParamsOf(f, x) <=> (x = "self" /\ Here(f).receiver /\ Len(f) = 2 /\ d = ParamId(f, 0)) \/ d \in V(f)
    BY DEF ParamsOf
  <2>3. ParametersFor(p, x) = A \cup UNION {V(f) : f \in Function(p)}
    BY DEF ParametersFor
  <2> HIDE DEF A, V
  <2>4. d \in UNION {V(f) : f \in Function(p)} <=> \E f \in Function(p) : d \in V(f)
    OBVIOUS
  <2> QED
    BY <2>1, <2>2, <2>3, <2>4
<1> QED
  BY <1>2, <1>3

-----------------------------------------------------------------------------
(* The stack of scopes, and what a name means in it *)

ParamScope(q, sc, x) ==
  /\ x \in DOMAIN sc <=> ParamsOf(q, x) # {}
  /\ x \in DOMAIN sc => sc[x] = Def("local", The(ParamsOf(q, x)))
BlockScope(seen, open, q, sc, x) ==
  /\ x \in DOMAIN sc <=> LetsIn(seen, open, q, x) # {}
  /\ x \in DOMAIN sc => \E l \in LetsIn(seen, open, q, x) :
                           sc[x] = Def("local", l) /\ \A r \in LetsIn(seen, open, q, x) : Last(r) <= Last(l)
ScopeOf(seen, open, q, sc) ==
  \A x : IF Here(q).op = "fn" THEN ParamScope(q, sc, x) ELSE BlockScope(seen, open, q, sc, x)
\* Scope i is that of the open function or block own[i], the outer ones first.
Scoped(seen, closing, open, own, sc) ==
  /\ own \in Seq(Path) /\ Len(own) = Len(sc) /\ \E T : sc \in Seq(T)
  /\ \A i \in 1 .. Len(own) : own[i] \in closing
  /\ \A q \in closing : \E i \in 1 .. Len(own) : own[i] = q
  /\ \A i, j \in 1 .. Len(own) : i < j => Under(own[i], own[j])
  /\ \A i \in 1 .. Len(own) : ScopeOf(seen, open, own[i], sc[i])
ScopedIn(s, own, sc) == Scoped(SeenBy(s), Opened(s, "close"), Opened(s, "bind"), own, sc)

\* A set of small numbers has a largest one.
LEMMA Largest ==
    ASSUME NEW n \in Nat, NEW I, I \subseteq 1 .. n, I # {}
    PROVE  \E m \in I : (\A i \in I : i <= m) /\ (CHOOSE k \in I : \A i \in I : i <= k) = m
<1> DEFINE T == {n - i : i \in I}
<1>0. \A i \in I : i \in 1 .. n /\ n - i \in Nat
  OBVIOUS
<1>1. T \subseteq Nat /\ T # {}
  BY <1>0
<1>2. PICK t \in T : \A u \in T : t <= u
  BY <1>1, Smallest
<1>3. PICK m \in I : t = n - m
  BY <1>2
<1>4. \A i \in I : i <= m
  <2> TAKE i \in I
  <2>1. n - m <= n - i
    BY <1>2, <1>3
  <2> QED
    BY <2>1, <1>3
<1>5. \A k \in I : (\A i \in I : i <= k) => k = m
  BY <1>3, <1>4
<1> QED
  BY <1>3, <1>4, <1>5

\* At a visit, the functions and blocks around are the ones whose scope is open.
LEMMA Opens ==
    ASSUME NEW s, Walking(s), Shaped(s), Head(s).do = "visit"
    PROVE  \A q : q \in Opened(s, "close") <=> q \in DOMAIN crate /\ Here(q).op \in {"fn", "block"} /\ Under(q, Head(s).at)
<1>1. ASSUME NEW q \in DOMAIN crate PROVE q \in Opened(s, "close") <=> Here(q).op \in {"fn", "block"} /\ Under(q, Head(s).at)
  <2>1. Task("close", q) # Head(s) /\ "close" \in Posts /\ Finished("close") = {"fn", "block"}
    BY TaskParts DEF Posts, Finished
  <2> QED
    BY <2>1, OpenAbove
<1>2. Opened(s, "close") \subseteq DOMAIN crate
  BY DEF Opened
<1> QED
  BY <1>1, <1>2

\* Scope m is the innermost one with the name x.
Innermost(own, sc, x, m) ==
  /\ m \in 1 .. Len(own) /\ x \in DOMAIN sc[m]
  /\ \A i \in 1 .. Len(own) : x \in DOMAIN sc[i] => i <= m

\* The variable the innermost scope with the name has is the one meant.
LEMMA BlockLookup ==
    ASSUME NEW s, Walking(s), Shaped(s), Head(s).do = "visit", NEW p, p = Head(s).at, Here(p).op # "let",
           NEW own, NEW sc, ScopedIn(s, own, sc), NEW x, NEW m, Innermost(own, sc, x, m), Here(own[m]).op = "block"
    PROVE  LetsFor(p, x) # {} /\ sc[m][x] = Def("local", Nearest(LetsFor(p, x)))
<1>0. m \in 1 .. Len(own) /\ x \in DOMAIN sc[m] /\ \A i \in 1 .. Len(own) : x \in DOMAIN sc[i] => i <= m
  BY DEF Innermost
<1> USE <1>0
<1>1. p \in DOMAIN crate /\ p \in Path /\ crate \in Crates /\ Len(own) \in Nat
  BY HeadFacts DEF Walking, ScopedIn, Scoped
<1> DEFINE LI(q) == LetsIn(SeenBy(s), Opened(s, "bind"), q, x)
<1>2. \A l : l \in LetsFor(p, x) <=> /\ l \in DOMAIN crate /\ l # <<>> /\ Front(l) \in Opened(s, "close")
                                     /\ Here(Front(l)).op = "block" /\ l \in LI(Front(l))
  BY LetsSeen
<1> HIDE DEF LI
<1>3. \A q, l : l \in LI(q) => l \in DOMAIN crate /\ l # <<>> /\ Front(l) = q
  BY <1>1, RootFacts DEF LI, LetsIn, SeenBy, Here
<1>4. \A i \in 1 .. Len(own) : own[i] \in Opened(s, "close") /\ own[i] \in Path
  BY DEF ScopedIn, Scoped
<1>5. \A i \in 1 .. Len(own) : Here(own[i]).op = "block" =>
        /\ x \in DOMAIN sc[i] <=> LI(own[i]) # {}
        /\ x \in DOMAIN sc[i] => \E l \in LI(own[i]) : sc[i][x] = Def("local", l) /\ \A r \in LI(own[i]) : Last(r) <= Last(l)
  <2> SUFFICES ASSUME NEW i \in 1 .. Len(own), Here(own[i]).op = "block"
               PROVE  BlockScope(SeenBy(s), Opened(s, "bind"), own[i], sc[i], x)
    BY DEF BlockScope, LI
  <2>1. ScopeOf(SeenBy(s), Opened(s, "bind"), own[i], sc[i])
    BY DEF ScopedIn, Scoped
  <2> QED
    BY <2>1 DEF ScopeOf
<1>6. PICK l \in LI(own[m]) : sc[m][x] = Def("local", l) /\ \A r \in LI(own[m]) : Last(r) <= Last(l)
  BY <1>5
<1>7. l \in LetsFor(p, x) /\ Front(l) = own[m] /\ l \in DOMAIN crate /\ l # <<>> /\ l \in Path
  <2>1. l \in DOMAIN crate /\ l # <<>> /\ Front(l) = own[m]
    BY <1>3
  <2> QED
    BY <1>1, <1>2, <1>4, <2>1, NodeFacts
<1>8. ASSUME NEW r \in LetsFor(p, x)
      PROVE  /\ r \in Path /\ Len(r) \in Nat /\ Len(l) \in Nat /\ Last(r) \in Nat /\ Last(l) \in Nat
             /\ Len(r) < Len(l) \/ (Len(r) = Len(l) /\ Last(r) <= Last(l))
             /\ Len(r) = Len(l) /\ Last(r) = Last(l) => r = l
  <2>1. r \in DOMAIN crate /\ r # <<>> /\ Front(r) \in Opened(s, "close") /\ Here(Front(r)).op = "block" /\ r \in LI(Front(r)) /\ r \in Path
    BY <1>1, <1>2, NodeFacts
  <2>2. PICK j \in 1 .. Len(own) : own[j] = Front(r)
    BY <2>1 DEF ScopedIn, Scoped
  <2>3. x \in DOMAIN sc[j]
    BY <1>5, <2>1, <2>2
  <2>4. j <= m
    BY <2>3
  <2>5. /\ Len(r) \in Nat /\ Len(l) \in Nat /\ Len(Front(r)) = Len(r) - 1 /\ Len(Front(l)) = Len(l) - 1
        /\ r = Append(Front(r), Last(r)) /\ l = Append(Front(l), Last(l)) /\ Last(r) \in Nat /\ Last(l) \in Nat
    BY <1>7, <2>1, FrontFacts, PathFacts
  <2>6. CASE j = m
    <3>1. Front(r) = Front(l) /\ r \in LI(own[m])
      BY <1>7, <2>1, <2>2, <2>6
    <3>2. Last(r) <= Last(l)
      BY <1>6, <3>1
    <3>3. Len(r) = Len(l)
      BY <2>5, <3>1
    <3>4. Last(r) = Last(l) => r = l
      BY <2>5, <3>1
    <3> QED
      BY <2>1, <2>5, <3>2, <3>3, <3>4
  <2>7. CASE j # m
    <3>1. Under(own[j], own[m])
      BY <1>1, <2>4, <2>7 DEF ScopedIn, Scoped
    <3>2. Len(r) < Len(l)
      BY <1>7, <2>2, <2>5, <3>1 DEF Under
    <3> QED
      BY <2>1, <2>5, <3>2
  <2> QED
    BY <2>6, <2>7
<1>9. \A q \in LetsFor(p, x) : (\A r \in LetsFor(p, x) : Len(r) < Len(q) \/ (Len(r) = Len(q) /\ Last(r) <= Last(q))) <=> q = l
  <2> SUFFICES ASSUME NEW q \in LetsFor(p, x), \A r \in LetsFor(p, x) : Len(r) < Len(q) \/ (Len(r) = Len(q) /\ Last(r) <= Last(q))
               PROVE  q = l
    BY <1>8
  <2>1. Len(l) < Len(q) \/ (Len(l) = Len(q) /\ Last(l) <= Last(q))
    BY <1>7
  <2>2. Len(q) = Len(l) /\ Last(q) = Last(l)
    BY <1>8, <2>1
  <2> QED
    BY <1>8, <2>2
<1>10. Nearest(LetsFor(p, x)) = l
  BY <1>7, <1>9 DEF Nearest
<1> QED
  BY <1>6, <1>7, <1>10

ParameterMeant(p, x, d) ==
  LetsFor(p, x) = {} /\ ParametersFor(p, x) # {} /\ d = Def("local", The(ParametersFor(p, x)))

\* A name found first in the scope of a function is a parameter of it, and no let comes
\* between.
LEMMA FunctionLookup ==
    ASSUME NEW s, Walking(s), Shaped(s), Head(s).do = "visit", NEW p, p = Head(s).at, Here(p).op # "let", Here(p).op # "fn",
           NEW own, NEW sc, ScopedIn(s, own, sc), NEW x, NEW m, Innermost(own, sc, x, m), Here(own[m]).op = "fn"
    PROVE  ParameterMeant(p, x, sc[m][x])
<1>0. m \in 1 .. Len(own) /\ x \in DOMAIN sc[m] /\ \A i \in 1 .. Len(own) : x \in DOMAIN sc[i] => i <= m
  BY DEF Innermost
<1> USE <1>0
<1>1. p \in DOMAIN crate /\ p \in Path /\ crate \in Crates /\ Len(own) \in Nat
  BY HeadFacts DEF Walking, ScopedIn, Scoped
<1> DEFINE LI(q) == LetsIn(SeenBy(s), Opened(s, "bind"), q, x)
           f == own[m]
<1>2. \A q : q \in Opened(s, "close") <=> q \in DOMAIN crate /\ Here(q).op \in {"fn", "block"} /\ Under(q, p)
  BY Opens
<1>3. \A i \in 1 .. Len(own) : own[i] \in Opened(s, "close") /\ own[i] \in Path
  BY DEF ScopedIn, Scoped
<1>4. /\ \A g \in DOMAIN crate : Here(g).op = "fn" /\ Under(g, p) => g = f
      /\ \A b \in DOMAIN crate : Here(b).op = "block" /\ Under(b, p) => Under(f, b)
  <2>1. f \in DOMAIN crate /\ Here(f).op = "fn" /\ Under(f, p)
    BY <1>2, <1>3
  <2> HIDE DEF f
  <2> QED
    BY <1>1, <2>1, OneFunction
<1>5. LetsFor(p, x) = {}
  <2> SUFFICES ASSUME NEW l \in LetsFor(p, x) PROVE FALSE
    OBVIOUS
  <2>1. /\ l \in DOMAIN crate /\ l # <<>> /\ Front(l) \in Opened(s, "close") /\ Here(Front(l)).op = "block" /\ l \in LI(Front(l))
    BY LetsSeen
  <2>2. PICK i \in 1 .. Len(own) : own[i] = Front(l)
    BY <2>1 DEF ScopedIn, Scoped
  <2>3. x \in DOMAIN sc[i]
    <3>1. ScopeOf(SeenBy(s), Opened(s, "bind"), own[i], sc[i])
      BY DEF ScopedIn, Scoped
    <3>2. BlockScope(SeenBy(s), Opened(s, "bind"), own[i], sc[i], x)
      BY <2>1, <2>2, <3>1 DEF ScopeOf
    <3> QED
      BY <2>1, <2>2, <3>2 DEF BlockScope
  <2>4. i <= m /\ i # m
    BY <2>1, <2>2, <2>3
  <2>5. Under(own[i], f)
    BY <1>1, <2>4 DEF ScopedIn, Scoped
  <2>6. Under(f, own[i])
    BY <1>2, <1>4, <2>1, <2>2
  <2> QED
    BY <1>3, <2>5, <2>6, UnderApart
<1>6. ParametersFor(p, x) = ParamsOf(f, x)
  <2>1. \A d : d \in ParametersFor(p, x) <=> \E g \in Opened(s, "close") : Here(g).op = "fn" /\ d \in ParamsOf(g, x)
    BY ParametersSeen
  <2>2. \A d : d \in ParametersFor(p, x) <=> d \in ParamsOf(f, x)
    BY <1>2, <1>3, <1>4, <2>1
  <2>3. ParametersFor(p, x) \subseteq ParamsOf(f, x) /\ ParamsOf(f, x) \subseteq ParametersFor(p, x)
    BY <2>2
  <2> QED
    BY <2>3
<1>7. ParamScope(f, sc[m], x)
  <2>1. ScopeOf(SeenBy(s), Opened(s, "bind"), own[m], sc[m])
    BY DEF ScopedIn, Scoped
  <2> QED
    BY <2>1 DEF ScopeOf
<1> QED
  BY <1>5, <1>6, <1>7 DEF ParamScope, ParameterMeant

\* A name without a scope that has it.
LEMMA NoScopeLookup ==
    ASSUME NEW s, Walking(s), Shaped(s), Head(s).do = "visit", NEW p, p = Head(s).at, Here(p).op # "let", Here(p).op # "fn",
           NEW own, NEW sc, ScopedIn(s, own, sc), NEW x, \A i \in 1 .. Len(own) : x \notin DOMAIN sc[i]
    PROVE  LetsFor(p, x) = {} /\ ParametersFor(p, x) = {}
<1>1. LetsFor(p, x) = {}
  <2> SUFFICES ASSUME NEW l \in LetsFor(p, x) PROVE FALSE
    OBVIOUS
  <2>1. /\ l \in DOMAIN crate /\ l # <<>> /\ Front(l) \in Opened(s, "close") /\ Here(Front(l)).op = "block"
        /\ l \in LetsIn(SeenBy(s), Opened(s, "bind"), Front(l), x)
    BY LetsSeen
  <2>2. PICK i \in 1 .. Len(own) : own[i] = Front(l)
    BY <2>1 DEF ScopedIn, Scoped
  <2>3. ScopeOf(SeenBy(s), Opened(s, "bind"), own[i], sc[i])
    BY DEF ScopedIn, Scoped
  <2>4. BlockScope(SeenBy(s), Opened(s, "bind"), own[i], sc[i], x)
    BY <2>1, <2>2, <2>3 DEF ScopeOf
  <2> QED
    BY <2>1, <2>2, <2>4 DEF BlockScope
<1>2. ParametersFor(p, x) = {}
  <2> SUFFICES ASSUME NEW d \in ParametersFor(p, x) PROVE FALSE
    OBVIOUS
  <2>1. PICK f \in Opened(s, "close") : Here(f).op = "fn" /\ d \in ParamsOf(f, x)
    BY ParametersSeen
  <2>2. PICK i \in 1 .. Len(own) : own[i] = f
    BY <2>1 DEF ScopedIn, Scoped
  <2>3. ScopeOf(SeenBy(s), Opened(s, "bind"), own[i], sc[i])
    BY DEF ScopedIn, Scoped
  <2>4. ParamScope(own[i], sc[i], x)
    BY <2>1, <2>2, <2>3 DEF ScopeOf
  <2> QED
    BY <2>1, <2>2, <2>4 DEF ParamScope
<1> QED
  BY <1>1, <1>2

\* A variable looked up in the stack of scopes means what lexical scoping says.
LEMMA VariableLookup ==
    ASSUME Walking(todo), Shaped(todo), Head(todo).do = "visit", NEW p, p = Head(todo).at, Here(p).op # "let", Here(p).op # "fn",
           NEW own, ScopedIn(todo, own, scopes), ItemTables(types, values), NEW x
    PROVE  Unqualified(x) = Variable(p, x)
<1>1. Len(own) \in Nat /\ Len(scopes) = Len(own) /\ DOMAIN scopes = 1 .. Len(own) /\ crate \in Crates
  <2>1. PICK T : scopes \in Seq(T)
    BY DEF ScopedIn, Scoped
  <2>2. DOMAIN scopes = 1 .. Len(scopes)
    BY <2>1, LenProperties
  <2> QED
    BY <2>2 DEF ScopedIn, Scoped, Walking
<1> DEFINE having == {i \in DOMAIN scopes : x \in DOMAIN scopes[i]}
           top == CHOOSE i \in having : \A j \in having : j <= i
<1>2. Unqualified(x) = IF having # {} THEN scopes[top][x] ELSE IF x \in DOMAIN values THEN values[x] ELSE NoDef
  BY DEF Unqualified
<1>3. CASE having = {}
  <2>1. \A i \in 1 .. Len(own) : x \notin DOMAIN scopes[i]
    BY <1>1, <1>3
  <2>2. LetsFor(p, x) = {} /\ ParametersFor(p, x) = {}
    BY <2>1, NoScopeLookup
  <2> DEFINE found == WithName(ItemsOf(ValueOps), x)
  <2>3. Namespace(<<>>, values, ItemsOf(ValueOps), {}, BuiltinValues, "value")
    BY DEF ItemTables
  <2>4. <<>> \notin ItemsOf(ValueOps)
    <3>1. Len(<<>>) # 1
      BY EmptySeq
    <3> QED
      BY <3>1 DEF ItemsOf
  <2>5. LooksUp(values, BuiltinValues, "value", x, found)
    BY <2>3, <2>4, NamespaceLookup
  <2>6. found = Items(ValueOps, x)
    BY DEF WithName, ItemsOf, Items
  <2> HIDE DEF found
  <2>7. (IF x \in DOMAIN values THEN values[x] ELSE NoDef)
          = IF found # {} THEN Def("value", The(found)) ELSE IF x \in BuiltinValues THEN Def("value", <<>>) ELSE NoDef
    BY <2>5 DEF LooksUp
  <2> QED
    BY <1>2, <1>3, <2>2, <2>6, <2>7 DEF Variable
<1>4. CASE having # {}
  <2>0. having \subseteq 1 .. Len(own)
    BY <1>1
  <2>1. PICK m \in having : (\A i \in having : i <= m) /\ top = m
    <3> HIDE DEF having
    <3> QED
      BY <1>1, <1>4, <2>0, Largest
  <2>2. Innermost(own, scopes, x, m)
    BY <1>1, <2>1 DEF Innermost
  <2>3. Unqualified(x) = scopes[m][x]
    BY <1>2, <1>4, <2>1
  <2> HIDE DEF having, top
  <2>4. Here(own[m]).op \in {"fn", "block"}
    <3>1. own[m] \in Opened(todo, "close")
      BY <2>2 DEF Innermost, ScopedIn, Scoped
    <3> QED
      BY <3>1, Opens
  <2>5. CASE Here(own[m]).op = "block"
    <3>1. LetsFor(p, x) # {} /\ scopes[m][x] = Def("local", Nearest(LetsFor(p, x)))
      BY <2>2, <2>5, BlockLookup
    <3> QED
      BY <2>3, <3>1 DEF Variable
  <2>6. CASE Here(own[m]).op = "fn"
    <3>1. ParameterMeant(p, x, scopes[m][x])
      BY <2>2, <2>6, FunctionLookup
    <3> QED
      BY <2>3, <3>1 DEF Variable, ParameterMeant
  <2> QED
    BY <2>4, <2>5, <2>6
<1> QED
  BY <1>3, <1>4

-----------------------------------------------------------------------------
(* What the handlers of the resolution put back *)

FanOf(p) == IF Here(p).op \in {"struct", "impl"} THEN Append(Inside(p), Task("leave", p))
            ELSE IF Here(p).op \in {"fn", "block"} THEN Append(Children(p), Task("close", p))
            ELSE IF Here(p).op = "let" THEN Append(Children(p), Task("bind", p))
            ELSE Children(p)
\* With an impl its target has been come to.
WithTarget(p) == {p} \cup (IF Here(p).op = "impl" THEN {Append(p, 1)} ELSE {})
Visits(S) == \A t \in S : t.do = "visit"
ChildVisits(p, i) == {Task("visit", Append(p, k)) : k \in i .. Here(p).size}

\* What the handlers put back stands in for the visit.
LEMMA FanOfTasks ==
    ASSUME crate \in Crates, NEW p \in DOMAIN crate, p # <<>>
    PROVE  /\ Fan(FanOf(p), p)
           /\ TasksIn(FanOf(p)) = ChildVisits(p, IF Here(p).op = "impl" THEN 2 ELSE 1)
                                  \cup {Task(do, p) : do \in {d \in Posts : Here(p).op \in Finished(d)}}
<1>0. p \in Path /\ Here(p).size \in Nat
  BY NodeFacts DEF Here
<1>1. Fan(Children(p), p) /\ TasksIn(Children(p)) = ChildVisits(p, 1)
  BY ChildrenFan DEF ChildTasks, ChildVisits
<1>2. \A i : Visits(ChildVisits(p, i))
  BY TaskParts DEF Visits, ChildVisits
<1>3. \A s, do : Fan(s, p) /\ Visits(TasksIn(s)) /\ do \in Posts =>
        Fan(Append(s, Task(do, p)), p) /\ TasksIn(Append(s, Task(do, p))) = TasksIn(s) \cup {Task(do, p)}
  <2> SUFFICES ASSUME NEW s, NEW do, Fan(s, p), Visits(TasksIn(s)), do \in Posts
               PROVE  Fan(Append(s, Task(do, p)), p) /\ TasksIn(Append(s, Task(do, p))) = TasksIn(s) \cup {Task(do, p)}
    OBVIOUS
  <2>1. (\A t \in TasksIn(s) : t.do = "visit") /\ do \in {"leave", "close", "bind"}
    BY DEF Visits, Posts
  <2> QED
    BY <1>0, <2>1, FinishedFan
<1>4. "leave" \in Posts /\ "close" \in Posts /\ "bind" \in Posts
  BY DEF Posts
<1>5. {d \in Posts : Here(p).op \in Finished(d)} =
        IF Here(p).op \in {"struct", "impl"} THEN {"leave"} ELSE IF Here(p).op \in {"fn", "block"} THEN {"close"}
        ELSE IF Here(p).op = "let" THEN {"bind"} ELSE {}
  BY DEF Posts, Finished
<1>6. CASE Here(p).op = "impl"
  <2>1. Here(p).size # 0
    BY <1>6, GrammarFacts
  <2>2. Fan(Associates(p), p) /\ TasksIn(Associates(p)) = ChildVisits(p, 2)
    BY <2>1, AssociatesFan DEF ChildVisits
  <2>3. FanOf(p) = Append(Associates(p), Task("leave", p))
    BY <1>6 DEF FanOf, Inside
  <2>4. Fan(FanOf(p), p) /\ TasksIn(FanOf(p)) = ChildVisits(p, 2) \cup {Task("leave", p)}
    BY <1>2, <1>3, <1>4, <2>2, <2>3
  <2> QED
    BY <1>5, <1>6, <2>4
<1>7. CASE Here(p).op = "struct"
  <2>1. FanOf(p) = Append(Children(p), Task("leave", p))
    BY <1>7 DEF FanOf, Inside
  <2>2. Fan(FanOf(p), p) /\ TasksIn(FanOf(p)) = ChildVisits(p, 1) \cup {Task("leave", p)}
    BY <1>1, <1>2, <1>3, <1>4, <2>1
  <2> QED
    BY <1>5, <1>7, <2>2
<1>8. CASE Here(p).op \in {"fn", "block"}
  <2>1. FanOf(p) = Append(Children(p), Task("close", p))
    BY <1>8 DEF FanOf
  <2>2. Fan(FanOf(p), p) /\ TasksIn(FanOf(p)) = ChildVisits(p, 1) \cup {Task("close", p)}
    BY <1>1, <1>2, <1>3, <1>4, <2>1
  <2> QED
    BY <1>5, <1>8, <2>2
<1>9. CASE Here(p).op = "let"
  <2>1. FanOf(p) = Append(Children(p), Task("bind", p))
    BY <1>9 DEF FanOf
  <2>2. Fan(FanOf(p), p) /\ TasksIn(FanOf(p)) = ChildVisits(p, 1) \cup {Task("bind", p)}
    BY <1>1, <1>2, <1>3, <1>4, <2>1
  <2> QED
    BY <1>5, <1>9, <2>2
<1>10. CASE Here(p).op \notin {"struct", "impl", "fn", "block", "let"}
  <2>1. FanOf(p) = Children(p)
    BY <1>10 DEF FanOf
  <2> QED
    BY <1>1, <1>5, <1>10, <2>1
<1> QED
  BY <1>6, <1>7, <1>8, <1>9, <1>10

\* There is nothing below the target of an impl.
LEMMA NothingBelow ==
    ASSUME crate \in Crates, NEW p \in DOMAIN crate, Here(p).size = 0, NEW r \in DOMAIN crate
    PROVE  ~Under(p, r)
<1> SUFFICES ASSUME Under(p, r) PROVE FALSE
  OBVIOUS
<1>1. r[Len(p) + 1] \in 1 .. crate[p].size
  BY PathUnderTree
<1> QED
  BY <1>1 DEF Here

\* A visit that puts back what it should opens and sees its own node only.
LEMMA VisitFits ==
    ASSUME NEW s, Walking(s), Shaped(s), Head(s).do = "visit", NEW p, p = Head(s).at,
           ItemTables(types, values), NoTarget = {}
    PROVE  /\ StepOf(s, FanOf(p)) /\ Shaped(FanOf(p) \o Tail(s))
           /\ SeenBy(FanOf(p) \o Tail(s)) = SeenBy(s) \cup WithTarget(p)
           /\ \A do \in Posts : Opened(FanOf(p) \o Tail(s), do) = Opened(s, do) \cup (IF Here(p).op \in Finished(do) THEN {p} ELSE {})
<1> DEFINE f == FanOf(p)
           first == IF Here(p).op = "impl" THEN 2 ELSE 1
           posts == {Task(do, p) : do \in {d \in Posts : Here(p).op \in Finished(d)}}
<1>1. p \in DOMAIN crate /\ p \in Path /\ crate \in Crates /\ p # <<>> /\ Here(p).size \in Nat
  BY HeadFacts, NodeFacts DEF Walking, Shaped, Here
<1>2. Fan(f, p) /\ TasksIn(f) = ChildVisits(p, first) \cup posts
  BY <1>1, FanOfTasks
<1>3. \A t \in posts : t.do \in Posts /\ t.do # "visit" /\ t.at = p /\ Here(p).op \in Finished(t.do)
  BY TaskParts DEF Posts
<1>4. \A t \in TasksIn(f) : t.do = "visit" => t \in ChildVisits(p, first)
  BY <1>2, <1>3
<1> HIDE DEF f
<1>5. StepOf(s, f) /\ \A r \in DOMAIN crate : Handled(s, f, r) <=> r = p \/ (Here(p).op = "impl" /\ Under(p, r) /\ r[Len(p) + 1] = 1)
  <2>1. CASE Here(p).op = "impl"
    <3>1. /\ \A t \in TasksIn(f) : t.do = "visit" => \E i \in 2 .. Here(p).size : t = Task("visit", Append(p, i))
          /\ \A i \in 2 .. Here(p).size : Task("visit", Append(p, i)) \in TasksIn(f)
      BY <1>2, <1>4, <2>1 DEF ChildVisits
    <3> QED
      BY <1>2, <2>1, <3>1, GoBeyond
  <2>2. CASE Here(p).op # "impl"
    <3>1. ChildVisits(p, first) = ChildTasks(p)
      BY <2>2 DEF ChildVisits, ChildTasks
    <3>2. (\A t \in TasksIn(f) : t.do = "visit" => t \in ChildTasks(p)) /\ ChildTasks(p) \subseteq TasksIn(f)
      BY <1>2, <1>4, <3>1
    <3> QED
      BY <1>2, <2>2, <3>2, GoInside
  <2> QED
    BY <2>1, <2>2
<1>6. \A r \in DOMAIN crate : Handled(s, f, r) <=> r \in WithTarget(p)
  <2>1. CASE Here(p).op # "impl"
    BY <1>5, <2>1 DEF WithTarget
  <2>2. CASE Here(p).op = "impl"
    <3> DEFINE c == Append(p, 1)
    <3>1. p \in Impls
      BY <1>1, <2>2, TopOpPlace DEF Impls, ItemsOf, Nodes
    <3>2. c \in Targets
      BY <1>1, <3>1, ImplFacts
    <3>3. c \in DOMAIN crate /\ c \in Path /\ Here(c).size = 0
      BY <1>1, <3>2, TargetFacts, TargetMeaning
    <3>4. Under(p, c) /\ c[Len(p) + 1] = 1
      BY <1>1, UnderChild, ChildFacts
    <3>5. ASSUME NEW r \in DOMAIN crate, Under(p, r), r[Len(p) + 1] = 1 PROVE r = c
      <4>1. Toward(p, r) = c
        BY <3>5 DEF Toward
      <4>2. r \in Path
        BY <1>1, NodeFacts
      <4>3. c = r \/ Under(c, r)
        BY <1>1, <3>5, <4>1, <4>2, TowardFacts
      <4> HIDE DEF c
      <4> QED
        BY <1>1, <3>3, <4>3, NothingBelow
    <3> HIDE DEF c
    <3>6. \A r : r \in WithTarget(p) <=> r = p \/ r = c
      BY <2>2 DEF WithTarget, c
    <3> QED
      BY <1>5, <2>2, <3>4, <3>5, <3>6
  <2> QED
    BY <2>1, <2>2
<1>7. WithTarget(p) \subseteq DOMAIN crate
  <2>1. CASE Here(p).op = "impl"
    <3>1. p \in Impls
      BY <1>1, <2>1, TopOpPlace DEF Impls, ItemsOf, Nodes
    <3>2. Append(p, 1) \in DOMAIN crate
      BY <1>1, <3>1, ImplFacts, TargetFacts
    <3> QED
      BY <1>1, <3>2 DEF WithTarget
  <2>2. CASE Here(p).op # "impl"
    BY <1>1, <2>2 DEF WithTarget
  <2> QED
    BY <2>1, <2>2
<1>8. SeenBy(f \o Tail(s)) = SeenBy(s) \cup WithTarget(p)
  <2>1. \A r \in DOMAIN crate : ~Pending(f \o Tail(s), r) <=> ~Pending(s, r) \/ r \in WithTarget(p)
    BY <1>5, <1>6, StepPending
  <2> QED
    BY <1>7, <2>1 DEF SeenBy
<1>9. Finishing(s, f)
  <2>1. ASSUME NEW t \in TasksIn(f), t.do = "visit" PROVE t.at \notin Targets
    <3>1. PICK k \in first .. Here(p).size : t = Task("visit", Append(p, k))
      BY <1>4, <2>1 DEF ChildVisits
    <3>2. t.at = Append(p, k) /\ k \in Nat \ {0}
      <4>1. t.at = Append(p, k)
        BY <3>1, TaskParts
      <4>2. first \in {1, 2}
        OBVIOUS
      <4> HIDE DEF first
      <4>3. k \in Nat \ {0}
        BY <1>1, <3>1, <4>2
      <4> QED
        BY <4>1, <4>3
    <3>3. Front(t.at) = p /\ Last(t.at) = k
      BY <1>1, <3>2, ChildFacts
    <3>4. CASE Here(p).op = "impl"
      BY <3>1, <3>3, <3>4 DEF Targets
    <3>5. CASE Here(p).op # "impl"
      BY <3>3, <3>5 DEF Targets
    <3> QED
      BY <3>4, <3>5
  <2>2. ASSUME NEW t \in TasksIn(f), t.do \in Posts PROVE Here(t.at).op \in Finished(t.do)
    <3>1. t \notin ChildVisits(p, first)
      BY <1>1, <2>2, TaskParts DEF ChildVisits, Posts
    <3> QED
      BY <1>2, <1>3, <3>1
  <2>3. \A do \in Posts : Here(p).op \in Finished(do) => Task(do, p) \in TasksIn(f)
    BY <1>2
  <2> QED
    BY <2>1, <2>2, <2>3 DEF Finishing
<1>10. Shaped(f \o Tail(s))
  BY <1>5, <1>9, ShapeStep
<1>11. \A do \in Posts : Opened(f \o Tail(s), do) = Opened(s, do) \cup (IF Here(p).op \in Finished(do) THEN {p} ELSE {})
  BY <1>5, <1>9, VisitOpens
<1> QED
  BY <1>5, <1>8, <1>10, <1>11 DEF f

-----------------------------------------------------------------------------
(* How the stack of scopes changes *)

\* The bound variables of every block are the same.
SameLets(seen, open, seen2, open2) == \A q, x : LetsIn(seen2, open2, q, x) = LetsIn(seen, open, q, x)

\* The scopes stay right when no let of theirs is bound.
LEMMA ScopedKept ==
    ASSUME NEW seen, NEW closing, NEW open, NEW own, NEW sc, Scoped(seen, closing, open, own, sc),
           NEW seen2, NEW open2, SameLets(seen, open, seen2, open2)
    PROVE  Scoped(seen2, closing, open2, own, sc)
<1>1. ASSUME NEW q, NEW c, ScopeOf(seen, open, q, c) PROVE ScopeOf(seen2, open2, q, c)
  <2>1. \A x : BlockScope(seen, open, q, c, x) => BlockScope(seen2, open2, q, c, x)
    BY DEF BlockScope, SameLets
  <2> QED
    BY <1>1, <2>1 DEF ScopeOf
<1> QED
  BY <1>1 DEF Scoped

\* The elements of a sequence with one more.
LEMMA AppendFacts ==
    ASSUME NEW T, NEW s \in Seq(T), NEW e
    PROVE  /\ Append(s, e) \in Seq(T \cup {e}) /\ Len(s) \in Nat /\ Len(Append(s, e)) = Len(s) + 1
           /\ Append(s, e)[Len(s) + 1] = e
           /\ \A i \in 1 .. Len(s) : Append(s, e)[i] = s[i]
<1>1. s \in Seq(T \cup {e})
  BY SeqMonotonic
<1> QED
  BY <1>1, AppendProperties, LenProperties

\* The elements of a sequence without the last.
LEMMA FrontOfFacts ==
    ASSUME NEW T, NEW s \in Seq(T), Len(s) # 0
    PROVE  /\ Front(s) \in Seq(T) /\ Len(s) \in Nat \ {0} /\ Len(Front(s)) = Len(s) - 1
           /\ \A i \in 1 .. Len(s) - 1 : Front(s)[i] = s[i]
<1> DEFINE n == Len(s) - 1
<1>1. Len(s) \in Nat \ {0} /\ n \in Int /\ n >= 0 /\ 1 \in Int
  BY LenProperties
<1>2. \A i \in 1 .. n : s[i] \in T
  BY <1>1, LenProperties
<1> HIDE DEF n
<1>3. /\ SubSeq(s, 1, n) \in Seq(T) /\ Len(SubSeq(s, 1, n)) = IF 1 <= n THEN n - 1 + 1 ELSE 0
      /\ \A i \in 1 .. n - 1 + 1 : SubSeq(s, 1, n)[i] = s[1 + i - 1]
  BY <1>1, <1>2, SubSeqProperties
<1>4. Len(SubSeq(s, 1, n)) = n
  BY <1>1, <1>3
<1>5. \A i \in 1 .. n : SubSeq(s, 1, n)[i] = s[i]
  <2> TAKE i \in 1 .. n
  <2>1. i \in 1 .. n - 1 + 1 /\ 1 + i - 1 = i
    BY <1>1
  <2> QED
    BY <1>3, <2>1
<1>6. Front(s) = SubSeq(s, 1, n)
  BY DEF Front, n
<1> QED
  BY <1>1, <1>3, <1>4, <1>5, <1>6 DEF n

\* A scope opens.
LEMMA ScopedPush ==
    ASSUME NEW seen, NEW closing, NEW open, NEW own, NEW sc, Scoped(seen, closing, open, own, sc),
           NEW p \in Path, \A q \in closing : Under(q, p), NEW c, ScopeOf(seen, open, p, c)
    PROVE  Scoped(seen, closing \cup {p}, open, Append(own, p), Append(sc, c))
<1>1. PICK T : sc \in Seq(T)
  BY DEF Scoped
<1>2. own \in Seq(Path) /\ Len(own) = Len(sc) /\ Len(own) \in Nat
  BY DEF Scoped
<1> DEFINE own2 == Append(own, p)
           sc2 == Append(sc, c)
           n == Len(own)
<1>3. /\ own2 \in Seq(Path) /\ Len(own2) = n + 1 /\ own2[n + 1] = p
      /\ \A i \in 1 .. n : own2[i] = own[i]
  BY <1>2, AppendFacts, AppendProperties
<1>4. /\ sc2 \in Seq(T \cup {c}) /\ Len(sc2) = n + 1 /\ sc2[n + 1] = c
      /\ \A i \in 1 .. n : sc2[i] = sc[i]
  BY <1>1, <1>2, AppendFacts
<1>5. \A i \in 1 .. n + 1 : i \in 1 .. n \/ i = n + 1
  BY <1>2
<1>6. n + 1 \in 1 .. n + 1 /\ \A i \in 1 .. n : i \in 1 .. n + 1
  BY <1>2
<1> HIDE DEF own2, sc2
<1>7. \A i \in 1 .. n + 1 : own2[i] \in closing \cup {p}
  BY <1>3, <1>5 DEF Scoped
<1>8. \A q \in closing \cup {p} : \E i \in 1 .. n + 1 : own2[i] = q
  <2> TAKE q \in closing \cup {p}
  <2>1. CASE q = p
    BY <1>3, <1>6, <2>1
  <2>2. CASE q \in closing
    <3>1. PICK i \in 1 .. n : own[i] = q
      BY <2>2 DEF Scoped
    <3> QED
      BY <1>3, <1>6, <3>1
  <2> QED
    BY <2>1, <2>2
<1>9. ASSUME NEW i \in 1 .. n + 1, NEW j \in 1 .. n + 1, i < j PROVE Under(own2[i], own2[j])
  <2>1. i \in 1 .. n
    BY <1>2, <1>9
  <2>2. own[i] \in closing /\ own2[i] = own[i]
    BY <1>3, <2>1 DEF Scoped
  <2>3. CASE j = n + 1
    BY <1>3, <2>2, <2>3
  <2>4. CASE j \in 1 .. n
    <3>1. Under(own[i], own[j])
      BY <1>9, <2>1, <2>4 DEF Scoped
    <3> QED
      BY <1>3, <2>2, <2>4, <3>1
  <2> QED
    BY <1>5, <2>3, <2>4
<1>10. ASSUME NEW i \in 1 .. n + 1 PROVE ScopeOf(seen, open, own2[i], sc2[i])
  <2>1. CASE i = n + 1
    BY <1>3, <1>4, <2>1
  <2>2. CASE i \in 1 .. n
    <3>1. ScopeOf(seen, open, own[i], sc[i])
      BY <2>2 DEF Scoped
    <3> QED
      BY <1>3, <1>4, <2>2, <3>1
  <2> QED
    BY <1>5, <2>1, <2>2
<1>11. Len(own2) = n + 1 /\ Len(sc2) = n + 1 /\ own2 \in Seq(Path) /\ \E U : sc2 \in Seq(U)
  BY <1>3, <1>4
<1> HIDE DEF n
<1>12. Scoped(seen, closing \cup {p}, open, own2, sc2)
  BY <1>7, <1>8, <1>9, <1>10, <1>11 DEF Scoped
<1> QED
  BY <1>12 DEF own2, sc2

\* The innermost one is that of the node that all other open ones are around of.
LEMMA InnermostScope ==
    ASSUME NEW seen, NEW closing, NEW open, NEW own, NEW sc, Scoped(seen, closing, open, own, sc),
           NEW p \in closing, p \in Path, \A q \in closing : q = p \/ Under(q, p)
    PROVE  /\ Len(own) \in Nat \ {0} /\ Len(sc) = Len(own) /\ own[Len(own)] = p
           /\ \A i \in 1 .. Len(own) - 1 : own[i] # p /\ own[i] \in Path
<1>1. own \in Seq(Path) /\ Len(own) = Len(sc) /\ Len(own) \in Nat /\ \A i \in 1 .. Len(own) : own[i] \in closing /\ own[i] \in Path
  BY DEF Scoped
<1>2. PICK k \in 1 .. Len(own) : own[k] = p
  BY DEF Scoped
<1>3. k = Len(own)
  <2> SUFFICES ASSUME k < Len(own) PROVE FALSE
    BY <1>1, <1>2
  <2>1. Under(p, own[Len(own)]) /\ own[Len(own)] \in closing /\ own[Len(own)] \in Path
    BY <1>1, <1>2 DEF Scoped
  <2> QED
    BY <2>1, UnderApart
<1>4. \A i \in 1 .. Len(own) - 1 : Under(own[i], p) /\ own[i] \in Path
  BY <1>1, <1>2, <1>3 DEF Scoped
<1> QED
  BY <1>1, <1>2, <1>3, <1>4, UnderApart

\* A scope closes.
LEMMA ScopedPop ==
    ASSUME NEW seen, NEW closing, NEW open, NEW own, NEW sc, Scoped(seen, closing, open, own, sc),
           NEW p \in closing, p \in Path, \A q \in closing : q = p \/ Under(q, p)
    PROVE  Scoped(seen, closing \ {p}, open, Front(own), Front(sc))
<1>1. PICK T : sc \in Seq(T)
  BY DEF Scoped
<1> DEFINE n == Len(own) - 1
           own2 == Front(own)
           sc2 == Front(sc)
<1>2. /\ Len(own) \in Nat \ {0} /\ Len(sc) = Len(own) /\ own[Len(own)] = p /\ own \in Seq(Path)
      /\ \A i \in 1 .. n : own[i] # p /\ own[i] \in Path
  <2>1. own \in Seq(Path)
    BY DEF Scoped
  <2>2. /\ Len(own) \in Nat \ {0} /\ Len(sc) = Len(own) /\ own[Len(own)] = p
        /\ \A i \in 1 .. Len(own) - 1 : own[i] # p /\ own[i] \in Path
    BY InnermostScope
  <2> QED
    BY <2>1, <2>2
<1>3. own2 \in Seq(Path) /\ Len(own2) = n /\ \A i \in 1 .. n : own2[i] = own[i]
  BY <1>2, FrontOfFacts
<1>4. sc2 \in Seq(T) /\ Len(sc2) = n /\ \A i \in 1 .. n : sc2[i] = sc[i]
  BY <1>1, <1>2, FrontOfFacts
<1>5. \A i \in 1 .. n : i \in 1 .. Len(own)
  BY <1>2
<1>6. \A i \in 1 .. Len(own) : i \in 1 .. n \/ i = Len(own)
  BY <1>2
<1> HIDE DEF n, own2, sc2
<1>7. \A i \in 1 .. n : own2[i] \in closing \ {p}
  BY <1>2, <1>3, <1>5 DEF Scoped
<1>8. \A q \in closing \ {p} : \E i \in 1 .. n : own2[i] = q
  <2> TAKE q \in closing \ {p}
  <2>1. PICK i \in 1 .. Len(own) : own[i] = q
    BY DEF Scoped
  <2> QED
    BY <1>2, <1>3, <1>6, <2>1
<1>9. \A i, j \in 1 .. n : i < j => Under(own2[i], own2[j])
  BY <1>3, <1>5 DEF Scoped
<1>10. \A i \in 1 .. n : ScopeOf(seen, open, own2[i], sc2[i])
  BY <1>3, <1>4, <1>5 DEF Scoped
<1>11. Scoped(seen, closing \ {p}, open, own2, sc2)
  BY <1>3, <1>4, <1>7, <1>8, <1>9, <1>10 DEF Scoped
<1> QED
  BY <1>11 DEF own2, sc2

\* The innermost scope, that of a block, gets a variable: the last let of the block so far.
LEMMA BlockScopeBound ==
    ASSUME NEW seen, NEW open, NEW b, NEW c, \A x : BlockScope(seen, open, b, c, x), NEW l, NEW y, NEW open2,
           \A q, x : LetsIn(seen, open2, q, x) = LetsIn(seen, open, q, x) \cup (IF q = b /\ x = y THEN {l} ELSE {}),
           Last(l) \in Nat, \A x, r : r \in LetsIn(seen, open, b, x) => Last(r) <= Last(l)
    PROVE  \A x : BlockScope(seen, open2, b, Bound(c, y, Def("local", l)), x)
<1> TAKE x
<1> DEFINE d == Bound(c, y, Def("local", l))
<1>1. DOMAIN d = DOMAIN c \cup {y} /\ \A z \in DOMAIN c \cup {y} : d[z] = IF z = y THEN Def("local", l) ELSE c[z]
  BY DEF Bound
<1> HIDE DEF d
<1>2. BlockScope(seen, open, b, c, x)
  OBVIOUS
<1>3. CASE x = y
  <2>1. LetsIn(seen, open2, b, x) = LetsIn(seen, open, b, x) \cup {l}
    BY <1>3
  <2>2. d[x] = Def("local", l) /\ x \in DOMAIN d
    BY <1>1, <1>3
  <2>3. \A r \in LetsIn(seen, open2, b, x) : Last(r) <= Last(l)
    BY <2>1
  <2> QED
    BY <2>1, <2>2, <2>3 DEF BlockScope, d
<1>4. CASE x # y
  <2>1. LetsIn(seen, open2, b, x) = LetsIn(seen, open, b, x)
    BY <1>4
  <2>2. (x \in DOMAIN d <=> x \in DOMAIN c) /\ (x \in DOMAIN c => d[x] = c[x])
    BY <1>1, <1>4
  <2> QED
    BY <1>2, <2>1, <2>2 DEF BlockScope, d
<1> QED
  BY <1>3, <1>4

\* A let entered in the innermost scope leaves the scopes right.
LEMMA ScopedBind ==
    ASSUME NEW seen, NEW closing, NEW open, NEW own, NEW sc, Scoped(seen, closing, open, own, sc),
           NEW b \in closing, b \in Path, \A q \in closing : q = b \/ Under(q, b), Here(b).op # "fn",
           NEW l, NEW y, NEW open2,
           \A q, x : LetsIn(seen, open2, q, x) = LetsIn(seen, open, q, x) \cup (IF q = b /\ x = y THEN {l} ELSE {}),
           Last(l) \in Nat, \A x, r : r \in LetsIn(seen, open, b, x) => Last(r) <= Last(l)
    PROVE  Scoped(seen, closing, open2, own, Append(Front(sc), Bound(Last(sc), y, Def("local", l))))
<1>1. PICK T : sc \in Seq(T)
  BY DEF Scoped
<1> DEFINE n == Len(own) - 1
           c == Bound(Last(sc), y, Def("local", l))
           sc2 == Append(Front(sc), c)
<1>2. /\ Len(own) \in Nat \ {0} /\ Len(sc) = Len(own) /\ own[Len(own)] = b /\ own \in Seq(Path)
      /\ \A i \in 1 .. n : own[i] # b /\ own[i] \in Path
  <2>1. own \in Seq(Path)
    BY DEF Scoped
  <2>2. /\ Len(own) \in Nat \ {0} /\ Len(sc) = Len(own) /\ own[Len(own)] = b
        /\ \A i \in 1 .. Len(own) - 1 : own[i] # b /\ own[i] \in Path
    BY InnermostScope
  <2> QED
    BY <2>1, <2>2
<1>3. Front(sc) \in Seq(T) /\ Len(Front(sc)) = n /\ \A i \in 1 .. n : Front(sc)[i] = sc[i]
  BY <1>1, <1>2, FrontOfFacts
<1> HIDE DEF c
<1>4. sc2 \in Seq(T \cup {c}) /\ Len(sc2) = n + 1 /\ sc2[n + 1] = c /\ \A i \in 1 .. n : sc2[i] = Front(sc)[i]
  BY <1>3, AppendFacts
<1>5. n + 1 = Len(own) /\ \A i \in 1 .. Len(own) : i \in 1 .. n \/ i = Len(own)
  BY <1>2
<1> HIDE DEF sc2, n
<1>6. Len(sc2) = Len(own) /\ sc2[Len(own)] = c /\ \A i \in 1 .. n : sc2[i] = sc[i]
  BY <1>3, <1>4, <1>5
<1>7. ScopeOf(seen, open2, b, c)
  <2>1. ScopeOf(seen, open, b, Last(sc))
    BY <1>2 DEF Scoped, Last
  <2>2. \A x : BlockScope(seen, open, b, Last(sc), x)
    BY <2>1 DEF ScopeOf
  <2>3. \A x : BlockScope(seen, open2, b, c, x)
    BY <2>2, BlockScopeBound DEF c
  <2> QED
    BY <2>3 DEF ScopeOf
<1>8. ASSUME NEW i \in 1 .. n PROVE ScopeOf(seen, open2, own[i], sc[i])
  <2>1. ScopeOf(seen, open, own[i], sc[i])
    BY <1>2, <1>5 DEF Scoped, n
  <2>2. \A x : LetsIn(seen, open2, own[i], x) = LetsIn(seen, open, own[i], x)
    <3> TAKE x
    <3>1. own[i] # b
      BY <1>2
    <3>2. LetsIn(seen, open2, own[i], x) = LetsIn(seen, open, own[i], x) \cup (IF own[i] = b /\ x = y THEN {l} ELSE {})
      OBVIOUS
    <3> QED
      BY <3>1, <3>2
  <2>3. \A x : BlockScope(seen, open, own[i], sc[i], x) => BlockScope(seen, open2, own[i], sc[i], x)
    BY <2>2 DEF BlockScope
  <2> QED
    BY <2>1, <2>3 DEF ScopeOf
<1>9. \A i \in 1 .. Len(own) : ScopeOf(seen, open2, own[i], sc2[i])
  BY <1>2, <1>5, <1>6, <1>7, <1>8
<1>10. Scoped(seen, closing, open2, own, sc2)
  BY <1>4, <1>6, <1>9 DEF Scoped
<1> QED
  BY <1>10 DEF sc2, c

-----------------------------------------------------------------------------
(* What is known in the course of the resolution *)

SelfKnown(inside, st, ii) ==
  /\ \A q \in inside : st = TypeNamed(Here(q).name) /\ ii = (Here(q).op = "impl")
  /\ inside = {} => st = NoDef /\ ii = FALSE
ParamsBound(f) ==
  {ParamId(f, k) : k \in (DOMAIN Here(f).params \ Repeated(Here(f).params)) \cup (IF Here(f).receiver /\ Len(f) = 2 THEN {0} ELSE {})}
BoundIn(seen, open) ==
  Fixed \cup {q \in Uses \cap seen : Meaning(q) # NoDef} \cup {q \in seen \ open : Here(q).op = "let"}
  \cup UNION {ParamsBound(f) : f \in {f \in seen : Here(f).op = "fn"}}
NodesKnown(seen, open, ty, nd) ==
  /\ DOMAIN nd = BoundIn(seen, open)
  /\ \A q \in Fixed : nd[q] = NodeDefOf(ty, q)
  /\ \A q \in Uses \cap DOMAIN nd : nd[q] = Meaning(q)
FaultsOf(q) ==
  (IF q \in Uses /\ Meaning(q) = NoDef /\ ~MayClone(q) THEN {q} ELSE {})
  \cup (IF Here(q).op = "fn" THEN {ParamId(q, k) : k \in Repeated(Here(q).params) \cup (IF Here(q).receiver /\ Len(q) = 1 THEN {0} ELSE {})}
        ELSE {})
FaultsKnown(seen, di) == di = UNION {FaultsOf(q) : q \in seen}
Resolving(s, ty, own, sc, st, ii, nd, di) ==
  /\ Shaped(s)
  /\ SelfKnown(Opened(s, "leave"), st, ii)
  /\ ScopedIn(s, own, sc)
  /\ NodesKnown(SeenBy(s), Opened(s, "bind"), ty, nd)
  /\ FaultsKnown(SeenBy(s), di)

\* The identity of a parameter is no path, and tells the parameter.
LEMMA ParamIds ==
    ASSUME NEW p \in Path, NEW k \in Nat
    PROVE  /\ ParamId(p, k) \notin Path
           /\ \A q \in Path, j \in Nat : ParamId(p, k) = ParamId(q, j) => p = q /\ k = j
<1>1. \A q \in Path, j \in Nat : /\ Len(q) \in Nat /\ Len(ParamId(q, j)) = Len(q) + 2
                                 /\ \A i \in 1 .. Len(q) : ParamId(q, j)[i] = q[i] /\ q[i] \in Nat
                                 /\ ParamId(q, j)[Len(q) + 1] = 0 /\ ParamId(q, j)[Len(q) + 2] = j
  <2> SUFFICES ASSUME NEW q \in Path, NEW j \in Nat
               PROVE  /\ Len(q) \in Nat /\ Len(ParamId(q, j)) = Len(q) + 2
                      /\ \A i \in 1 .. Len(q) : ParamId(q, j)[i] = q[i] /\ q[i] \in Nat
                      /\ ParamId(q, j)[Len(q) + 1] = 0 /\ ParamId(q, j)[Len(q) + 2] = j
    OBVIOUS
  <2>1. Len(q) \in Nat /\ \A i \in 1 .. Len(q) : q[i] \in Nat
    BY PathFacts
  <2>2. q \in Seq(Nat)
    BY <2>1, SeqMonotonic DEF Path
  <2> DEFINE z == <<0, j>>
  <2>3. z \in Seq(Nat) /\ Len(z) = 2 /\ z[1] = 0 /\ z[2] = j
    OBVIOUS
  <2> HIDE DEF z
  <2>4. Len(q \o z) = Len(q) + 2 /\ \A i \in 1 .. Len(q) + 2 : (q \o z)[i] = IF i <= Len(q) THEN q[i] ELSE z[i - Len(q)]
    <3>1. Len(q \o z) = Len(q) + Len(z)
      BY <2>2, <2>3, ConcatProperties
    <3>2. \A i \in 1 .. Len(q) + Len(z) : (q \o z)[i] = IF i <= Len(q) THEN q[i] ELSE z[i - Len(q)]
      BY <2>2, <2>3, ConcatProperties
    <3> QED
      BY <2>3, <3>1, <3>2
  <2>5. (q \o z)[Len(q) + 1] = 0
    <3>1. Len(q) + 1 \in 1 .. Len(q) + 2 /\ ~(Len(q) + 1 <= Len(q)) /\ Len(q) + 1 - Len(q) = 1
      BY <2>1
    <3> QED
      BY <2>3, <2>4, <3>1
  <2>6. (q \o z)[Len(q) + 2] = j
    <3>1. Len(q) + 2 \in 1 .. Len(q) + 2 /\ ~(Len(q) + 2 <= Len(q)) /\ Len(q) + 2 - Len(q) = 2
      BY <2>1
    <3> QED
      BY <2>3, <2>4, <3>1
  <2>7. \A i \in 1 .. Len(q) : (q \o z)[i] = q[i]
    <3> TAKE i \in 1 .. Len(q)
    <3>1. i \in 1 .. Len(q) + 2 /\ i <= Len(q)
      BY <2>1
    <3> QED
      BY <2>4, <3>1
  <2> QED
    BY <2>1, <2>4, <2>5, <2>6, <2>7 DEF ParamId, z
<1>2. ParamId(p, k) \notin Path
  <2> SUFFICES ASSUME ParamId(p, k) \in Path PROVE FALSE
    OBVIOUS
  <2>1. Len(p) + 1 \in 1 .. Len(ParamId(p, k))
    BY <1>1
  <2>2. ParamId(p, k)[Len(p) + 1] \in Nat \ {0}
    BY <2>1, PathFacts
  <2> QED
    BY <1>1, <2>2
<1>3. ASSUME NEW q \in Path, NEW j \in Nat, ParamId(p, k) = ParamId(q, j) PROVE p = q /\ k = j
  <2>1. Len(p) = Len(q)
    <3>1. Len(p) \in Nat /\ Len(ParamId(p, k)) = Len(p) + 2
      BY <1>1
    <3>2. Len(q) \in Nat /\ Len(ParamId(q, j)) = Len(q) + 2
      BY <1>1
    <3> QED
      BY <1>3, <3>1, <3>2
  <2>2. \A i \in 1 .. Len(p) : p[i] = q[i]
    BY <1>1, <1>3, <2>1
  <2>3. k = j
    BY <1>1, <1>3, <2>1
  <2> QED
    BY <2>1, <2>2, <2>3, PathEqual
<1> QED
  BY <1>2, <1>3

\* What is bound of a function are parameters of it.
LEMMA ParamsBoundFacts ==
    ASSUME crate \in Crates, NEW f \in DOMAIN crate, Here(f).op = "fn"
    PROVE  \A d \in ParamsBound(f) : \E k \in Nat : d = ParamId(f, k)
<1>1. Here(f).params \in Seq(STRING \ Keywords)
  BY FunctionPlace
<1>2. DOMAIN Here(f).params \subseteq Nat
  BY <1>1, ParamsFacts
<1> QED
  BY <1>2 DEF ParamsBound

\* Which nodes are bound at a point of the resolution.
LEMMA ApartInDomain ==
    ASSUME crate \in Crates, NEW seen, seen \subseteq DOMAIN crate, NEW open
    PROVE  /\ \A q \in Path : q \in BoundIn(seen, open) <=>
                 q \in Fixed \/ (q \in Uses \cap seen /\ Meaning(q) # NoDef) \/ (q \in seen \ open /\ Here(q).op = "let")
           /\ \A f \in DOMAIN crate, k \in Nat : Here(f).op = "fn" /\ f \notin seen => ParamId(f, k) \notin BoundIn(seen, open)
<1>0. DOMAIN crate \subseteq Path
  BY NodeFacts
<1>1. Fixed \subseteq DOMAIN crate /\ Uses \subseteq DOMAIN crate
  BY DEF Fixed, Definables, Impls, ItemsOf, Targets, Assoc, Nodes, Uses, UsesOf
<1>2. \A d \in UNION {ParamsBound(f) : f \in {f \in seen : Here(f).op = "fn"}} : \E f \in seen, k \in Nat : d = ParamId(f, k)
  BY ParamsBoundFacts
<1>3. ASSUME NEW q \in Path PROVE q \notin UNION {ParamsBound(f) : f \in {f \in seen : Here(f).op = "fn"}}
  BY <1>0, <1>2, ParamIds
<1>4. ASSUME NEW f \in DOMAIN crate, NEW k \in Nat, f \notin seen PROVE ParamId(f, k) \notin BoundIn(seen, open)
  <2>1. ParamId(f, k) \notin DOMAIN crate
    BY <1>0, ParamIds
  <2>2. ParamId(f, k) \notin UNION {ParamsBound(g) : g \in {g \in seen : Here(g).op = "fn"}}
    BY <1>0, <1>2, <1>4, ParamIds
  <2> QED
    BY <1>1, <2>1, <2>2 DEF BoundIn
<1> QED
  BY <1>3, <1>4 DEF BoundIn

\* What is bound is added to what is known.
Adds(N, nd, nd2) ==
  /\ DOMAIN nd2 = DOMAIN nd \cup N /\ \A q \in DOMAIN nd \ N : nd2[q] = nd[q]
  /\ \A q \in N \cap Uses : nd2[q] = Meaning(q)

\* The nodes stay what they should be when the missing ones are added.
LEMMA NodesAdded ==
    ASSUME NEW seen, NEW open, NEW ty, NEW nd, NodesKnown(seen, open, ty, nd), NEW seen2, NEW open2, NEW N,
           BoundIn(seen2, open2) = BoundIn(seen, open) \cup N, N \cap Fixed = {}, NEW nd2, Adds(N, nd, nd2)
    PROVE  NodesKnown(seen2, open2, ty, nd2)
<1>1. Fixed \subseteq DOMAIN nd \ N
  BY DEF NodesKnown, BoundIn
<1> QED
  BY <1>1 DEF NodesKnown, Adds

\* The target of an impl has no fault.
LEMMA FaultsAdded ==
    ASSUME crate \in Crates, NEW ty, NEW va, ItemTables(ty, va), NoTarget = {}, NEW p \in DOMAIN crate,
           NEW seen, NEW di, FaultsKnown(seen, di), NEW seen2, seen2 = seen \cup WithTarget(p)
    PROVE  FaultsKnown(seen2, di \cup FaultsOf(p))
<1>1. \A q \in WithTarget(p) : q # p => FaultsOf(q) = {}
  <2> SUFFICES ASSUME NEW q \in WithTarget(p), q # p PROVE FaultsOf(q) = {}
    OBVIOUS
  <2>1. Here(p).op = "impl" /\ q = Append(p, 1)
    BY DEF WithTarget
  <2>2. p \in Impls
    BY <2>1, TopOpPlace DEF Impls, ItemsOf, Nodes
  <2>3. q \in Targets
    BY <2>1, <2>2, ImplFacts
  <2>4. (q \in Uses => Meaning(q) # NoDef) /\ Here(q).op = "ty"
    BY <2>3, TargetMeaning, TargetFacts
  <2> QED
    BY <2>4 DEF FaultsOf
<1>2. UNION {FaultsOf(q) : q \in WithTarget(p)} = FaultsOf(p)
  <2>1. p \in WithTarget(p)
    BY DEF WithTarget
  <2>2. UNION {FaultsOf(q) : q \in WithTarget(p)} \subseteq FaultsOf(p)
    BY <1>1
  <2>3. FaultsOf(p) \subseteq UNION {FaultsOf(q) : q \in WithTarget(p)}
    BY <2>1
  <2> QED
    BY <2>2, <2>3
<1>3. UNION {FaultsOf(q) : q \in seen \cup WithTarget(p)} = (UNION {FaultsOf(q) : q \in seen}) \cup (UNION {FaultsOf(q) : q \in WithTarget(p)})
  OBVIOUS
<1> QED
  BY <1>2, <1>3 DEF FaultsKnown

\* Inside an item: Self, and whether a receiver may stand.
LEMMA InsideItems ==
    ASSUME NEW s, Walking(s), Shaped(s), Head(s).do = "visit", NEW p, p = Head(s).at
    PROVE  /\ p \in DOMAIN crate /\ p \in Path /\ p # <<>> /\ Len(p) \in Nat \ {0}
           /\ \A q : q \in Opened(s, "leave") <=> q \in DOMAIN crate /\ Here(q).op \in {"struct", "impl"} /\ Under(q, p)
           /\ \A q \in Opened(s, "leave") : q = <<p[1]>> /\ Len(p) > 1
           /\ Len(p) > 1 /\ Here(<<p[1]>>).op \in {"struct", "impl"} => <<p[1]>> \in Opened(s, "leave")
<1>1. p \in DOMAIN crate /\ p \in Path /\ p # <<>> /\ crate \in Crates
  BY HeadFacts DEF Walking, Shaped
<1>2. Len(p) \in Nat \ {0} /\ \A k \in 1 .. Len(p) : p[k] \in Nat \ {0}
  BY <1>1, EmptySeq, PathFacts DEF Path
<1>3. \A q : q \in Opened(s, "leave") <=> q \in DOMAIN crate /\ Here(q).op \in {"struct", "impl"} /\ Under(q, p)
  <2>1. ASSUME NEW q \in DOMAIN crate PROVE q \in Opened(s, "leave") <=> Here(q).op \in {"struct", "impl"} /\ Under(q, p)
    <3>1. Task("leave", q) # Head(s) /\ "leave" \in Posts /\ Finished("leave") = {"struct", "impl"}
      BY TaskParts DEF Posts, Finished
    <3> QED
      BY <3>1, OpenAbove
  <2>2. Opened(s, "leave") \subseteq DOMAIN crate
    BY DEF Opened
  <2> QED
    BY <2>1, <2>2
<1>4. ASSUME NEW q \in Opened(s, "leave") PROVE q = <<p[1]>> /\ Len(p) > 1
  <2>1. q \in DOMAIN crate /\ Here(q).op \in {"struct", "impl"} /\ Under(q, p)
    BY <1>3
  <2>2. Len(q) = 1 /\ q = <<q[1]>>
    BY <1>1, <2>1, TopOpPlace
  <2>3. Len(p) > 1 /\ q[1] = p[1]
    BY <2>1, <2>2 DEF Under
  <2> QED
    BY <2>2, <2>3
<1>5. ASSUME Len(p) > 1, Here(<<p[1]>>).op \in {"struct", "impl"} PROVE <<p[1]>> \in Opened(s, "leave")
  <2> DEFINE q == <<p[1]>>
  <2>1. q \in Path /\ Len(q) = 1 /\ q[1] = p[1] /\ p[1] \in Nat \ {0}
    BY <1>2 DEF Path
  <2>2. Under(q, p)
    BY <1>5, <2>1 DEF Under
  <2>3. Under(<<>>, p) /\ <<>> \in Path /\ Len(<<>>) = 0
    BY <1>2, EmptySeq DEF Under, Path
  <2>4. Toward(<<>>, p) = Append(<<>>, p[1])
    BY <2>3 DEF Toward
  <2>5. Append(<<>>, p[1]) = q
    OBVIOUS
  <2>6. q \in DOMAIN crate
    BY <1>1, <2>3, <2>4, <2>5, RootFacts, PathUnderTree
  <2> QED
    BY <1>3, <1>5, <2>2, <2>6
<1> QED
  BY <1>1, <1>2, <1>3, <1>4, <1>5

\* At a node that is no item, Self is the type of the struct or impl around.
LEMMA SelfInside ==
    ASSUME NEW s, Walking(s), Shaped(s), Head(s).do = "visit", NEW p, p = Head(s).at, Here(p).op \notin ItemOps,
           NEW st, NEW ii, SelfKnown(Opened(s, "leave"), st, ii)
    PROVE  st = SelfAt(p)
<1>1. p \in DOMAIN crate /\ Len(p) \in Nat \ {0} /\ crate \in Crates
  BY InsideItems DEF Walking
<1>2. Len(p) > 1
  <2>1. Len(p) # 1
    BY <1>1, ItemPlace
  <2>2. \A k \in Nat \ {0} : k # 1 => k > 1
    OBVIOUS
  <2> QED
    BY <1>1, <2>1, <2>2
<1>3. CASE Here(<<p[1]>>).op \in {"struct", "impl"}
  <2>1. <<p[1]>> \in Opened(s, "leave")
    BY <1>2, <1>3, InsideItems
  <2> QED
    BY <1>3, <2>1 DEF SelfKnown, SelfAt
<1>4. CASE Here(<<p[1]>>).op \notin {"struct", "impl"}
  <2>1. \A q \in Opened(s, "leave") : q = <<p[1]>> /\ Here(q).op \in {"struct", "impl"}
    BY InsideItems
  <2>2. Opened(s, "leave") = {}
    BY <1>4, <2>1
  <2> QED
    BY <1>4, <2>2 DEF SelfKnown, SelfAt
<1> QED
  BY <1>3, <1>4

\* A function may take a receiver exactly when it stands in an impl.
LEMMA ReceiverInside ==
    ASSUME NEW s, Walking(s), Shaped(s), Head(s).do = "visit", NEW p, p = Head(s).at, Here(p).op = "fn",
           NEW st, NEW ii, SelfKnown(Opened(s, "leave"), st, ii)
    PROVE  ii = (Len(p) = 2) /\ (Len(p) = 1 \/ Len(p) = 2)
<1>1. p \in DOMAIN crate /\ Len(p) \in Nat \ {0} /\ crate \in Crates /\ p # <<>> /\ p \in Path
  BY InsideItems DEF Walking
<1>2. Len(p) = 1 \/ (Len(p) = 2 /\ Front(p) \in DOMAIN crate /\ Here(Front(p)).op = "impl" /\ Len(Front(p)) = 1)
  BY <1>1, FunctionPlace
<1>3. CASE Len(p) = 1
  <2>1. Opened(s, "leave") = {}
    <3>1. \A q \in Opened(s, "leave") : Len(p) > 1
      BY InsideItems
    <3>2. \A k : k = 1 => ~(k > 1)
      OBVIOUS
    <3> QED
      BY <1>3, <3>1, <3>2
  <2>2. ii = FALSE /\ Len(p) # 2
    BY <1>3, <2>1, OneTwo DEF SelfKnown
  <2> QED
    BY <1>3, <2>2
<1>4. CASE Len(p) = 2
  <2>1. Front(p) \in DOMAIN crate /\ Here(Front(p)).op = "impl"
    BY <1>2, <1>4
  <2>2. Under(Front(p), p)
    BY <1>1, FrontUnder
  <2>3. Front(p) \in Opened(s, "leave")
    BY <2>1, <2>2, InsideItems
  <2>4. ii = TRUE
    BY <2>1, <2>3 DEF SelfKnown
  <2> QED
    BY <1>4, <2>4
<1> QED
  BY <1>2, <1>3, <1>4

-----------------------------------------------------------------------------
(* The resolution starts and ends *)

\* Complete tables are where the resolution starts from.
LEMMA ResolvingStarts ==
    ASSUME crate \in Crates, NEW ty, NEW nd, nd = [q \in Fixed |-> NodeDefOf(ty, q)],
           \A q \in Targets : q \in Uses => NodeDefOf(ty, q) = Meaning(q)
    PROVE  Resolving(Children(<<>>), ty, <<>>, <<>>, NoDef, FALSE, nd, {})
<1> DEFINE s == Children(<<>>)
<1>1. /\ Sorted(s) /\ AtNodes(s) /\ RightPending(s)
      /\ \A r \in DOMAIN crate \ {<<>>} : Pending(s, r)
      /\ \A t \in TasksIn(s) : t.do = "visit" /\ Len(t.at) = 1 /\ t.at \in Path
      /\ <<>> \in Path /\ <<>> \in DOMAIN crate /\ Here(<<>>).op = "crate" /\ Len(<<>>) = 0
  BY PassStarts, RootFacts, NodeFacts, EmptySeq DEF AtNodes, Here
<1> HIDE DEF s
<1>2. SeenBy(s) \subseteq {<<>>}
  BY <1>1 DEF SeenBy
<1>3. \A do \in Posts : Opened(s, do) = {}
  BY <1>1, TaskParts DEF Opened, Posts
<1>4. Shaped(s)
  <2>1. ASSUME NEW t \in TasksIn(s) PROVE t.at # <<>> /\ t.at \notin Targets /\ t.do \notin Posts
    <3>1. t.do \notin Posts /\ Len(t.at) = 1
      BY <1>1 DEF Posts
    <3>2. t.at # <<>>
      BY <1>1, <3>1
    <3>3. t.at \notin Targets
      BY <3>1, OneTwo DEF Targets
    <3> QED
      BY <3>1, <3>2, <3>3
  <2>2. ASSUME NEW do \in Posts, NEW q \in DOMAIN crate, NEW t \in TasksIn(s), Here(q).op \in Finished(do), Under(q, t.at)
        PROVE  FALSE
    <3>1. q \in Path /\ Len(q) < 1
      <4>1. Len(q) < Len(t.at) /\ Len(t.at) = 1
        BY <1>1, <2>2 DEF Under
      <4> QED
        BY <4>1, NodeFacts
    <3>2. q = <<>>
      BY <3>1, PathFacts DEF Path
    <3> QED
      BY <1>1, <2>2, <3>2 DEF Finished
  <2> QED
    BY <2>1, <2>2 DEF Shaped
<1>5. SelfKnown(Opened(s, "leave"), NoDef, FALSE)
  BY <1>3 DEF SelfKnown, Posts
<1>6. ScopedIn(s, <<>>, <<>>)
  <2>1. Opened(s, "close") = {}
    BY <1>3 DEF Posts
  <2>2. <<>> \in Seq(Path) /\ Len(<<>>) = 0
    BY EmptySeq
  <2> QED
    BY <2>1, <2>2 DEF ScopedIn, Scoped
<1>7. NodesKnown(SeenBy(s), Opened(s, "bind"), ty, nd)
  <2>1. \A q \in SeenBy(s) : q \notin Uses /\ Here(q).op # "let" /\ Here(q).op # "fn"
    BY <1>1, <1>2, UsesApart DEF UseOps
  <2>2. BoundIn(SeenBy(s), Opened(s, "bind")) = Fixed
    BY <2>1 DEF BoundIn
  <2>3. \A q \in Uses \cap Fixed : q \in Targets
    BY UsesApart DEF Fixed
  <2> QED
    BY <2>2, <2>3 DEF NodesKnown
<1>8. FaultsKnown(SeenBy(s), {})
  <2>1. \A q \in SeenBy(s) : q \notin Uses /\ Here(q).op # "fn"
    BY <1>1, <1>2, UsesApart DEF UseOps
  <2>2. \A q \in SeenBy(s) : FaultsOf(q) = {}
    BY <2>1 DEF FaultsOf
  <2> QED
    BY <2>2 DEF FaultsKnown
<1> QED
  BY <1>4, <1>5, <1>6, <1>7, <1>8 DEF Resolving, s

\* The faults of the nodes are the faults of the uses.
LEMMA AllFaults ==
    ASSUME crate \in Crates
    PROVE  UNION {FaultsOf(q) : q \in DOMAIN crate} = UseFaults
<1> DEFINE Free(d) == \E q \in DOMAIN crate : Here(q).op = "fn" /\ Len(q) = 1 /\ Here(q).receiver /\ d = ParamId(q, 0)
           Again(d) == \E q \in DOMAIN crate : Here(q).op = "fn" /\ \E k \in Repeated(Here(q).params) : d = ParamId(q, k)
           Lost(d) == d \in Uses /\ Meaning(d) = NoDef /\ ~MayClone(d)
<1>1. \A q \in DOMAIN crate : Here(q).op = "fn" => Here(q).name # NoName
  BY FunctionPlace, GrammarFacts DEF ValueOps, Keywords
<1>2. \A q : q \in UsesOf({"fn"}) <=> q \in DOMAIN crate /\ Here(q).op = "fn"
  BY <1>1 DEF UsesOf, Nodes
<1>3. \A d : d \in FreeReceivers <=> Free(d)
  BY <1>2 DEF FreeReceivers
<1>4. \A d : d \in Repeats("fn") <=> Again(d)
  <2> TAKE d
  <2>1. d \in Repeats("fn") <=> \E q \in UsesOf({"fn"}) : d \in {ParamId(q, k) : k \in Repeated(Here(q).params)}
    BY DEF Repeats
  <2> QED
    BY <1>2, <2>1
<1>5. \A d : d \in UseFaults <=> Lost(d) \/ Free(d) \/ Again(d)
  BY <1>3, <1>4 DEF UseFaults
<1>6. \A q \in DOMAIN crate : \A d : d \in FaultsOf(q) <=>
         \/ d = q /\ Lost(q)
         \/ Here(q).op = "fn" /\ Len(q) = 1 /\ Here(q).receiver /\ d = ParamId(q, 0)
         \/ Here(q).op = "fn" /\ \E k \in Repeated(Here(q).params) : d = ParamId(q, k)
  BY DEF FaultsOf
<1>7. \A d : Lost(d) => d \in DOMAIN crate
  BY DEF Uses, UsesOf, Nodes
<1> HIDE DEF Lost
<1>8. \A d : (\E q \in DOMAIN crate : d \in FaultsOf(q)) <=> Lost(d) \/ Free(d) \/ Again(d)
  BY <1>6, <1>7
<1> HIDE DEF Free, Again
<1>9. \A d : d \in UNION {FaultsOf(q) : q \in DOMAIN crate} <=> d \in UseFaults
  BY <1>5, <1>8
<1>10. UNION {FaultsOf(q) : q \in DOMAIN crate} \subseteq UseFaults /\ UseFaults \subseteq UNION {FaultsOf(q) : q \in DOMAIN crate}
  BY <1>9
<1> QED
  BY <1>10

\* Every definition is recorded at the end.
AllBound(nd) == /\ \A p \in Uses : p \in DOMAIN nd \/ MayClone(p)
                /\ \A p \in UsesOf({"fn", "const", "struct", "impl", "let"}) : p \in DOMAIN nd

\* The resolution reports the faults of the uses, and without any leaves every node
\* bound.
LEMMA ResolvingEnds ==
    ASSUME crate \in Crates, ImplFaults = {}, NEW ty, NEW own, NEW sc, NEW st, NEW ii, NEW nd, NEW di,
           Resolving(<<>>, ty, own, sc, st, ii, nd, di)
    PROVE  /\ di = UseFaults
           /\ \A q \in Uses \cap DOMAIN nd : nd[q] = Meaning(q)
           /\ UseFaults = {} => AllBound(nd)
<1>1. SeenBy(<<>>) = DOMAIN crate
  BY PassEnds DEF SeenBy
<1>2. Opened(<<>>, "bind") = {}
  BY EmptyFan DEF Opened
<1>3. di = UseFaults
  BY <1>1, AllFaults DEF Resolving, FaultsKnown
<1>4. NodesKnown(DOMAIN crate, {}, ty, nd)
  BY <1>1, <1>2 DEF Resolving
<1>5. ASSUME UseFaults = {}, NEW p \in Uses PROVE p \in DOMAIN nd \/ MayClone(p)
  <2>1. Meaning(p) # NoDef \/ MayClone(p)
    BY <1>5 DEF UseFaults
  <2> QED
    BY <1>4, <2>1, UsesApart DEF NodesKnown, BoundIn
<1>6. ASSUME NEW p \in UsesOf({"fn", "const", "struct", "impl", "let"}) PROVE p \in DOMAIN nd
  <2>1. p \in DOMAIN crate /\ Here(p).op \in {"fn", "const", "struct", "impl", "let"}
    BY DEF UsesOf, Nodes
  <2>2. CASE Here(p).op = "let"
    BY <1>4, <2>1, <2>2 DEF NodesKnown, BoundIn
  <2>3. CASE Here(p).op # "let"
    <3>1. Here(p).op \in ItemOps
      BY <2>1, <2>3 DEF ItemOps, ValueOps
    <3>2. CASE Len(p) = 1
      <4>1. p \in Definables \cup Impls
        BY <2>1, <2>3, <3>2 DEF Definables, Impls, ItemsOf, Nodes, ValueOps
      <4> QED
        BY <1>4, <4>1 DEF NodesKnown, BoundIn, Fixed
    <3>3. CASE Len(p) # 1
      <4>1. Len(p) = 2 /\ Here(p).op \in ValueOps /\ Here(Front(p)).op = "impl"
        BY <2>1, <3>1, <3>3, ItemOpPlace
      <4>2. p \in Assoc
        BY <2>1, <4>1 DEF Assoc, Nodes, ImplFaults
      <4> QED
        BY <1>4, <4>2 DEF NodesKnown, BoundIn, Fixed
    <3> QED
      BY <3>2, <3>3
  <2> QED
    BY <2>2, <2>3
<1>7. \A q \in Uses \cap DOMAIN nd : nd[q] = Meaning(q)
  BY <1>4 DEF NodesKnown
<1> QED
  BY <1>3, <1>5, <1>6, <1>7 DEF AllBound

-----------------------------------------------------------------------------
(* The resolution goes on *)

OpensAt(p, do) == IF Here(p).op \in Finished(do) THEN {p} ELSE {}
NewBound(p) == (IF p \in Uses /\ Meaning(p) # NoDef THEN {p} ELSE {}) \cup (IF Here(p).op = "fn" THEN ParamsBound(p) ELSE {})

\* A visit that opens, binds and reports what it should keeps the invariant of the
\* resolution.
LEMMA VisitResolving ==
    ASSUME NEW s, Walking(s), Shaped(s), Head(s).do = "visit", NEW p, p = Head(s).at,
           ItemTables(types, values), NoTarget = {}, NEW ty, NEW di, FaultsKnown(SeenBy(s), di), NEW di2, di2 = di \cup FaultsOf(p),
           NEW st2, NEW ii2, SelfKnown(Opened(s, "leave") \cup OpensAt(p, "leave"), st2, ii2),
           NEW own2, NEW sc2, Scoped(SeenBy(s) \cup WithTarget(p), Opened(s, "close") \cup OpensAt(p, "close"),
                                     Opened(s, "bind") \cup OpensAt(p, "bind"), own2, sc2),
           NEW nd2, NodesKnown(SeenBy(s) \cup WithTarget(p), Opened(s, "bind") \cup OpensAt(p, "bind"), ty, nd2)
    PROVE  StepOf(s, FanOf(p)) /\ Resolving(FanOf(p) \o Tail(s), ty, own2, sc2, st2, ii2, nd2, di2)
<1> DEFINE n == FanOf(p) \o Tail(s)
<1>1. /\ StepOf(s, FanOf(p)) /\ Shaped(n) /\ SeenBy(n) = SeenBy(s) \cup WithTarget(p)
      /\ \A do \in Posts : Opened(n, do) = Opened(s, do) \cup OpensAt(p, do)
  BY VisitFits DEF OpensAt
<1>2. "leave" \in Posts /\ "close" \in Posts /\ "bind" \in Posts
  BY DEF Posts
<1>3. p \in DOMAIN crate /\ crate \in Crates
  BY HeadFacts DEF Walking
<1> HIDE DEF n
<1>4. FaultsKnown(SeenBy(n), di2)
  BY <1>1, <1>3, FaultsAdded
<1>5. /\ SelfKnown(Opened(n, "leave"), st2, ii2) /\ ScopedIn(n, own2, sc2)
      /\ NodesKnown(SeenBy(n), Opened(n, "bind"), ty, nd2)
  BY <1>1, <1>2 DEF ScopedIn
<1> QED
  BY <1>1, <1>4, <1>5 DEF Resolving, n

\* A visit binds the node, its parameters, or nothing.
LEMMA VisitBinds ==
    ASSUME NEW s, Walking(s), Shaped(s), Head(s).do = "visit", NEW p, p = Head(s).at, NoTarget = {}
    PROVE  /\ SameLets(SeenBy(s), Opened(s, "bind"), SeenBy(s) \cup WithTarget(p), Opened(s, "bind") \cup OpensAt(p, "bind"))
           /\ BoundIn(SeenBy(s) \cup WithTarget(p), Opened(s, "bind") \cup OpensAt(p, "bind"))
                = BoundIn(SeenBy(s), Opened(s, "bind")) \cup NewBound(p)
           /\ NewBound(p) \cap BoundIn(SeenBy(s), Opened(s, "bind")) = {}
<1> DEFINE seen == SeenBy(s)
           open == Opened(s, "bind")
           seen2 == seen \cup WithTarget(p)
           open2 == open \cup OpensAt(p, "bind")
<1>1. p \in DOMAIN crate /\ p \in Path /\ crate \in Crates /\ p \notin Targets /\ p \notin seen /\ p # <<>>
  BY HeadFacts DEF Walking, Shaped, SeenBy
<1>2. seen \subseteq DOMAIN crate
  BY DEF SeenBy
<1>3. \A q \in WithTarget(p) : q = p \/ (q \in Targets /\ Here(q).op = "ty")
  <2> SUFFICES ASSUME NEW q \in WithTarget(p), q # p PROVE q \in Targets /\ Here(q).op = "ty"
    OBVIOUS
  <2>1. Here(p).op = "impl" /\ q = Append(p, 1)
    BY DEF WithTarget
  <2>2. p \in Impls
    BY <1>1, <2>1, TopOpPlace DEF Impls, ItemsOf, Nodes
  <2>3. q \in Targets
    BY <1>1, <2>1, <2>2, ImplFacts
  <2> QED
    BY <1>1, <2>3, TargetFacts
<1>4. OpensAt(p, "bind") = IF Here(p).op = "let" THEN {p} ELSE {}
  BY DEF OpensAt, Finished
<1>5. p \in WithTarget(p)
  BY DEF WithTarget
<1> HIDE DEF seen, open
<1>6. \A q : Here(q).op = "let" => (q \in seen2 \ open2 <=> q \in seen \ open)
  <2> SUFFICES ASSUME NEW q, Here(q).op = "let" PROVE q \in seen2 \ open2 <=> q \in seen \ open
    OBVIOUS
  <2>1. q \in WithTarget(p) => q = p
    BY <1>3
  <2> QED
    BY <1>1, <1>4, <2>1
<1>7. SameLets(seen, open, seen2, open2)
  <2> SUFFICES ASSUME NEW q, NEW x PROVE LetsIn(seen2, open2, q, x) = LetsIn(seen, open, q, x)
    BY DEF SameLets
  <2>1. \A l : l \in LetsIn(seen2, open2, q, x) <=> l \in LetsIn(seen, open, q, x)
    BY <1>6 DEF LetsIn
  <2>2. LetsIn(seen2, open2, q, x) \subseteq LetsIn(seen, open, q, x) /\ LetsIn(seen, open, q, x) \subseteq LetsIn(seen2, open2, q, x)
    BY <2>1
  <2> QED
    BY <2>2
<1>8. {q \in seen2 \ open2 : Here(q).op = "let"} = {q \in seen \ open : Here(q).op = "let"}
  BY <1>6
<1>9. {f \in seen2 : Here(f).op = "fn"} = {f \in seen : Here(f).op = "fn"} \cup {f \in {p} : Here(f).op = "fn"}
  BY <1>3, <1>5
<1>10. UNION {ParamsBound(f) : f \in {f \in seen2 : Here(f).op = "fn"}}
         = (UNION {ParamsBound(f) : f \in {f \in seen : Here(f).op = "fn"}}) \cup (IF Here(p).op = "fn" THEN ParamsBound(p) ELSE {})
  <2>1. CASE Here(p).op = "fn"
    <3>1. {f \in seen2 : Here(f).op = "fn"} = {f \in seen : Here(f).op = "fn"} \cup {p}
      BY <1>9, <2>1
    <3> QED
      BY <2>1, <3>1
  <2>2. CASE Here(p).op # "fn"
    <3>1. {f \in seen2 : Here(f).op = "fn"} = {f \in seen : Here(f).op = "fn"}
      BY <1>9, <2>2
    <3> QED
      BY <2>2, <3>1
  <2> QED
    BY <2>1, <2>2
<1>11. Targets \subseteq Fixed
  BY DEF Fixed
<1>12. {q \in Uses \cap seen2 : Meaning(q) # NoDef} \cup Fixed
         = {q \in Uses \cap seen : Meaning(q) # NoDef} \cup (IF p \in Uses /\ Meaning(p) # NoDef THEN {p} ELSE {}) \cup Fixed
  BY <1>3, <1>5, <1>11
<1>13. BoundIn(seen2, open2) = BoundIn(seen, open) \cup NewBound(p)
  BY <1>8, <1>10, <1>12 DEF BoundIn, NewBound
<1>14. NewBound(p) \cap BoundIn(seen, open) = {}
  <2>1. p \in Uses => p \notin Fixed /\ Here(p).op # "let"
    BY <1>1, UsesApart DEF Fixed, UseOps
  <2>2. p \in Uses => p \notin BoundIn(seen, open)
    <3>1. \A q \in Path : q \in BoundIn(seen, open) <=>
                 q \in Fixed \/ (q \in Uses \cap seen /\ Meaning(q) # NoDef) \/ (q \in seen \ open /\ Here(q).op = "let")
      BY <1>1, <1>2, ApartInDomain
    <3> QED
      BY <1>1, <2>1, <3>1
  <2>3. Here(p).op = "fn" => \A d \in ParamsBound(p) : d \notin BoundIn(seen, open)
    BY <1>1, <1>2, ParamsBoundFacts, ApartInDomain
  <2> QED
    BY <2>2, <2>3 DEF NewBound
<1> QED
  BY <1>7, <1>13, <1>14 DEF seen, open

-----------------------------------------------------------------------------
(* What is read off the crate stays *)

\* What a name means depends on the crate only.
LEMMA SameMeaning ==
    ASSUME crate' = crate
    PROVE  /\ \A q : Meaning(q)' = Meaning(q)
           /\ \A q : MayClone(q)' <=> MayClone(q)
           /\ Uses' = Uses /\ Fixed' = Fixed
           /\ \A x : TypeNamed(x)' = TypeNamed(x)
<1>1. \A p, x : LetsFor(p, x)' = LetsFor(p, x)
  BY SameTree DEF LetsFor
<1>2. \A p : Function(p)' = Function(p)
  BY SameTree DEF Function
<1>3. \A p, x : ParametersFor(p, x)' = ParametersFor(p, x)
  BY <1>2, SameTree DEF ParametersFor
<1>4. \A p, x : Variable(p, x)' = Variable(p, x)
  BY <1>1, <1>3, SameTree DEF Variable
<1>5. \A p, x : TypeAt(p, x)' = TypeAt(p, x)
  BY SameTree DEF TypeAt
<1>6. \A t, x : Members(t, x)' = Members(t, x)
  BY SameTree DEF Members, HasTarget
<1>7. \A p, of, x : Associate(p, of, x)' = Associate(p, of, x)
  BY <1>5, <1>6, SameTree DEF Associate
<1>8. \A q : Meaning(q)' = Meaning(q)
  BY <1>4, <1>5, <1>7, SameTree DEF Meaning
<1>9. \A q : MayClone(q)' <=> MayClone(q)
  BY <1>5, SameTree DEF MayClone
<1>10. Uses' = Uses
  BY SameTree DEF Uses, UsesOf
<1>11. Fixed' = Fixed
  BY SameItems DEF Fixed
<1>12. \A x : TypeNamed(x)' = TypeNamed(x)
  BY SameTree DEF TypeNamed
<1> QED
  BY <1>8, <1>9, <1>10, <1>11, <1>12

\* What the invariant of the resolution is made of depends on the crate only.
LEMMA SameKnown ==
    ASSUME crate' = crate
    PROVE  /\ \A s : Shaped(s)' <=> Shaped(s)
           /\ \A s : SeenBy(s)' = SeenBy(s)
           /\ \A s, do : Opened(s, do)' = Opened(s, do)
           /\ \A inside, st, ii : SelfKnown(inside, st, ii)' <=> SelfKnown(inside, st, ii)
           /\ \A seen, closing, open, own, sc : Scoped(seen, closing, open, own, sc)' <=> Scoped(seen, closing, open, own, sc)
           /\ \A seen, open, ty, nd : NodesKnown(seen, open, ty, nd)' <=> NodesKnown(seen, open, ty, nd)
           /\ \A seen, di : FaultsKnown(seen, di)' <=> FaultsKnown(seen, di)
           /\ \A ty, va, me : Base(ty, va, me)' <=> Base(ty, va, me)
<1>0. \A p : Here(p)' = Here(p)
  BY SameTree
<1>1. \A s : Shaped(s)' <=> Shaped(s)
  BY <1>0, SameItems DEF Shaped
<1>2. \A s : SeenBy(s)' = SeenBy(s)
  BY DEF SeenBy
<1>3. \A s, do : Opened(s, do)' = Opened(s, do)
  BY DEF Opened
<1>4. \A inside, st, ii : SelfKnown(inside, st, ii)' <=> SelfKnown(inside, st, ii)
  BY <1>0, SameMeaning DEF SelfKnown
<1>5. \A q, x : ParamsOf(q, x)' = ParamsOf(q, x)
  BY <1>0 DEF ParamsOf
<1>6. \A seen, open, q, x : LetsIn(seen, open, q, x)' = LetsIn(seen, open, q, x)
  BY <1>0 DEF LetsIn
<1>7. \A q, c, x : ParamScope(q, c, x)' <=> ParamScope(q, c, x)
  BY <1>5 DEF ParamScope
<1>8. \A seen, open, q, c, x : BlockScope(seen, open, q, c, x)' <=> BlockScope(seen, open, q, c, x)
  BY <1>6 DEF BlockScope
<1>9. \A seen, open, q, c : ScopeOf(seen, open, q, c)' <=> ScopeOf(seen, open, q, c)
  BY <1>0, <1>7, <1>8 DEF ScopeOf
<1>10. \A seen, closing, open, own, sc : Scoped(seen, closing, open, own, sc)' <=> Scoped(seen, closing, open, own, sc)
  BY <1>9 DEF Scoped
<1>11. \A f : ParamsBound(f)' = ParamsBound(f)
  BY <1>0 DEF ParamsBound
<1>12. \A seen, open : BoundIn(seen, open)' = BoundIn(seen, open)
  BY <1>0, <1>11, SameMeaning DEF BoundIn
<1>13. \A seen, open, ty, nd : NodesKnown(seen, open, ty, nd)' <=> NodesKnown(seen, open, ty, nd)
  BY <1>12, SameMeaning, SameItems DEF NodesKnown
<1>14. \A q : FaultsOf(q)' = FaultsOf(q)
  BY <1>0, SameMeaning DEF FaultsOf
<1>15. \A seen, di : FaultsKnown(seen, di)' <=> FaultsKnown(seen, di)
  BY <1>14 DEF FaultsKnown
<1>16. \A ty, va, me : Base(ty, va, me)' <=> Base(ty, va, me)
  BY SameItems, SameNamespace DEF Base
<1> QED
  BY <1>1, <1>2, <1>3, <1>4, <1>10, <1>13, <1>15, <1>16

ResolveInv ==
  /\ Base(types, values, members)
  /\ \E own : Resolving(todo, types, own, scopes, self_ty, in_impl, node_def, diagnostics)

\* The state of the resolution, carried over to the next state.
LEMMA SameResolving ==
    ASSUME crate' = crate, Base(types', values', members'), NEW own,
           Resolving(todo', types', own, scopes', self_ty', in_impl', node_def', diagnostics')
    PROVE  ResolveInv'
<1>1. Base(types, values, members)'
  BY SameKnown
<1>2. Resolving(todo, types, own, scopes, self_ty, in_impl, node_def, diagnostics)'
  BY SameKnown DEF Resolving, ScopedIn
<1> QED
  BY <1>1, <1>2 DEF ResolveInv

-----------------------------------------------------------------------------
(* The steps of the resolution *)

\* The state of the resolution, with the nodes the scopes belong to.
Knowing(own) ==
  /\ Walking(todo) /\ Shaped(todo) /\ Base(types, values, members) /\ ItemTables(types, values) /\ NoTarget = {}
  /\ ScopedIn(todo, own, scopes)
  /\ SelfKnown(Opened(todo, "leave"), self_ty, in_impl)
  /\ NodesKnown(SeenBy(todo), Opened(todo, "bind"), types, node_def)
  /\ FaultsKnown(SeenBy(todo), diagnostics)

\* The walk of the resolution stands at a node, with scopes that belong to the open
\* nodes.
LEMMA ResolveHead ==
    ASSUME WalkInv, ResolveInv, NEW do, NEW ops, Handles("resolve", do, ops)
    PROVE  /\ \E own : Knowing(own)
           /\ Head(todo).do = do /\ P = Head(todo).at /\ P \in DOMAIN crate /\ P \in Path /\ P # <<>>
           /\ Here(P).op \in ops /\ This = Here(P) /\ phase = "resolve" /\ ~panicked
           /\ Head(todo) = Task(do, P) /\ Head(todo) \in TasksIn(todo)
<1>1. /\ Walking(todo) /\ Head(todo).do = do /\ P = Head(todo).at /\ P \in DOMAIN crate /\ P \in Path
      /\ Here(P).op \in ops /\ This = Here(P) /\ phase = "resolve" /\ ~panicked
      /\ Head(todo) \in TasksIn(todo) /\ todo # <<>>
  BY Handling
<1>2. PICK own : Resolving(todo, types, own, scopes, self_ty, in_impl, node_def, diagnostics)
  BY DEF ResolveInv
<1>3. Base(types, values, members)
  BY DEF ResolveInv
<1>4. ItemTables(types, values) /\ NoTarget = {}
  BY <1>3 DEF Base, ImplFaults
<1>5. Knowing(own)
  BY <1>1, <1>2, <1>3, <1>4 DEF Knowing, Resolving
<1>6. P # <<>>
  BY <1>1, <1>5 DEF Knowing, Shaped
<1>7. Head(todo) \in Tasks
  BY <1>1, HeadFacts
<1>8. Head(todo) = Task(do, P)
  BY <1>1, <1>7, TaskEqual
<1>9. QED
  BY <1>1, <1>5, <1>6, <1>8

\* What makes the state after a visit that of the resolution again.
LEMMA VisitStep ==
    ASSUME NEW own, Knowing(own), Head(todo).do = "visit", P = Head(todo).at,
           Then(FanOf(P)), crate' = crate, types' = types, values' = values, members' = members,
           diagnostics' = diagnostics \cup FaultsOf(P),
           SelfKnown(Opened(todo, "leave") \cup OpensAt(P, "leave"), self_ty', in_impl'),
           NEW own2, Scoped(SeenBy(todo) \cup WithTarget(P), Opened(todo, "close") \cup OpensAt(P, "close"),
                            Opened(todo, "bind") \cup OpensAt(P, "bind"), own2, scopes'),
           NodesKnown(SeenBy(todo) \cup WithTarget(P), Opened(todo, "bind") \cup OpensAt(P, "bind"), types, node_def')
    PROVE  WalkInv' /\ ResolveInv'
<1>1. /\ Walking(todo) /\ Shaped(todo) /\ Base(types, values, members) /\ ItemTables(types, values) /\ NoTarget = {}
      /\ FaultsKnown(SeenBy(todo), diagnostics)
  BY DEF Knowing
<1>2. /\ StepOf(todo, FanOf(P))
      /\ Resolving(FanOf(P) \o Tail(todo), types, own2, scopes', self_ty', in_impl', node_def', diagnostics')
  BY <1>1, VisitResolving
<1>3. WalkInv' /\ todo' = FanOf(P) \o Tail(todo)
  BY <1>2, WalkOn
<1>4. Resolving(todo', types', own2, scopes', self_ty', in_impl', node_def', diagnostics')
  BY <1>2, <1>3
<1>5. Base(types', values', members')
  BY <1>1
<1>6. ResolveInv'
  BY <1>4, <1>5, SameResolving
<1>7. QED
  BY <1>3, <1>6

\* One node is recorded.
LEMMA RecordsOne ==
    ASSUME NEW p, NEW d, Record(p, d), p \notin DOMAIN node_def, p \in Uses => d = Meaning(p)
    PROVE  Adds({p}, node_def, node_def') /\ panicked' = FALSE
<1> DEFINE nd == node_def
           e == [q \in DOMAIN nd \cup {p} |-> IF q \in {p} THEN d ELSE nd[q]]
<1>1. node_def' = e /\ panicked' = FALSE
  BY Recorded
<1>2. DOMAIN e = DOMAIN nd \cup {p} /\ e[p] = d /\ \A q \in DOMAIN nd \ {p} : e[q] = nd[q]
  OBVIOUS
<1> HIDE DEF e
<1>3. Adds({p}, nd, e)
  BY <1>2 DEF Adds
<1> QED
  BY <1>1, <1>3

\* The nodes a visit binds are the ones it should bind.
LEMMA VisitRecords ==
    ASSUME NEW own, Knowing(own), Head(todo).do = "visit", P = Head(todo).at, NEW nd2, Adds(NewBound(P), node_def, nd2)
    PROVE  NodesKnown(SeenBy(todo) \cup WithTarget(P), Opened(todo, "bind") \cup OpensAt(P, "bind"), types, nd2)
<1>1. /\ Walking(todo) /\ Shaped(todo) /\ NoTarget = {} /\ NodesKnown(SeenBy(todo), Opened(todo, "bind"), types, node_def)
  BY DEF Knowing
<1>2. /\ BoundIn(SeenBy(todo) \cup WithTarget(P), Opened(todo, "bind") \cup OpensAt(P, "bind"))
                = BoundIn(SeenBy(todo), Opened(todo, "bind")) \cup NewBound(P)
      /\ NewBound(P) \cap BoundIn(SeenBy(todo), Opened(todo, "bind")) = {}
  BY <1>1, VisitBinds
<1>3. NewBound(P) \cap Fixed = {}
  BY <1>2 DEF BoundIn
<1>4. QED
  BY <1>1, <1>2, <1>3, NodesAdded

\* What is new is not recorded before.
LEMMA NewIsNew ==
    ASSUME NEW own, Knowing(own), Head(todo).do = "visit", P = Head(todo).at
    PROVE  NewBound(P) \cap DOMAIN node_def = {}
<1>1. /\ Walking(todo) /\ Shaped(todo) /\ NoTarget = {} /\ NodesKnown(SeenBy(todo), Opened(todo, "bind"), types, node_def)
  BY DEF Knowing
<1>2. NewBound(P) \cap BoundIn(SeenBy(todo), Opened(todo, "bind")) = {}
  BY <1>1, VisitBinds
<1>3. QED
  BY <1>1, <1>2 DEF NodesKnown

\* The variables of the blocks around stay as they are.
LEMMA VisitScopes ==
    ASSUME NEW own, Knowing(own), Head(todo).do = "visit", P = Head(todo).at
    PROVE  Scoped(SeenBy(todo) \cup WithTarget(P), Opened(todo, "close"), Opened(todo, "bind") \cup OpensAt(P, "bind"), own, scopes)
<1>1. Walking(todo) /\ Shaped(todo) /\ NoTarget = {}
  BY DEF Knowing
<1>2. Scoped(SeenBy(todo), Opened(todo, "close"), Opened(todo, "bind"), own, scopes)
  BY DEF Knowing, ScopedIn
<1>3. SameLets(SeenBy(todo), Opened(todo, "bind"), SeenBy(todo) \cup WithTarget(P), Opened(todo, "bind") \cup OpensAt(P, "bind"))
  BY <1>1, VisitBinds
<1>4. QED
  BY <1>2, <1>3, ScopedKept

\* A visit that neither opens a scope nor an item, of a node that is bound or not.
LEMMA QuietVisit ==
    ASSUME NEW own, Knowing(own), Head(todo).do = "visit", P = Head(todo).at, ~panicked,
           Here(P).op \notin {"struct", "impl", "fn", "block"},
           Then(FanOf(P)), crate' = crate, types' = types, values' = values, members' = members,
           scopes' = scopes, self_ty' = self_ty, in_impl' = in_impl, diagnostics' = diagnostics \cup FaultsOf(P),
           (NewBound(P) = {} /\ UNCHANGED unrecorded) \/ (NewBound(P) = {P} /\ Record(P, Meaning(P)))
    PROVE  WalkInv' /\ ResolveInv' /\ panicked' = FALSE
<1>1. OpensAt(P, "leave") = {} /\ OpensAt(P, "close") = {}
  BY DEF OpensAt, Finished
<1>2. SelfKnown(Opened(todo, "leave") \cup OpensAt(P, "leave"), self_ty', in_impl')
  <2>1. Opened(todo, "leave") \cup OpensAt(P, "leave") = Opened(todo, "leave")
    BY <1>1
  <2>2. SelfKnown(Opened(todo, "leave"), self_ty, in_impl)
    BY DEF Knowing
  <2>3. QED
    BY <2>1, <2>2
<1>3. Scoped(SeenBy(todo) \cup WithTarget(P), Opened(todo, "close") \cup OpensAt(P, "close"),
             Opened(todo, "bind") \cup OpensAt(P, "bind"), own, scopes')
  <2>1. Opened(todo, "close") \cup OpensAt(P, "close") = Opened(todo, "close")
    BY <1>1
  <2>2. Scoped(SeenBy(todo) \cup WithTarget(P), Opened(todo, "close"), Opened(todo, "bind") \cup OpensAt(P, "bind"), own, scopes)
    BY VisitScopes
  <2>3. QED
    BY <2>1, <2>2
<1>4. Adds(NewBound(P), node_def, node_def') /\ panicked' = FALSE
  <2>1. CASE NewBound(P) = {} /\ UNCHANGED unrecorded
    BY <2>1 DEF Adds, unrecorded
  <2>2. CASE NewBound(P) = {P} /\ Record(P, Meaning(P))
    <3>1. P \notin DOMAIN node_def
      BY <2>2, NewIsNew
    <3>2. Record(P, Meaning(P)) /\ NewBound(P) = {P}
      BY <2>2
    <3>3. Adds({P}, node_def, node_def') /\ panicked' = FALSE
      BY <3>1, <3>2, RecordsOne
    <3>4. QED
      BY <3>2, <3>3
  <2>3. QED
    BY <2>1, <2>2
<1>5. NodesKnown(SeenBy(todo) \cup WithTarget(P), Opened(todo, "bind") \cup OpensAt(P, "bind"), types, node_def')
  BY <1>4, VisitRecords
<1>6. WalkInv' /\ ResolveInv'
  BY <1>2, <1>3, <1>5, VisitStep
<1>7. QED
  BY <1>4, <1>6

-----------------------------------------------------------------------------
(* The visits that open nothing: of uses, and of what binds no name *)

\* The node of a use is bound to what it means, or reported.
LEMMA FoundFits ==
    ASSUME NEW d, NEW ok \in BOOLEAN, Found(d, ok), P \in Uses, Here(P).op # "fn",
           d # NoDef /\ ok => Meaning(P) = d, ~(d # NoDef /\ ok) => Meaning(P) = NoDef /\ ~MayClone(P)
    PROVE  /\ diagnostics' = diagnostics \cup FaultsOf(P)
           /\ (NewBound(P) = {} /\ UNCHANGED unrecorded) \/ (NewBound(P) = {P} /\ Record(P, Meaning(P)))
<1>1. CASE d # NoDef /\ ok
  <2>1. Record(P, d) /\ diagnostics' = diagnostics
    BY <1>1 DEF Found
  <2>2. Meaning(P) = d /\ Meaning(P) # NoDef
    BY <1>1
  <2>3. FaultsOf(P) = {} /\ NewBound(P) = {P}
    BY <2>2 DEF FaultsOf, NewBound
  <2> QED
    BY <2>1, <2>2, <2>3
<1>2. CASE ~(d # NoDef /\ ok)
  <2>1. diagnostics' = diagnostics \cup {P} /\ UNCHANGED unrecorded
    BY <1>2 DEF Found, Report
  <2>2. FaultsOf(P) = {P} /\ NewBound(P) = {}
    BY <1>2 DEF FaultsOf, NewBound
  <2> QED
    BY <2>1, <2>2
<1> QED
  BY <1>1, <1>2

\* A visit that binds and reports nothing, at a node where there is nothing to.
LEMMA NothingFound ==
    ASSUME UNCHANGED <<unrecorded, diagnostics>>, Here(P).op # "fn", P \in Uses => Meaning(P) = NoDef /\ MayClone(P)
    PROVE  /\ diagnostics' = diagnostics \cup FaultsOf(P)
           /\ NewBound(P) = {} /\ UNCHANGED unrecorded
<1>1. FaultsOf(P) = {} /\ NewBound(P) = {}
  BY DEF FaultsOf, NewBound
<1> QED
  BY <1>1

\* What the handlers find is what is meant.
LEMMA UseMeaning ==
    ASSUME NEW own, Knowing(own), Head(todo).do = "visit", P = Head(todo).at, Here(P).op \in UseOps
    PROVE  /\ \A x : Unqualified(x) = Variable(P, x)
           /\ \A x : TypeSegment(x) = TypeAt(P, x)
           /\ \A t, x : Associated(t, x) = Associate(P, t, x)
<1>1. /\ Walking(todo) /\ Shaped(todo) /\ Base(types, values, members) /\ ItemTables(types, values)
      /\ ScopedIn(todo, own, scopes) /\ SelfKnown(Opened(todo, "leave"), self_ty, in_impl)
  BY DEF Knowing
<1>2. Here(P).op # "let" /\ Here(P).op # "fn" /\ Here(P).op \notin ItemOps
  BY DEF UseOps, ItemOps, ValueOps
<1>3. \A x : Unqualified(x) = Variable(P, x)
  BY <1>1, <1>2, VariableLookup
<1>4. self_ty = SelfAt(P)
  BY <1>1, <1>2, SelfInside
<1>5. crate \in Crates
  BY <1>1 DEF Walking
<1>6. \A x : TypeSegment(x) = TypeAt(P, x)
  BY <1>1, <1>4, <1>5, TypeLookup
<1>7. \A t, x : Associated(t, x) = Associate(P, t, x)
  BY <1>1, <1>4, <1>5, MemberLookup
<1> QED
  BY <1>3, <1>6, <1>7

\* A constant that is looked up is bound when it is a const item, and reported otherwise.
LEMMA ConstMeaning ==
    ASSUME NEW d, d = NoDef \/ d.k # "none", d.k \in {"none", "local", "value", "member"}, 
           NEW p, Here(p).op \in {"len", "constof"},
           d = IF Here(p).op = "len" THEN Variable(p, Here(p).name) ELSE Associate(p, Here(p).of, Here(p).name)
    PROVE  /\ IsConst(d) => d # NoDef /\ Meaning(p) = d
           /\ ~IsConst(d) => Meaning(p) = NoDef
           /\ ~MayClone(p)
<1>1. ~MayClone(p)
  BY DEF MayClone
<1>2. Meaning(p) = IF d.at = <<>> \/ d.k = "local" \/ Here(d.at).op # "const" THEN NoDef ELSE d
  <2>1. CASE Here(p).op = "len"
    BY <2>1 DEF Meaning
  <2>2. CASE Here(p).op = "constof"
    BY <2>2 DEF Meaning
  <2> QED
    BY <2>1, <2>2
<1>3. NoDef.k = "none" /\ NoDef.at = <<>>
  BY DEF NoDef, Def
<1>4. IsConst(d) <=> d.k \in {"value", "member"} /\ d.at # <<>> /\ Here(d.at).op = "const"
  BY DEF IsConst
<1> QED
  BY <1>1, <1>2, <1>3, <1>4

\* The kinds of what is found.
LEMMA KindsFound ==
    ASSUME NEW p, NEW x, NEW t
    PROVE  /\ Variable(p, x) = NoDef \/ Variable(p, x).k # "none"
           /\ Variable(p, x).k \in {"none", "local", "value", "member"}
           /\ Associate(p, t, x) = NoDef \/ Associate(p, t, x).k # "none"
           /\ Associate(p, t, x).k \in {"none", "local", "value", "member"}
<1>1. \A k, at : Def(k, at).k = k
  BY DEF Def
<1>2. NoDef.k = "none"
  BY <1>1 DEF NoDef
<1>3. Variable(p, x) = NoDef \/ \E at : Variable(p, x) = Def("local", at) \/ Variable(p, x) = Def("value", at)
  BY DEF Variable
<1>4. Associate(p, t, x) = NoDef \/ \E at : Associate(p, t, x) = Def("member", at)
  BY DEF Associate
<1> QED
  BY <1>1, <1>2, <1>3, <1>4

\* After a step of the resolution.
StillResolving == WalkInv' /\ ResolveInv' /\ phase' = "resolve" /\ panicked' = FALSE

\* What the handler of a node that opens nothing puts back.
LEMMA FanHere ==
    ASSUME NEW p, Here(p).op \notin {"struct", "impl", "fn", "block"}
    PROVE  FanOf(p) = IF Here(p).op = "let" THEN LetOrder(p) ELSE Children(p)
BY DEF FanOf, LetOrder

\* What is neither a use nor a function binds nothing when it is visited.
LEMMA NothingBound ==
    ASSUME crate \in Crates, NEW p \in DOMAIN crate, Here(p).op \notin UseOps, Here(p).op # "fn"
    PROVE  NewBound(p) = {} /\ FaultsOf(p) = {}
<1>1. p \notin Uses
  BY UsesApart
<1> QED
  BY <1>1 DEF NewBound, FaultsOf

\* A node without a handler of its own keeps the invariant.
LEMMA StepWalk ==
    ASSUME WalkInv, ResolveInv, Walk
    PROVE  StillResolving
<1>1. /\ Handles("resolve", "visit", {"expr", "const"}) /\ Then(Children(P))
      /\ UNCHANGED <<crate, phase, tables, context, node_def, diagnostics, panicked>>
  BY DEF Walk
<1>2. PICK own : Knowing(own)
  BY <1>1, ResolveHead
<1>3. /\ Head(todo).do = "visit" /\ P = Head(todo).at /\ P \in DOMAIN crate /\ Here(P).op \in {"expr", "const"}
      /\ phase = "resolve" /\ ~panicked
  BY <1>1, ResolveHead
<1>4. FanOf(P) = Children(P)
  BY <1>3, FanHere
<1>5. crate \in Crates
  BY DEF WalkInv
<1>6. NewBound(P) = {} /\ FaultsOf(P) = {}
  BY <1>3, <1>5, NothingBound DEF UseOps
<1>7. /\ crate' = crate /\ types' = types /\ values' = values /\ members' = members
      /\ scopes' = scopes /\ self_ty' = self_ty /\ in_impl' = in_impl /\ phase' = phase
      /\ diagnostics' = diagnostics /\ node_def' = node_def /\ panicked' = panicked
  BY <1>1 DEF tables, context
<1>8. UNCHANGED unrecorded /\ diagnostics' = diagnostics \cup FaultsOf(P)
  BY <1>6, <1>7 DEF unrecorded
<1>9. Then(FanOf(P))
  BY <1>1, <1>4
<1>10. WalkInv' /\ ResolveInv' /\ panicked' = FALSE
  BY <1>2, <1>3, <1>6, <1>7, <1>8, <1>9, QuietVisit
<1> QED
  BY <1>3, <1>7, <1>10 DEF StillResolving

\* The visit of a let keeps the invariant.
LEMMA StepLet ==
    ASSUME WalkInv, ResolveInv, VisitLet
    PROVE  StillResolving
<1>1. /\ Handles("resolve", "visit", {"let"}) /\ Then(LetOrder(P))
      /\ UNCHANGED <<crate, phase, tables, context, node_def, diagnostics, panicked>>
  BY DEF VisitLet
<1>2. PICK own : Knowing(own)
  BY <1>1, ResolveHead
<1>3. /\ Head(todo).do = "visit" /\ P = Head(todo).at /\ P \in DOMAIN crate /\ Here(P).op = "let"
      /\ phase = "resolve" /\ ~panicked
  BY <1>1, ResolveHead
<1>4. FanOf(P) = LetOrder(P)
  BY <1>3, FanHere
<1>5. crate \in Crates
  BY DEF WalkInv
<1>6. NewBound(P) = {} /\ FaultsOf(P) = {}
  BY <1>3, <1>5, NothingBound DEF UseOps
<1>7. /\ crate' = crate /\ types' = types /\ values' = values /\ members' = members
      /\ scopes' = scopes /\ self_ty' = self_ty /\ in_impl' = in_impl /\ phase' = phase
      /\ diagnostics' = diagnostics /\ node_def' = node_def /\ panicked' = panicked
  BY <1>1 DEF tables, context
<1>8. UNCHANGED unrecorded /\ diagnostics' = diagnostics \cup FaultsOf(P)
  BY <1>6, <1>7 DEF unrecorded
<1>9. Then(FanOf(P))
  BY <1>1, <1>4
<1>10. WalkInv' /\ ResolveInv' /\ panicked' = FALSE
  BY <1>2, <1>3, <1>6, <1>7, <1>8, <1>9, QuietVisit
<1> QED
  BY <1>3, <1>7, <1>10 DEF StillResolving

\* A use is looked up and its children come next.
LEMMA UseStep ==
    ASSUME WalkInv, ResolveInv, NEW ops, Handles("resolve", "visit", ops), ops \subseteq UseOps,
           Then(Children(P)), UNCHANGED <<crate, phase, tables, context>>,
           diagnostics' = diagnostics \cup FaultsOf(P),
           (NewBound(P) = {} /\ UNCHANGED unrecorded) \/ (NewBound(P) = {P} /\ Record(P, Meaning(P)))
    PROVE  StillResolving
<1>2. PICK own : Knowing(own)
  BY ResolveHead
<1>3. /\ Head(todo).do = "visit" /\ P = Head(todo).at /\ P \in DOMAIN crate /\ Here(P).op \in ops
      /\ phase = "resolve" /\ ~panicked
  BY ResolveHead
<1>4. Here(P).op \notin {"struct", "impl", "fn", "block"} /\ Here(P).op # "let"
  BY <1>3 DEF UseOps
<1>5. FanOf(P) = Children(P)
  BY <1>4, FanHere
<1>7. /\ crate' = crate /\ types' = types /\ values' = values /\ members' = members
      /\ scopes' = scopes /\ self_ty' = self_ty /\ in_impl' = in_impl /\ phase' = phase
  BY DEF tables, context
<1>9. Then(FanOf(P))
  BY <1>5
<1>10. WalkInv' /\ ResolveInv' /\ panicked' = FALSE
  BY <1>2, <1>3, <1>4, <1>7, <1>9, QuietVisit
<1> QED
  BY <1>3, <1>7, <1>10 DEF StillResolving

\* The visit of a path keeps the invariant.
LEMMA StepPath ==
    ASSUME WalkInv, ResolveInv, VisitPath
    PROVE  StillResolving
<1>1. /\ Handles("resolve", "visit", {"use", "member"}) /\ Then(Children(P))
      /\ UNCHANGED <<crate, phase, tables, context>>
      /\ IF This.op = "use" THEN Found(Unqualified(This.name), TRUE)
         ELSE IF Associated(This.of, This.name) = NoDef /\ IsClone(This.of, This.name)
         THEN UNCHANGED <<unrecorded, diagnostics>>
         ELSE Found(Associated(This.of, This.name), TRUE)
  BY DEF VisitPath
<1>2. PICK own : Knowing(own)
  BY <1>1, ResolveHead
<1>3. /\ Head(todo).do = "visit" /\ P = Head(todo).at /\ P \in DOMAIN crate /\ Here(P).op \in {"use", "member"}
      /\ This = Here(P) /\ P # <<>>
  BY <1>1, ResolveHead
<1>4. Here(P).op \in UseOps /\ Here(P).op # "fn" /\ {"use", "member"} \subseteq UseOps
  BY <1>3 DEF UseOps
<1>5. crate \in Crates
  BY DEF WalkInv
<1>6. P \in Uses
  BY <1>3, <1>4, <1>5, GrammarFacts DEF Uses, UsesOf, Nodes, UseOps, PathOps
<1>7. /\ \A x : Unqualified(x) = Variable(P, x)
      /\ \A x : TypeSegment(x) = TypeAt(P, x)
      /\ \A t, x : Associated(t, x) = Associate(P, t, x)
  BY <1>2, <1>3, <1>4, UseMeaning
<1>8. /\ diagnostics' = diagnostics \cup FaultsOf(P)
      /\ (NewBound(P) = {} /\ UNCHANGED unrecorded) \/ (NewBound(P) = {P} /\ Record(P, Meaning(P)))
  <2>1. CASE Here(P).op = "use"
    <3> DEFINE d == Unqualified(Here(P).name)
    <3>1. Found(d, TRUE)
      BY <1>1, <1>3, <2>1
    <3>2. Meaning(P) = d
      BY <1>7, <2>1 DEF Meaning
    <3>3. ~MayClone(P)
      BY <2>1 DEF MayClone
    <3> HIDE DEF d
    <3> QED
      BY <3>1, <3>2, <3>3, <1>4, <1>6, FoundFits
  <2>2. CASE Here(P).op # "use"
    <3> DEFINE d == Associated(Here(P).of, Here(P).name)
    <3>1. Here(P).op = "member"
      BY <1>3, <2>2
    <3>2. Meaning(P) = d
      BY <1>7, <3>1 DEF Meaning
    <3>3. MayClone(P) <=> IsClone(Here(P).of, Here(P).name)
      BY <1>7, <3>1 DEF MayClone, IsClone
    <3>4. IF d = NoDef /\ IsClone(Here(P).of, Here(P).name) THEN UNCHANGED <<unrecorded, diagnostics>> ELSE Found(d, TRUE)
      BY <1>1, <1>3, <2>2
    <3> HIDE DEF d
    <3>5. CASE d = NoDef /\ MayClone(P)
      BY <3>2, <3>3, <3>4, <3>5, <1>4, NothingFound
    <3>6. CASE ~(d = NoDef /\ MayClone(P))
      <4>1. Found(d, TRUE)
        BY <3>3, <3>4, <3>6
      <4> QED
        BY <4>1, <3>2, <3>6, <1>4, <1>6, FoundFits
    <3> QED
      BY <3>5, <3>6
  <2> QED
    BY <2>1, <2>2
<1>9. QED
  BY <1>1, <1>4, <1>8, UseStep

\* The visit of a constant keeps the invariant.
LEMMA StepConstValue ==
    ASSUME WalkInv, ResolveInv, VisitConstValue
    PROVE  StillResolving
<1> DEFINE d == IF This.op = "len" THEN Unqualified(This.name) ELSE Associated(This.of, This.name)
<1>1. /\ Handles("resolve", "visit", {"len", "constof"}) /\ Found(d, IsConst(d))
      /\ Then(IF IsConst(d) THEN Children(P) ELSE <<>>)
      /\ UNCHANGED <<crate, phase, tables, context>>
  BY DEF VisitConstValue
<1>2. PICK own : Knowing(own)
  BY <1>1, ResolveHead
<1>3. /\ Head(todo).do = "visit" /\ P = Head(todo).at /\ P \in DOMAIN crate /\ Here(P).op \in {"len", "constof"}
      /\ This = Here(P) /\ P # <<>>
  BY <1>1, ResolveHead
<1>4. Here(P).op \in UseOps /\ Here(P).op # "fn" /\ {"len", "constof"} \subseteq UseOps
  BY <1>3 DEF UseOps
<1>5. crate \in Crates
  BY DEF WalkInv
<1>6. P \in Uses /\ Here(P).size = 0
  BY <1>3, <1>4, <1>5, GrammarFacts DEF Uses, UsesOf, Nodes, UseOps, PathOps
<1>7. /\ \A x : Unqualified(x) = Variable(P, x)
      /\ \A t, x : Associated(t, x) = Associate(P, t, x)
  BY <1>2, <1>3, <1>4, UseMeaning
<1>8. d = IF Here(P).op = "len" THEN Variable(P, Here(P).name) ELSE Associate(P, Here(P).of, Here(P).name)
  BY <1>3, <1>7
<1> HIDE DEF d
<1>9. (d = NoDef \/ d.k # "none") /\ d.k \in {"none", "local", "value", "member"}
  BY <1>8, KindsFound
<1>10. /\ IsConst(d) => d # NoDef /\ Meaning(P) = d
       /\ ~IsConst(d) => Meaning(P) = NoDef
       /\ ~MayClone(P)
  BY <1>3, <1>8, <1>9, ConstMeaning
<1>11. /\ diagnostics' = diagnostics \cup FaultsOf(P)
       /\ (NewBound(P) = {} /\ UNCHANGED unrecorded) \/ (NewBound(P) = {P} /\ Record(P, Meaning(P)))
  <2>1. IsConst(d) \in BOOLEAN
    BY DEF IsConst
  <2>2. d # NoDef /\ IsConst(d) => Meaning(P) = d
    BY <1>10
  <2>3. ~(d # NoDef /\ IsConst(d)) => Meaning(P) = NoDef /\ ~MayClone(P)
    BY <1>10
  <2> DEFINE ok == IsConst(d)
  <2>4. ok \in BOOLEAN /\ Found(d, ok) /\ (d # NoDef /\ ok => Meaning(P) = d)
        /\ (~(d # NoDef /\ ok) => Meaning(P) = NoDef /\ ~MayClone(P))
    BY <1>1, <2>1, <2>2, <2>3
  <2> HIDE DEF ok
  <2> QED
    BY <2>4, <1>4, <1>6, FoundFits
<1>12. Children(P) = <<>>
  BY <1>6 DEF Children
<1>13. Then(Children(P))
  BY <1>1, <1>12
<1> QED
  BY <1>1, <1>4, <1>11, <1>13, UseStep

\* The visit of a type keeps the invariant.
LEMMA StepTy ==
    ASSUME WalkInv, ResolveInv, VisitTy
    PROVE  StillResolving
<1>1. /\ Handles("resolve", "visit", {"ty"}) /\ Then(Children(P))
      /\ UNCHANGED <<crate, phase, tables, context>>
      /\ IF This.name = NoName THEN UNCHANGED <<unrecorded, diagnostics>> ELSE Found(TypeSegment(This.name), TRUE)
  BY DEF VisitTy
<1>2. PICK own : Knowing(own)
  BY <1>1, ResolveHead
<1>3. /\ Head(todo).do = "visit" /\ P = Head(todo).at /\ P \in DOMAIN crate /\ Here(P).op = "ty"
      /\ This = Here(P) /\ P # <<>>
  BY <1>1, ResolveHead
<1>4. Here(P).op \in UseOps /\ Here(P).op # "fn" /\ {"ty"} \subseteq UseOps
  BY <1>3 DEF UseOps
<1>6. P \in Uses <=> Here(P).name # NoName
  BY <1>3 DEF Uses, UsesOf, Nodes
<1>7. \A x : TypeSegment(x) = TypeAt(P, x)
  BY <1>2, <1>3, <1>4, UseMeaning
<1>8. /\ diagnostics' = diagnostics \cup FaultsOf(P)
      /\ (NewBound(P) = {} /\ UNCHANGED unrecorded) \/ (NewBound(P) = {P} /\ Record(P, Meaning(P)))
  <2>1. CASE Here(P).name = NoName
    BY <2>1, <1>1, <1>3, <1>4, <1>6, NothingFound
  <2>2. CASE Here(P).name # NoName
    <3> DEFINE d == TypeSegment(Here(P).name)
    <3>1. Found(d, TRUE)
      BY <1>1, <1>3, <2>2
    <3>2. Meaning(P) = d
      BY <1>3, <1>7 DEF Meaning
    <3>3. ~MayClone(P)
      BY <1>3 DEF MayClone
    <3> HIDE DEF d
    <3> QED
      BY <3>1, <3>2, <3>3, <1>4, <1>6, <2>2, FoundFits
  <2> QED
    BY <2>1, <2>2
<1> QED
  BY <1>1, <1>4, <1>8, UseStep

-----------------------------------------------------------------------------
(* The visits that open items, and their end *)

\* What is recorded of a struct or an impl: the type Self is inside.
LEMMA SelfRecorded ==
    ASSUME crate \in Crates, NEW va, NEW ty, ItemTables(ty, va), NoTarget = {}, NEW p \in DOMAIN crate, Here(p).op \in {"struct", "impl"},
           NEW seen, NEW open, NEW nd, NodesKnown(seen, open, ty, nd)
    PROVE  p \in DOMAIN nd /\ nd[p] = TypeNamed(Here(p).name)
<1>1. Len(p) = 1
  BY TopOpPlace
<1>2. Fixed \subseteq DOMAIN nd /\ \A q \in Fixed : nd[q] = NodeDefOf(ty, q)
  BY DEF NodesKnown, BoundIn
<1>3. CASE Here(p).op = "struct"
  <2>1. p \in Structs /\ p \in Definables
    BY <1>1, <1>3 DEF Structs, Definables, ItemsOf, Nodes
  <2>2. TypeNamed(Here(p).name) = Def("type", p)
    BY <2>1, TypesAreItems
  <2>3. NodeDefOf(ty, p) = Def("type", p)
    BY <1>3, <2>1 DEF NodeDefOf, DefOf
  <2> QED
    BY <1>2, <2>1, <2>2, <2>3 DEF Fixed
<1>4. CASE Here(p).op = "impl"
  <2>1. p \in Impls /\ p \notin Definables
    BY <1>1, <1>4 DEF Impls, Definables, ItemsOf, Nodes, ValueOps
  <2>2. p \notin Assoc
    BY <1>1 DEF Assoc
  <2>3. NodeDefOf(ty, p) = ty[Here(p).name]
    BY <2>1, <2>2 DEF NodeDefOf
  <2>4. p \in Impls \ NoTarget
    BY <2>1
  <2>5. ty[Here(p).name] = TypeNamed(Here(p).name)
    BY <2>4, TargetStruct
  <2> QED
    BY <1>2, <2>1, <2>3, <2>5 DEF Fixed
<1> QED
  BY <1>3, <1>4

\* The visit of a struct or an impl keeps the invariant.
LEMMA StepEnterSelf ==
    ASSUME WalkInv, ResolveInv, EnterSelf
    PROVE  StillResolving
<1>1. /\ Handles("resolve", "visit", {"struct", "impl"})
      /\ IF P \notin DOMAIN node_def
         THEN panicked' = TRUE /\ UNCHANGED <<todo, self_ty, in_impl>>
         ELSE /\ self_ty' = node_def[P]
              /\ in_impl' = (This.op = "impl")
              /\ Then(Append(Inside(P), Task("leave", P)))
              /\ UNCHANGED panicked
      /\ UNCHANGED <<crate, phase, tables, scopes, node_def, diagnostics>>
  BY DEF EnterSelf
<1>2. PICK own : Knowing(own)
  BY <1>1, ResolveHead
<1>3. /\ Head(todo).do = "visit" /\ P = Head(todo).at /\ P \in DOMAIN crate /\ Here(P).op \in {"struct", "impl"}
      /\ This = Here(P) /\ phase = "resolve" /\ ~panicked
  BY <1>1, ResolveHead
<1>4. /\ Walking(todo) /\ Shaped(todo) /\ ItemTables(types, values) /\ NoTarget = {}
      /\ NodesKnown(SeenBy(todo), Opened(todo, "bind"), types, node_def)
  BY <1>2 DEF Knowing
<1>5. crate \in Crates
  BY DEF WalkInv
<1>6. P \in DOMAIN node_def /\ node_def[P] = TypeNamed(Here(P).name)
  BY <1>3, <1>4, <1>5, SelfRecorded
<1>7. /\ crate' = crate /\ types' = types /\ values' = values /\ members' = members
      /\ scopes' = scopes /\ phase' = phase /\ diagnostics' = diagnostics /\ node_def' = node_def
      /\ panicked' = FALSE
  BY <1>1, <1>3, <1>6 DEF tables
<1>8. self_ty' = TypeNamed(Here(P).name) /\ in_impl' = (Here(P).op = "impl") /\ Then(Append(Inside(P), Task("leave", P)))
  BY <1>1, <1>3, <1>6
<1>9. Then(FanOf(P))
  BY <1>3, <1>8 DEF FanOf
<1>10. Opened(todo, "leave") = {}
  <2>1. Len(P) = 1
    BY <1>3, <1>5, TopOpPlace
  <2>2. \A q \in Opened(todo, "leave") : Len(P) > 1
    BY <1>3, <1>4, InsideItems
  <2> QED
    BY <2>1, <2>2, OneTwo
<1>11. OpensAt(P, "leave") = {P} /\ OpensAt(P, "close") = {}
  BY <1>3 DEF OpensAt, Finished
<1>12. SelfKnown(Opened(todo, "leave") \cup OpensAt(P, "leave"), self_ty', in_impl')
  <2>1. SelfKnown({P}, self_ty', in_impl')
    BY <1>8 DEF SelfKnown
  <2>2. Opened(todo, "leave") \cup OpensAt(P, "leave") = {P}
    BY <1>10, <1>11
  <2> QED
    BY <2>1, <2>2
<1>13. Scoped(SeenBy(todo) \cup WithTarget(P), Opened(todo, "close") \cup OpensAt(P, "close"),
              Opened(todo, "bind") \cup OpensAt(P, "bind"), own, scopes')
  <2>1. Opened(todo, "close") \cup OpensAt(P, "close") = Opened(todo, "close")
    BY <1>11
  <2>2. Scoped(SeenBy(todo) \cup WithTarget(P), Opened(todo, "close"), Opened(todo, "bind") \cup OpensAt(P, "bind"), own, scopes)
    BY <1>2, <1>3, VisitScopes
  <2> QED
    BY <1>7, <2>1, <2>2
<1>14. NewBound(P) = {} /\ FaultsOf(P) = {}
  BY <1>3, <1>5, NothingBound DEF UseOps
<1>15. NodesKnown(SeenBy(todo) \cup WithTarget(P), Opened(todo, "bind") \cup OpensAt(P, "bind"), types, node_def')
  <2>1. Adds(NewBound(P), node_def, node_def')
    BY <1>7, <1>14 DEF Adds
  <2> QED
    BY <1>2, <1>3, <2>1, VisitRecords
<1>16. diagnostics' = diagnostics \cup FaultsOf(P)
  BY <1>7, <1>14
<1>17. WalkInv' /\ ResolveInv'
  BY <1>2, <1>3, <1>7, <1>9, <1>12, <1>13, <1>15, <1>16, VisitStep
<1> QED
  BY <1>3, <1>7, <1>17 DEF StillResolving

\* The end of a node whose visit has come to everything below.
LEMMA FinishStep ==
    ASSUME NEW own, Knowing(own), Head(todo).do \in Posts,
           Then(<<>>), crate' = crate, types' = types, values' = values, members' = members,
           diagnostics' = diagnostics,
           SelfKnown(Opened(<<>> \o Tail(todo), "leave"), self_ty', in_impl'),
           NEW own2, ScopedIn(<<>> \o Tail(todo), own2, scopes'),
           NodesKnown(SeenBy(todo), Opened(<<>> \o Tail(todo), "bind"), types, node_def')
    PROVE  WalkInv' /\ ResolveInv'
<1>1. /\ Walking(todo) /\ Shaped(todo) /\ Base(types, values, members) /\ FaultsKnown(SeenBy(todo), diagnostics)
  BY DEF Knowing
<1>2. StepOf(todo, <<>>) /\ Finishing(todo, <<>>) /\ SeenBy(<<>> \o Tail(todo)) = SeenBy(todo)
  BY <1>1, FinishCloses
<1>3. WalkInv' /\ todo' = <<>> \o Tail(todo)
  BY <1>2, WalkOn
<1>4. Shaped(<<>> \o Tail(todo))
  BY <1>1, <1>2, ShapeStep
<1>5. Resolving(<<>> \o Tail(todo), types, own2, scopes', self_ty', in_impl', node_def', diagnostics)
  BY <1>1, <1>2, <1>4 DEF Resolving
<1>6. Resolving(todo', types', own2, scopes', self_ty', in_impl', node_def', diagnostics')
  BY <1>3, <1>5
<1>7. Base(types', values', members')
  BY <1>1
<1>8. ResolveInv'
  BY <1>6, <1>7, SameResolving
<1> QED
  BY <1>3, <1>8

\* Nothing is taken away.
LEMMA SetWithout ==
    ASSUME NEW S
    PROVE  S \ {} = S
OBVIOUS

\* The end of a struct or an impl keeps the invariant.
LEMMA StepLeaveSelf ==
    ASSUME WalkInv, ResolveInv, LeaveSelf
    PROVE  StillResolving
<1>1. /\ Handles("resolve", "leave", {"struct", "impl"})
      /\ self_ty' = NoDef /\ in_impl' = FALSE /\ Then(<<>>)
      /\ UNCHANGED <<crate, phase, tables, scopes, node_def, diagnostics, panicked>>
  BY DEF LeaveSelf, SelfAfter
<1>2. PICK own : Knowing(own)
  BY <1>1, ResolveHead
<1>3. /\ Head(todo).do = "leave" /\ P = Head(todo).at /\ P \in DOMAIN crate /\ Here(P).op \in {"struct", "impl"}
      /\ phase = "resolve" /\ ~panicked /\ Head(todo) = Task("leave", P)
  BY <1>1, ResolveHead
<1>4. /\ Walking(todo) /\ Shaped(todo) /\ ScopedIn(todo, own, scopes)
      /\ NodesKnown(SeenBy(todo), Opened(todo, "bind"), types, node_def)
  BY <1>2 DEF Knowing
<1>5. crate \in Crates
  BY DEF WalkInv
<1>6. /\ crate' = crate /\ types' = types /\ values' = values /\ members' = members
      /\ scopes' = scopes /\ phase' = phase /\ diagnostics' = diagnostics /\ node_def' = node_def /\ panicked' = panicked
  BY <1>1 DEF tables
<1>7. "leave" \in Posts /\ "close" \in Posts /\ "bind" \in Posts
  BY DEF Posts
<1>8. /\ Opened(<<>> \o Tail(todo), "leave") = Opened(todo, "leave") \ {P}
      /\ Opened(<<>> \o Tail(todo), "close") = Opened(todo, "close") \ {}
      /\ Opened(<<>> \o Tail(todo), "bind") = Opened(todo, "bind") \ {}
      /\ SeenBy(<<>> \o Tail(todo)) = SeenBy(todo)
  BY <1>3, <1>4, <1>7, FinishCloses
<1>9. Opened(todo, "leave") \subseteq {P}
  <2> SUFFICES ASSUME NEW q \in Opened(todo, "leave"), q # P PROVE FALSE
    OBVIOUS
  <2>1. q \in DOMAIN crate
    BY DEF Opened
  <2>2. Task("leave", q) # Head(todo)
    BY <1>3, TaskParts
  <2>3. Here(q).op \in {"struct", "impl"} /\ Under(q, P)
    BY <1>3, <1>4, <1>7, <2>1, <2>2, OpenAbove DEF Finished
  <2>4. Len(q) = 1 /\ Len(P) = 1
    BY <1>3, <1>5, <2>1, <2>3, TopOpPlace
  <2> QED
    BY <2>3, <2>4 DEF Under
<1>10. SelfKnown(Opened(<<>> \o Tail(todo), "leave"), self_ty', in_impl')
  <2>1. Opened(<<>> \o Tail(todo), "leave") = {}
    BY <1>8, <1>9
  <2>2. SelfKnown({}, self_ty', in_impl')
    BY <1>1 DEF SelfKnown
  <2> QED
    BY <2>1, <2>2
<1>11. ScopedIn(<<>> \o Tail(todo), own, scopes')
  BY <1>4, <1>6, <1>8, SetWithout DEF ScopedIn
<1>12. NodesKnown(SeenBy(todo), Opened(<<>> \o Tail(todo), "bind"), types, node_def')
  BY <1>4, <1>6, <1>8, SetWithout
<1>13. WalkInv' /\ ResolveInv'
  BY <1>1, <1>2, <1>3, <1>6, <1>7, <1>10, <1>11, <1>12, FinishStep
<1> QED
  BY <1>3, <1>6, <1>13 DEF StillResolving

\* The end of a function or a block keeps the invariant.
LEMMA StepCloseScope ==
    ASSUME WalkInv, ResolveInv, CloseScope
    PROVE  StillResolving
<1>1. /\ Handles("resolve", "close", {"fn", "block"})
      /\ scopes' = Front(scopes) /\ Then(<<>>)
      /\ UNCHANGED <<crate, phase, tables, self_ty, in_impl, node_def, diagnostics, panicked>>
  BY DEF CloseScope
<1>2. PICK own : Knowing(own)
  BY <1>1, ResolveHead
<1>3. /\ Head(todo).do = "close" /\ P = Head(todo).at /\ P \in DOMAIN crate /\ P \in Path /\ Here(P).op \in {"fn", "block"}
      /\ phase = "resolve" /\ ~panicked /\ Head(todo) = Task("close", P) /\ Head(todo) \in TasksIn(todo)
  BY <1>1, ResolveHead
<1>4. /\ Walking(todo) /\ Shaped(todo) /\ ScopedIn(todo, own, scopes) /\ SelfKnown(Opened(todo, "leave"), self_ty, in_impl)
      /\ NodesKnown(SeenBy(todo), Opened(todo, "bind"), types, node_def)
  BY <1>2 DEF Knowing
<1>6. /\ crate' = crate /\ types' = types /\ values' = values /\ members' = members
      /\ self_ty' = self_ty /\ in_impl' = in_impl
      /\ phase' = phase /\ diagnostics' = diagnostics /\ node_def' = node_def /\ panicked' = panicked
  BY <1>1 DEF tables
<1>7. "leave" \in Posts /\ "close" \in Posts /\ "bind" \in Posts
  BY DEF Posts
<1>8. /\ Opened(<<>> \o Tail(todo), "leave") = Opened(todo, "leave") \ {}
      /\ Opened(<<>> \o Tail(todo), "close") = Opened(todo, "close") \ {P}
      /\ Opened(<<>> \o Tail(todo), "bind") = Opened(todo, "bind") \ {}
      /\ SeenBy(<<>> \o Tail(todo)) = SeenBy(todo)
  BY <1>3, <1>4, <1>7, FinishCloses
<1>9. P \in Opened(todo, "close")
  BY <1>3 DEF Opened
<1>10. \A q \in Opened(todo, "close") : q = P \/ Under(q, P)
  <2> SUFFICES ASSUME NEW q \in Opened(todo, "close"), q # P PROVE Under(q, P)
    OBVIOUS
  <2>1. q \in DOMAIN crate
    BY DEF Opened
  <2>2. Task("close", q) # Head(todo)
    BY <1>3, TaskParts
  <2> QED
    BY <1>3, <1>4, <1>7, <2>1, <2>2, OpenAbove
<1>11. Scoped(SeenBy(todo), Opened(todo, "close") \ {P}, Opened(todo, "bind"), Front(own), Front(scopes))
  <2>1. Scoped(SeenBy(todo), Opened(todo, "close"), Opened(todo, "bind"), own, scopes)
    BY <1>4 DEF ScopedIn
  <2> QED
    BY <1>3, <1>9, <1>10, <2>1, ScopedPop
<1>12. ScopedIn(<<>> \o Tail(todo), Front(own), scopes')
  BY <1>1, <1>8, <1>11, SetWithout DEF ScopedIn
<1>13. NodesKnown(SeenBy(todo), Opened(<<>> \o Tail(todo), "bind"), types, node_def')
  BY <1>4, <1>6, <1>8, SetWithout
<1>14. SelfKnown(Opened(<<>> \o Tail(todo), "leave"), self_ty', in_impl')
  BY <1>4, <1>6, <1>8, SetWithout
<1>15. WalkInv' /\ ResolveInv'
  BY <1>1, <1>2, <1>3, <1>6, <1>7, <1>12, <1>13, <1>14, FinishStep
<1> QED
  BY <1>3, <1>6, <1>15 DEF StillResolving

\* Where a let stands that is being bound.
LetPlace(b, l) ==
  /\ l \in DOMAIN crate /\ l \in Path /\ l # <<>> /\ Here(l).op = "let"
  /\ b = Front(l) /\ b \in DOMAIN crate /\ b \in Path /\ Here(b).op = "block" /\ Last(l) \in Nat \ {0}
  /\ l = Append(b, Last(l)) /\ Under(b, l)

\* A let is a statement of a block.
LEMMA LetFacts ==
    ASSUME crate \in Crates, NEW l \in DOMAIN crate, Here(l).op = "let", l # <<>>
    PROVE  LetPlace(Front(l), l)
<1>1. l \in Path /\ Front(l) \in DOMAIN crate
  BY NodeFacts
<1>2. Here(Front(l)).op = "block"
  BY GrammarFacts
<1>3. Front(l) \in Path /\ Last(l) \in Nat \ {0} /\ l = Append(Front(l), Last(l))
  BY <1>1, FrontFacts
<1>4. Under(Front(l), l)
  BY <1>1, FrontUnder
<1> QED
  BY <1>1, <1>2, <1>3, <1>4 DEF LetPlace

\* The block of a let that is bound is the innermost open one, and later lets of it are still to come.
LEMMA BlockAround ==
    ASSUME NEW s, Walking(s), Shaped(s), Head(s).do = "bind", NEW l, l = Head(s).at, NEW b, LetPlace(b, l)
    PROVE  /\ b \in Opened(s, "close") /\ \A q \in Opened(s, "close") : q = b \/ Under(q, b)
           /\ \A x, r : r \in LetsIn(SeenBy(s), Opened(s, "bind"), b, x) => Last(r) <= Last(l)
           /\ l \in Opened(s, "bind") /\ l \in SeenBy(s)
<1>1. "close" \in Posts /\ "bind" \in Posts /\ Finished("close") = {"fn", "block"}
  BY DEF Posts, Finished
<1>2. crate \in Crates /\ Sorted(s) /\ RightPending(s) /\ s # <<>>
  BY DEF Walking
<1>3. \A q \in DOMAIN crate : q \in Opened(s, "close") <=> Here(q).op \in {"fn", "block"} /\ Under(q, l)
  <2> SUFFICES ASSUME NEW q \in DOMAIN crate PROVE q \in Opened(s, "close") <=> Here(q).op \in {"fn", "block"} /\ Under(q, l)
    OBVIOUS
  <2>1. Task("close", q) # Head(s)
    BY TaskParts
  <2> QED
    BY <1>1, <2>1, OpenAbove
<1>4. b \in Opened(s, "close")
  BY <1>3 DEF LetPlace
<1>5. \A q \in Opened(s, "close") : q = b \/ Under(q, b)
  <2> SUFFICES ASSUME NEW q \in Opened(s, "close") PROVE q = b \/ Under(q, b)
    OBVIOUS
  <2>1. q \in DOMAIN crate
    BY DEF Opened
  <2>2. Under(q, l)
    BY <1>3, <2>1
  <2>3. q \in Path /\ l \in Path /\ b = Front(l)
    BY <1>2, <2>1, NodeFacts DEF LetPlace
  <2> QED
    BY <2>2, <2>3, UnderFront
<1>6. ASSUME NEW x, NEW r \in LetsIn(SeenBy(s), Opened(s, "bind"), b, x) PROVE Last(r) <= Last(l)
  <2>1. r \in DOMAIN crate /\ ~Pending(s, r) /\ Here(r).op = "let" /\ Front(r) = b
    BY DEF LetsIn, SeenBy
  <2>2. r # <<>>
    BY <1>2, <2>1, RootFacts DEF Here
  <2>3. LetPlace(b, r)
    BY <1>2, <2>1, <2>2, LetFacts
  <2>4. Last(r) \in Nat \ {0} /\ Last(l) \in Nat \ {0} /\ b \in Path /\ r = Append(b, Last(r)) /\ l = Append(b, Last(l))
    BY <2>3 DEF LetPlace
  <2>5. ~(Last(l) < Last(r))
    <3> SUFFICES ASSUME Last(l) < Last(r) PROVE FALSE
      OBVIOUS
    <3>1. Left(Append(b, Last(l)), Append(b, Last(r)))
      BY <2>4, LeftChildren
    <3>2. Left(Head(s).at, r)
      BY <2>4, <3>1
    <3> QED
      BY <1>2, <2>1, <3>2 DEF RightPending
  <2> QED
    BY <2>4, <2>5
<1>7. Head(s) \in TasksIn(s) /\ Head(s) \in Tasks /\ l \in Path
  BY HeadFacts DEF LetPlace
<1>8. Task("bind", l) \in TasksIn(s)
  BY <1>7, TaskEqual
<1>9. l \in Opened(s, "bind")
  BY <1>8 DEF Opened, LetPlace
<1>10. ~Pending(s, l)
  BY <1>1, <1>2, <1>7, <1>8, OpenIsSeen
<1> QED
  BY <1>4, <1>5, <1>6, <1>9, <1>10 DEF SeenBy, LetPlace

\* What a let binds.
LEMMA LetBinds ==
    ASSUME crate \in Crates, NEW seen, seen \subseteq DOMAIN crate, NEW open, NEW l \in seen \cap open, NEW b, LetPlace(b, l)
    PROVE  /\ \A q, x : LetsIn(seen, open \ {l}, q, x) = LetsIn(seen, open, q, x) \cup (IF q = b /\ x = Here(l).name THEN {l} ELSE {})
           /\ BoundIn(seen, open \ {l}) = BoundIn(seen, open) \cup {l}
           /\ l \notin Uses /\ l \notin Fixed /\ l \notin BoundIn(seen, open)
<1>1. Here(l).op = "let" /\ b = Front(l) /\ l \in Path /\ l \in DOMAIN crate
  BY DEF LetPlace
<1>2. ASSUME NEW q, NEW x
      PROVE LetsIn(seen, open \ {l}, q, x) = LetsIn(seen, open, q, x) \cup (IF q = b /\ x = Here(l).name THEN {l} ELSE {})
  <2>1. \A r : r \in LetsIn(seen, open \ {l}, q, x) <=>
                 r \in LetsIn(seen, open, q, x) \/ (q = b /\ x = Here(l).name /\ r = l)
    BY <1>1 DEF LetsIn
  <2> QED
    BY <2>1
<1>3. BoundIn(seen, open \ {l}) = BoundIn(seen, open) \cup {l}
  <2>1. {q \in seen \ (open \ {l}) : Here(q).op = "let"} = {q \in seen \ open : Here(q).op = "let"} \cup {l}
    BY <1>1
  <2> QED
    BY <2>1 DEF BoundIn
<1>4. l \notin Uses
  BY <1>1, UsesApart DEF UseOps
<1>5. l \notin Fixed
  <2>1. l \notin Definables /\ l \notin Impls /\ l \notin Assoc
    BY <1>1 DEF Definables, Impls, Assoc, ItemsOf, ValueOps
  <2>2. l \notin Targets
    BY <1>1, TargetFacts
  <2> QED
    BY <2>1, <2>2 DEF Fixed
<1>6. l \notin BoundIn(seen, open)
  BY <1>1, <1>4, <1>5, ApartInDomain
<1> QED
  BY <1>2, <1>3, <1>4, <1>5, <1>6

\* The end of a let, which binds its name, keeps the invariant.
LEMMA StepBindLet ==
    ASSUME WalkInv, ResolveInv, BindLet
    PROVE  StillResolving
<1>1. /\ Handles("resolve", "bind", {"let"})
      /\ scopes' = Append(Front(scopes), Bound(Last(scopes), This.name, Def("local", P)))
      /\ Record(P, Def("local", P)) /\ Then(<<>>)
      /\ UNCHANGED <<crate, phase, tables, self_ty, in_impl, diagnostics>>
  BY DEF BindLet
<1>2. PICK own : Knowing(own)
  BY <1>1, ResolveHead
<1>3. /\ Head(todo).do = "bind" /\ P = Head(todo).at /\ P \in DOMAIN crate /\ P \in Path /\ P # <<>> /\ Here(P).op = "let"
      /\ This = Here(P) /\ phase = "resolve"
  BY <1>1, ResolveHead
<1>4. /\ Walking(todo) /\ Shaped(todo) /\ ScopedIn(todo, own, scopes) /\ SelfKnown(Opened(todo, "leave"), self_ty, in_impl)
      /\ NodesKnown(SeenBy(todo), Opened(todo, "bind"), types, node_def)
  BY <1>2 DEF Knowing
<1>5. crate \in Crates
  BY DEF WalkInv
<1>6. /\ crate' = crate /\ types' = types /\ values' = values /\ members' = members
      /\ self_ty' = self_ty /\ in_impl' = in_impl
      /\ phase' = phase /\ diagnostics' = diagnostics
  BY <1>1 DEF tables
<1>7. "leave" \in Posts /\ "close" \in Posts /\ "bind" \in Posts
  BY DEF Posts
<1>8. /\ Opened(<<>> \o Tail(todo), "leave") = Opened(todo, "leave") \ {}
      /\ Opened(<<>> \o Tail(todo), "close") = Opened(todo, "close") \ {}
      /\ Opened(<<>> \o Tail(todo), "bind") = Opened(todo, "bind") \ {P}
      /\ SeenBy(<<>> \o Tail(todo)) = SeenBy(todo)
  BY <1>3, <1>4, <1>7, FinishCloses
<1> DEFINE b == Front(P)
<1>9. LetPlace(b, P)
  BY <1>3, <1>5, LetFacts
<1>10. /\ b \in Opened(todo, "close") /\ \A q \in Opened(todo, "close") : q = b \/ Under(q, b)
       /\ \A x, r : r \in LetsIn(SeenBy(todo), Opened(todo, "bind"), b, x) => Last(r) <= Last(P)
       /\ P \in Opened(todo, "bind") /\ P \in SeenBy(todo)
  BY <1>3, <1>4, <1>9, BlockAround
<1>11. b \in Path /\ Here(b).op # "fn" /\ Last(P) \in Nat
  BY <1>9 DEF LetPlace
<1> HIDE DEF b
<1>12. SeenBy(todo) \subseteq DOMAIN crate /\ P \in SeenBy(todo) \cap Opened(todo, "bind")
  BY <1>10 DEF SeenBy
<1>13. /\ \A q, x : LetsIn(SeenBy(todo), Opened(todo, "bind") \ {P}, q, x)
                    = LetsIn(SeenBy(todo), Opened(todo, "bind"), q, x) \cup (IF q = b /\ x = Here(P).name THEN {P} ELSE {})
       /\ BoundIn(SeenBy(todo), Opened(todo, "bind") \ {P}) = BoundIn(SeenBy(todo), Opened(todo, "bind")) \cup {P}
       /\ P \notin Uses /\ P \notin Fixed /\ P \notin BoundIn(SeenBy(todo), Opened(todo, "bind"))
  BY <1>5, <1>9, <1>12, LetBinds
<1>14. Scoped(SeenBy(todo), Opened(todo, "close"), Opened(todo, "bind"), own, scopes)
  BY <1>4 DEF ScopedIn
<1>15. Scoped(SeenBy(todo), Opened(todo, "close"), Opened(todo, "bind") \ {P}, own, scopes')
  <2>1. Scoped(SeenBy(todo), Opened(todo, "close"), Opened(todo, "bind") \ {P}, own,
               Append(Front(scopes), Bound(Last(scopes), Here(P).name, Def("local", P))))
    BY <1>10, <1>11, <1>13, <1>14, ScopedBind
  <2> QED
    BY <2>1, <1>1, <1>3
<1>16. ScopedIn(<<>> \o Tail(todo), own, scopes')
  BY <1>8, <1>15, SetWithout DEF ScopedIn
<1>17. P \notin DOMAIN node_def
  BY <1>4, <1>13 DEF NodesKnown
<1>18. Adds({P}, node_def, node_def') /\ panicked' = FALSE
  BY <1>1, <1>13, <1>17, RecordsOne
<1>19. NodesKnown(SeenBy(todo), Opened(todo, "bind") \ {P}, types, node_def')
  <2>1. {P} \cap Fixed = {}
    BY <1>13
  <2> QED
    BY <2>1, <1>4, <1>13, <1>18, NodesAdded
<1>20. NodesKnown(SeenBy(todo), Opened(<<>> \o Tail(todo), "bind"), types, node_def')
  BY <1>8, <1>19
<1>21. SelfKnown(Opened(<<>> \o Tail(todo), "leave"), self_ty', in_impl')
  BY <1>4, <1>6, <1>8, SetWithout
<1>22. WalkInv' /\ ResolveInv'
  BY <1>1, <1>2, <1>3, <1>6, <1>7, <1>16, <1>20, <1>21, FinishStep
<1> QED
  BY <1>3, <1>6, <1>18, <1>22 DEF StillResolving

\* A block that opens has no variable yet.
LEMMA NewBlock ==
    ASSUME NEW s, Walking(s), Shaped(s), Head(s).do = "visit", NEW p, p = Head(s).at, Here(p).op = "block",
           NEW open, NEW x
    PROVE  LetsIn(SeenBy(s) \cup WithTarget(p), open, p, x) = {}
<1>1. p \in DOMAIN crate /\ p \in Path /\ crate \in Crates /\ Head(s) \in TasksIn(s)
  BY HeadFacts DEF Walking
<1>2. WithTarget(p) = {p}
  BY DEF WithTarget
<1> SUFFICES ASSUME NEW l \in LetsIn(SeenBy(s) \cup WithTarget(p), open, p, x) PROVE FALSE
  OBVIOUS
<1>3. l \in DOMAIN crate /\ Here(l).op = "let" /\ Front(l) = p /\ (l = p \/ ~Pending(s, l))
  BY <1>1, <1>2 DEF LetsIn, SeenBy
<1>4. l # p /\ l # <<>>
  BY <1>1, <1>3, RootFacts DEF Here
<1>5. l \in Path /\ Under(p, l)
  BY <1>1, <1>3, <1>4, NodeFacts, FrontUnder
<1>6. Pending(s, l)
  BY <1>1, <1>5 DEF Pending
<1> QED
  BY <1>3, <1>4, <1>6

\* At a visit, what is open is around.
LEMMA OpenAround ==
    ASSUME NEW s, Walking(s), Shaped(s), Head(s).do = "visit", NEW p, p = Head(s).at
    PROVE  p \in Path /\ \A q \in Opened(s, "close") : Under(q, p)
<1>1. \A q : q \in Opened(s, "close") <=> q \in DOMAIN crate /\ Here(q).op \in {"fn", "block"} /\ Under(q, p)
  BY Opens
<1> QED
  BY <1>1, HeadFacts

\* The visit of a block keeps the invariant.
LEMMA StepBlock ==
    ASSUME WalkInv, ResolveInv, VisitBlock
    PROVE  StillResolving
<1> DEFINE empty == [x \in {} |-> NoDef]
<1>1. /\ Handles("resolve", "visit", {"block"})
      /\ scopes' = Append(scopes, empty) /\ Then(Append(Children(P), Task("close", P)))
      /\ UNCHANGED <<crate, phase, tables, self_ty, in_impl, node_def, diagnostics, panicked>>
  BY DEF VisitBlock
<1>2. PICK own : Knowing(own)
  BY <1>1, ResolveHead
<1>3. /\ Head(todo).do = "visit" /\ P = Head(todo).at /\ P \in DOMAIN crate /\ P \in Path /\ Here(P).op = "block"
      /\ phase = "resolve" /\ ~panicked
  BY <1>1, ResolveHead
<1>4. /\ Walking(todo) /\ Shaped(todo) /\ ScopedIn(todo, own, scopes) /\ SelfKnown(Opened(todo, "leave"), self_ty, in_impl)
  BY <1>2 DEF Knowing
<1>5. crate \in Crates
  BY DEF WalkInv
<1>6. /\ crate' = crate /\ types' = types /\ values' = values /\ members' = members
      /\ self_ty' = self_ty /\ in_impl' = in_impl
      /\ phase' = phase /\ diagnostics' = diagnostics /\ node_def' = node_def /\ panicked' = panicked
  BY <1>1 DEF tables
<1>7. Then(FanOf(P))
  BY <1>1, <1>3 DEF FanOf
<1>8. OpensAt(P, "leave") = {} /\ OpensAt(P, "close") = {P} /\ OpensAt(P, "bind") = {}
  BY <1>3 DEF OpensAt, Finished
<1>9. NewBound(P) = {} /\ FaultsOf(P) = {}
  BY <1>3, <1>5, NothingBound DEF UseOps
<1>10. NodesKnown(SeenBy(todo) \cup WithTarget(P), Opened(todo, "bind") \cup OpensAt(P, "bind"), types, node_def')
  <2>1. Adds(NewBound(P), node_def, node_def')
    BY <1>6, <1>9 DEF Adds
  <2> QED
    BY <1>2, <1>3, <2>1, VisitRecords
<1>11. diagnostics' = diagnostics \cup FaultsOf(P)
  BY <1>6, <1>9
<1>12. SelfKnown(Opened(todo, "leave") \cup OpensAt(P, "leave"), self_ty', in_impl')
  <2>1. Opened(todo, "leave") \cup OpensAt(P, "leave") = Opened(todo, "leave")
    BY <1>8
  <2> QED
    BY <1>4, <1>6, <2>1
<1> DEFINE seen == SeenBy(todo) \cup WithTarget(P)
           open == Opened(todo, "bind") \cup OpensAt(P, "bind")
<1>13. Scoped(seen, Opened(todo, "close"), open, own, scopes)
  BY <1>2, <1>3, VisitScopes
<1>14. ScopeOf(seen, open, P, empty)
  <2>1. \A x : LetsIn(seen, open, P, x) = {}
    BY <1>3, <1>4, NewBlock
  <2>2. DOMAIN empty = {}
    OBVIOUS
  <2> HIDE DEF seen, open, empty
  <2> QED
    BY <1>3, <2>1, <2>2 DEF ScopeOf, BlockScope
<1>15. \A q \in Opened(todo, "close") : Under(q, P)
  BY <1>3, <1>4, OpenAround
<1> HIDE DEF seen, open, empty
<1>16. Scoped(seen, Opened(todo, "close") \cup {P}, open, Append(own, P), Append(scopes, empty))
  BY <1>3, <1>13, <1>14, <1>15, ScopedPush
<1>17. Scoped(SeenBy(todo) \cup WithTarget(P), Opened(todo, "close") \cup OpensAt(P, "close"),
              Opened(todo, "bind") \cup OpensAt(P, "bind"), Append(own, P), scopes')
  BY <1>1, <1>8, <1>16 DEF seen, open
<1>18. WalkInv' /\ ResolveInv'
  BY <1>2, <1>3, <1>6, <1>7, <1>10, <1>11, <1>12, <1>17, VisitStep
<1> QED
  BY <1>3, <1>6, <1>18 DEF StillResolving

\* Definitions are recorded together, of nodes that had none.
LEMMA RecordsAll ==
    ASSUME NEW e, RecordAll(e), DOMAIN e \cap DOMAIN node_def = {}, DOMAIN e \cap Uses = {}
    PROVE  Adds(DOMAIN e, node_def, node_def') /\ panicked' = FALSE
<1> DEFINE nd == node_def
           N == DOMAIN e
           f == [q \in DOMAIN nd \cup N |-> IF q \in N THEN e[q] ELSE nd[q]]
<1>1. node_def' = f /\ panicked' = (N \cap DOMAIN nd # {})
  BY DEF RecordAll
<1>2. DOMAIN f = DOMAIN nd \cup N /\ \A q \in DOMAIN nd \ N : f[q] = nd[q]
  OBVIOUS
<1> HIDE DEF f, N
<1>3. N \cap DOMAIN nd = {} /\ N \cap Uses = {}
  BY DEF N
<1>4. Adds(N, nd, f) /\ panicked' = FALSE
  BY <1>1, <1>2, <1>3 DEF Adds
<1> QED
  BY <1>1, <1>4 DEF N

\* The parameters a function binds, and their names.
BoundParams(p, inside) ==
  (DOMAIN Here(p).params \ Repeated(Here(p).params)) \cup (IF Here(p).receiver /\ inside THEN {0} ELSE {})
ParamName(p, k) == IF k = 0 THEN "self" ELSE Here(p).params[k]

\* The parameters a function binds are the ones scoping says.
LEMMA BoundParamsNamed ==
    ASSUME crate \in Crates, NEW f \in DOMAIN crate, Here(f).op = "fn", NEW x
    PROVE  /\ \A d : d \in ParamsOf(f, x) <=> \E k \in BoundParams(f, Len(f) = 2) : d = ParamId(f, k) /\ ParamName(f, k) = x
           /\ ParamsBound(f) = {ParamId(f, k) : k \in BoundParams(f, Len(f) = 2)}
<1>1. Here(f).params \in Seq(STRING \ Keywords)
  BY FunctionPlace
<1> DEFINE ps == Here(f).params
           named == DOMAIN ps \ Repeated(ps)
           self == IF Here(f).receiver /\ Len(f) = 2 THEN {0} ELSE {}
<1>2. 0 \notin named /\ \A k \in named : ps[k] # "self"
  BY <1>1, ParamsFacts
<1>3. BoundParams(f, Len(f) = 2) = named \cup self
  BY DEF BoundParams
<1>4. ParamsOf(f, x) = (IF x = "self" /\ Here(f).receiver /\ Len(f) = 2 THEN {ParamId(f, 0)} ELSE {})
                       \cup {ParamId(f, k) : k \in {k \in named : ps[k] = x}}
  BY DEF ParamsOf
<1>5. \A k \in named : ParamName(f, k) = ps[k]
  BY <1>2 DEF ParamName
<1>6. ParamName(f, 0) = "self"
  BY DEF ParamName
<1>7. \A k : k \in self <=> k = 0 /\ Here(f).receiver /\ Len(f) = 2
  OBVIOUS
<1>8. ParamsBound(f) = {ParamId(f, k) : k \in named \cup self}
  BY DEF ParamsBound
<1> HIDE DEF named, self, ps
<1>9. ASSUME NEW d PROVE d \in ParamsOf(f, x) <=> \E k \in named \cup self : d = ParamId(f, k) /\ ParamName(f, k) = x
  <2>1. d \in ParamsOf(f, x) <=> \/ x = "self" /\ Here(f).receiver /\ Len(f) = 2 /\ d = ParamId(f, 0)
                                 \/ \E k \in named : ps[k] = x /\ d = ParamId(f, k)
    BY <1>4
  <2>2. (\E k \in named \cup self : d = ParamId(f, k) /\ ParamName(f, k) = x)
        <=> \/ \E k \in named : d = ParamId(f, k) /\ ps[k] = x
            \/ Here(f).receiver /\ Len(f) = 2 /\ d = ParamId(f, 0) /\ "self" = x
    BY <1>5, <1>6, <1>7
  <2> QED
    BY <2>1, <2>2
<1> QED
  BY <1>3, <1>8, <1>9

\* The scope of the parameters.
ParamsScope(p, bound) ==
  [x \in {ParamName(p, k) : k \in bound} |-> Def("local", ParamId(p, CHOOSE k \in bound : ParamName(p, k) = x))]

\* The scope of a function before its body is that of its parameters.
LEMMA FunctionScope ==
    ASSUME crate \in Crates, NEW f \in DOMAIN crate, Here(f).op = "fn", NEW seen, NEW open
    PROVE  ScopeOf(seen, open, f, ParamsScope(f, BoundParams(f, Len(f) = 2)))
<1> DEFINE bound == BoundParams(f, Len(f) = 2)
           c == ParamsScope(f, bound)
<1>1. /\ \A x : x \in DOMAIN c <=> \E k \in bound : ParamName(f, k) = x
      /\ \A x \in DOMAIN c : c[x] = Def("local", ParamId(f, CHOOSE k \in bound : ParamName(f, k) = x))
  BY DEF ParamsScope
<1>2. \A x, d : d \in ParamsOf(f, x) <=> \E k \in bound : d = ParamId(f, k) /\ ParamName(f, k) = x
  BY BoundParamsNamed
<1> HIDE DEF bound, c
<1>3. ASSUME NEW x PROVE ParamScope(f, c, x)
  <2>1. x \in DOMAIN c <=> ParamsOf(f, x) # {}
    BY <1>1, <1>2
  <2>2. ASSUME x \in DOMAIN c PROVE c[x] = Def("local", The(ParamsOf(f, x)))
    <3> DEFINE m == CHOOSE k \in bound : ParamName(f, k) = x
    <3>1. m \in bound /\ ParamName(f, m) = x
      BY <1>1, <2>2
    <3>2. c[x] = Def("local", ParamId(f, m))
      BY <1>1, <2>2
    <3> HIDE DEF m
    <3>3. ParamId(f, m) \in ParamsOf(f, x)
      BY <1>2, <3>1
    <3>4. The(ParamsOf(f, x)) = ParamId(f, m)
      BY <3>3, ParamsOfOne
    <3> QED
      BY <3>2, <3>4
  <2> QED
    BY <2>1, <2>2 DEF ParamScope
<1> QED
  BY <1>3 DEF ScopeOf, bound, c

\* What visiting a function does, in terms of the tree.
LEMMA FunctionEffects ==
    ASSUME VisitFunction, in_impl = (Len(P) = 2), Len(P) = 1 \/ Len(P) = 2, This = Here(P), Here(P).op = "fn", P \notin Uses,
           Here(P).receiver \in BOOLEAN, 
           NEW bound, bound = BoundParams(P, Len(P) = 2)
    PROVE  /\ scopes' = Append(scopes, ParamsScope(P, bound))
           /\ RecordAll([q \in {ParamId(P, k) : k \in bound} |-> Def("local", q)])
           /\ diagnostics' = diagnostics \cup FaultsOf(P)
           /\ Then(Append(Children(P), Task("close", P)))
           /\ UNCHANGED <<crate, phase, tables, self_ty, in_impl>>
<1> DEFINE ps == Here(P).params
           twice == Repeated(ps)
           b == (DOMAIN ps \ twice) \cup (IF Here(P).receiver /\ in_impl THEN {0} ELSE {})
           nameOf(k) == IF k = 0 THEN "self" ELSE ps[k]
           bad == twice \cup (IF Here(P).receiver /\ ~in_impl THEN {0} ELSE {})
<1>1. /\ scopes' = Append(scopes, [x \in {nameOf(k) : k \in b} |-> Def("local", ParamId(P, CHOOSE k \in b : nameOf(k) = x))])
      /\ RecordAll([q \in {ParamId(P, k) : k \in b} |-> Def("local", q)])
      /\ Report({ParamId(P, k) : k \in bad})
      /\ Then(Append(Children(P), Task("close", P)))
      /\ UNCHANGED <<crate, phase, tables, self_ty, in_impl>>
  BY DEF VisitFunction
<1>2. b = bound
  BY DEF BoundParams
<1>3. [x \in {nameOf(k) : k \in b} |-> Def("local", ParamId(P, CHOOSE k \in b : nameOf(k) = x))] = ParamsScope(P, b)
  BY DEF ParamsScope, ParamName
<1>4. scopes' = Append(scopes, ParamsScope(P, bound))
  BY <1>1, <1>2, <1>3
<1>5. RecordAll([q \in {ParamId(P, k) : k \in bound} |-> Def("local", q)])
  BY <1>1, <1>2
<1>6. ~in_impl <=> Len(P) = 1
  <2>1. \A k : k = 1 => ~(k = 2)
    OBVIOUS
  <2>2. Len(P) = 1 => ~(Len(P) = 2)
    BY <2>1
  <2>3. in_impl <=> Len(P) = 2
    OBVIOUS
  <2> QED
    BY <2>2, <2>3
<1>7. FaultsOf(P) = {ParamId(P, k) : k \in twice \cup (IF Here(P).receiver /\ Len(P) = 1 THEN {0} ELSE {})}
  BY DEF FaultsOf
<1>8. bad = twice \cup (IF Here(P).receiver /\ Len(P) = 1 THEN {0} ELSE {})
  BY <1>6
<1> HIDE DEF bad, b, twice, ps
<1>9. {ParamId(P, k) : k \in bad} = FaultsOf(P)
  BY <1>7, <1>8
<1>10. diagnostics' = diagnostics \cup FaultsOf(P)
  BY <1>1, <1>9 DEF Report
<1> QED
  BY <1>1, <1>4, <1>5, <1>10

\* The visit of a function keeps the invariant.
LEMMA StepFunction ==
    ASSUME WalkInv, ResolveInv, VisitFunction
    PROVE  StillResolving
<1>1. Handles("resolve", "visit", {"fn"})
  BY DEF VisitFunction
<1>2. PICK own : Knowing(own)
  BY <1>1, ResolveHead
<1>3. /\ Head(todo).do = "visit" /\ P = Head(todo).at /\ P \in DOMAIN crate /\ P \in Path /\ Here(P).op = "fn"
      /\ This = Here(P) /\ phase = "resolve" /\ ~panicked
  BY <1>1, ResolveHead
<1>4. /\ Walking(todo) /\ Shaped(todo) /\ ScopedIn(todo, own, scopes) /\ SelfKnown(Opened(todo, "leave"), self_ty, in_impl)
  BY <1>2 DEF Knowing
<1>5. crate \in Crates
  BY DEF WalkInv
<1>6. in_impl = (Len(P) = 2) /\ (Len(P) = 1 \/ Len(P) = 2)
  BY <1>3, <1>4, ReceiverInside
<1>7. P \notin Uses /\ Here(P).receiver \in BOOLEAN
  BY <1>3, <1>5, UsesApart, FunctionPlace DEF UseOps
<1> DEFINE bound == BoundParams(P, Len(P) = 2)
           e == [q \in {ParamId(P, k) : k \in bound} |-> Def("local", q)]
           c == ParamsScope(P, bound)
<1>8. /\ scopes' = Append(scopes, c) /\ RecordAll(e)
      /\ diagnostics' = diagnostics \cup FaultsOf(P)
      /\ Then(Append(Children(P), Task("close", P)))
      /\ UNCHANGED <<crate, phase, tables, self_ty, in_impl>>
  BY <1>3, <1>6, <1>7, FunctionEffects
<1>9. DOMAIN e = {ParamId(P, k) : k \in bound}
  OBVIOUS
<1>10. ParamsBound(P) = {ParamId(P, k) : k \in bound}
  BY <1>3, <1>5, BoundParamsNamed
<1> HIDE DEF e
<1>11. NewBound(P) = DOMAIN e
  BY <1>3, <1>7, <1>9, <1>10 DEF NewBound
<1>12. NewBound(P) \cap DOMAIN node_def = {}
  BY <1>2, <1>3, NewIsNew
<1>13. NewBound(P) \cap Uses = {}
  <2>1. \A d \in ParamsBound(P) : d \notin Path
    BY <1>3, <1>5, ParamsBoundFacts, ParamIds
  <2>2. \A q \in Uses : q \in Path
    BY <1>5, UsesApart, NodeFacts
  <2> QED
    BY <1>9, <1>10, <1>11, <2>1, <2>2
<1>14. Adds(NewBound(P), node_def, node_def') /\ panicked' = FALSE
  BY <1>8, <1>11, <1>12, <1>13, RecordsAll
<1>15. NodesKnown(SeenBy(todo) \cup WithTarget(P), Opened(todo, "bind") \cup OpensAt(P, "bind"), types, node_def')
  BY <1>2, <1>3, <1>14, VisitRecords
<1>16. /\ crate' = crate /\ types' = types /\ values' = values /\ members' = members
       /\ self_ty' = self_ty /\ in_impl' = in_impl /\ phase' = phase
  BY <1>8 DEF tables
<1>17. Then(FanOf(P))
  BY <1>3, <1>8 DEF FanOf
<1>18. OpensAt(P, "leave") = {} /\ OpensAt(P, "close") = {P} /\ OpensAt(P, "bind") = {}
  BY <1>3 DEF OpensAt, Finished
<1>19. SelfKnown(Opened(todo, "leave") \cup OpensAt(P, "leave"), self_ty', in_impl')
  <2>1. Opened(todo, "leave") \cup OpensAt(P, "leave") = Opened(todo, "leave")
    BY <1>18
  <2> QED
    BY <1>4, <1>16, <2>1
<1> DEFINE seen == SeenBy(todo) \cup WithTarget(P)
           open == Opened(todo, "bind") \cup OpensAt(P, "bind")
<1>20. Scoped(seen, Opened(todo, "close"), open, own, scopes)
  BY <1>2, <1>3, VisitScopes
<1>21. ScopeOf(seen, open, P, c)
  BY <1>3, <1>5, FunctionScope
<1>22. \A q \in Opened(todo, "close") : Under(q, P)
  BY <1>3, <1>4, OpenAround
<1> HIDE DEF seen, open, c, bound
<1>23. Scoped(seen, Opened(todo, "close") \cup {P}, open, Append(own, P), Append(scopes, c))
  BY <1>3, <1>20, <1>21, <1>22, ScopedPush
<1>24. Scoped(SeenBy(todo) \cup WithTarget(P), Opened(todo, "close") \cup OpensAt(P, "close"),
              Opened(todo, "bind") \cup OpensAt(P, "bind"), Append(own, P), scopes')
  BY <1>8, <1>18, <1>23 DEF seen, open
<1>25. diagnostics' = diagnostics \cup FaultsOf(P)
  BY <1>8
<1>26. WalkInv' /\ ResolveInv'
  BY <1>2, <1>3, <1>15, <1>16, <1>17, <1>19, <1>24, <1>25, VisitStep
<1> QED
  BY <1>3, <1>14, <1>16, <1>26 DEF StillResolving

\* Every handler of the resolution keeps its invariant.
LEMMA ResolveSteps ==
    ASSUME WalkInv, ResolveInv,
           \/ EnterSelf \/ LeaveSelf \/ VisitFunction \/ VisitBlock \/ CloseScope \/ VisitLet \/ BindLet
           \/ Walk \/ VisitPath \/ VisitConstValue \/ VisitTy
    PROVE  StillResolving
BY StepEnterSelf, StepLeaveSelf, StepFunction, StepBlock, StepCloseScope, StepLet, StepBindLet,
   StepWalk, StepPath, StepConstValue, StepTy

-----------------------------------------------------------------------------
(* The passes follow each other *)

\* How a run ends.
FaultsFound == IF ItemFaults # {} THEN ItemFaults ELSE IF ImplFaults # {} THEN ImplFaults ELSE UseFaults
Outcome(ph, nd, di) ==
  /\ \A q \in Uses \cap DOMAIN nd : nd[q] = Meaning(q)
  /\ di = FaultsFound
  /\ ph = "done" => AllBound(nd)
OutcomeInv == Outcome(phase, node_def, diagnostics)

\* How a run ends, carried over to the next state.
LEMMA SameOutcome ==
    ASSUME crate' = crate, Outcome(phase', node_def', diagnostics')
    PROVE  OutcomeInv'
<1>1. /\ \A q : Meaning(q)' = Meaning(q)
      /\ \A q : MayClone(q)' <=> MayClone(q)
      /\ Uses' = Uses
  BY SameMeaning
<1>2. ImplFaults' = ImplFaults /\ ItemFaults' = ItemFaults
  BY SameItems
<1>3. \A ops : UsesOf(ops)' = UsesOf(ops)
  BY SameItems
<1>4. \A op : Repeats(op)' = Repeats(op)
  BY SameItems
<1>5. FreeReceivers' = FreeReceivers
  <2>1. UsesOf({"fn"})' = UsesOf({"fn"}) /\ \A p : Here(p)' = Here(p)
    BY <1>3, SameTree
  <2> QED
    BY <2>1 DEF FreeReceivers
<1>6. Repeats("fn")' = Repeats("fn")
  BY <1>4
<1>7. UseFaults' = UseFaults
  BY <1>1, <1>5, <1>6 DEF UseFaults
<1>8. FaultsFound' = FaultsFound
  BY <1>2, <1>7 DEF FaultsFound
<1>9. \A nd : AllBound(nd)' <=> AllBound(nd)
  BY <1>1, <1>3 DEF AllBound
<1> QED
  BY <1>1, <1>8, <1>9 DEF OutcomeInv, Outcome

\* The collection starts with the tables of what is built in.
LEMMA CollectingStarts ==
    ASSUME crate \in Crates, NEW ty, NEW va, NEW me, NEW nd,
           ty = [x \in BuiltinTypes |-> Def("type", <<>>)], va = [x \in BuiltinValues |-> Def("value", <<>>)],
           me = [t \in {<<>>} |-> BuiltinMembersOf], nd = [p \in {} |-> NoDef]
    PROVE  Collecting(Children(<<>>), ty, va, me, nd, {})
<1> DEFINE s == Children(<<>>)
<1>1. /\ \A t \in TasksIn(s) : t.do = "visit" /\ Len(t.at) = 1
      /\ \A r \in DOMAIN crate \ {<<>>} : Pending(s, r)
  BY PassStarts
<1> HIDE DEF s
<1>2. \A ops, q : q \in ItemsOf(ops) => Pending(s, q)
  <2> SUFFICES ASSUME NEW ops, NEW q \in ItemsOf(ops) PROVE Pending(s, q)
    OBVIOUS
  <2>1. q \in DOMAIN crate /\ Len(q) = 1
    BY DEF ItemsOf, Nodes
  <2>2. q # <<>>
    BY <2>1, ItemPlace
  <2> QED
    BY <1>1, <2>1, <2>2
<1>3. \A ops : {q \in ItemsOf(ops) : ~Pending(s, q)} = {}
  BY <1>2
<1>4. \A q \in Definable : Pending(s, q)
  BY <1>2 DEF Definable
<1>5. NamespaceOf(s, ty, {"struct"}, BuiltinTypes, "type")
  BY <1>2 DEF NamespaceOf, Namespace
<1>6. NamespaceOf(s, va, ValueOps, BuiltinValues, "value")
  BY <1>2 DEF NamespaceOf, Namespace
<1>7. {q \in Definable : ~Pending(s, q)} = {}
  BY <1>4
<1> DEFINE D == {q \in Definable : ~Pending(s, q)}
<1>8. nd = [q \in D |-> DefOf(q)]
  <2>1. [p \in {} |-> NoDef] = [q \in {} |-> DefOf(q)]
    OBVIOUS
  <2> QED
    BY <1>7, <2>1
<1>9. {<<>>} \cup {q \in Definable : ~Pending(s, q) /\ Here(q).op = "struct"} = {<<>>}
  BY <1>4
<1>10. me = [t \in {<<>>} \cup {q \in Definable : ~Pending(s, q) /\ Here(q).op = "struct"} |->
             IF t = <<>> THEN BuiltinMembersOf ELSE NoMembers]
  BY <1>9
<1>11. {} = UNION {ItemFaultsOf(q) : q \in {q \in ItemsOf(ItemOps) : ~Pending(s, q)}}
  BY <1>3
<1> QED
  BY <1>1, <1>5, <1>6, <1>8, <1>10, <1>11 DEF Collecting, s

\* The invariant of the passes: what the tables hold, and how a run ends.
Passes ==
  /\ crate \in Crates /\ panicked = FALSE
  /\ phase \in {"collect", "impls", "resolve", "done", "rejected"}
  /\ phase = "collect" => WalkInv /\ CollectInv /\ Quiet
  /\ phase = "impls" => WalkInv /\ ImplInv /\ Quiet
  /\ phase = "resolve" => WalkInv /\ ResolveInv
  /\ Ended => OutcomeInv

\* The invariant says what the properties say.
LEMMA PassesHolds ==
    ASSUME Passes
    PROVE  NeverPanics /\ ResolvesLexically /\ ReportsExactly /\ AcceptedAreBound
<1>1. NeverPanics
  BY DEF Passes, NeverPanics
<1>2. ASSUME Ended PROVE Outcome(phase, node_def, diagnostics)
  BY <1>2 DEF Passes, OutcomeInv
<1>3. ResolvesLexically
  BY <1>2 DEF ResolvesLexically, Outcome
<1>4. ReportsExactly
  BY <1>2 DEF ReportsExactly, Outcome, FaultsFound
<1>5. AcceptedAreBound
  <2> SUFFICES ASSUME phase = "done" PROVE AllBound(node_def)
    BY DEF AcceptedAreBound, AllBound
  <2>1. Ended
    BY DEF Ended
  <2> QED
    BY <1>2, <2>1 DEF Outcome
<1> QED
  BY <1>1, <1>3, <1>4, <1>5

\* A pass starts with the children of the root.
LEMMA WalkStarts ==
    ASSUME crate \in Crates, todo = Children(<<>>)
    PROVE  WalkInv
<1>1. Sorted(todo) /\ AtNodes(todo) /\ RightPending(todo)
  BY PassStarts
<1> QED
  BY <1>1 DEF WalkInv

\* The first pass starts right.
LEMMA InitPasses ==
    ASSUME Init
    PROVE  Passes
<1>1. crate \in Crates /\ phase = "collect" /\ panicked = FALSE /\ diagnostics = {}
  BY DEF Init
<1>2. todo = Children(<<>>)
  <2>1. todo = [i \in 1 .. crate[<<>>].size |-> Task("visit", <<i>>)]
    BY DEF Init
  <2>2. \A i : <<i>> = Append(<<>>, i)
    OBVIOUS
  <2>3. Children(<<>>) = [i \in 1 .. crate[<<>>].size |-> Task("visit", Append(<<>>, i))]
    BY DEF Children, Here
  <2> QED
    BY <2>1, <2>2, <2>3
<1>3. WalkInv
  BY <1>1, <1>2, WalkStarts
<1>4. Quiet
  BY DEF Init, Quiet
<1>5. /\ types = [x \in BuiltinTypes |-> Def("type", <<>>)]
      /\ values = [x \in BuiltinValues |-> Def("value", <<>>)]
      /\ members = [t \in {<<>>} |-> BuiltinMembersOf]
      /\ node_def = [p \in {} |-> NoDef]
  BY DEF Init, BuiltinMembersOf
<1>6. Collecting(Children(<<>>), types, values, members, node_def, {})
  BY <1>1, <1>5, CollectingStarts
<1>7. CollectInv
  BY <1>1, <1>2, <1>6 DEF CollectInv
<1>8. ~Ended
  BY <1>1 DEF Ended
<1> QED
  BY <1>1, <1>3, <1>4, <1>7, <1>8 DEF Passes

\* The gate after the collection of items starts the next pass, or ends the run with the
\* faults.
LEMMA GateCollect ==
    ASSUME Passes, EndCollect
    PROVE  Passes'
<1>1. /\ phase = "collect" /\ todo = <<>> /\ Gate("impls") /\ todo' = Children(<<>>)
      /\ UNCHANGED <<crate, tables, context, node_def, diagnostics, panicked>>
  BY DEF EndCollect
<1>2. crate \in Crates /\ panicked = FALSE /\ CollectInv /\ Quiet
  BY <1>1 DEF Passes
<1>3. Collecting(<<>>, types, values, members, node_def, diagnostics)
  BY <1>1, <1>2 DEF CollectInv
<1>4. /\ diagnostics = ItemFaults
      /\ \A q \in DOMAIN node_def : Here(q).op \in ItemOps
      /\ ItemFaults = {} => /\ ItemTables(types, values)
                            /\ node_def = [q \in Definables |-> DefOf(q)]
                            /\ members = [t \in {<<>>} \cup Structs |-> IF t = <<>> THEN BuiltinMembersOf ELSE NoMembers]
  BY <1>2, <1>3, CollectEnds
<1>5. /\ crate' = crate /\ types' = types /\ values' = values /\ members' = members
      /\ scopes' = scopes /\ self_ty' = self_ty /\ in_impl' = in_impl
      /\ diagnostics' = diagnostics /\ node_def' = node_def /\ panicked' = panicked
  BY <1>1 DEF tables, context
<1>6. CASE diagnostics = {}
  <2>1. phase' = "impls"
    BY <1>1, <1>6 DEF Gate
  <2>2. Implementing(Children(<<>>), types, values, members, node_def, {})
    BY <1>2, <1>4, <1>6, ImplementingStarts
  <2>3. Implementing(todo', types', values', members', node_def', diagnostics')
    BY <1>1, <1>5, <1>6, <2>2
  <2>4. ImplInv'
    BY <1>5, <2>3, SameImplementing
  <2>5. Sorted(Children(<<>>)) /\ AtNodes(Children(<<>>)) /\ RightPending(Children(<<>>))
    BY <1>2, PassStarts
  <2>6. AtNodes(todo') /\ RightPending(todo') /\ Sorted(todo')
    BY <1>1, <2>5
  <2>7. WalkInv'
    BY <1>2, <1>5, <2>6, SameWalk
  <2>8. Quiet'
    BY <1>2, <1>5 DEF Quiet
  <2>9. ~Ended'
    BY <2>1 DEF Ended
  <2> QED
    BY <1>2, <1>5, <2>1, <2>4, <2>7, <2>8, <2>9 DEF Passes
<1>7. CASE diagnostics # {}
  <2>1. phase' = "rejected"
    BY <1>1, <1>7 DEF Gate
  <2>2. \A q \in Uses \cap DOMAIN node_def : node_def[q] = Meaning(q)
    <3>1. \A q \in Uses : Here(q).op \in UseOps
      BY <1>2, UsesApart
    <3>2. UseOps \cap ItemOps = {}
      BY DEF UseOps, ItemOps, ValueOps
    <3> QED
      BY <1>4, <3>1, <3>2
  <2>3. diagnostics = FaultsFound
    BY <1>4, <1>7 DEF FaultsFound
  <2>4. Outcome("rejected", node_def, diagnostics)
    BY <2>2, <2>3 DEF Outcome
  <2>5. OutcomeInv'
    BY <1>5, <2>1, <2>4, SameOutcome
  <2> QED
    BY <1>2, <1>5, <2>1, <2>5 DEF Passes
<1> QED
  BY <1>6, <1>7

\* The gate after the collection of impls starts the resolution, or ends the run with the
\* faults.
LEMMA GateImpls ==
    ASSUME Passes, EndImpls
    PROVE  Passes'
<1>1. /\ phase = "impls" /\ todo = <<>> /\ Gate("resolve") /\ todo' = Children(<<>>)
      /\ UNCHANGED <<crate, tables, context, node_def, diagnostics, panicked>>
  BY DEF EndImpls
<1>2. crate \in Crates /\ panicked = FALSE /\ ImplInv /\ Quiet
  BY <1>1 DEF Passes
<1>3. Implementing(<<>>, types, values, members, node_def, diagnostics)
  BY <1>1, <1>2 DEF ImplInv
<1>4. /\ diagnostics = ImplFaults /\ ItemFaults = {}
      /\ \A q \in Uses \cap DOMAIN node_def : node_def[q] = Meaning(q)
      /\ ImplFaults = {} => Base(types, values, members) /\ node_def = [q \in Fixed |-> NodeDefOf(types, q)]
  BY <1>2, <1>3, ImplementingEnds
<1>5. /\ crate' = crate /\ types' = types /\ values' = values /\ members' = members
      /\ scopes' = scopes /\ self_ty' = self_ty /\ in_impl' = in_impl
      /\ diagnostics' = diagnostics /\ node_def' = node_def /\ panicked' = panicked
  BY <1>1 DEF tables, context
<1>6. CASE diagnostics = {}
  <2>1. phase' = "resolve"
    BY <1>1, <1>6 DEF Gate
  <2>2. Base(types, values, members) /\ node_def = [q \in Fixed |-> NodeDefOf(types, q)]
    BY <1>4, <1>6
  <2>3. ItemTables(types, values)
    BY <2>2 DEF Base
  <2>4. \A q \in Targets : q \in Uses => NodeDefOf(types, q) = Meaning(q)
    <3> SUFFICES ASSUME NEW q \in Targets, q \in Uses PROVE NodeDefOf(types, q) = Meaning(q)
      OBVIOUS
    <3> QED
      BY <1>2, <2>3, TargetMeaning
  <2>5. Resolving(Children(<<>>), types, <<>>, <<>>, NoDef, FALSE, node_def, {})
    BY <1>2, <2>2, <2>4, ResolvingStarts
  <2>6. scopes = <<>> /\ self_ty = NoDef /\ in_impl = FALSE
    BY <1>2 DEF Quiet
  <2>7. Resolving(todo', types', <<>>, scopes', self_ty', in_impl', node_def', diagnostics')
    BY <1>1, <1>5, <1>6, <2>5, <2>6
  <2>8. Base(types', values', members')
    BY <1>5, <2>2
  <2>9. ResolveInv'
    BY <1>5, <2>7, <2>8, SameResolving
  <2>10. Sorted(Children(<<>>)) /\ AtNodes(Children(<<>>)) /\ RightPending(Children(<<>>))
    BY <1>2, PassStarts
  <2>11. AtNodes(todo') /\ RightPending(todo') /\ Sorted(todo')
    BY <1>1, <2>10
  <2>12. WalkInv'
    BY <1>2, <1>5, <2>11, SameWalk
  <2>13. ~Ended'
    BY <2>1 DEF Ended
  <2> QED
    BY <1>2, <1>5, <2>1, <2>9, <2>12, <2>13 DEF Passes
<1>7. CASE diagnostics # {}
  <2>1. phase' = "rejected"
    BY <1>1, <1>7 DEF Gate
  <2>2. diagnostics = FaultsFound
    BY <1>4, <1>7 DEF FaultsFound
  <2>3. Outcome("rejected", node_def, diagnostics)
    BY <1>4, <2>2 DEF Outcome
  <2>4. OutcomeInv'
    BY <1>5, <2>1, <2>3, SameOutcome
  <2> QED
    BY <1>2, <1>5, <2>1, <2>4 DEF Passes
<1> QED
  BY <1>6, <1>7

\* The end of the resolution ends the run.
LEMMA GateResolve ==
    ASSUME Passes, EndResolve
    PROVE  Passes'
<1>1. /\ phase = "resolve" /\ todo = <<>> /\ Gate("done")
      /\ UNCHANGED <<crate, todo, tables, context, node_def, diagnostics, panicked>>
  BY DEF EndResolve
<1>2. crate \in Crates /\ panicked = FALSE /\ ResolveInv
  BY <1>1 DEF Passes
<1>3. PICK own : Resolving(<<>>, types, own, scopes, self_ty, in_impl, node_def, diagnostics)
  BY <1>1, <1>2 DEF ResolveInv
<1>4. ImplFaults = {} /\ ItemFaults = {}
  BY <1>2 DEF ResolveInv, Base, ItemTables
<1>5. /\ diagnostics = UseFaults
      /\ \A q \in Uses \cap DOMAIN node_def : node_def[q] = Meaning(q)
      /\ UseFaults = {} => AllBound(node_def)
  BY <1>2, <1>3, <1>4, ResolvingEnds
<1>6. crate' = crate /\ diagnostics' = diagnostics /\ node_def' = node_def /\ panicked' = panicked
  BY <1>1
<1>7. phase' = IF diagnostics = {} THEN "done" ELSE "rejected"
  BY <1>1 DEF Gate
<1>8. diagnostics = FaultsFound
  BY <1>4, <1>5 DEF FaultsFound
<1>9. Outcome(phase', node_def, diagnostics)
  BY <1>5, <1>7, <1>8 DEF Outcome
<1>10. OutcomeInv'
  BY <1>6, <1>9, SameOutcome
<1> QED
  BY <1>2, <1>6, <1>7, <1>10 DEF Passes

\* Every step keeps the invariant.
LEMMA NextPasses ==
    ASSUME Passes, [Next]_vars
    PROVE  Passes'
<1>1. CASE CollectValue \/ CollectStruct \/ SkipImpl
  <2>1. phase = "collect" /\ crate' = crate
    BY <1>1 DEF CollectValue, CollectStruct, SkipImpl, Handles
  <2>2. WalkInv /\ CollectInv /\ Quiet
    BY <2>1 DEF Passes
  <2>3. WalkInv' /\ CollectInv' /\ Quiet' /\ phase' = "collect" /\ panicked' = FALSE
    BY <1>1, <2>2, CollectSteps
  <2>4. ~Ended'
    BY <2>3 DEF Ended
  <2> QED
    BY <2>1, <2>3, <2>4 DEF Passes
<1>2. CASE SkipOther \/ CollectImpl \/ CollectAssociated
  <2>1. phase = "impls" /\ crate' = crate
    BY <1>2 DEF SkipOther, CollectImpl, CollectAssociated, Handles
  <2>2. WalkInv /\ ImplInv /\ Quiet
    BY <2>1 DEF Passes
  <2>3. WalkInv' /\ ImplInv' /\ Quiet' /\ phase' = "impls" /\ panicked' = FALSE
    BY <1>2, <2>2, ImplSteps
  <2>4. ~Ended'
    BY <2>3 DEF Ended
  <2> QED
    BY <2>1, <2>3, <2>4 DEF Passes
<1>3. CASE \/ EnterSelf \/ LeaveSelf \/ VisitFunction \/ VisitBlock \/ CloseScope \/ VisitLet \/ BindLet
           \/ Walk \/ VisitPath \/ VisitConstValue \/ VisitTy
  <2>1. phase = "resolve" /\ crate' = crate
    BY <1>3 DEF EnterSelf, LeaveSelf, VisitFunction, VisitBlock, CloseScope, VisitLet, BindLet,
                Walk, VisitPath, VisitConstValue, VisitTy, Handles
  <2>2. WalkInv /\ ResolveInv
    BY <2>1 DEF Passes
  <2>3. WalkInv' /\ ResolveInv' /\ phase' = "resolve" /\ panicked' = FALSE
    BY <1>3, <2>2, ResolveSteps DEF StillResolving
  <2>4. ~Ended'
    BY <2>3 DEF Ended
  <2> QED
    BY <2>1, <2>3, <2>4 DEF Passes
<1>4. CASE EndCollect
  BY <1>4, GateCollect
<1>5. CASE EndImpls
  BY <1>5, GateImpls
<1>6. CASE EndResolve
  BY <1>6, GateResolve
<1>7. CASE UNCHANGED vars
  <2>1. /\ crate' = crate /\ phase' = phase /\ todo' = todo /\ types' = types /\ values' = values /\ members' = members
        /\ scopes' = scopes /\ self_ty' = self_ty /\ in_impl' = in_impl
        /\ node_def' = node_def /\ diagnostics' = diagnostics /\ panicked' = panicked
    BY <1>7 DEF vars
  <2>2. WalkInv => WalkInv'
    BY <2>1, SameWalk DEF WalkInv
  <2>3. CollectInv => CollectInv'
    BY <2>1, SameCollecting DEF CollectInv
  <2>4. ImplInv => ImplInv'
    BY <2>1, SameImplementing DEF ImplInv
  <2>5. ResolveInv => ResolveInv'
    <3> SUFFICES ASSUME ResolveInv PROVE ResolveInv'
      OBVIOUS
    <3>1. PICK own : Resolving(todo, types, own, scopes, self_ty, in_impl, node_def, diagnostics)
      BY DEF ResolveInv
    <3>2. Base(types, values, members)
      BY DEF ResolveInv
    <3>3. Resolving(todo', types', own, scopes', self_ty', in_impl', node_def', diagnostics') /\ Base(types', values', members')
      BY <2>1, <3>1, <3>2
    <3> QED
      BY <2>1, <3>3, SameResolving
  <2>6. Quiet => Quiet'
    BY <2>1 DEF Quiet
  <2>7. OutcomeInv => OutcomeInv'
    BY <2>1, SameOutcome DEF OutcomeInv
  <2>8. Ended' <=> Ended
    BY <2>1 DEF Ended
  <2> QED
    BY <2>1, <2>2, <2>3, <2>4, <2>5, <2>6, <2>7, <2>8 DEF Passes
<1> QED
  BY <1>1, <1>2, <1>3, <1>4, <1>5, <1>6, <1>7 DEF Next

\* Passes is an invariant.
LEMMA AlwaysPasses == Spec => []Passes
<1>1. Init => Passes
  BY InitPasses
<1>2. Passes /\ [Next]_vars => Passes'
  BY NextPasses
<1> QED
  BY <1>1, <1>2, PTL DEF Spec

\* No node is bound twice, and a later pass finds what an earlier one was to bind:
\* neither the assertion of record_node_def (semantic.rs) nor the lookups of
\* collect_impls and visit_struct fail.
THEOREM NeverPanicsHolds == Spec => []NeverPanics
<1>1. Passes => NeverPanics
  BY PassesHolds
<1> QED
  BY <1>1, AlwaysPasses, PTL

\* Every use that is bound is bound to what lexical scoping says, read off the crate
\* without scopes or tables: the nearest let before it or parameter around it, else the
\* item.
THEOREM NamesMeanWhatScopingSays == Spec => []ResolvesLexically
<1>1. Passes => ResolvesLexically
  BY PassesHolds
<1> QED
  BY <1>1, AlwaysPasses, PTL

\* A run ends with exactly the faults of the first pass that has any: nothing is missed,
\* and nothing is reported that only follows from another fault.
THEOREM CratesAreRejectedForTheirFaults == Spec => []ReportsExactly
<1>1. Passes => ReportsExactly
  BY PassesHolds
<1> QED
  BY <1>1, AlwaysPasses, PTL

\* In an accepted crate every definition and every use is bound, so that later passes
\* find what they look up.
THEOREM AcceptedCratesAreBound == Spec => []AcceptedAreBound
<1>1. Passes => AcceptedAreBound
  BY PassesHolds
<1> QED
  BY <1>1, AlwaysPasses, PTL
=================================================================================
