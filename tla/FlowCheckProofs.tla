--------------------------- MODULE FlowCheckProofs ---------------------------
(* For every body: what the checker accepts is well typed.  The proof goes by  *)
(* induction on the number of nodes below a node; CheckPost says what the      *)
(* check of a node establishes of the nodes below it.                          *)
EXTENDS FlowTyping, InductionLemmas, SequenceTheorems, TLAPS

(***************************************************************************)
(* Bodies: the nodes below a node, and the blocks and loops around it.     *)
(***************************************************************************)

\* How many children a node may have.
LEMMA ArityFacts ==
    ASSUME NEW op \in Ops
    PROVE  /\ Arity(op) \in 0 .. 3
           /\ op \in Atoms => Arity(op) = 0
           /\ op \in Unary => Arity(op) = 1
           /\ op \in Binary => Arity(op) = 2
           /\ op = "ifelse" => Arity(op) = 3
BY SMTT(60) DEF Arity, Ops, Atoms, Unary, Binary

\* A node, its children and the last node below it.
LEMMA NodeFacts ==
    ASSUME NEW f, IsBody(f), NEW i \in DOMAIN f
    PROVE  /\ Len(f) \in Nat /\ DOMAIN f = 1 .. Len(f) /\ i \in Nat /\ i >= 1 /\ i <= Len(f)
           /\ f[i].op \in Ops /\ f[i].sub \in Seq(Nat)
           /\ f[i].last \in Nat /\ i <= f[i].last /\ f[i].last <= Len(f)
           /\ Len(f[i].sub) = Arity(f[i].op) /\ DOMAIN f[i].sub = 1 .. Len(f[i].sub)
           /\ \A k \in 1 .. Len(f[i].sub) :
                /\ f[i].sub[k] \in DOMAIN f
                /\ f[i].sub[k] = (IF k = 1 THEN i ELSE f[f[i].sub[k - 1]].last) + 1
                /\ f[f[i].sub[k]].op \in Allowed(f[i].op, k)
           /\ f[i].last = IF f[i].sub = <<>> THEN i ELSE f[f[i].sub[Len(f[i].sub)]].last
<1>1. f \in Seq(Node) /\ Numbered(f, i)
  BY DEF IsBody
<1>2. Len(f) \in Nat /\ DOMAIN f = 1 .. Len(f) /\ f[i] \in Node
  BY <1>1
<1>3. f[i].op \in Ops /\ f[i].sub \in Seq(Nat) /\ f[i].last \in Nat
  BY <1>2 DEF Node
<1>4. DOMAIN f[i].sub = 1 .. Len(f[i].sub)
  BY <1>3
<1>5. f[i].last \in i .. Len(f) /\ Len(f[i].sub) = Arity(f[i].op)
      /\ f[i].last = IF f[i].sub = <<>> THEN i ELSE f[f[i].sub[Len(f[i].sub)]].last
  BY <1>1 DEF Numbered
<1>6. \A k \in 1 .. Len(f[i].sub) :
         /\ f[i].sub[k] \in DOMAIN f
         /\ f[i].sub[k] = (IF k = 1 THEN i ELSE f[f[i].sub[k - 1]].last) + 1
         /\ f[f[i].sub[k]].op \in Allowed(f[i].op, k)
  <2> HIDE DEF Allowed
  <2> QED
    BY <1>1, <1>4, Zenon DEF Numbered
<1> HIDE DEF IsBody, Numbered, Ops, Allowed
<1> QED
  BY <1>2, <1>3, <1>4, <1>5, <1>6

\* A node has at most three children.
LEMMA ChildCount ==
    ASSUME NEW f, IsBody(f), NEW i \in DOMAIN f
    PROVE  Len(f[i].sub) \in 0 .. 3 /\ (Len(f[i].sub) = 0 \/ Len(f[i].sub) = 1 \/ Len(f[i].sub) = 2 \/ Len(f[i].sub) = 3)
<1>1. f[i].op \in Ops /\ Len(f[i].sub) = Arity(f[i].op)
  BY NodeFacts
<1>2. Len(f[i].sub) \in 0 .. 3
  BY <1>1, ArityFacts
<1> QED
  BY <1>2

\* Every child begins right after what comes before it.
LEMMA ChildList ==
    ASSUME NEW f, IsBody(f), NEW i \in DOMAIN f
    PROVE  \A k \in 1 .. Len(f[i].sub) :
             f[i].sub[k] \in DOMAIN f /\ f[i].sub[k] = (IF k = 1 THEN i ELSE f[f[i].sub[k - 1]].last) + 1
<1>1. Numbered(f, i)
  BY DEF IsBody
<1>2. DOMAIN f[i].sub = 1 .. Len(f[i].sub)
  BY NodeFacts, Zenon
<1> QED
  BY <1>1, <1>2, Zenon DEF Numbered

\* A node without children is the last node below itself.
LEMMA NoChild ==
    ASSUME NEW f, IsBody(f), NEW i \in DOMAIN f, Len(f[i].sub) = 0
    PROVE  f[i].sub = <<>> /\ f[i].last = i /\ i \in Nat
<1>1. f[i].sub \in Seq(Nat) /\ i \in Nat /\ f[i].last = IF f[i].sub = <<>> THEN i ELSE f[f[i].sub[Len(f[i].sub)]].last
  BY NodeFacts
<1> QED
  BY <1>1

\* A node with one child: where they begin and end.
LEMMA OneChild ==
    ASSUME NEW f, IsBody(f), NEW i \in DOMAIN f, Len(f[i].sub) = 1
    PROVE  /\ i \in Nat /\ f[i].sub # <<>> /\ Last(f[i].sub) = f[i].sub[1]
           /\ f[i].sub[1] \in DOMAIN f /\ f[i].sub[1] = i + 1
           /\ f[f[i].sub[1]].last \in Nat /\ f[i].sub[1] <= f[f[i].sub[1]].last
           /\ f[i].last = f[f[i].sub[1]].last
<1> DEFINE s == f[i].sub
<1>1. \A k \in 1 .. Len(s) : s[k] \in DOMAIN f /\ s[k] = (IF k = 1 THEN i ELSE f[s[k - 1]].last) + 1
  BY ChildList
<1>0. s \in Seq(Nat) /\ Len(s) = 1 /\ i \in Nat /\ f[i].last = IF s = <<>> THEN i ELSE f[s[Len(s)]].last
  BY NodeFacts, Zenon
<1>2. \A j \in DOMAIN f : f[j].last \in Nat /\ j <= f[j].last
  BY NodeFacts
<1> HIDE DEF s
<1>3. s[1] \in DOMAIN f /\ s[1] = i + 1
  BY <1>0, <1>1
<1>4. s # <<>> /\ Last(s) = s[1] /\ f[i].last = f[s[1]].last
  <2>1. s # <<>>
    BY <1>0
  <2> QED
    BY <1>0, <2>1 DEF Last
<1> QED
  BY <1>0, <1>2, <1>3, <1>4 DEF s

\* A node with two children: where they begin and end.
LEMMA TwoChildren ==
    ASSUME NEW f, IsBody(f), NEW i \in DOMAIN f, Len(f[i].sub) = 2
    PROVE  /\ i \in Nat /\ f[i].sub # <<>> /\ Last(f[i].sub) = f[i].sub[2]
           /\ f[i].sub[1] \in DOMAIN f /\ f[i].sub[1] = i + 1
           /\ f[f[i].sub[1]].last \in Nat /\ f[i].sub[1] <= f[f[i].sub[1]].last
           /\ f[i].sub[2] \in DOMAIN f /\ f[i].sub[2] = f[f[i].sub[1]].last + 1
           /\ f[f[i].sub[2]].last \in Nat /\ f[i].sub[2] <= f[f[i].sub[2]].last
           /\ f[i].last = f[f[i].sub[2]].last
<1> DEFINE s == f[i].sub
<1>1. \A k \in 1 .. Len(s) : s[k] \in DOMAIN f /\ s[k] = (IF k = 1 THEN i ELSE f[s[k - 1]].last) + 1
  BY ChildList
<1>0. s \in Seq(Nat) /\ Len(s) = 2 /\ i \in Nat /\ f[i].last = IF s = <<>> THEN i ELSE f[s[Len(s)]].last
  BY NodeFacts, Zenon
<1>2. \A j \in DOMAIN f : f[j].last \in Nat /\ j <= f[j].last
  BY NodeFacts
<1> HIDE DEF s
<1>3. s[1] \in DOMAIN f /\ s[1] = i + 1
  BY <1>0, <1>1
<1>4. s[2] \in DOMAIN f /\ s[2] = f[s[1]].last + 1
  BY <1>0, <1>1
<1>5. s # <<>> /\ Last(s) = s[2] /\ f[i].last = f[s[2]].last
  <2>1. s # <<>>
    BY <1>0
  <2> QED
    BY <1>0, <2>1 DEF Last
<1> QED
  BY <1>0, <1>2, <1>3, <1>4, <1>5, Zenon DEF s

\* A node with three children: where they begin and end.
LEMMA ThreeChildren ==
    ASSUME NEW f, IsBody(f), NEW i \in DOMAIN f, Len(f[i].sub) = 3
    PROVE  /\ i \in Nat /\ f[i].sub # <<>> /\ Last(f[i].sub) = f[i].sub[3]
           /\ f[i].sub[1] \in DOMAIN f /\ f[i].sub[1] = i + 1
           /\ f[f[i].sub[1]].last \in Nat /\ f[i].sub[1] <= f[f[i].sub[1]].last
           /\ f[i].sub[2] \in DOMAIN f /\ f[i].sub[2] = f[f[i].sub[1]].last + 1
           /\ f[f[i].sub[2]].last \in Nat /\ f[i].sub[2] <= f[f[i].sub[2]].last
           /\ f[i].sub[3] \in DOMAIN f /\ f[i].sub[3] = f[f[i].sub[2]].last + 1
           /\ f[f[i].sub[3]].last \in Nat /\ f[i].sub[3] <= f[f[i].sub[3]].last
           /\ f[i].last = f[f[i].sub[3]].last
<1> DEFINE s == f[i].sub
<1>1. \A k \in 1 .. Len(s) : s[k] \in DOMAIN f /\ s[k] = (IF k = 1 THEN i ELSE f[s[k - 1]].last) + 1
  BY ChildList
<1>0. s \in Seq(Nat) /\ Len(s) = 3 /\ i \in Nat /\ f[i].last = IF s = <<>> THEN i ELSE f[s[Len(s)]].last
  BY NodeFacts, Zenon
<1>2. \A j \in DOMAIN f : f[j].last \in Nat /\ j <= f[j].last
  BY NodeFacts
<1> HIDE DEF s
<1>3. s[1] \in DOMAIN f /\ s[1] = i + 1
  BY <1>0, <1>1
<1>4. s[2] \in DOMAIN f /\ s[2] = f[s[1]].last + 1
  BY <1>0, <1>1
<1>5. s[3] \in DOMAIN f /\ s[3] = f[s[2]].last + 1
  BY <1>0, <1>1
<1>6. s # <<>> /\ Last(s) = s[3] /\ f[i].last = f[s[3]].last
  <2>1. s # <<>>
    BY <1>0
  <2> QED
    BY <1>0, <2>1 DEF Last
<1> QED
  BY <1>0, <1>2, <1>3, <1>4, <1>5, <1>6, Zenon DEF s

\* All children of a node lie in order between it and its last node.
LEMMA ChildrenBetween ==
    ASSUME NEW f, IsBody(f), NEW i \in DOMAIN f, NEW k \in 1 .. Len(f[i].sub)
    PROVE  /\ i \in Nat /\ f[i].last \in Nat /\ f[i].sub # <<>> /\ Last(f[i].sub) \in DOMAIN f
           /\ f[i].sub[k] \in DOMAIN f /\ f[i].sub[k] \in Nat /\ f[f[i].sub[k]].last \in Nat
           /\ i < f[i].sub[k] /\ f[i].sub[k] <= f[f[i].sub[k]].last /\ f[f[i].sub[k]].last <= f[i].last
           /\ k = Len(f[i].sub) => f[i].sub[k] = Last(f[i].sub) /\ f[f[i].sub[k]].last = f[i].last
           /\ k # Len(f[i].sub) => f[f[i].sub[k]].last < Last(f[i].sub)
           /\ \A m \in 1 .. Len(f[i].sub) : m < k => f[f[i].sub[m]].last < f[i].sub[k]
<1>1. Len(f[i].sub) = 1 \/ Len(f[i].sub) = 2 \/ Len(f[i].sub) = 3
  <2>1. Len(f[i].sub) \in 0 .. 3
    BY ChildCount
  <2> QED
    BY <2>1
<1>2. i \in Nat /\ f[i].last \in Nat
  BY NodeFacts
<1>3. CASE Len(f[i].sub) = 1
  <2>1. k = 1 /\ \A m \in 1 .. Len(f[i].sub) : ~(m < k)
    BY <1>3
  <2> QED
    BY <1>2, <1>3, <2>1, OneChild
<1>4. CASE Len(f[i].sub) = 2
  <2>1. /\ i \in Nat /\ f[i].sub # <<>> /\ Last(f[i].sub) = f[i].sub[2]
        /\ f[i].sub[1] \in DOMAIN f /\ f[i].sub[1] = i + 1
        /\ f[f[i].sub[1]].last \in Nat /\ f[i].sub[1] <= f[f[i].sub[1]].last
        /\ f[i].sub[2] \in DOMAIN f /\ f[i].sub[2] = f[f[i].sub[1]].last + 1
        /\ f[f[i].sub[2]].last \in Nat /\ f[i].sub[2] <= f[f[i].sub[2]].last
        /\ f[i].last = f[f[i].sub[2]].last
    BY <1>4, TwoChildren
  <2>2. (k = 1 /\ \A m \in 1 .. Len(f[i].sub) : ~(m < k)) \/ (k = 2 /\ \A m \in 1 .. Len(f[i].sub) : m < k => m = 1)
    BY <1>4
  <2>3. CASE k = 1
    BY <1>2, <1>4, <2>1, <2>2, <2>3, SMTT(60)
  <2>4. CASE k = 2
    BY <1>2, <1>4, <2>1, <2>2, <2>4
  <2> QED
    BY <2>2, <2>3, <2>4
<1>5. CASE Len(f[i].sub) = 3
  <2>1. /\ i \in Nat /\ f[i].sub # <<>> /\ Last(f[i].sub) = f[i].sub[3]
        /\ f[i].sub[1] \in DOMAIN f /\ f[i].sub[1] = i + 1
        /\ f[f[i].sub[1]].last \in Nat /\ f[i].sub[1] <= f[f[i].sub[1]].last
        /\ f[i].sub[2] \in DOMAIN f /\ f[i].sub[2] = f[f[i].sub[1]].last + 1
        /\ f[f[i].sub[2]].last \in Nat /\ f[i].sub[2] <= f[f[i].sub[2]].last
        /\ f[i].sub[3] \in DOMAIN f /\ f[i].sub[3] = f[f[i].sub[2]].last + 1
        /\ f[f[i].sub[3]].last \in Nat /\ f[i].sub[3] <= f[f[i].sub[3]].last
        /\ f[i].last = f[f[i].sub[3]].last
    BY <1>5, ThreeChildren
  <2>2. \/ (k = 1 /\ \A m \in 1 .. Len(f[i].sub) : ~(m < k))
        \/ (k = 2 /\ \A m \in 1 .. Len(f[i].sub) : m < k => m = 1)
        \/ (k = 3 /\ \A m \in 1 .. Len(f[i].sub) : m < k => m = 1 \/ m = 2)
    BY <1>5
  <2>3. CASE k = 1
    BY <1>2, <1>5, <2>1, <2>2, <2>3, SMTT(60)
  <2>4. CASE k = 2
    <3>1. k # Len(f[i].sub) /\ \A m \in 1 .. Len(f[i].sub) : m < k => m = 1
      BY <1>5, <2>2, <2>4
    <3>2. i < f[i].sub[2] /\ f[i].sub[2] <= f[f[i].sub[2]].last /\ f[f[i].sub[2]].last <= f[i].last
      BY <1>2, <2>1, SMTT(60)
    <3>4. f[i].sub[2] \in Nat /\ Last(f[i].sub) \in DOMAIN f
      BY <2>1, NodeFacts
    <3>3. f[f[i].sub[2]].last < Last(f[i].sub) /\ f[f[i].sub[1]].last < f[i].sub[2]
      BY <2>1, SMTT(60)
    <3> QED
      BY <1>2, <2>1, <2>4, <3>1, <3>2, <3>3, <3>4, Zenon
  <2>5. CASE k = 3
    BY <1>2, <1>5, <2>1, <2>2, <2>5, SMTT(60)
  <2> QED
    BY <2>2, <2>3, <2>4, <2>5
<1> QED
  BY <1>1, <1>3, <1>4, <1>5

\* Induction over the nodes of a body, from the last one.
LEMMA NodeInduction ==
    ASSUME NEW f, IsBody(f), NEW S,
           \A i \in DOMAIN f : (\A j \in DOMAIN f : j > i => j \in S) => i \in S
    PROVE  DOMAIN f \subseteq S
<1> DEFINE T == {n \in 0 .. Len(f) : \A i \in DOMAIN f : i > Len(f) - n => i \in S}
<1>1. Len(f) \in Nat /\ DOMAIN f = 1 .. Len(f)
  BY NodeFacts DEF IsBody
<1>2. 0 \in T
  BY <1>1
<1>3. ASSUME NEW n \in Nat, n \in T, n + 1 <= Len(f) PROVE n + 1 \in T
  <2>1. Len(f) - n \in DOMAIN f /\ \A j \in DOMAIN f : j > Len(f) - n => j \in S
    BY <1>1, <1>3
  <2>2. Len(f) - n \in S
    BY <2>1
  <2>3. \A i \in DOMAIN f : i > Len(f) - (n + 1) => i > Len(f) - n \/ i = Len(f) - n
    BY <1>1, <1>3
  <2> QED
    BY <1>1, <1>3, <2>1, <2>2, <2>3
<1> DEFINE U == {n \in Nat : n <= Len(f) => n \in T}
<1>4. 0 \in U
  BY <1>2
<1>5. ASSUME NEW n \in Nat, n \in U PROVE n + 1 \in U
  <2> HIDE DEF T
  <2>1. n + 1 <= Len(f) => n <= Len(f)
    BY <1>1
  <2> QED
    BY <1>3, <1>5, <2>1
<1>6. Nat \subseteq U
  <2> HIDE DEF U
  <2> QED
    BY <1>4, <1>5, SetInduction
<1>7. Len(f) \in T
  BY <1>1, <1>6, SMTT(60)
<1> QED
  BY <1>1, <1>7

\* A node below i other than i is below one of the children of i.
LEMMA BelowAChild ==
    ASSUME NEW f, IsBody(f), NEW i \in DOMAIN f, NEW j \in Nat, i < j, j <= f[i].last
    PROVE  \E k \in 1 .. Len(f[i].sub) : f[i].sub[k] <= j /\ j <= f[f[i].sub[k]].last
<1> DEFINE s == f[i].sub
<1>0. i \in Nat
  BY NodeFacts
<1>1. Len(s) = 0 \/ Len(s) = 1 \/ Len(s) = 2 \/ Len(s) = 3
  BY ChildCount
<1>2. CASE Len(s) = 0
  BY <1>0, <1>2, NoChild
<1>3. CASE Len(s) = 1
  <2>1. 1 \in 1 .. Len(s) /\ s[1] <= j /\ j <= f[s[1]].last
    BY <1>0, <1>3, OneChild
  <2> QED
    BY <2>1
<1>4. CASE Len(s) = 2
  <2>1. 1 \in 1 .. Len(s) /\ 2 \in 1 .. Len(s) /\ ((s[1] <= j /\ j <= f[s[1]].last) \/ (s[2] <= j /\ j <= f[s[2]].last))
    BY <1>0, <1>4, TwoChildren
  <2> QED
    BY <2>1
<1>5. CASE Len(s) = 3
  <2>1. 1 \in 1 .. Len(s) /\ 2 \in 1 .. Len(s) /\ 3 \in 1 .. Len(s)
    BY <1>5
  <2>2. (s[1] <= j /\ j <= f[s[1]].last) \/ (s[2] <= j /\ j <= f[s[2]].last) \/ (s[3] <= j /\ j <= f[s[3]].last)
    BY <1>0, <1>5, ThreeChildren
  <2> QED
    BY <2>1, <2>2
<1> QED
  BY <1>1, <1>2, <1>3, <1>4, <1>5

\* What is below a node below i is below i.
LEMMA Nested ==
    ASSUME NEW f, IsBody(f), NEW i \in DOMAIN f, NEW j \in Nat, i <= j, j <= f[i].last
    PROVE  j \in DOMAIN f /\ f[j].last <= f[i].last
<1> DEFINE S == {a \in DOMAIN f : \A b \in Nat : a <= b /\ b <= f[a].last => f[b].last <= f[a].last}
<1>0. \A a \in DOMAIN f : a \in Nat /\ f[a].last \in Nat /\ f[a].last <= Len(f)
  BY NodeFacts
<1>1. ASSUME NEW a \in DOMAIN f, \A b \in DOMAIN f : b > a => b \in S PROVE a \in S
  <2> SUFFICES ASSUME NEW b \in Nat, a <= b, b <= f[a].last PROVE f[b].last <= f[a].last
    OBVIOUS
  <2>1. CASE a = b
    BY <1>0, <2>1
  <2>2. CASE a < b
    <3>1. PICK k \in 1 .. Len(f[a].sub) : f[a].sub[k] <= b /\ b <= f[f[a].sub[k]].last
      BY <2>2, BelowAChild
    <3> DEFINE d == f[a].sub[k]
    <3>3. d \in DOMAIN f /\ d > a /\ f[d].last <= f[a].last
      BY ChildrenBetween
    <3>4. d \in S
      BY <1>1, <3>3
    <3> HIDE DEF d
    <3>5. d <= b /\ b <= f[d].last
      BY <3>1 DEF d
    <3>6. f[b].last <= f[d].last
      BY <3>4, <3>5
    <3>7. f[b].last \in Nat /\ f[d].last \in Nat /\ f[a].last \in Nat
      <4>1. DOMAIN f = 1 .. Len(f) /\ Len(f) \in Nat
        BY NodeFacts
      <4>2. b \in DOMAIN f
        BY <1>0, <2>2, <4>1
      <4> QED
        BY <1>0, <4>2, <3>3, Zenon
    <3> QED
      BY <3>3, <3>6, <3>7
  <2> QED
    BY <1>0, <2>1, <2>2
<1>2. i \in S
  <2> HIDE DEF S
  <2> QED
    BY <1>1, NodeInduction
<1>3. j \in DOMAIN f
  BY <1>0, NodeFacts
<1> QED
  BY <1>2, <1>3

\* A child is inside what its parent is inside, and the last child inside its parent.
LEMMA InsideChild ==
    ASSUME NEW f, IsBody(f), NEW i \in DOMAIN f, NEW k \in 1 .. Len(f[i].sub), NEW j \in DOMAIN f
    PROVE  Inside(f, j, f[i].sub[k]) <=> Inside(f, j, i) \/ (j = i /\ k = Len(f[i].sub))
<1> DEFINE s == f[i].sub
           d == s[k]
<1>2. i \in Nat /\ j \in Nat /\ f[i].last \in Nat /\ f[j].last \in Nat /\ k \in Nat /\ Len(s) \in Nat
  BY NodeFacts
<1>3. /\ d \in DOMAIN f /\ d \in Nat /\ f[d].last \in Nat /\ i < d /\ d <= f[d].last /\ f[d].last <= f[i].last
      /\ s # <<>> /\ Last(s) \in Nat
      /\ k # Len(s) => f[d].last < Last(s)
      /\ k = Len(s) => d = Last(s)
  <2>1. Last(s) \in DOMAIN f
    BY ChildrenBetween
  <2>2. Last(s) \in Nat
    BY <2>1, NodeFacts
  <2> QED
    BY <2>2, ChildrenBetween
<1>3a. f[j].sub # <<>> => /\ Len(f[j].sub) \in 1 .. Len(f[j].sub) /\ Last(f[j].sub) = f[j].sub[Len(f[j].sub)]
                          /\ j < Last(f[j].sub) /\ Last(f[j].sub) \in Nat
  <2> SUFFICES ASSUME f[j].sub # <<>>
               PROVE  /\ Len(f[j].sub) \in 1 .. Len(f[j].sub) /\ Last(f[j].sub) = f[j].sub[Len(f[j].sub)]
                      /\ j < Last(f[j].sub) /\ Last(f[j].sub) \in Nat
    OBVIOUS
  <2>1. f[j].sub \in Seq(Nat)
    BY NodeFacts
  <2>2. Len(f[j].sub) \in 1 .. Len(f[j].sub)
    BY <2>1
  <2> QED
    BY <2>2, ChildrenBetween, SMTT(60)
<1>4. ASSUME Inside(f, j, i) PROVE Inside(f, j, d)
  <2>1. f[j].sub # <<>> /\ Last(f[j].sub) <= i /\ i <= f[j].last /\ Last(f[j].sub) \in Nat /\ j < Last(f[j].sub)
    BY <1>4, <1>3a DEF Inside
  <2>2. f[i].last <= f[j].last
    BY <1>2, <2>1, Nested, SMTT(60)
  <2> HIDE DEF d, s
  <2> QED
    BY <1>2, <1>3, <2>1, <2>2, SMTT(60) DEF Inside
<1>5. ASSUME j = i, k = Len(s) PROVE Inside(f, j, d)
  BY <1>2, <1>3, <1>5 DEF Inside
<1>6. ASSUME Inside(f, j, d) PROVE Inside(f, j, i) \/ (j = i /\ k = Len(s))
  <2> DEFINE t == f[j].sub
  <2>1. t # <<>> /\ Last(t) <= d /\ d <= f[j].last
    BY <1>6 DEF Inside
  <2>2. /\ Last(t) \in Nat /\ j < Last(t)
        /\ \A m \in 1 .. Len(t) : t[m] \in DOMAIN f /\ (t[m] = Last(t) \/ f[t[m]].last < Last(t))
    <3>1. \A m \in 1 .. Len(t) : t[m] \in DOMAIN f /\ (t[m] = Last(t) \/ f[t[m]].last < Last(t))
      BY ChildrenBetween
    <3> QED
      BY <2>1, <3>1, <1>3a
  <2>3. CASE j = i
    BY <1>2, <1>3, <2>1, <2>2, <2>3
  <2>4. CASE j > i
    <3>1. j < d /\ j <= f[i].last
      BY <1>2, <1>3, <2>1, <2>2, SMTT(60)
    <3>2. PICK m \in 1 .. Len(s) : s[m] <= j /\ j <= f[s[m]].last
      BY <1>2, <2>4, <3>1, BelowAChild, Zenon
    <3>4. s[m] \in DOMAIN f /\ s[m] \in Nat /\ f[s[m]].last \in Nat /\ (s[m] >= d \/ f[s[m]].last < d)
      <4>1. m \in Nat /\ (m < k \/ m = k \/ k < m)
        BY <1>2
      <4>2. CASE m < k
        BY <4>2, ChildrenBetween, Zenon
      <4>3. CASE k < m
        <5>1. f[s[k]].last < s[m] /\ s[m] \in DOMAIN f /\ s[m] \in Nat /\ f[s[m]].last \in Nat
          BY <4>3, ChildrenBetween
        <5> HIDE DEF s
        <5> QED
          BY <1>3, <5>1, SMTT(60)
      <4>4. CASE m = k
        BY <4>4, <1>3
      <4> QED
        BY <4>1, <4>2, <4>3, <4>4
    <3>5. f[j].last <= f[s[m]].last
      BY <1>2, <3>2, <3>4, Nested
    <3> HIDE DEF s, d, t
    <3> QED
      BY <1>2, <1>3, <2>1, <3>1, <3>2, <3>4, <3>5, SMTT(60)
  <2>5. CASE j < i
    <3>1. i <= f[j].last
      BY <1>2, <1>3, <2>1, <2>2, SMTT(60)
    <3>2. PICK m \in 1 .. Len(t) : t[m] <= i /\ i <= f[t[m]].last
      BY <1>2, <2>5, <3>1, BelowAChild, Zenon
    <3>3. f[i].last <= f[t[m]].last /\ f[t[m]].last \in Nat /\ t[m] \in DOMAIN f
      BY <1>2, <2>2, <3>2, Nested, NodeFacts, Zenon
    <3>4. t[m] = Last(t)
      <4> HIDE DEF s, d, t
      <4> QED
        BY <1>2, <1>3, <2>1, <2>2, <3>2, <3>3, SMTT(60)
    <3> HIDE DEF s, d
    <3> QED
      BY <2>1, <3>1, <3>2, <3>4 DEF Inside
  <2> QED
    BY <1>2, <2>3, <2>4, <2>5
<1> QED
  BY <1>4, <1>5, <1>6

\* Nothing is inside the root's surroundings.
LEMMA RootInside ==
    ASSUME NEW f, IsBody(f), NEW j \in DOMAIN f
    PROVE  1 \in DOMAIN f /\ ~Inside(f, j, 1)
<1>1. j \in Nat /\ j >= 1 /\ DOMAIN f = 1 .. Len(f) /\ j <= Len(f) /\ Len(f) \in Nat
  BY NodeFacts
<1>2. f[j].sub # <<>> => Last(f[j].sub) > 1
  <2> SUFFICES ASSUME f[j].sub # <<>> PROVE Last(f[j].sub) > 1
    OBVIOUS
  <2>1. f[j].sub \in Seq(Nat)
    BY NodeFacts
  <2>2. Len(f[j].sub) \in 1 .. Len(f[j].sub)
    BY <2>1
  <2>3. j < f[j].sub[Len(f[j].sub)] /\ f[j].sub[Len(f[j].sub)] = Last(f[j].sub) /\ f[j].sub[Len(f[j].sub)] \in Nat
    BY <2>2, ChildrenBetween
  <2> QED
    BY <1>1, <2>3
<1>3. ~Inside(f, j, 1)
  <2> SUFFICES ASSUME Inside(f, j, 1) PROVE FALSE
    OBVIOUS
  <2>1. f[j].sub # <<>> /\ Last(f[j].sub) <= 1
    BY DEF Inside
  <2>2. Last(f[j].sub) \in Nat
    <3>1. f[j].sub \in Seq(Nat)
      BY NodeFacts
    <3>2. Len(f[j].sub) \in 1 .. Len(f[j].sub)
      BY <2>1, <3>1
    <3> QED
      BY <3>2, ChildrenBetween
  <2> QED
    BY <1>2, <2>1, <2>2
<1> QED
  BY <1>1, <1>3

\* One more level of the check of a body.
CheckLevel(f, y, e) ==
  [call \in (DOMAIN f) \X (Types \cup {None}) \X Checkers(f) |->
     CheckExpr([body |-> f, result |-> y, expr |-> e], call[1], call[2], call[3])]

CheckLevels(f, y, n, p) == p = [m \in 0 .. n |-> CheckLevel(f, y, IF m = 0 THEN <<>> ELSE p[m - 1])]

\* The first levels of the check of a body exist, and are determined.
LEMMA CheckLevelsExists ==
    ASSUME NEW f, NEW y, NEW n \in Nat
    PROVE  \E p : CheckLevels(f, y, n, p)
<1> DEFINE U == {m \in Nat : \E p : CheckLevels(f, y, m, p)}
<1>1. 0 \in U
  <2> DEFINE p == [m \in 0 .. 0 |-> CheckLevel(f, y, <<>>)]
  <2> HIDE DEF CheckLevel
  <2>1. p = [m \in 0 .. 0 |-> CheckLevel(f, y, IF m = 0 THEN <<>> ELSE p[m - 1])]
    OBVIOUS
  <2> QED
    BY <2>1, Zenon DEF CheckLevels
<1>2. ASSUME NEW m \in Nat, m \in U PROVE m + 1 \in U
  <2>1. PICK p : CheckLevels(f, y, m, p)
    BY <1>2
  <2> DEFINE q == [k \in 0 .. (m + 1) |-> IF k = m + 1 THEN CheckLevel(f, y, p[m]) ELSE p[k]]
  <2> HIDE DEF CheckLevel
  <2>2. \A k \in 0 .. m : p[k] = CheckLevel(f, y, IF k = 0 THEN <<>> ELSE p[k - 1])
    BY <2>1 DEF CheckLevels
  <2>3. \A k \in 0 .. (m + 1) : q[k] = CheckLevel(f, y, IF k = 0 THEN <<>> ELSE q[k - 1])
    <3> SUFFICES ASSUME NEW k \in 0 .. (m + 1) PROVE q[k] = CheckLevel(f, y, IF k = 0 THEN <<>> ELSE q[k - 1])
      BY Zenon
    <3>1. CASE k = m + 1
      <4>1. k # 0 /\ k - 1 = m /\ k - 1 \in 0 .. (m + 1) /\ k - 1 # m + 1
        BY <3>1
      <4>2. q[k] = CheckLevel(f, y, p[m]) /\ q[k - 1] = p[m]
        BY <3>1, <4>1
      <4> HIDE DEF q
      <4> QED
        BY <4>1, <4>2
    <3>2. CASE k = 0
      BY <2>2, <3>2
    <3>3. CASE k # 0 /\ k # m + 1
      <4>1. k \in 0 .. m /\ k - 1 \in 0 .. (m + 1) /\ k - 1 # m + 1
        BY <3>3
      <4>2. q[k] = p[k] /\ q[k - 1] = p[k - 1]
        BY <3>3, <4>1
      <4> HIDE DEF q
      <4> QED
        BY <2>2, <3>3, <4>1, <4>2
    <3> QED
      BY <3>1, <3>2, <3>3
  <2>4. q = [k \in 0 .. (m + 1) |-> q[k]]
    OBVIOUS
  <2> HIDE DEF q
  <2>5. q = [k \in 0 .. (m + 1) |-> CheckLevel(f, y, IF k = 0 THEN <<>> ELSE q[k - 1])]
    BY <2>3, <2>4, ZenonT(30)
  <2>6. CheckLevels(f, y, m + 1, q)
    BY <2>5 DEF CheckLevels
  <2> QED
    BY <2>6
<1> HIDE DEF U
<1>3. n \in U
  BY <1>1, <1>2, SetInduction
<1> QED
  BY <1>3 DEF U

\* Two prefixes agree.
LEMMA CheckLevelsUnique ==
    ASSUME NEW f, NEW y, NEW n \in Nat, NEW n2 \in Nat, NEW p, NEW q,
           CheckLevels(f, y, n, p), CheckLevels(f, y, n2, q), NEW m \in Nat, m <= n, m <= n2
    PROVE  p[m] = q[m]
<1> DEFINE U == {k \in Nat : k <= n /\ k <= n2 => p[k] = q[k]}
<1>1. \A k \in Nat : k <= n => p[k] = CheckLevel(f, y, IF k = 0 THEN <<>> ELSE p[k - 1])
  <2> HIDE DEF CheckLevel
  <2> QED
    BY DEF CheckLevels
<1>2. \A k \in Nat : k <= n2 => q[k] = CheckLevel(f, y, IF k = 0 THEN <<>> ELSE q[k - 1])
  <2> HIDE DEF CheckLevel
  <2> QED
    BY DEF CheckLevels
<1> HIDE DEF CheckLevel
<1>3. 0 \in U
  BY <1>1, <1>2
<1>4. ASSUME NEW k \in Nat, k \in U PROVE k + 1 \in U
  <2> SUFFICES ASSUME k + 1 <= n, k + 1 <= n2 PROVE p[k + 1] = q[k + 1]
    OBVIOUS
  <2>1. p[k] = q[k] /\ k + 1 # 0 /\ (k + 1) - 1 = k /\ k + 1 \in Nat
    BY <1>4
  <2>2. p[k + 1] = CheckLevel(f, y, p[k])
    BY <1>1, <2>1
  <2>3. q[k + 1] = CheckLevel(f, y, q[k])
    BY <1>2, <2>1
  <2> QED
    BY <2>1, <2>2, <2>3
<1> HIDE DEF U
<1>5. m \in U
  BY <1>3, <1>4, SetInduction
<1> QED
  BY <1>5 DEF U

\* CheckTree is what its defining equation says.
LEMMA CheckTreeLevels ==
    ASSUME NEW f, NEW y, NEW n \in Nat
    PROVE  CheckTree(f, y)[n] = CheckLevel(f, y, IF n = 0 THEN <<>> ELSE CheckTree(f, y)[n - 1])
<1> DEFINE part(m) == CHOOSE p : CheckLevels(f, y, m, p)
           g == [m \in Nat |-> part(m)[m]]
<1>1. \A m \in Nat : CheckLevels(f, y, m, part(m))
  <2> HIDE DEF CheckLevels
  <2> QED
    BY CheckLevelsExists
<1>2. \A m \in Nat : m # 0 => part(m)[m - 1] = part(m - 1)[m - 1]
  <2> SUFFICES ASSUME NEW m \in Nat, m # 0 PROVE part(m)[m - 1] = part(m - 1)[m - 1]
    OBVIOUS
  <2> HIDE DEF part, CheckLevels
  <2>1. m - 1 \in Nat /\ m - 1 <= m /\ m - 1 <= m - 1
    OBVIOUS
  <2>2. CheckLevels(f, y, m, part(m)) /\ CheckLevels(f, y, m - 1, part(m - 1))
    BY <1>1, <2>1
  <2> QED
    BY <2>1, <2>2, CheckLevelsUnique
<1>3. \A m \in Nat : g[m] = CheckLevel(f, y, IF m = 0 THEN <<>> ELSE g[m - 1])
  <2> SUFFICES ASSUME NEW m \in Nat PROVE g[m] = CheckLevel(f, y, IF m = 0 THEN <<>> ELSE g[m - 1])
    BY Zenon
  <2> HIDE DEF part, CheckLevel
  <2>1. part(m)[m] = CheckLevel(f, y, IF m = 0 THEN <<>> ELSE part(m)[m - 1])
    <3>1. part(m) = [k \in 0 .. m |-> CheckLevel(f, y, IF k = 0 THEN <<>> ELSE part(m)[k - 1])]
      BY <1>1 DEF CheckLevels
    <3>2. m \in 0 .. m
      OBVIOUS
    <3> DEFINE h == [k \in 0 .. m |-> CheckLevel(f, y, IF k = 0 THEN <<>> ELSE part(m)[k - 1])]
    <3>3. h[m] = CheckLevel(f, y, IF m = 0 THEN <<>> ELSE part(m)[m - 1])
      BY <3>2
    <3>4. part(m) = h
      BY <3>1
    <3> HIDE DEF h
    <3> QED
      BY <3>3, <3>4
  <2>2. CASE m = 0
    BY <2>1, <2>2
  <2>3. CASE m # 0
    <3>1. m - 1 \in Nat /\ g[m - 1] = part(m - 1)[m - 1] /\ g[m] = part(m)[m]
      BY <2>3
    <3>2. part(m)[m - 1] = part(m - 1)[m - 1]
      BY <1>2, <2>3
    <3> HIDE DEF g
    <3> QED
      BY <2>1, <2>3, <3>1, <3>2
  <2> QED
    BY <2>2, <2>3
<1>4. g = [m \in Nat |-> g[m]]
  <2> HIDE DEF part
  <2> QED
    OBVIOUS
<1> HIDE DEF g
<1>5. g = [m \in Nat |-> CheckLevel(f, y, IF m = 0 THEN <<>> ELSE g[m - 1])]
  <2> HIDE DEF CheckLevel
  <2> QED
    BY <1>3, <1>4, ZenonT(30)
<1>6. g = [m \in Nat |-> [call \in (DOMAIN f) \X (Types \cup {None}) \X Checkers(f) |->
             CheckExpr([body |-> f, result |-> y, expr |-> IF m = 0 THEN <<>> ELSE g[m - 1]], call[1], call[2], call[3])]]
  BY <1>5, Zenon DEF CheckLevel
<1>7. CheckTree(f, y) = [m \in Nat |-> [call \in (DOMAIN f) \X (Types \cup {None}) \X Checkers(f) |->
             CheckExpr([body |-> f, result |-> y, expr |-> IF m = 0 THEN <<>> ELSE CheckTree(f, y)[m - 1]], call[1], call[2], call[3])]]
  BY <1>6, Zenon DEF CheckTree
<1>8. CheckTree(f, y) = [m \in Nat |-> CheckLevel(f, y, IF m = 0 THEN <<>> ELSE CheckTree(f, y)[m - 1])]
  <2> HIDE DEF CheckTree
  <2> QED
    BY <1>7, Zenon DEF CheckLevel
<1> DEFINE t == CheckTree(f, y)
           h == [m \in Nat |-> CheckLevel(f, y, IF m = 0 THEN <<>> ELSE t[m - 1])]
<1>9. t = h
  BY <1>8
<1>10. h[n] = CheckLevel(f, y, IF n = 0 THEN <<>> ELSE t[n - 1])
  <2> HIDE DEF t, CheckLevel
  <2> QED
    OBVIOUS
<1> HIDE DEF t, h
<1>11. t[n] = CheckLevel(f, y, IF n = 0 THEN <<>> ELSE t[n - 1])
  BY <1>9, <1>10
<1> QED
  BY <1>11 DEF t

(***************************************************************************)
(* What the checker leaves behind: rules for the recorded types, jumps and *)
(* divergence of every node.                                               *)
(***************************************************************************)

\* Where an id belongs: a node to itself, a local to the block of its let.
Home(q) == IF q < 0 THEN -1 - q ELSE q

\* Result::Ok
Okay(t) == t.ok

Breaks == {"break", "breakv"}

\* What a check of the nodes lo .. hi guarantees; a break may still wait for its loop.
Waiting(breaks, q) == \E b \in breaks : b.source = q
Checked(f, r, info, lo, breaks, q) ==
  /\ Settled(info, q)
  /\ (Rule(f, r, info, q) /\ (f[q].op \in Breaks => info[q].jump >= lo)) \/ Waiting(breaks, q)

Pending(frames) == IF frames = <<>> THEN {} ELSE Last(frames).breaks

\* A break recorded for the innermost loop by one of the nodes lo .. hi.
BreakFits(f, info, lo, hi, frame, b) ==
  /\ b.source \in lo .. hi /\ f[b.source].op \in Breaks /\ frame.phase = "Body"
  /\ f[b.source].op = "break" =>
       b.operand = NoNode /\ b.div = FALSE /\ (frame.expected # None => Coerces(Unit, frame.expected))
  /\ f[b.source].op = "breakv" =>
       /\ b.operand = f[b.source].sub[1] /\ b.div = info[b.operand].div /\ frame.kind = "Loop"
       /\ frame.expected # None => Coerces(info[b.operand].ty, frame.expected)

FramesGrow(f, info, lo, hi, old, new) ==
  /\ new \in Seq(Frame) /\ Len(new) = Len(old)
  /\ \A k \in 1 .. Len(old) : k # Len(old) => new[k] = old[k]
  /\ old # <<>> =>
       /\ Last(new).id = Last(old).id /\ Last(new).kind = Last(old).kind
       /\ Last(new).phase = Last(old).phase /\ Last(new).expected = Last(old).expected
       /\ Last(old).breaks \subseteq Last(new).breaks
       /\ \A b \in Last(new).breaks \ Last(old).breaks : BreakFits(f, info, lo, hi, Last(new), b)

\* lo .. hi is a row of complete subtrees.
Row(f, lo, hi) == lo \in Nat /\ hi \in Nat /\ lo >= 1 /\ \A q \in lo .. hi : q \in DOMAIN f /\ f[q].last <= hi

Span(f, r, base, lo, hi, s, t) ==
  /\ t \in Checkers(f)
  /\ \A j \in Ids(f) : Home(j) < base => t.info[j] = s.info[j]
  /\ FramesGrow(f, t.info, lo, hi, s.frames, t.frames)
  /\ \A q \in lo .. hi : Checked(f, r, t.info, lo, Pending(t.frames), q)

CheckPre(f, i, s) ==
  /\ s \in Checkers(f) /\ s.ok = TRUE
  /\ Visible(f, i, s.scope) /\ s.info[s.scope].ty \in Types /\ s.info[s.scope].val = s.info[s.scope].ty
  /\ s.frames # <<>> /\ Last(s.frames).phase = "Body" =>
       /\ Last(s.frames).id \in DOMAIN f /\ Inside(f, Last(s.frames).id, i)
       /\ f[Last(s.frames).id].op = IF Last(s.frames).kind = "Loop" THEN "loop" ELSE "while"

CheckPost(f, r, i, expected, s, t) ==
  /\ Span(f, r, i, i, f[i].last, s, t)
  /\ t.ok = TRUE /\ t.scope = s.scope /\ t.div = t.info[i].div
  /\ expected # None => t.info[i].val = expected

\* The calls on the nodes below i keep their promise.
GoodBelow(c, f, r, i) ==
  \A j \in DOMAIN f : i < j /\ j <= f[i].last =>
    \A expected \in Types \cup {None}, s \in Checkers(f) :
      CheckPre(f, j, s) /\ Okay(CheckSub(c, j, expected, s)) => CheckPost(f, r, j, expected, s, CheckSub(c, j, expected, s))

\* The fields of a checker state.
LEMMA CheckerFields ==
    ASSUME NEW f, NEW s \in Checkers(f)
    PROVE  /\ s.ok \in BOOLEAN /\ s.div \in BOOLEAN /\ s.info \in [Ids(f) -> Info] /\ s.frames \in Seq(Frame)
           /\ s.scope \in Ids(f) /\ DOMAIN s.info = Ids(f)
           /\ \A j \in Ids(f) : s.info[j] \in Info
BY DEF Checkers

\* The fields of an info record.
LEMMA InfoFields ==
    ASSUME NEW x \in Info
    PROVE  /\ x.ty \in Types \cup {None} /\ x.val \in Types \cup {None} /\ x.jump \in Nat /\ x.local \in Int
           /\ x.div \in BOOLEAN
BY DEF Info

\* The state with other info, and with one record replaced.
LEMMA InfoReplaced ==
    ASSUME NEW f, NEW s \in Checkers(f), NEW g \in [Ids(f) -> Info]
    PROVE  LET t == [s EXCEPT !.info = g] IN
           t \in Checkers(f) /\ t.info = g /\ t.ok = s.ok /\ t.div = s.div /\ t.frames = s.frames /\ t.scope = s.scope
BY DEF Checkers

\* What recording a type and its coercion at one node leaves.
RecordAs(f, s, t, p, ty, val) ==
  /\ t \in Checkers(f) /\ t.ok = s.ok /\ t.div = s.div /\ t.frames = s.frames /\ t.scope = s.scope
  /\ \A j \in Ids(f) : j # p => t.info[j] = s.info[j]
  /\ t.info[p].ty = ty /\ t.info[p].val = val /\ t.info[p].div = s.info[p].div
  /\ t.info[p].jump = s.info[p].jump /\ t.info[p].local = s.info[p].local

\* Recording a type and its coercion at one node.
LEMMA RecordFacts ==
    ASSUME NEW f, NEW s \in Checkers(f), NEW p \in Ids(f), NEW ty \in Types \cup {None}, NEW val \in Types \cup {None}, NEW t,
           t = Record(s, p, ty, val)
    PROVE  RecordAs(f, s, t, p, ty, val)
<1> DEFINE x == [s.info[p] EXCEPT !.ty = ty, !.val = val]
           g == [s.info EXCEPT ![p] = x]
<1>1. s.info[p] \in Info /\ s.info \in [Ids(f) -> Info]
  BY CheckerFields
<1>2. x \in Info /\ x.ty = ty /\ x.val = val /\ x.div = s.info[p].div /\ x.jump = s.info[p].jump /\ x.local = s.info[p].local
  BY <1>1, Zenon DEF Info
<1>3. t = [s EXCEPT !.info = g]
  BY <1>1, Zenon DEF Record, Checkers
<1> HIDE DEF x
<1>4. g \in [Ids(f) -> Info] /\ g[p] = x /\ \A j \in Ids(f) : j # p => g[j] = s.info[j]
  BY <1>1, <1>2
<1> HIDE DEF g
<1> QED
  BY <1>2, <1>3, <1>4, InfoReplaced DEF RecordAs

\* What the end every check shares leaves.
TypedAs(f, s, t, p, ty, expected, div) ==
  /\ t \in Checkers(f) /\ t.ok = TRUE /\ t.div = div /\ t.frames = s.frames /\ t.scope = s.scope
  /\ \A j \in Ids(f) : j # p => t.info[j] = s.info[j]
  /\ t.info[p].ty = ty /\ t.info[p].div = div
  /\ t.info[p].val \in Types /\ Coerces(ty, t.info[p].val) /\ (expected # None => t.info[p].val = expected)
  /\ expected = None => t.info[p].val = ty
  /\ t.info[p].jump = s.info[p].jump /\ t.info[p].local = s.info[p].local

\* The end every check shares.
LEMMA TypedFacts ==
    ASSUME NEW f, NEW s \in Checkers(f), NEW p \in Ids(f), NEW ty \in Types, NEW expected \in Types \cup {None},
           NEW div, div \in BOOLEAN, NEW t, t = Typed(s, p, ty, expected, div), s.ok = TRUE, Okay(t)
    PROVE  TypedAs(f, s, t, p, ty, expected, div)
<1> DEFINE u == Record(s, p, ty, ty)
           v == [u EXCEPT !.div = div, !.info[p].div = div]
<1>0. u = Record(s, p, ty, ty) /\ ty \in Types \cup {None}
  OBVIOUS
<1> HIDE DEF u
<1>1. /\ u \in Checkers(f) /\ u.ok = s.ok /\ u.frames = s.frames /\ u.scope = s.scope
      /\ \A j \in Ids(f) : j # p => u.info[j] = s.info[j]
      /\ u.info[p].ty = ty /\ u.info[p].val = ty
      /\ u.info[p].jump = s.info[p].jump /\ u.info[p].local = s.info[p].local
  <2>1. RecordAs(f, s, u, p, ty, ty)
    BY <1>0, RecordFacts
  <2> QED
    BY <2>1 DEF RecordAs
<1>2. u.info[p] \in Info /\ u.info \in [Ids(f) -> Info]
  BY <1>1, CheckerFields
<1> DEFINE x == [u.info[p] EXCEPT !.div = div]
           g == [u.info EXCEPT ![p] = x]
<1>3. x \in Info /\ x.ty = ty /\ x.val = ty /\ x.div = div /\ x.jump = s.info[p].jump /\ x.local = s.info[p].local
  BY <1>1, <1>2 DEF Info
<1>4. v = [u EXCEPT !.div = div, !.info = g]
  BY <1>1, <1>2 DEF Checkers
<1> HIDE DEF x
<1>5. g \in [Ids(f) -> Info] /\ g[p] = x /\ \A j \in Ids(f) : j # p => g[j] = u.info[j]
  BY <1>2, <1>3
<1> HIDE DEF g
<1>6. v \in Checkers(f) /\ v.info = g /\ v.ok = s.ok /\ v.div = div /\ v.frames = s.frames /\ v.scope = s.scope
  BY <1>1, <1>4, <1>5, Zenon DEF Checkers
<1> HIDE DEF v
<1>7. t = IF expected = None THEN v ELSE Coerce(v, {p}, expected)
  BY DEF Typed, u, v
<1>8. CASE expected = None
  <2>1. t = v
    BY <1>7, <1>8
  <2> QED
    BY <1>1, <1>3, <1>5, <1>6, <1>8, <2>1 DEF Coerces, TypedAs
<1>9. CASE expected # None
  <2> DEFINE h == [q \in DOMAIN v.info |-> IF q \in {p} THEN [v.info[q] EXCEPT !.val = expected] ELSE v.info[q]]
  <2>1. t = IF Coerces(v.info[p].ty, expected) THEN [v EXCEPT !.info = h] ELSE [v EXCEPT !.ok = FALSE]
    BY <1>7, <1>9 DEF Coerce, Fail
  <2>2. Coerces(ty, expected)
    <3> SUFFICES ASSUME ~Coerces(ty, expected) PROVE FALSE
      OBVIOUS
    <3>1. t = [v EXCEPT !.ok = FALSE]
      BY <2>1, <1>3, <1>5, <1>6
    <3>2. t.ok = FALSE
      BY <3>1, <1>6 DEF Checkers
    <3> QED
      BY <3>2 DEF Okay
  <2>3. t = [v EXCEPT !.info = h]
    BY <2>1, <2>2, <1>3, <1>5, <1>6
  <2>4. v.info \in [Ids(f) -> Info] /\ DOMAIN v.info = Ids(f) /\ v.info[p] \in Info
    BY <1>6, CheckerFields
  <2> DEFINE y == [v.info[p] EXCEPT !.val = expected]
  <2>5. /\ y \in Info /\ y.ty = v.info[p].ty /\ y.val = expected /\ y.div = v.info[p].div
        /\ y.jump = v.info[p].jump /\ y.local = v.info[p].local
    BY <2>4 DEF Info
  <2>6. h \in [Ids(f) -> Info] /\ h[p] = y /\ \A j \in Ids(f) : j # p => h[j] = v.info[j]
    <3> HIDE DEF y
    <3>1. \A j \in Ids(f) : h[j] = IF j = p THEN y ELSE v.info[j]
      BY <2>4 DEF y
    <3>2. h \in [Ids(f) -> Info]
      BY <2>4, <2>5, <3>1
    <3> HIDE DEF h
    <3> QED
      BY <3>1, <3>2
  <2> HIDE DEF h, y
  <2>7. t \in Checkers(f) /\ t.info = h /\ t.ok = v.ok /\ t.div = v.div /\ t.frames = v.frames /\ t.scope = v.scope
    BY <1>6, <2>3, <2>6, InfoReplaced
  <2>8. expected \in Types
    BY <1>9
  <2>9. \A j \in Ids(f) : j # p => t.info[j] = s.info[j]
    BY <1>1, <1>5, <1>6, <2>6, <2>7
  <2>10. t.info[p] = y /\ v.info[p] = x
    BY <1>5, <1>6, <2>6, <2>7
  <2> QED
    BY <1>3, <1>6, <1>9, <2>2, <2>5, <2>7, <2>8, <2>9, <2>10 DEF TypedAs
<1> QED
  BY <1>8, <1>9

\* Nodes and locals are ids, and an id belongs to one place.
LEMMA IdFacts ==
    ASSUME NEW f, IsBody(f)
    PROVE  /\ \A i \in DOMAIN f : i \in Ids(f) /\ i \in Nat /\ i >= 1 /\ Home(i) = i
           /\ \A i \in DOMAIN f : LetId(i) \in Ids(f) /\ LetId(i) < -1 /\ Home(LetId(i)) = i
           /\ ParamId \in Ids(f) /\ Home(ParamId) = 0
           /\ \A q \in Ids(f) : q \in Int /\ Home(q) \in Nat
<1>1. Len(f) \in Nat /\ DOMAIN f = 1 .. Len(f)
  BY DEF IsBody
<1> QED
  BY <1>1 DEF Ids, LetId, ParamId, Home

\* What goes around a node begins before it.
LEMMA InsideAfter ==
    ASSUME NEW f, IsBody(f), NEW j \in DOMAIN f, NEW q \in DOMAIN f, Inside(f, j, q)
    PROVE  j < q /\ j \in Nat /\ q \in Nat
<1>1. f[j].sub # <<>> /\ Last(f[j].sub) <= q /\ j \in Nat /\ q \in Nat /\ f[j].sub \in Seq(Nat)
  BY NodeFacts DEF Inside
<1>2. Len(f[j].sub) \in 1 .. Len(f[j].sub)
  BY <1>1
<1>3. j < Last(f[j].sub) /\ Last(f[j].sub) \in DOMAIN f
  <2>1. j < f[j].sub[Len(f[j].sub)] /\ f[j].sub[Len(f[j].sub)] = Last(f[j].sub)
    BY <1>2, ChildrenBetween
  <2> QED
    BY <1>2, <2>1, ChildrenBetween
<1>4. Last(f[j].sub) \in Nat
  BY <1>3, IdFacts
<1> QED
  BY <1>1, <1>3, <1>4

\* A visible local was declared before the node.
LEMMA VisibleFacts ==
    ASSUME NEW f, IsBody(f), NEW i \in DOMAIN f, NEW l, Visible(f, i, l)
    PROVE  l \in Ids(f) /\ l < 0 /\ Home(l) < i /\ l \notin DOMAIN f
<1>1. i >= 1 /\ i \in Nat
  BY IdFacts
<1>2. CASE l = ParamId
  BY <1>1, <1>2, IdFacts DEF ParamId
<1>3. CASE \E j \in DOMAIN f : f[j].op = "let" /\ Inside(f, j, i) /\ l = LetId(j)
  <2>1. PICK j \in DOMAIN f : Inside(f, j, i) /\ l = LetId(j)
    BY <1>3
  <2>2. f[j].sub # <<>> /\ Last(f[j].sub) <= i /\ j \in Nat /\ f[j].sub \in Seq(Nat)
    BY <2>1, NodeFacts DEF Inside
  <2>3. Len(f[j].sub) \in 1 .. Len(f[j].sub)
    BY <2>2
  <2>4. j < Last(f[j].sub) /\ Last(f[j].sub) \in DOMAIN f
    BY <2>3, ChildrenBetween
  <2>5. Last(f[j].sub) \in Nat
    BY <2>4, IdFacts
  <2>6. l \in Ids(f) /\ l < -1 /\ Home(l) = j
    BY <2>1, IdFacts
  <2>7. j < i
    BY <2>2, <2>4, <2>5, <1>1
  <2>8. \A k \in DOMAIN f : k >= 1
    BY IdFacts
  <2>9. l \in Int
    BY <2>6, IdFacts
  <2> QED
    BY <2>6, <2>7, <2>8, <2>9
<1> QED
  BY <1>2, <1>3 DEF Visible

\* A child sees what its parent sees; the tail of a let sees its local.
LEMMA VisibleChild ==
    ASSUME NEW f, IsBody(f), NEW i \in DOMAIN f, NEW k \in 1 .. Len(f[i].sub), NEW l
    PROVE  /\ Visible(f, i, l) => Visible(f, f[i].sub[k], l)
           /\ Visible(f, f[i].sub[k], l) => Visible(f, i, l) \/ (f[i].op = "let" /\ k = Len(f[i].sub) /\ l = LetId(i))
           /\ f[i].op = "let" /\ k = Len(f[i].sub) => Visible(f, f[i].sub[k], LetId(i))
<1>1. \A j \in DOMAIN f : Inside(f, j, f[i].sub[k]) <=> Inside(f, j, i) \/ (j = i /\ k = Len(f[i].sub))
  BY InsideChild
<1> QED
  BY <1>1 DEF Visible

\* A loop or let that goes around a node below i either goes around i or is below it.
LEMMA InsideBelow ==
    ASSUME NEW f, IsBody(f), NEW i \in DOMAIN f, NEW q \in DOMAIN f, i <= q, q <= f[i].last,
           NEW j \in DOMAIN f, Inside(f, j, q)
    PROVE  Inside(f, j, i) \/ (i <= j /\ j < q)
<1>1. i \in Nat /\ q \in Nat /\ j \in Nat /\ f[j].last \in Nat /\ f[i].last \in Nat
  BY NodeFacts
<1>2. f[j].sub # <<>> /\ Last(f[j].sub) <= q /\ q <= f[j].last
  BY DEF Inside
<1>3. f[j].sub \in Seq(Nat)
  BY NodeFacts
<1>4. Len(f[j].sub) \in 1 .. Len(f[j].sub)
  BY <1>2, <1>3
<1>5. /\ j < Last(f[j].sub) /\ Last(f[j].sub) \in DOMAIN f
      /\ \A m \in 1 .. Len(f[j].sub) : m # Len(f[j].sub) => f[f[j].sub[m]].last < Last(f[j].sub)
      /\ \A m \in 1 .. Len(f[j].sub) : f[j].sub[m] \in DOMAIN f /\ (m = Len(f[j].sub) => f[j].sub[m] = Last(f[j].sub))
  BY <1>4, ChildrenBetween, Zenon
<1>6. Last(f[j].sub) \in Nat
  BY <1>5, IdFacts
<1>7. j < q
  BY <1>1, <1>2, <1>5, <1>6
<1>8. ASSUME j < i PROVE Inside(f, j, i)
  <2>1. i <= f[j].last
    BY <1>1, <1>2
  <2>2. PICK m \in 1 .. Len(f[j].sub) : f[j].sub[m] <= i /\ i <= f[f[j].sub[m]].last
    BY <1>1, <1>8, <2>1, BelowAChild, Zenon
  <2>3. f[j].sub[m] \in DOMAIN f
    BY <1>5
  <2>4. f[i].last <= f[f[j].sub[m]].last /\ f[f[j].sub[m]].last \in Nat
    BY <1>1, <2>2, <2>3, Nested, NodeFacts, Zenon
  <2>5. f[j].sub[m] = Last(f[j].sub)
    <3> SUFFICES ASSUME m # Len(f[j].sub) PROVE FALSE
      BY <1>5
    <3>1. f[f[j].sub[m]].last < Last(f[j].sub)
      BY <1>5
    <3> QED
      BY <1>1, <1>2, <1>6, <2>4, <3>1, SMTT(60)
  <2> QED
    BY <1>2, <2>1, <2>2, <2>5 DEF Inside
<1> QED
  BY <1>1, <1>7, <1>8

\* Nothing a rule looks at differs in two records of the same id.
SameAt(info, info2, j) ==
  /\ info2[j].ty = info[j].ty /\ info2[j].div = info[j].div
  /\ info2[j].jump = info[j].jump /\ info2[j].local = info[j].local

\* The children an operation has.
LEMMA OpArity ==
    ASSUME NEW f, IsBody(f), NEW q \in DOMAIN f
    PROVE  /\ f[q].op \in {"tail", "semi", "not", "returnv", "breakv", "loop"} => 1 \in 1 .. Len(f[q].sub) /\ Len(f[q].sub) = 1
           /\ f[q].op \in {"set", "seq", "run", "let", "xor", "eq", "and", "or", "while", "if"} =>
                1 \in 1 .. Len(f[q].sub) /\ 2 \in 1 .. Len(f[q].sub) /\ Len(f[q].sub) = 2
           /\ f[q].op = "ifelse" => 1 \in 1 .. Len(f[q].sub) /\ 2 \in 1 .. Len(f[q].sub) /\ 3 \in 1 .. Len(f[q].sub) /\ Len(f[q].sub) = 3
           /\ f[q].op \in {"unit", "true", "read", "x", "return", "break", "continue", "empty"} => Len(f[q].sub) = 0
           /\ f[q].op \in Ops
<1>1. f[q].op \in Ops /\ Len(f[q].sub) = Arity(f[q].op)
  BY NodeFacts
<1>2. /\ f[q].op \in Atoms => Len(f[q].sub) = 0
      /\ f[q].op \in Unary => Len(f[q].sub) = 1
      /\ f[q].op \in Binary => Len(f[q].sub) = 2
      /\ f[q].op = "ifelse" => Len(f[q].sub) = 3
  BY <1>1, ArityFacts
<1> QED
  BY <1>1, <1>2 DEF Atoms, Unary, Binary

\* Two records say the same of a value.
SameType(info, info2, j) == info2[j].ty = info[j].ty /\ info2[j].div = info[j].div

\* A rule is kept while what it looks at is kept.
LEMMA RuleDepends ==
    ASSUME NEW f, IsBody(f), NEW r, NEW info, NEW info2, NEW q \in DOMAIN f, Rule(f, r, info, q),
           SameAt(info, info2, q), SameType(info, info2, LetId(q)),
           \A k \in 1 .. Len(f[q].sub) : SameType(info, info2, f[q].sub[k]),
           f[q].op = "x" => SameType(info, info2, info[q].local),
           f[q].op \in Breaks => SameType(info, info2, info[q].jump)
    PROVE  Rule(f, r, info2, q)
<1>1. f[q].op = "x" => info2[q].local = info[q].local /\ info2[info[q].local].ty = info[info[q].local].ty
  BY DEF SameAt, SameType
<1>2. /\ info2[q].ty = info[q].ty /\ (Ends(info2, q) <=> Ends(info, q)) /\ info2[q].jump = info[q].jump
      /\ info2[LetId(q)].ty = info[LetId(q)].ty
  BY DEF SameAt, SameType, Ends
<1>3. \A k \in 1 .. Len(f[q].sub) : /\ info2[f[q].sub[k]].ty = info[f[q].sub[k]].ty
                                    /\ Ends(info2, f[q].sub[k]) <=> Ends(info, f[q].sub[k])
  BY DEF SameAt, SameType, Ends
<1>4. f[q].op \in Breaks => /\ info2[info[q].jump].ty = info[info[q].jump].ty
                            /\ Ends(info2, info[q].jump) <=> Ends(info, info[q].jump)
  BY DEF SameAt, SameType, Ends
<1> DEFINE one == f[q].sub[1]
           two == f[q].sub[2]
           three == f[q].sub[3]
<1>5. /\ f[q].op \in {"tail", "semi", "not", "returnv", "breakv", "loop", "set", "seq", "run", "let", "xor", "eq", "and", "or", "while", "if", "ifelse"} =>
           info2[one].ty = info[one].ty /\ (Ends(info2, one) <=> Ends(info, one))
      /\ f[q].op \in {"set", "seq", "run", "let", "xor", "eq", "and", "or", "while", "if", "ifelse"} =>
           info2[two].ty = info[two].ty /\ (Ends(info2, two) <=> Ends(info, two))
      /\ f[q].op = "ifelse" => info2[three].ty = info[three].ty /\ (Ends(info2, three) <=> Ends(info, three))
  BY <1>3, OpArity
<1> HIDE DEF one, two, three
<1>6. ValueRule(f, r, info, q) => ValueRule(f, r, info2, q)
  BY <1>1, <1>2 DEF ValueRule
<1>7. BlockRule(f, r, info, q) => BlockRule(f, r, info2, q)
  BY <1>2, <1>5 DEF BlockRule, Is, one, two
<1>8. OperatorRule(f, r, info, q) => OperatorRule(f, r, info2, q)
  BY <1>2, <1>5 DEF OperatorRule, Is, one, two
<1>9. BranchRule(f, r, info, q) => BranchRule(f, r, info2, q)
  BY <1>2, <1>5 DEF BranchRule, Is, one, two, three
<1>10. JumpRule(f, r, info, q) => JumpRule(f, r, info2, q)
  BY <1>2, <1>4, <1>5 DEF JumpRule, Is, one, Breaks
<1> QED
  BY <1>6, <1>7, <1>8, <1>9, <1>10 DEF Rule

\* The same, when the whole records are kept.
LEMMA RuleStable ==
    ASSUME NEW f, IsBody(f), NEW r, NEW info, NEW info2, NEW q \in DOMAIN f, Rule(f, r, info, q),
           SameAt(info, info2, q), SameAt(info, info2, LetId(q)),
           \A k \in 1 .. Len(f[q].sub) : SameAt(info, info2, f[q].sub[k]),
           f[q].op = "x" => SameAt(info, info2, info[q].local),
           f[q].op \in Breaks => SameAt(info, info2, info[q].jump)
    PROVE  Rule(f, r, info2, q)
<1>1. \A j : SameAt(info, info2, j) => SameType(info, info2, j)
  BY DEF SameAt, SameType
<1> QED
  BY <1>1, RuleDepends

\* What is known of a node stays known while nothing in its row changes.
LEMMA CheckedStable ==
    ASSUME NEW f, IsBody(f), NEW r, NEW info, NEW info2, NEW lo, NEW hi, Row(f, lo, hi), NEW q \in lo .. hi,
           NEW lo2 \in Nat, lo2 <= lo,
           NEW B, NEW B2, B \subseteq B2, Checked(f, r, info, lo, B, q), Settled(info2, q),
           \A j \in Ids(f) : (lo <= Home(j) /\ Home(j) <= hi) \/ Visible(f, q, j) => SameAt(info, info2, j)
    PROVE  Checked(f, r, info2, lo2, B2, q)
<1>1. q \in DOMAIN f /\ q \in Nat /\ lo \in Nat /\ hi \in Nat /\ f[q].last <= hi /\ lo <= q /\ q <= hi /\ f[q].last \in Nat
  <2>1. q \in DOMAIN f /\ lo \in Nat /\ hi \in Nat /\ f[q].last <= hi
    BY DEF Row
  <2> QED
    BY <2>1, NodeFacts
<1>2. ASSUME Rule(f, r, info, q), f[q].op \in Breaks => info[q].jump >= lo
      PROVE  Rule(f, r, info2, q) /\ (f[q].op \in Breaks => info2[q].jump >= lo2)
  <2>1. \A j \in DOMAIN f : lo <= j /\ j <= hi => SameAt(info, info2, j) /\ SameAt(info, info2, LetId(j))
    BY IdFacts
  <2>2. SameAt(info, info2, q) /\ SameAt(info, info2, LetId(q))
    BY <1>1, <2>1
  <2>3. \A k \in 1 .. Len(f[q].sub) : SameAt(info, info2, f[q].sub[k])
    <3> SUFFICES ASSUME NEW k \in 1 .. Len(f[q].sub) PROVE SameAt(info, info2, f[q].sub[k])
      OBVIOUS
    <3>1. f[q].sub[k] \in DOMAIN f /\ f[q].sub[k] \in Nat /\ q < f[q].sub[k] /\ f[q].sub[k] <= f[f[q].sub[k]].last /\ f[f[q].sub[k]].last <= f[q].last /\ f[f[q].sub[k]].last \in Nat
      BY <1>1, ChildrenBetween, Zenon
    <3> QED
      BY <1>1, <2>1, <3>1, SMTT(60)
  <2>4. f[q].op = "x" => SameAt(info, info2, info[q].local)
    <3> SUFFICES ASSUME f[q].op = "x" PROVE SameAt(info, info2, info[q].local)
      OBVIOUS
    <3>1. Visible(f, q, info[q].local)
      BY <1>2 DEF Rule, ValueRule
    <3>2. info[q].local \in Ids(f)
      BY <1>1, <3>1, VisibleFacts
    <3> QED
      BY <3>1, <3>2
  <2>5. f[q].op \in Breaks => SameAt(info, info2, info[q].jump)
    <3> SUFFICES ASSUME f[q].op \in Breaks PROVE SameAt(info, info2, info[q].jump)
      OBVIOUS
    <3>1. info[q].jump \in DOMAIN f /\ Inside(f, info[q].jump, q) /\ info[q].jump >= lo
      BY <1>2 DEF Rule, JumpRule, Breaks
    <3>2. info[q].jump \in Nat /\ info[q].jump < q
      <4>3. Inside(f, info[q].jump, q) => info[q].jump < q
        BY <1>1, <3>1, InsideAfter
      <4> QED
        BY <3>1, <4>3, IdFacts
    <3> QED
      BY <1>1, <2>1, <3>1, <3>2
  <2>6. Rule(f, r, info2, q)
    BY <1>1, <1>2, <2>2, <2>3, <2>4, <2>5, RuleStable
  <2>7. f[q].op \in Breaks => info2[q].jump >= lo2
    <3> SUFFICES ASSUME f[q].op \in Breaks PROVE info2[q].jump >= lo2
      OBVIOUS
    <3>1. info[q].jump \in DOMAIN f /\ info[q].jump >= lo
      BY <1>2 DEF Rule, JumpRule, Breaks
    <3>2. info[q].jump \in Nat
      BY <3>1, IdFacts
    <3>3. info2[q].jump = info[q].jump
      BY <2>2 DEF SameAt
    <3> QED
      BY <1>1, <3>1, <3>2, <3>3
  <2> QED
    BY <2>6, <2>7
<1>3. Waiting(B, q) => Waiting(B2, q)
  BY DEF Waiting
<1> QED
  BY <1>2, <1>3 DEF Checked

\* A recorded break stays fit while its row is kept.
LEMMA BreakFitsStable ==
    ASSUME NEW f, IsBody(f), NEW info, NEW info2, NEW lo, NEW hi, Row(f, lo, hi), NEW lo2 \in Nat, NEW hi2 \in Nat, lo2 <= lo, hi <= hi2,
           NEW frame, NEW frame2, frame2.phase = frame.phase, frame2.kind = frame.kind, frame2.expected = frame.expected,
           NEW b, BreakFits(f, info, lo, hi, frame, b),
           \A j \in Ids(f) : lo <= Home(j) /\ Home(j) <= hi => SameAt(info, info2, j)
    PROVE  BreakFits(f, info2, lo2, hi2, frame2, b)
<1>1. b.source \in lo .. hi /\ lo \in Nat /\ hi \in Nat /\ b.source \in DOMAIN f /\ f[b.source].last <= hi /\ f[b.source].last \in Nat
  <2>1. b.source \in lo .. hi /\ lo \in Nat /\ hi \in Nat
    BY DEF BreakFits, Row
  <2>2. b.source \in DOMAIN f /\ f[b.source].last <= hi
    BY <2>1 DEF Row
  <2> QED
    BY <2>1, <2>2, NodeFacts
<1>2. b.source \in lo2 .. hi2
  BY <1>1
<1>3. f[b.source].op = "breakv" => info2[b.operand].ty = info[b.operand].ty /\ info2[b.operand].div = info[b.operand].div
  <2> SUFFICES ASSUME f[b.source].op = "breakv" PROVE SameAt(info, info2, b.operand)
    BY DEF SameAt
  <2>1. b.operand = f[b.source].sub[1]
    BY DEF BreakFits
  <2>2. 1 \in 1 .. Len(f[b.source].sub)
    BY <1>1, OpArity
  <2>3. f[b.source].sub[1] \in DOMAIN f /\ b.source < f[b.source].sub[1] /\ f[b.source].sub[1] <= f[f[b.source].sub[1]].last
        /\ f[f[b.source].sub[1]].last <= f[b.source].last /\ f[f[b.source].sub[1]].last \in Nat
    BY <1>1, <2>2, ChildrenBetween
  <2>4. b.operand \in Ids(f) /\ b.operand \in Nat /\ Home(b.operand) = b.operand
    BY <2>1, <2>3, IdFacts
  <2> QED
    BY <1>1, <2>1, <2>3, <2>4
<1> QED
  BY <1>2, <1>3 DEF BreakFits

\* Two rows side by side are a row.
LEMMA RowJoin ==
    ASSUME NEW f, IsBody(f), NEW lo, NEW m, NEW hi, Row(f, lo, m), Row(f, m + 1, hi), lo <= m + 1, m <= hi
    PROVE  Row(f, lo, hi)
<1>1. lo \in Nat /\ m \in Nat /\ hi \in Nat /\ lo >= 1
  BY DEF Row
<1>2. \A q \in lo .. m : q \in DOMAIN f /\ f[q].last <= m
  BY DEF Row
<1>3. \A q \in m + 1 .. hi : q \in DOMAIN f /\ f[q].last <= hi
  BY DEF Row
<1>4. \A q \in DOMAIN f : f[q].last \in Nat
  BY NodeFacts
<1>5. ASSUME NEW q \in lo .. hi PROVE q \in DOMAIN f /\ f[q].last <= hi
  <2>1. q \in lo .. m \/ q \in m + 1 .. hi
    BY <1>1
  <2>2. CASE q \in lo .. m
    BY <1>1, <1>2, <1>4, <2>2
  <2> QED
    BY <1>3, <2>1, <2>2
<1> QED
  BY <1>1, <1>5 DEF Row

\* The nodes below a node, and those strictly below it, are rows.
LEMMA SubtreeRow ==
    ASSUME NEW f, IsBody(f), NEW i \in DOMAIN f
    PROVE  Row(f, i, f[i].last) /\ Row(f, i + 1, f[i].last)
<1>1. i \in Nat /\ i >= 1 /\ f[i].last \in Nat
  BY NodeFacts
<1>2. \A q \in Nat : i <= q /\ q <= f[i].last => q \in DOMAIN f /\ f[q].last <= f[i].last
  BY Nested
<1> QED
  BY <1>1, <1>2 DEF Row

\* The breaks recorded so far stay fit while the rows they come from are kept.
LEMMA FramesStable ==
    ASSUME NEW f, IsBody(f), NEW info, NEW info2, NEW lo, NEW hi, Row(f, lo, hi), NEW lo2 \in Nat, NEW hi2 \in Nat, lo2 <= lo, hi <= hi2,
           NEW old, NEW new, FramesGrow(f, info, lo, hi, old, new),
           \A j \in Ids(f) : lo <= Home(j) /\ Home(j) <= hi => SameAt(info, info2, j)
    PROVE  FramesGrow(f, info2, lo2, hi2, old, new)
<1>1. ASSUME old # <<>>, NEW b \in Last(new).breaks \ Last(old).breaks PROVE BreakFits(f, info2, lo2, hi2, Last(new), b)
  <2>1. BreakFits(f, info, lo, hi, Last(new), b)
    BY <1>1 DEF FramesGrow
  <2> QED
    BY <2>1, BreakFitsStable
<1> QED
  BY <1>1 DEF FramesGrow

\* First the frames grow by the breaks of one row, then by those of the next.
LEMMA FramesJoin ==
    ASSUME NEW f, IsBody(f), NEW info, NEW lo, NEW m, NEW hi, Row(f, lo, m), Row(f, m + 1, hi), lo <= m + 1, m <= hi,
           NEW old \in Seq(Frame), NEW mid, NEW new, FramesGrow(f, info, lo, m, old, mid), FramesGrow(f, info, m + 1, hi, mid, new)
    PROVE  FramesGrow(f, info, lo, hi, old, new)
<1>0. lo \in Nat /\ m \in Nat /\ hi \in Nat
  BY DEF Row
<1>1. new \in Seq(Frame) /\ mid \in Seq(Frame) /\ Len(new) = Len(old) /\ Len(mid) = Len(old)
  BY DEF FramesGrow
<1>2. \A k \in 1 .. Len(old) : k # Len(old) => new[k] = old[k]
  BY <1>1 DEF FramesGrow
<1>3. ASSUME old # <<>>
      PROVE  /\ Last(new).id = Last(old).id /\ Last(new).kind = Last(old).kind
             /\ Last(new).phase = Last(old).phase /\ Last(new).expected = Last(old).expected
             /\ Last(old).breaks \subseteq Last(new).breaks
             /\ \A b \in Last(new).breaks \ Last(old).breaks : BreakFits(f, info, lo, hi, Last(new), b)
  <2>1. mid # <<>>
    BY <1>1, <1>3
  <2>2. /\ Last(mid).id = Last(old).id /\ Last(mid).kind = Last(old).kind
        /\ Last(mid).phase = Last(old).phase /\ Last(mid).expected = Last(old).expected
        /\ Last(old).breaks \subseteq Last(mid).breaks
        /\ \A b \in Last(mid).breaks \ Last(old).breaks : BreakFits(f, info, lo, m, Last(mid), b)
    BY <1>3 DEF FramesGrow
  <2>3. /\ Last(new).id = Last(mid).id /\ Last(new).kind = Last(mid).kind
        /\ Last(new).phase = Last(mid).phase /\ Last(new).expected = Last(mid).expected
        /\ Last(mid).breaks \subseteq Last(new).breaks
        /\ \A b \in Last(new).breaks \ Last(mid).breaks : BreakFits(f, info, m + 1, hi, Last(new), b)
    BY <2>1 DEF FramesGrow
  <2>4. ASSUME NEW b \in Last(new).breaks \ Last(old).breaks PROVE BreakFits(f, info, lo, hi, Last(new), b)
    <3>1. CASE b \in Last(mid).breaks
      <4>1. BreakFits(f, info, lo, m, Last(mid), b)
        BY <2>2, <2>4, <3>1
      <4>2. \A j \in Ids(f) : SameAt(info, info, j)
        BY DEF SameAt
      <4> QED
        BY <1>0, <2>3, <4>1, <4>2, BreakFitsStable
    <3>2. CASE b \notin Last(mid).breaks
      <4>1. BreakFits(f, info, m + 1, hi, Last(new), b)
        BY <2>3, <2>4, <3>2
      <4> QED
        BY <1>0, <4>1 DEF BreakFits
    <3> QED
      BY <3>1, <3>2
  <2> QED
    BY <2>2, <2>3, <2>4
<1> QED
  BY <1>1, <1>2, <1>3 DEF FramesGrow

\* What waits keeps waiting.
LEMMA PendingGrows ==
    ASSUME NEW f, NEW info, NEW lo, NEW hi, NEW old \in Seq(Frame), NEW new, FramesGrow(f, info, lo, hi, old, new)
    PROVE  /\ Pending(old) \subseteq Pending(new) /\ new \in Seq(Frame) /\ (new = <<>> <=> old = <<>>) /\ Len(new) = Len(old)
           /\ old # <<>> => /\ Last(new).id = Last(old).id /\ Last(new).kind = Last(old).kind
                            /\ Last(new).phase = Last(old).phase /\ Last(new).expected = Last(old).expected
<1>1. new \in Seq(Frame) /\ Len(new) = Len(old)
  BY DEF FramesGrow
<1>2. new = <<>> <=> old = <<>>
  BY <1>1
<1>3. old # <<>> => /\ Last(old).breaks \subseteq Last(new).breaks
                    /\ Last(new).id = Last(old).id /\ Last(new).kind = Last(old).kind
                    /\ Last(new).phase = Last(old).phase /\ Last(new).expected = Last(old).expected
  BY DEF FramesGrow
<1> QED
  BY <1>1, <1>2, <1>3 DEF Pending

\* A call after a call: the nodes of both are accounted for.
LEMMA SpanJoin ==
    ASSUME NEW f, IsBody(f), NEW r, NEW base \in Nat, NEW lo, NEW m, NEW hi, Row(f, lo, m), Row(f, m + 1, hi),
           base <= lo, lo <= m + 1, m <= hi, NEW s \in Checkers(f), NEW t, NEW u,
           Span(f, r, base, lo, m, s, t), Span(f, r, m + 1, m + 1, hi, t, u)
    PROVE  Span(f, r, base, lo, hi, s, u)
<1>0. lo \in Nat /\ m \in Nat /\ hi \in Nat
  BY DEF Row
<1>1. t \in Checkers(f) /\ u \in Checkers(f)
  BY DEF Span
<1>2. /\ \A j \in Ids(f) : Home(j) < base => t.info[j] = s.info[j]
      /\ \A j \in Ids(f) : Home(j) < m + 1 => u.info[j] = t.info[j]
      /\ FramesGrow(f, t.info, lo, m, s.frames, t.frames)
      /\ FramesGrow(f, u.info, m + 1, hi, t.frames, u.frames)
      /\ \A q \in lo .. m : Checked(f, r, t.info, lo, Pending(t.frames), q)
      /\ \A q \in m + 1 .. hi : Checked(f, r, u.info, m + 1, Pending(u.frames), q)
  BY DEF Span
<1>3. \A j \in Ids(f) : Home(j) \in Nat
  BY IdFacts
<1>4. \A j \in Ids(f) : Home(j) < base => u.info[j] = s.info[j]
  BY <1>0, <1>2, <1>3
<1>5. s.frames \in Seq(Frame) /\ t.frames \in Seq(Frame)
  BY <1>1, CheckerFields
<1>6. FramesGrow(f, u.info, lo, m, s.frames, t.frames)
  <2>1. \A j \in Ids(f) : lo <= Home(j) /\ Home(j) <= m => SameAt(t.info, u.info, j)
    BY <1>0, <1>2, <1>3 DEF SameAt
  <2> QED
    BY <1>0, <1>2, <2>1, FramesStable
<1>7. FramesGrow(f, u.info, lo, hi, s.frames, u.frames)
  BY <1>2, <1>5, <1>6, FramesJoin
<1>8. Pending(t.frames) \subseteq Pending(u.frames)
  BY <1>2, <1>5, PendingGrows
<1>9. ASSUME NEW q \in lo .. hi PROVE Checked(f, r, u.info, lo, Pending(u.frames), q)
  <2>1. CASE q \in lo .. m
    <3>1. Checked(f, r, t.info, lo, Pending(t.frames), q)
      BY <1>2, <2>1
    <3>2. q \in DOMAIN f
      BY <2>1 DEF Row
    <3>3. ASSUME NEW j \in Ids(f), (lo <= Home(j) /\ Home(j) <= m) \/ Visible(f, q, j) PROVE SameAt(t.info, u.info, j)
      <4>1. Home(j) < m + 1
        <5>1. CASE Visible(f, q, j)
          <6>1. Home(j) < q
            BY <3>2, <5>1, VisibleFacts
          <6> QED
            BY <1>0, <1>3, <2>1, <6>1
        <5> QED
          BY <1>0, <1>3, <3>3, <5>1
      <4> QED
        BY <1>2, <4>1 DEF SameAt
    <3>4. Settled(u.info, q)
      <4>1. q \in Ids(f) /\ Home(q) = q
        BY <3>2, IdFacts
      <4>2. u.info[q] = t.info[q]
        BY <1>0, <1>2, <2>1, <4>1
      <4> QED
        BY <3>1, <4>2 DEF Checked, Settled, Ends
    <3> QED
      BY <1>0, <1>8, <2>1, <3>1, <3>3, <3>4, CheckedStable
  <2>2. CASE q \in m + 1 .. hi
    <3>1. Checked(f, r, u.info, m + 1, Pending(u.frames), q)
      BY <1>2, <2>2
    <3>2. \A j \in Ids(f) : SameAt(u.info, u.info, j)
      BY DEF SameAt
    <3>3. Settled(u.info, q)
      BY <3>1 DEF Checked
    <3> QED
      BY <1>0, <2>2, <3>1, <3>2, <3>3, CheckedStable
  <2> QED
    BY <1>0, <1>9, <2>1, <2>2
<1> HIDE DEF Checked, FramesGrow
<1> QED
  BY <1>1, <1>4, <1>7, <1>9 DEF Span

\* Records outside the row change: what is known of the row stays.
LEMMA SpanKept ==
    ASSUME NEW f, IsBody(f), NEW r, NEW base \in Nat, NEW lo, NEW hi, Row(f, lo, hi), base < lo,
           NEW s \in Checkers(f), NEW t, NEW u \in Checkers(f), Span(f, r, base, lo, hi, s, t), u.frames = t.frames,
           \A j \in Ids(f) : Home(j) # base => u.info[j] = t.info[j],
           \A q \in lo .. hi : \A j \in Ids(f) : Visible(f, q, j) => u.info[j] = t.info[j]
    PROVE  Span(f, r, base, lo, hi, s, u)
<1>0. lo \in Nat /\ hi \in Nat
  BY DEF Row
<1>2. /\ \A j \in Ids(f) : Home(j) < base => t.info[j] = s.info[j]
      /\ FramesGrow(f, t.info, lo, hi, s.frames, t.frames)
      /\ \A q \in lo .. hi : Checked(f, r, t.info, lo, Pending(t.frames), q)
  BY DEF Span
<1>3. \A j \in Ids(f) : Home(j) \in Nat
  BY IdFacts
<1>4. \A j \in Ids(f) : Home(j) < base => u.info[j] = s.info[j]
  BY <1>0, <1>2, <1>3
<1>5. \A j \in Ids(f) : lo <= Home(j) /\ Home(j) <= hi => u.info[j] = t.info[j]
  BY <1>0, <1>3
<1>6. FramesGrow(f, u.info, lo, hi, s.frames, u.frames)
  <2>1. \A j \in Ids(f) : lo <= Home(j) /\ Home(j) <= hi => SameAt(t.info, u.info, j)
    BY <1>5 DEF SameAt
  <2> QED
    BY <1>0, <1>2, <2>1, FramesStable
<1>7. ASSUME NEW q \in lo .. hi PROVE Checked(f, r, u.info, lo, Pending(u.frames), q)
  <2>1. Checked(f, r, t.info, lo, Pending(t.frames), q) /\ q \in DOMAIN f
    BY <1>2 DEF Row
  <2>2. \A j \in Ids(f) : (lo <= Home(j) /\ Home(j) <= hi) \/ Visible(f, q, j) => SameAt(t.info, u.info, j)
    BY <1>5 DEF SameAt
  <2>3. Settled(u.info, q)
    <3>1. q \in Ids(f) /\ Home(q) = q
      BY <2>1, IdFacts
    <3>2. u.info[q] = t.info[q]
      BY <1>0, <1>5, <3>1
    <3> QED
      BY <2>1, <3>2 DEF Checked, Settled, Ends
  <2> QED
    BY <1>0, <2>1, <2>2, <2>3, CheckedStable
<1> QED
  BY <1>4, <1>6, <1>7 DEF Span

\* The record of the node itself completes its subtree.
LEMMA SpanClosed ==
    ASSUME NEW f, IsBody(f), NEW r, NEW p \in DOMAIN f, NEW s \in Checkers(f), NEW t, NEW u \in Checkers(f),
           Span(f, r, p, p + 1, f[p].last, s, t), u.frames = t.frames,
           \A j \in Ids(f) : j # p => u.info[j] = t.info[j],
           Checked(f, r, u.info, p, Pending(u.frames), p)
    PROVE  Span(f, r, p, p, f[p].last, s, u)
<1>0. p \in Nat /\ f[p].last \in Nat /\ p <= f[p].last /\ Row(f, p + 1, f[p].last) /\ p + 1 \in Nat /\ p < p + 1 /\ Row(f, p, f[p].last)
  BY NodeFacts, SubtreeRow
<1>1. \A j \in Ids(f) : Home(j) # p => j # p
  BY IdFacts
<1>2. ASSUME NEW q \in p + 1 .. f[p].last, NEW j \in Ids(f), Visible(f, q, j) PROVE u.info[j] = t.info[j]
  <2>1. q \in DOMAIN f
    BY <1>0 DEF Row
  <2>2. j \notin DOMAIN f
    BY <1>2, <2>1, VisibleFacts
  <2> QED
    BY <2>2
<1>3. Span(f, r, p, p + 1, f[p].last, s, u)
  BY <1>0, <1>1, <1>2, SpanKept
<1>4. /\ \A j \in Ids(f) : Home(j) < p => u.info[j] = s.info[j]
      /\ FramesGrow(f, u.info, p + 1, f[p].last, s.frames, u.frames)
      /\ \A q \in p + 1 .. f[p].last : Checked(f, r, u.info, p + 1, Pending(u.frames), q)
  BY <1>3 DEF Span
<1>5. \A j \in Ids(f) : SameAt(u.info, u.info, j)
  BY DEF SameAt
<1>6. FramesGrow(f, u.info, p, f[p].last, s.frames, u.frames)
  BY <1>0, <1>4, <1>5, FramesStable
<1>7. ASSUME NEW q \in p .. f[p].last PROVE Checked(f, r, u.info, p, Pending(u.frames), q)
  <2>1. CASE q = p
    BY <2>1
  <2>2. CASE q \in p + 1 .. f[p].last
    <3>1. Checked(f, r, u.info, p + 1, Pending(u.frames), q)
      BY <1>4, <2>2
    <3>2. Settled(u.info, q)
      BY <3>1 DEF Checked
    <3> QED
      BY <1>0, <1>5, <2>2, <3>1, <3>2, CheckedStable
  <2> QED
    BY <1>0, <2>1, <2>2
<1> QED
  BY <1>4, <1>6, <1>7 DEF Span

\* Before any call.
LEMMA SpanEmpty ==
    ASSUME NEW f, IsBody(f), NEW r, NEW p \in Nat, NEW s \in Checkers(f), NEW t \in Checkers(f), t.frames = s.frames, t.info = s.info
    PROVE  Span(f, r, p, p + 1, p, s, t)
<1>1. FramesGrow(f, t.info, p + 1, p, s.frames, t.frames)
  <2>1. s.frames \in Seq(Frame)
    BY CheckerFields
  <2> QED
    BY <2>1 DEF FramesGrow
<1>2. p + 1 .. p = {}
  OBVIOUS
<1> QED
  BY <1>1, <1>2 DEF Span

\* Only the type and the divergence of p are new.
Recorded(f, t, u, p, ty, div) ==
  /\ u.info[p].ty = ty /\ u.info[p].div = div
  /\ u.info[p].jump = t.info[p].jump /\ u.info[p].local = t.info[p].local
  /\ \A j \in Ids(f) : j # p => u.info[j] = t.info[j]

\* What a handler may rely on.
Call(c, f, r, p, expected, s) ==
  /\ IsBody(f) /\ p \in DOMAIN f /\ c.body = f /\ c.result = r /\ r \in {Unit, Bool}
  /\ GoodBelow(c, f, r, p) /\ expected \in Types \cup {None} /\ CheckPre(f, p, s)

\* After a row of calls below p, the next handler may rely on as much.
LEMMA PreKept ==
    ASSUME NEW f, IsBody(f), NEW r, NEW p \in DOMAIN f, NEW lo, NEW hi, NEW s, NEW t,
           CheckPre(f, p, s), Span(f, r, p, lo, hi, s, t), t.ok = TRUE, t.scope = s.scope
    PROVE  CheckPre(f, p, t)
<1>1. /\ s \in Checkers(f) /\ Visible(f, p, s.scope) /\ s.info[s.scope].ty \in Types /\ s.info[s.scope].val = s.info[s.scope].ty
  BY DEF CheckPre
<1>2. s.scope \in Ids(f) /\ Home(s.scope) < p
  BY <1>1, VisibleFacts
<1>3. t.info[s.scope] = s.info[s.scope] /\ t \in Checkers(f) /\ FramesGrow(f, t.info, lo, hi, s.frames, t.frames)
  BY <1>2 DEF Span
<1>4. s.frames \in Seq(Frame)
  BY <1>1, CheckerFields
<1>5. /\ (t.frames = <<>> <=> s.frames = <<>>)
      /\ s.frames # <<>> => /\ Last(t.frames).id = Last(s.frames).id /\ Last(t.frames).kind = Last(s.frames).kind
                            /\ Last(t.frames).phase = Last(s.frames).phase
  <2>1. t.frames \in Seq(Frame) /\ Len(t.frames) = Len(s.frames)
    BY <1>3 DEF FramesGrow
  <2>2. s.frames # <<>> => /\ Last(t.frames).id = Last(s.frames).id /\ Last(t.frames).kind = Last(s.frames).kind
                           /\ Last(t.frames).phase = Last(s.frames).phase
    BY <1>3 DEF FramesGrow
  <2>3. t.frames = <<>> <=> s.frames = <<>>
    BY <1>4, <2>1
  <2> QED
    BY <2>2, <2>3
<1>6. s.frames # <<>> /\ Last(s.frames).phase = "Body" =>
       /\ Last(s.frames).id \in DOMAIN f /\ Inside(f, Last(s.frames).id, p)
       /\ f[Last(s.frames).id].op = IF Last(s.frames).kind = "Loop" THEN "loop" ELSE "while"
  BY DEF CheckPre
<1>7. t.frames # <<>> /\ Last(t.frames).phase = "Body" =>
       /\ Last(t.frames).id \in DOMAIN f /\ Inside(f, Last(t.frames).id, p)
       /\ f[Last(t.frames).id].op = IF Last(t.frames).kind = "Loop" THEN "loop" ELSE "while"
  BY <1>5, <1>6
<1>8. t.info[t.scope].ty \in Types /\ t.info[t.scope].val = t.info[t.scope].ty /\ Visible(f, p, t.scope)
  BY <1>1, <1>3
<1> QED
  BY <1>3, <1>7, <1>8 DEF CheckPre

\* What holds at a node holds at its children.
LEMMA PreChild ==
    ASSUME NEW f, IsBody(f), NEW p \in DOMAIN f, NEW k \in 1 .. Len(f[p].sub), NEW s, CheckPre(f, p, s)
    PROVE  CheckPre(f, f[p].sub[k], s)
<1>1. Visible(f, f[p].sub[k], s.scope)
  BY VisibleChild DEF CheckPre
<1>2. \A j \in DOMAIN f : Inside(f, j, p) => Inside(f, j, f[p].sub[k])
  BY InsideChild
<1> QED
  BY <1>1, <1>2 DEF CheckPre

\* The check of the k-th child of p has succeeded.
Runs(c, f, p, k, want, a, t) ==
  k \in 1 .. Len(f[p].sub) /\ want \in Types \cup {None} /\ t = CheckSub(c, f[p].sub[k], want, a) /\ Okay(t)

\* One call on a child.
LEMMA ChildCall ==
    ASSUME NEW c, NEW f, NEW r, NEW p, NEW expected, NEW s, Call(c, f, r, p, expected, s),
           NEW k, NEW want, NEW a, NEW t, CheckPre(f, f[p].sub[k], a), Runs(c, f, p, k, want, a, t)
    PROVE  CheckPost(f, r, f[p].sub[k], want, a, t)
<1>1. IsBody(f) /\ p \in DOMAIN f /\ GoodBelow(c, f, r, p) /\ k \in 1 .. Len(f[p].sub)
  BY DEF Call, Runs
<1>2. f[p].sub[k] \in DOMAIN f /\ p < f[p].sub[k] /\ f[p].sub[k] <= f[p].last
  <2>1. /\ f[p].sub[k] \in DOMAIN f /\ p < f[p].sub[k] /\ f[p].sub[k] \in Nat /\ f[f[p].sub[k]].last \in Nat /\ f[p].last \in Nat
        /\ f[p].sub[k] <= f[f[p].sub[k]].last /\ f[f[p].sub[k]].last <= f[p].last
    BY <1>1, ChildrenBetween
  <2> QED
    BY <2>1
<1>3. a \in Checkers(f) /\ want \in Types \cup {None} /\ t = CheckSub(c, f[p].sub[k], want, a) /\ Okay(t)
  BY DEF CheckPre, Runs
<1> HIDE DEF Runs
<1> QED
  BY <1>1, <1>2, <1>3 DEF GoodBelow

\* The calls on the first k children of p have brought s to t.
Upto(f, r, p, k, s, t) ==
  /\ Row(f, p + 1, f[f[p].sub[k]].last) /\ Span(f, r, p, p + 1, f[f[p].sub[k]].last, s, t)
  /\ t.ok = TRUE /\ t \in Checkers(f) /\ k \in 1 .. Len(f[p].sub)

\* The call on the first child.
LEMMA FirstCall ==
    ASSUME NEW c, NEW f, NEW r, NEW p, NEW expected, NEW s, Call(c, f, r, p, expected, s),
           NEW want, NEW t, Runs(c, f, p, 1, want, s, t)
    PROVE  CheckPost(f, r, f[p].sub[1], want, s, t) /\ Upto(f, r, p, 1, s, t)
<1>1. IsBody(f) /\ p \in DOMAIN f /\ CheckPre(f, p, s) /\ 1 \in 1 .. Len(f[p].sub)
  BY DEF Call, Runs
<1>2. CheckPre(f, f[p].sub[1], s)
  BY <1>1, PreChild
<1>3. CheckPost(f, r, f[p].sub[1], want, s, t)
  BY <1>2, ChildCall
<1> DEFINE d == f[p].sub[1]
<1>4. d \in DOMAIN f /\ d = p + 1 /\ p \in Nat
  <2>1. \A k \in 1 .. Len(f[p].sub) : f[p].sub[k] \in DOMAIN f /\ f[p].sub[k] = (IF k = 1 THEN p ELSE f[f[p].sub[k - 1]].last) + 1
    BY <1>1, ChildList
  <2> QED
    BY <1>1, <2>1, IdFacts
<1>5. Row(f, d, f[d].last)
  BY <1>1, <1>4, SubtreeRow
<1>6. Span(f, r, d, d, f[d].last, s, t) /\ t.ok = TRUE
  BY <1>3 DEF CheckPost
<1>7. Span(f, r, p, d, f[d].last, s, t) /\ t \in Checkers(f)
  <2>1. \A j \in Ids(f) : Home(j) < p => Home(j) < d
    <3>1. \A j \in Ids(f) : Home(j) \in Nat
      BY <1>1, IdFacts
    <3> HIDE DEF d
    <3> QED
      BY <1>4, <3>1
  <2> HIDE DEF d
  <2> QED
    BY <1>6, <2>1 DEF Span
<1>8. Upto(f, r, p, 1, s, t)
  BY <1>1, <1>4, <1>5, <1>6, <1>7 DEF Upto
<1> QED
  BY <1>3, <1>8

\* The next child, and nothing recorded before it.
Continues(f, r, p, k, n, want, s, a, t) ==
  /\ CheckPost(f, r, f[p].sub[n], want, a, t) /\ Upto(f, r, p, n, s, t)
  /\ \A j \in Ids(f) : Home(j) <= f[f[p].sub[k]].last => t.info[j] = a.info[j]

\* The call on the next child.
LEMMA NextCall ==
    ASSUME NEW c, NEW f, NEW r, NEW p, NEW expected, NEW s, Call(c, f, r, p, expected, s),
           NEW k, NEW n, n = k + 1, NEW want, NEW a, Upto(f, r, p, k, s, a), CheckPre(f, f[p].sub[n], a),
           NEW t, Runs(c, f, p, n, want, a, t)
    PROVE  Continues(f, r, p, k, n, want, s, a, t)
<1>1. IsBody(f) /\ p \in DOMAIN f /\ s \in Checkers(f) /\ p \in Nat /\ n \in 1 .. Len(f[p].sub) /\ k \in 1 .. Len(f[p].sub)
  BY IdFacts DEF Call, CheckPre, Runs, Upto
<1> DEFINE m == f[f[p].sub[k]].last
           d == f[p].sub[n]
<1>3. CheckPost(f, r, d, want, a, t)
  BY ChildCall
<1>4. d \in DOMAIN f /\ d = m + 1 /\ m \in Nat /\ p < f[p].sub[k] /\ f[p].sub[k] \in Nat /\ f[p].sub[k] <= m
  <2>1. \A i \in 1 .. Len(f[p].sub) : f[p].sub[i] \in DOMAIN f /\ f[p].sub[i] = (IF i = 1 THEN p ELSE f[f[p].sub[i - 1]].last) + 1
    BY <1>1, ChildList
  <2>2. n # 1 /\ n - 1 = k
    BY <1>1
  <2>3. d \in DOMAIN f /\ d = m + 1
    BY <1>1, <2>1, <2>2
  <2>4. p < f[p].sub[k] /\ f[p].sub[k] \in Nat /\ f[p].sub[k] <= m /\ m \in Nat
    BY <1>1, ChildrenBetween
  <2> QED
    BY <2>3, <2>4
<1>5. Row(f, d, f[d].last) /\ f[d].last \in Nat /\ d <= f[d].last
  BY <1>1, <1>4, SubtreeRow, NodeFacts, Zenon
<1>6. Span(f, r, d, d, f[d].last, a, t) /\ t.ok = TRUE
  BY <1>3 DEF CheckPost
<1>7. Row(f, p + 1, m) /\ Span(f, r, p, p + 1, m, s, a)
  BY DEF Upto
<1> HIDE DEF m, d
<1>8. p <= p + 1 /\ p + 1 <= m + 1 /\ m <= f[d].last
  BY <1>1, <1>4, <1>5, SMTT(60)
<1>9. Span(f, r, p, p + 1, f[d].last, s, t)
  BY <1>1, <1>4, <1>5, <1>6, <1>7, <1>8, SpanJoin
<1>10. Row(f, p + 1, f[d].last)
  BY <1>1, <1>4, <1>5, <1>7, <1>8, RowJoin
<1>11. t \in Checkers(f) /\ \A j \in Ids(f) : Home(j) <= m => t.info[j] = a.info[j]
  <2>1. \A j \in Ids(f) : Home(j) <= m => Home(j) < d
    <3>1. \A j \in Ids(f) : Home(j) \in Nat
      BY <1>1, IdFacts
    <3> QED
      BY <1>4, <3>1
  <2> QED
    BY <1>6, <2>1 DEF Span
<1>12. Upto(f, r, p, n, s, t)
  BY <1>1, <1>6, <1>9, <1>10, <1>11 DEF Upto, d
<1> QED
  BY <1>3, <1>11, <1>12 DEF m, d, Continues

\* After some of the children, the next handler may rely on as much.
LEMMA PreUpto ==
    ASSUME NEW f, IsBody(f), NEW r, NEW p \in DOMAIN f, NEW k, NEW s, NEW t,
           CheckPre(f, p, s), Upto(f, r, p, k, s, t), t.scope = s.scope
    PROVE  CheckPre(f, p, t)
<1>1. Span(f, r, p, p + 1, f[f[p].sub[k]].last, s, t) /\ t.ok = TRUE
  BY DEF Upto
<1> QED
  BY <1>1, PreKept, Zenon

\* Everything below p is done.
Gathered(f, r, p, s, t) ==
  t \in Checkers(f) /\ t.ok = TRUE /\ t.scope = s.scope /\ Span(f, r, p, p + 1, f[p].last, s, t)

\* The same, in whatever scope.
Below(f, r, p, s, t) == t \in Checkers(f) /\ t.ok = TRUE /\ Span(f, r, p, p + 1, f[p].last, s, t)

\* A type and a divergence that belong together.
Ending(ty, div) == ty \in Types /\ div \in BOOLEAN /\ (ty = Never => div = TRUE)

\* The rule of p follows from what was known in t and the record of p.
Obeys(f, r, t, u, p, ty, div) == Recorded(f, t, u, p, ty, div) => Rule(f, r, u.info, p)

\* p has been given its type, and the type it was asked for.
Closes(f, r, p, want, s, u, ty) ==
  CheckPost(f, r, p, want, s, u) /\ u.info[p].ty = ty /\ (want = None => u.info[p].val = ty)

\* One node, everything below it done: the end every check shares completes it.
LEMMA TypedSpans ==
    ASSUME NEW c, NEW f, NEW r, NEW p, NEW expected, NEW s, Call(c, f, r, p, expected, s), NEW want \in Types \cup {None},
           NEW t, Below(f, r, p, s, t), NEW ty, NEW div, Ending(ty, div),
           NEW u, u = Typed(t, p, ty, want, div), Okay(u), f[p].op \notin Breaks, Obeys(f, r, t, u, p, ty, div)
    PROVE  Span(f, r, p, p, f[p].last, s, u) /\ TypedAs(f, t, u, p, ty, want, div)
<1>0. IsBody(f) /\ p \in DOMAIN f /\ s \in Checkers(f)
  BY DEF Call, CheckPre
<1>1. p \in Ids(f)
  BY <1>0, IdFacts
<1>2. t \in Checkers(f) /\ t.ok = TRUE /\ Span(f, r, p, p + 1, f[p].last, s, t)
  BY DEF Below
<1>3. ty \in Types /\ div \in BOOLEAN /\ (ty = Never => div = TRUE)
  BY DEF Ending
<1>4. TypedAs(f, t, u, p, ty, want, div)
  BY <1>1, <1>2, <1>3, TypedFacts, Zenon
<1>5. /\ u \in Checkers(f) /\ u.ok = TRUE /\ u.div = div /\ u.frames = t.frames /\ u.scope = t.scope
      /\ \A j \in Ids(f) : j # p => u.info[j] = t.info[j]
      /\ u.info[p].ty = ty /\ u.info[p].div = div
      /\ u.info[p].val \in Types /\ Coerces(ty, u.info[p].val) /\ (want # None => u.info[p].val = want)
      /\ want = None => u.info[p].val = ty
      /\ u.info[p].jump = t.info[p].jump /\ u.info[p].local = t.info[p].local
  BY <1>4 DEF TypedAs
<1>6. Rule(f, r, u.info, p)
  BY <1>5 DEF Recorded, Obeys
<1>7. Settled(u.info, p)
  BY <1>3, <1>5 DEF Settled, Ends
<1>8. Checked(f, r, u.info, p, Pending(u.frames), p)
  BY <1>6, <1>7 DEF Checked
<1>9. Span(f, r, p, p, f[p].last, s, u)
  BY <1>0, <1>2, <1>5, <1>8, SpanClosed
<1> QED
  BY <1>4, <1>9

\* So the promise is kept.
LEMMA TypedClosed ==
    ASSUME NEW c, NEW f, NEW r, NEW p, NEW expected, NEW s, Call(c, f, r, p, expected, s), NEW want \in Types \cup {None},
           NEW t, Gathered(f, r, p, s, t), NEW ty, NEW div, Ending(ty, div),
           NEW u, u = Typed(t, p, ty, want, div), Okay(u), f[p].op \notin Breaks, Obeys(f, r, t, u, p, ty, div)
    PROVE  Closes(f, r, p, want, s, u, ty)
<1>1. Below(f, r, p, s, t) /\ t.scope = s.scope
  BY DEF Gathered, Below
<1>2. Span(f, r, p, p, f[p].last, s, u) /\ TypedAs(f, t, u, p, ty, want, div)
  BY <1>1, TypedSpans
<1> QED
  BY <1>1, <1>2 DEF TypedAs, CheckPost, Closes

\* The end of a block: the scope is the one around it again.
BlockTyped(p, ty, want, div, s, t, u) ==
  Okay(Typed(t, p, ty, want, div)) /\ u = [Typed(t, p, ty, want, div) EXCEPT !.scope = s.scope]

\* The same for a block.
LEMMA BlockClosed ==
    ASSUME NEW c, NEW f, NEW r, NEW p, NEW expected, NEW s, Call(c, f, r, p, expected, s), NEW want \in Types \cup {None},
           NEW t, Below(f, r, p, s, t), NEW ty, NEW div, Ending(ty, div),
           NEW u, BlockTyped(p, ty, want, div, s, t, u), f[p].op \notin Breaks, Obeys(f, r, t, u, p, ty, div)
    PROVE  Closes(f, r, p, want, s, u, ty)
<1> DEFINE v == Typed(t, p, ty, want, div)
<1>0. IsBody(f) /\ p \in DOMAIN f /\ s \in Checkers(f) /\ s.scope \in Ids(f)
  BY CheckerFields DEF Call, CheckPre
<1>1. p \in Ids(f) /\ t \in Checkers(f) /\ t.ok = TRUE /\ ty \in Types /\ div \in BOOLEAN
  BY <1>0, IdFacts DEF Below, Ending
<1>2. Okay(v) /\ u = [v EXCEPT !.scope = s.scope]
  BY DEF BlockTyped
<1>3. TypedAs(f, t, v, p, ty, want, div)
  BY <1>1, <1>2, TypedFacts, Zenon
<1>31. v = Typed(t, p, ty, want, div)
  OBVIOUS
<1> HIDE DEF v
<1>4. v \in Checkers(f)
  BY <1>3 DEF TypedAs
<1>5. /\ u \in Checkers(f) /\ u.ok = v.ok /\ u.div = v.div /\ u.frames = v.frames /\ u.info = v.info /\ u.scope = s.scope
  BY <1>0, <1>2, <1>4, Zenon DEF Checkers
<1>6. Obeys(f, r, t, v, p, ty, div)
  BY <1>5 DEF Obeys, Recorded
<1>7. Span(f, r, p, p, f[p].last, s, v)
  BY <1>2, <1>31, <1>6, TypedSpans
<1>8. Span(f, r, p, p, f[p].last, s, u)
  BY <1>5, <1>7 DEF Span
<1> QED
  BY <1>3, <1>5, <1>8 DEF TypedAs, CheckPost, Closes

\* The state after the last child.
LEMMA AllGathered ==
    ASSUME NEW c, NEW f, NEW r, NEW p, NEW expected, NEW s, Call(c, f, r, p, expected, s),
           NEW k, NEW t, Upto(f, r, p, k, s, t), t.scope = s.scope, Len(f[p].sub) = k
    PROVE  Gathered(f, r, p, s, t)
<1>1. IsBody(f) /\ p \in DOMAIN f /\ k \in 1 .. Len(f[p].sub)
  BY DEF Call, Upto
<1>3. f[f[p].sub[k]].last = f[p].last
  BY <1>1, ChildrenBetween
<1> QED
  BY <1>3 DEF Upto, Gathered

\* The state after the last child, whatever the scope.
LEMMA AllBelow ==
    ASSUME NEW c, NEW f, NEW r, NEW p, NEW expected, NEW s, Call(c, f, r, p, expected, s),
           NEW k, NEW t, Upto(f, r, p, k, s, t), Len(f[p].sub) = k
    PROVE  Below(f, r, p, s, t)
<1>1. IsBody(f) /\ p \in DOMAIN f /\ k \in 1 .. Len(f[p].sub)
  BY DEF Call, Upto
<1>3. f[f[p].sub[k]].last = f[p].last
  BY <1>1, ChildrenBetween
<1> QED
  BY <1>3 DEF Upto, Below

\* The state before any child, of a node that has none.
LEMMA NoneGathered ==
    ASSUME NEW c, NEW f, NEW r, NEW p, NEW expected, NEW s, Call(c, f, r, p, expected, s), Len(f[p].sub) = 0
    PROVE  Gathered(f, r, p, s, s)
<1>1. IsBody(f) /\ p \in DOMAIN f /\ s \in Checkers(f) /\ s.ok = TRUE
  BY DEF Call, CheckPre
<1>2. f[p].last = p /\ p \in Nat
  BY <1>1, NoChild
<1>3. Span(f, r, p, p + 1, p, s, s)
  BY <1>1, <1>2, SpanEmpty
<1> QED
  BY <1>1, <1>2, <1>3 DEF Gathered

\* What is known of a node after its check, and of the state.
Got(f, i, want, s, t) ==
  /\ t \in Checkers(f) /\ t.ok = TRUE /\ t.scope = s.scope
  /\ Settled(t.info, i) /\ (t.div = TRUE <=> Ends(t.info, i)) /\ t.div \in BOOLEAN
  /\ Is(t.info, i, t.info[i].val) /\ (want # None => Is(t.info, i, want) /\ t.info[i].val = want)
  /\ t.info[i].ty \in Types /\ t.info[i].val \in Types

\* What a promise says of the node it was made for.
LEMMA PostFacts ==
    ASSUME NEW f, IsBody(f), NEW r, NEW i \in DOMAIN f, NEW want, NEW s, NEW t, CheckPost(f, r, i, want, s, t)
    PROVE  Got(f, i, want, s, t)
<1>1. /\ Span(f, r, i, i, f[i].last, s, t)
      /\ t.ok = TRUE /\ t.scope = s.scope /\ t.div = t.info[i].div
      /\ want # None => t.info[i].val = want
  BY DEF CheckPost
<1>2. t \in Checkers(f) /\ i \in i .. f[i].last
  BY <1>1, NodeFacts DEF Span
<1>3. Settled(t.info, i)
  BY <1>1, <1>2 DEF Span, Checked
<1>4. t.div \in BOOLEAN
  BY <1>2, CheckerFields
<1>5. t.info[i].ty \in Types /\ t.info[i].val \in Types /\ Coerces(t.info[i].ty, t.info[i].val) /\ (t.info[i].ty = Never => Ends(t.info, i))
  BY <1>3 DEF Settled
<1>6. Is(t.info, i, t.info[i].val)
  BY <1>5 DEF Is, Coerces
<1> QED
  BY <1>1, <1>2, <1>3, <1>4, <1>5, <1>6 DEF Ends, Got

\* Unit values, literals and calls.
LEMMA AtomChecked ==
    ASSUME NEW c, NEW f, NEW r, NEW p, NEW expected, NEW s, Call(c, f, r, p, expected, s),
           f[p].op \in {"unit", "true", "read"}, NEW t, t = CheckExpr(c, p, expected, s), Okay(t)
    PROVE  CheckPost(f, r, p, expected, s, t)
<1>1. IsBody(f) /\ p \in DOMAIN f /\ c.body = f /\ expected \in Types \cup {None}
  BY DEF Call
<1> DEFINE ty == IF f[p].op = "unit" THEN Unit ELSE Bool
<1>2. t = Typed(s, p, ty, expected, FALSE)
  BY <1>1, Zenon DEF CheckExpr, BlockOps
<1>3. Len(f[p].sub) = 0
  BY <1>1, OpArity
<1>4. Gathered(f, r, p, s, s)
  BY <1>3, NoneGathered
<1>5. Obeys(f, r, s, t, p, ty, FALSE)
  <2> SUFFICES ASSUME Recorded(f, s, t, p, ty, FALSE) PROVE Rule(f, r, t.info, p)
    BY DEF Obeys
  <2>1. t.info[p].ty = ty /\ ~Ends(t.info, p)
    BY DEF Recorded, Ends
  <2> QED
    BY <2>1 DEF Rule, ValueRule, BlockRule, OperatorRule, BranchRule, JumpRule
<1>6. Ending(ty, FALSE) /\ f[p].op \notin Breaks
  BY DEF Types, Never, Unit, Bool, Breaks, Ending
<1> HIDE DEF ty
<1>7. Closes(f, r, p, expected, s, t, ty)
  BY <1>1, <1>2, <1>4, <1>5, <1>6, TypedClosed, Zenon
<1> QED
  BY <1>7 DEF Closes

\* A failure is not Ok.
LEMMA Failed ==
    ASSUME NEW f, NEW s \in Checkers(f)
    PROVE  ~Okay(Fail(s))
BY DEF Checkers, Fail, Okay

\* The only child.
LEMMA OneCall ==
    ASSUME NEW c, NEW f, NEW r, NEW p, NEW expected, NEW s, Call(c, f, r, p, expected, s),
           Len(f[p].sub) = 1, NEW want, NEW t, Runs(c, f, p, 1, want, s, t)
    PROVE  Gathered(f, r, p, s, t) /\ Got(f, f[p].sub[1], want, s, t)
<1>1. IsBody(f) /\ p \in DOMAIN f /\ 1 \in 1 .. Len(f[p].sub)
  BY DEF Call
<1>2. CheckPost(f, r, f[p].sub[1], want, s, t) /\ Upto(f, r, p, 1, s, t)
  BY FirstCall
<1>3. f[p].sub[1] \in DOMAIN f
  BY <1>1, ChildList
<1>4. Got(f, f[p].sub[1], want, s, t)
  BY <1>1, <1>2, <1>3, PostFacts
<1>5. t.scope = s.scope
  BY <1>4 DEF Got
<1>6. Gathered(f, r, p, s, t)
  BY <1>2, <1>5, AllGathered, Zenon
<1> QED
  BY <1>4, <1>6

\* The first child, at a node with several.
LEMMA FirstGot ==
    ASSUME NEW c, NEW f, NEW r, NEW p, NEW expected, NEW s, Call(c, f, r, p, expected, s),
           NEW w1, NEW a, Runs(c, f, p, 1, w1, s, a)
    PROVE  Got(f, f[p].sub[1], w1, s, a) /\ Upto(f, r, p, 1, s, a) /\ CheckPre(f, p, a) /\ f[p].sub[1] \in DOMAIN f
<1>1. IsBody(f) /\ p \in DOMAIN f /\ CheckPre(f, p, s) /\ 1 \in 1 .. Len(f[p].sub)
  BY DEF Call, Runs
<1>2. CheckPost(f, r, f[p].sub[1], w1, s, a) /\ Upto(f, r, p, 1, s, a)
  BY FirstCall
<1>3. f[p].sub[1] \in DOMAIN f
  BY <1>1, ChildList
<1>4. Got(f, f[p].sub[1], w1, s, a)
  BY <1>1, <1>2, <1>3, PostFacts, SMTT(60)
<1>5. a.scope = s.scope
  BY <1>4 DEF Got
<1>6. CheckPre(f, p, a)
  BY <1>1, <1>2, <1>5, PreUpto
<1> QED
  BY <1>2, <1>3, <1>4, <1>6

\* The first two children, the second in the scope of the first.
Second(f, p, w1, w2, s, a, t) ==
  /\ Got(f, f[p].sub[1], w1, s, a) /\ Got(f, f[p].sub[2], w2, a, t) /\ t.scope = s.scope
  /\ t.info[f[p].sub[1]] = a.info[f[p].sub[1]]

\* The call on the second child.
LEMMA SecondCall ==
    ASSUME NEW c, NEW f, NEW r, NEW p, NEW expected, NEW s, Call(c, f, r, p, expected, s),
           NEW w1, NEW w2, NEW a, NEW t, Runs(c, f, p, 1, w1, s, a), Runs(c, f, p, 2, w2, a, t)
    PROVE  Upto(f, r, p, 2, s, t) /\ Second(f, p, w1, w2, s, a, t) /\ CheckPre(f, p, t)
<1>1. IsBody(f) /\ p \in DOMAIN f /\ CheckPre(f, p, s) /\ 2 \in 1 .. Len(f[p].sub)
  BY DEF Call, Runs
<1>3. Got(f, f[p].sub[1], w1, s, a) /\ Upto(f, r, p, 1, s, a) /\ CheckPre(f, p, a) /\ f[p].sub[1] \in DOMAIN f
  BY FirstGot
<1>4. CheckPre(f, f[p].sub[2], a)
  BY <1>1, <1>3, PreChild
<1>5. Continues(f, r, p, 1, 2, w2, s, a, t)
  <2>1. 2 = 1 + 1
    OBVIOUS
  <2> QED
    BY <1>3, <1>4, <2>1, NextCall
<1>6. /\ CheckPost(f, r, f[p].sub[2], w2, a, t) /\ Upto(f, r, p, 2, s, t)
      /\ \A j \in Ids(f) : Home(j) <= f[f[p].sub[1]].last => t.info[j] = a.info[j]
  BY <1>5 DEF Continues
<1>7. f[p].sub[2] \in DOMAIN f
  BY <1>1, ChildList
<1>8. Got(f, f[p].sub[2], w2, a, t)
  BY <1>1, <1>6, <1>7, PostFacts
<1>9. t.info[f[p].sub[1]] = a.info[f[p].sub[1]]
  <2>1. f[p].sub[1] \in Ids(f) /\ Home(f[p].sub[1]) = f[p].sub[1] /\ f[p].sub[1] <= f[f[p].sub[1]].last
    BY <1>1, <1>3, IdFacts, NodeFacts
  <2> QED
    BY <1>6, <2>1
<1>10. t.scope = s.scope
  BY <1>3, <1>8 DEF Got
<1>12. CheckPre(f, p, t)
  BY <1>1, <1>6, <1>10, PreUpto
<1> QED
  BY <1>3, <1>6, <1>8, <1>9, <1>10, <1>12 DEF Second

\* The two children of a node.
LEMMA TwoCalls ==
    ASSUME NEW c, NEW f, NEW r, NEW p, NEW expected, NEW s, Call(c, f, r, p, expected, s), Len(f[p].sub) = 2,
           NEW w1, NEW w2, NEW a, NEW t, Runs(c, f, p, 1, w1, s, a), Runs(c, f, p, 2, w2, a, t)
    PROVE  Gathered(f, r, p, s, t) /\ Second(f, p, w1, w2, s, a, t)
<1>2. Upto(f, r, p, 2, s, t) /\ Second(f, p, w1, w2, s, a, t)
  BY SecondCall
<1>3. t.scope = s.scope
  BY <1>2 DEF Second
<1>4. Gathered(f, r, p, s, t)
  BY <1>2, <1>3, AllGathered, Zenon
<1> QED
  BY <1>2, <1>4

Third(f, p, w1, w2, w3, s, a, b, t) ==
  /\ Second(f, p, w1, w2, s, a, b) /\ Got(f, f[p].sub[3], w3, b, t)
  /\ t.info[f[p].sub[1]] = a.info[f[p].sub[1]] /\ t.info[f[p].sub[2]] = b.info[f[p].sub[2]]

\* The three children of a node.
LEMMA ThreeCalls ==
    ASSUME NEW c, NEW f, NEW r, NEW p, NEW expected, NEW s, Call(c, f, r, p, expected, s), Len(f[p].sub) = 3,
           NEW w1, NEW w2, NEW w3, NEW a, NEW b, NEW t,
           Runs(c, f, p, 1, w1, s, a), Runs(c, f, p, 2, w2, a, b), Runs(c, f, p, 3, w3, b, t)
    PROVE  Gathered(f, r, p, s, t) /\ Third(f, p, w1, w2, w3, s, a, b, t)
<1>1. IsBody(f) /\ p \in DOMAIN f
  BY DEF Call
<1>2. 1 \in 1 .. Len(f[p].sub) /\ 2 \in 1 .. Len(f[p].sub) /\ 3 \in 1 .. Len(f[p].sub)
  OBVIOUS
<1>3. Upto(f, r, p, 2, s, b) /\ Second(f, p, w1, w2, s, a, b) /\ CheckPre(f, p, b)
  BY SecondCall
<1>4. CheckPre(f, f[p].sub[3], b)
  BY <1>1, <1>2, <1>3, PreChild
<1>5. Continues(f, r, p, 2, 3, w3, s, b, t)
  <2>1. 3 = 2 + 1
    OBVIOUS
  <2> QED
    BY <1>3, <1>4, <2>1, NextCall
<1>6. /\ CheckPost(f, r, f[p].sub[3], w3, b, t) /\ Upto(f, r, p, 3, s, t)
      /\ \A j \in Ids(f) : Home(j) <= f[f[p].sub[2]].last => t.info[j] = b.info[j]
  BY <1>5 DEF Continues
<1>7. f[p].sub[1] \in DOMAIN f /\ f[p].sub[2] \in DOMAIN f /\ f[p].sub[3] \in DOMAIN f
  BY <1>1, <1>2, ChildList, Zenon
<1>8. Got(f, f[p].sub[3], w3, b, t)
  BY <1>1, <1>6, <1>7, PostFacts
<1>9. t.info[f[p].sub[1]] = b.info[f[p].sub[1]] /\ t.info[f[p].sub[2]] = b.info[f[p].sub[2]]
  <2>1. f[p].sub[1] \in Ids(f) /\ Home(f[p].sub[1]) = f[p].sub[1] /\ f[p].sub[2] \in Ids(f) /\ Home(f[p].sub[2]) = f[p].sub[2]
    BY <1>1, <1>7, IdFacts
  <2>2. f[p].sub[1] <= f[f[p].sub[2]].last /\ f[p].sub[2] <= f[f[p].sub[2]].last
    <3>1. /\ f[p].sub[2] \in Nat /\ f[f[p].sub[2]].last \in Nat /\ f[p].sub[2] <= f[f[p].sub[2]].last
          /\ f[f[p].sub[1]].last < f[p].sub[2]
      BY <1>1, <1>2, ChildrenBetween
    <3>2. f[p].sub[1] \in Nat /\ f[f[p].sub[1]].last \in Nat /\ f[p].sub[1] <= f[f[p].sub[1]].last
      BY <1>1, <1>2, ChildrenBetween
    <3> QED
      BY <3>1, <3>2
  <2> QED
    BY <1>6, <2>1, <2>2
<1>10. t.scope = s.scope /\ b.info[f[p].sub[1]] = a.info[f[p].sub[1]]
  BY <1>3, <1>8, Zenon DEF Second, Got
<1>11. Gathered(f, r, p, s, t)
  BY <1>6, <1>10, AllGathered, Zenon
<1> QED
  BY <1>3, <1>8, <1>9, <1>10, <1>11 DEF Third

\* x: the local in scope, with its type.
LEMMA PathChecked ==
    ASSUME NEW c, NEW f, NEW r, NEW p, NEW expected, NEW s, Call(c, f, r, p, expected, s),
           f[p].op = "x", NEW t, t = CheckPath(p, expected, s), Okay(t)
    PROVE  CheckPost(f, r, p, expected, s, t)
<1>1. IsBody(f) /\ p \in DOMAIN f /\ expected \in Types \cup {None} /\ CheckPre(f, p, s)
  BY DEF Call
<1>3. /\ s \in Checkers(f) /\ s.ok = TRUE /\ Visible(f, p, s.scope)
      /\ s.info[s.scope].ty \in Types /\ s.info[s.scope].val = s.info[s.scope].ty
  BY <1>1 DEF CheckPre
<1>4. s.scope \in Ids(f) /\ s.scope # p /\ p \in Ids(f) /\ s.info \in [Ids(f) -> Info] /\ s.info[p] \in Info /\ s.scope \in Int
  <2>1. s.scope \in Ids(f) /\ s.scope \notin DOMAIN f
    BY <1>1, <1>3, VisibleFacts
  <2> QED
    BY <1>1, <1>3, <2>1, IdFacts, CheckerFields
<1> DEFINE ty == s.info[s.scope].val
           x == [s.info[p] EXCEPT !.local = s.scope]
           g == [s.info EXCEPT ![p] = x]
           v == [s EXCEPT !.info[p].local = s.scope]
           div == (ty = Never)
<1>5. x \in Info /\ x.local = s.scope
  BY <1>4 DEF Info
<1>6. v = [s EXCEPT !.info = g]
  BY <1>3, <1>4 DEF Checkers
<1>7. g \in [Ids(f) -> Info] /\ g[p] = x /\ \A j \in Ids(f) : j # p => g[j] = s.info[j]
  <2> HIDE DEF x
  <2> QED
    BY <1>4, <1>5
<1>8. t = Typed(v, p, ty, expected, div)
  BY DEF CheckPath
<1> HIDE DEF x, g, v
<1>9. v \in Checkers(f) /\ v.info = g /\ v.ok = s.ok /\ v.frames = s.frames /\ v.scope = s.scope
  BY <1>3, <1>6, <1>7, InfoReplaced
<1>10. Len(f[p].sub) = 0
  BY <1>1, OpArity
<1>11. f[p].last = p /\ p \in Nat
  BY <1>1, <1>10, NoChild
<1>12. Gathered(f, r, p, s, v)
  <2>2. \A j \in Ids(f) : Home(j) < p => v.info[j] = s.info[j]
    <3>1. Home(p) = p
      BY <1>1, IdFacts
    <3> QED
      BY <1>7, <1>9, <1>11, <3>1
  <2>3. FramesGrow(f, v.info, p + 1, p, s.frames, v.frames)
    <3>1. s.frames \in Seq(Frame)
      BY <1>3, CheckerFields
    <3> QED
      BY <1>9, <3>1 DEF FramesGrow
  <2>4. p + 1 .. p = {}
    BY <1>11
  <2> QED
    BY <1>3, <1>9, <1>11, <2>2, <2>3, <2>4 DEF Span, Gathered
<1>13. Ending(ty, div) /\ f[p].op \notin Breaks
  BY <1>3 DEF Breaks, Ending
<1>14. Obeys(f, r, v, t, p, ty, div)
  <2> SUFFICES ASSUME Recorded(f, v, t, p, ty, div) PROVE Rule(f, r, t.info, p)
    BY DEF Obeys
  <2>1. t.info[p].ty = ty /\ t.info[p].local = s.scope /\ t.info[s.scope].ty = ty /\ (Ends(t.info, p) => ty = Never)
    BY <1>3, <1>4, <1>5, <1>7, <1>9, ZenonT(60) DEF Recorded, Ends
  <2> QED
    BY <1>3, <2>1 DEF Rule, ValueRule, BlockRule, OperatorRule, BranchRule, JumpRule
<1> HIDE DEF ty, div
<1>15. Closes(f, r, p, expected, s, t, ty)
  BY <1>1, <1>8, <1>12, <1>13, <1>14, TypedClosed
<1> QED
  BY <1>15 DEF Closes

\* !a
LEMMA NotChecked ==
    ASSUME NEW c, NEW f, NEW r, NEW p, NEW expected, NEW s, Call(c, f, r, p, expected, s),
           f[p].op = "not", NEW t, t = CheckNot(c, p, expected, s), Okay(t)
    PROVE  CheckPost(f, r, p, expected, s, t)
<1>1. IsBody(f) /\ p \in DOMAIN f /\ c.body = f /\ expected \in Types \cup {None}
  BY DEF Call
<1>2. Len(f[p].sub) = 1 /\ 1 \in 1 .. Len(f[p].sub)
  BY <1>1, OpArity
<1> DEFINE one == f[p].sub[1]
           a == CheckSub(c, one, None, s)
<1>3. Okay(a) /\ t = IF a.info[one].val = Bool THEN Typed(a, p, Bool, expected, a.div) ELSE Fail(a)
  BY <1>1 DEF CheckNot, Child, Then, Okay
<1>4. Runs(c, f, p, 1, None, s, a)
  BY <1>2, <1>3 DEF Runs
<1> HIDE DEF a
<1>5. Gathered(f, r, p, s, a) /\ Got(f, one, None, s, a)
  BY <1>2, <1>4, OneCall
<1>6. a \in Checkers(f) /\ a.div \in BOOLEAN /\ (a.div = TRUE <=> Ends(a.info, one)) /\ Is(a.info, one, a.info[one].val)
  BY <1>5, SMTT(60) DEF Got
<1>7. a.info[one].val = Bool /\ t = Typed(a, p, Bool, expected, a.div)
  BY <1>3, <1>6, Failed
<1>8. Ending(Bool, a.div) /\ f[p].op \notin Breaks
  BY <1>6 DEF Types, Never, Bool, Breaks, Ending
<1>9. Obeys(f, r, a, t, p, Bool, a.div)
  <2> SUFFICES ASSUME Recorded(f, a, t, p, Bool, a.div) PROVE Rule(f, r, t.info, p)
    BY DEF Obeys
  <2>1. one \in Ids(f) /\ one # p
    BY <1>1, <1>2, ChildrenBetween, IdFacts
  <2>2. t.info[p].ty = Bool /\ t.info[one] = a.info[one] /\ (Ends(t.info, p) => a.div = TRUE)
    BY <2>1 DEF Recorded, Ends
  <2>3. Is(t.info, one, Bool) /\ (Ends(t.info, p) => Ends(t.info, one))
    BY <1>6, <1>7, <2>2 DEF Is, Ends
  <2> QED
    BY <2>2, <2>3 DEF Rule, ValueRule, BlockRule, OperatorRule, BranchRule, JumpRule
<1>10. Closes(f, r, p, expected, s, t, Bool)
  BY <1>1, <1>5, <1>7, <1>8, <1>9, TypedClosed
<1> QED
  BY <1>10 DEF Closes

\* A child is another id than its parent.
LEMMA ChildApart ==
    ASSUME NEW f, IsBody(f), NEW p \in DOMAIN f
    PROVE  \A k \in 1 .. Len(f[p].sub) : f[p].sub[k] \in DOMAIN f /\ f[p].sub[k] \in Ids(f) /\ f[p].sub[k] # p /\ p < f[p].sub[k]
<1> SUFFICES ASSUME NEW k \in 1 .. Len(f[p].sub)
             PROVE  f[p].sub[k] \in DOMAIN f /\ f[p].sub[k] \in Ids(f) /\ f[p].sub[k] # p /\ p < f[p].sub[k]
  OBVIOUS
<1>1. p \in Nat /\ f[p].sub[k] \in DOMAIN f /\ f[p].sub[k] \in Nat /\ p < f[p].sub[k]
  BY ChildrenBetween
<1>2. f[p].sub[k] \in Ids(f)
  BY <1>1, IdFacts, SMTT(60)
<1> QED
  BY <1>1, <1>2

\* What is known of a node and its first two children in the end.
BothKept(f, p, a, b, t, ty, div) ==
  /\ t.info[f[p].sub[1]] = a.info[f[p].sub[1]] /\ t.info[f[p].sub[2]] = b.info[f[p].sub[2]]
  /\ (a.div = TRUE <=> Ends(t.info, f[p].sub[1])) /\ (b.div = TRUE <=> Ends(t.info, f[p].sub[2]))
  /\ a.div \in BOOLEAN /\ b.div \in BOOLEAN
  /\ Is(t.info, f[p].sub[1], a.info[f[p].sub[1]].val) /\ Is(t.info, f[p].sub[2], b.info[f[p].sub[2]].val)
  /\ t.info[p].ty = ty /\ t.info[p].div = div

\* Recording a type at a node leaves what is known of its children.
LEMMA SecondKept ==
    ASSUME NEW f, IsBody(f), NEW p \in DOMAIN f, Len(f[p].sub) = 2, NEW w1, NEW w2,
           NEW s, NEW a, NEW b, NEW t, NEW ty, NEW div, Second(f, p, w1, w2, s, a, b), Recorded(f, b, t, p, ty, div)
    PROVE  BothKept(f, p, a, b, t, ty, div)
<1>0. 1 \in 1 .. Len(f[p].sub) /\ 2 \in 1 .. Len(f[p].sub)
  OBVIOUS
<1>1. /\ f[p].sub[1] \in Ids(f) /\ f[p].sub[1] # p /\ f[p].sub[2] \in Ids(f) /\ f[p].sub[2] # p
  BY <1>0, ChildApart
<1>2. /\ t.info[f[p].sub[1]] = b.info[f[p].sub[1]] /\ t.info[f[p].sub[2]] = b.info[f[p].sub[2]]
      /\ t.info[p].ty = ty /\ t.info[p].div = div
  BY <1>1 DEF Recorded
<1>3. b.info[f[p].sub[1]] = a.info[f[p].sub[1]] /\ Got(f, f[p].sub[1], w1, s, a) /\ Got(f, f[p].sub[2], w2, a, b)
  BY SMTT(60) DEF Second
<1>4. /\ (a.div = TRUE <=> Ends(a.info, f[p].sub[1])) /\ a.div \in BOOLEAN /\ Is(a.info, f[p].sub[1], a.info[f[p].sub[1]].val)
      /\ (b.div = TRUE <=> Ends(b.info, f[p].sub[2])) /\ b.div \in BOOLEAN /\ Is(b.info, f[p].sub[2], b.info[f[p].sub[2]].val)
  BY <1>3 DEF Got
<1> QED
  BY <1>2, <1>3, <1>4 DEF Ends, Is, BothKept

\* a ^ b, a == b, a && b, a || b
LEMMA BinaryChecked ==
    ASSUME NEW c, NEW f, NEW r, NEW p, NEW expected, NEW s, Call(c, f, r, p, expected, s),
           f[p].op \in {"xor", "eq", "and", "or"}, NEW t, t = CheckBinary(c, p, expected, s), Okay(t)
    PROVE  CheckPost(f, r, p, expected, s, t)
<1>1. IsBody(f) /\ p \in DOMAIN f /\ c.body = f /\ expected \in Types \cup {None}
  BY DEF Call
<1>2. Len(f[p].sub) = 2 /\ 1 \in 1 .. Len(f[p].sub) /\ 2 \in 1 .. Len(f[p].sub)
  BY <1>1, OpArity, SMTT(60)
<1> DEFINE one == f[p].sub[1]
           two == f[p].sub[2]
           a == CheckSub(c, one, None, s)
           b == CheckSub(c, two, None, a)
           div == a.div \/ b.div
<1>3. Okay(a) /\ Okay(b)
      /\ t = IF f[p].op # "eq" /\ {b.info[one].val, b.info[two].val} # {Bool} THEN Fail(b) ELSE Typed(b, p, Bool, expected, div)
  BY <1>1, SMTT(60) DEF CheckBinary, Child, Then, Okay
<1>4. Runs(c, f, p, 1, None, s, a) /\ Runs(c, f, p, 2, None, a, b)
  BY <1>2, <1>3, Zenon DEF Runs
<1> HIDE DEF a, b
<1>5. Gathered(f, r, p, s, b) /\ Second(f, p, None, None, s, a, b)
  BY <1>2, <1>4, TwoCalls
<1>6. b \in Checkers(f) /\ a.div \in BOOLEAN /\ b.div \in BOOLEAN /\ b.info[one] = a.info[one]
  BY <1>5 DEF Second, Got
<1>7. (f[p].op # "eq" => {b.info[one].val, b.info[two].val} = {Bool}) /\ t = Typed(b, p, Bool, expected, div)
  BY <1>3, <1>6, Failed, Zenon
<1>8. Ending(Bool, div) /\ f[p].op \notin Breaks
  BY <1>6 DEF Types, Never, Bool, Breaks, Ending
<1>9. Obeys(f, r, b, t, p, Bool, div)
  <2> SUFFICES ASSUME Recorded(f, b, t, p, Bool, div) PROVE Rule(f, r, t.info, p)
    BY DEF Obeys
  <2>1. /\ (a.div = TRUE <=> Ends(t.info, one)) /\ (b.div = TRUE <=> Ends(t.info, two))
        /\ Is(t.info, one, a.info[one].val) /\ Is(t.info, two, b.info[two].val)
        /\ t.info[p].ty = Bool /\ t.info[p].div = div
    <3>1. BothKept(f, p, a, b, t, Bool, div)
      BY <1>1, <1>2, <1>5, SecondKept, SMTT(60)
    <3> QED
      BY <3>1 DEF BothKept
  <2>2. Ends(t.info, p) => Ends(t.info, one) \/ Ends(t.info, two)
    BY <1>6, <2>1 DEF Ends
  <2>3. f[p].op # "eq" => a.info[one].val = Bool /\ b.info[two].val = Bool
    BY <1>6, <1>7, Zenon
  <2> QED
    BY <2>1, <2>2, <2>3, ZenonT(60) DEF Rule, ValueRule, BlockRule, OperatorRule, BranchRule, JumpRule
<1> HIDE DEF div
<1>10. Closes(f, r, p, expected, s, t, Bool)
  BY <1>1, <1>5, <1>7, <1>8, <1>9, TypedClosed
<1> QED
  BY <1>10 DEF Closes

\* x = a
LEMMA AssignChecked ==
    ASSUME NEW c, NEW f, NEW r, NEW p, NEW expected, NEW s, Call(c, f, r, p, expected, s),
           f[p].op = "set", NEW t, t = CheckAssign(c, p, expected, s), Okay(t)
    PROVE  CheckPost(f, r, p, expected, s, t)
<1>1. IsBody(f) /\ p \in DOMAIN f /\ c.body = f /\ expected \in Types \cup {None}
  BY DEF Call
<1>2. Len(f[p].sub) = 2 /\ 1 \in 1 .. Len(f[p].sub) /\ 2 \in 1 .. Len(f[p].sub)
  BY <1>1, OpArity, SMTT(60)
<1> DEFINE one == f[p].sub[1]
           two == f[p].sub[2]
           a == CheckSub(c, one, None, s)
           w == a.info[one].val
           b == CheckSub(c, two, w, a)
           div == a.div \/ b.div
<1>3. Okay(a) /\ Okay(b) /\ t = Typed(b, p, Unit, expected, div)
  BY <1>1, ZenonT(60) DEF CheckAssign, Child, Then, Okay
<1>4. Runs(c, f, p, 1, None, s, a)
  BY <1>2, <1>3, Zenon DEF Runs
<1>41. Got(f, one, None, s, a)
  <2> HIDE DEF a
  <2> QED
    BY <1>4, FirstGot, SMTT(60)
<1>42. w \in Types
  BY <1>41, ZenonT(60) DEF Got
<1>43. Runs(c, f, p, 2, w, a, b)
  BY <1>2, <1>3, <1>42, Zenon DEF Runs
<1> HIDE DEF a, b
<1>5. Gathered(f, r, p, s, b) /\ Second(f, p, None, w, s, a, b)
  BY <1>2, <1>4, <1>43, TwoCalls
<1>6. b \in Checkers(f) /\ a.div \in BOOLEAN /\ b.div \in BOOLEAN /\ b.info[one] = a.info[one] /\ b.info[two].val = w
  BY <1>5, <1>42, Zenon DEF Second, Got, Types, None, Never, Unit, Bool
<1>8. Ending(Unit, div) /\ f[p].op \notin Breaks
  BY <1>6, SMTT(60) DEF Types, Never, Unit, Breaks, Ending
<1>9. Obeys(f, r, b, t, p, Unit, div)
  <2> SUFFICES ASSUME Recorded(f, b, t, p, Unit, div) PROVE Rule(f, r, t.info, p)
    BY SMTT(60) DEF Obeys
  <2>1. /\ (a.div = TRUE <=> Ends(t.info, one)) /\ (b.div = TRUE <=> Ends(t.info, two))
        /\ Is(t.info, one, w) /\ Is(t.info, two, w)
        /\ t.info[p].ty = Unit /\ t.info[p].div = div
    <3>1. BothKept(f, p, a, b, t, Unit, div)
      BY <1>1, <1>2, <1>5, SecondKept, SMTT(60)
    <3> QED
      BY <3>1, <1>6 DEF BothKept
  <2>2. Ends(t.info, p) => Ends(t.info, one) \/ Ends(t.info, two)
    BY <1>6, <2>1 DEF Ends
  <2>3. ~Ends(t.info, one) => Is(t.info, two, t.info[one].ty)
    BY <2>1 DEF Is
  <2> QED
    BY <2>1, <2>2, <2>3 DEF Rule, ValueRule, BlockRule, OperatorRule, BranchRule, JumpRule
<1> HIDE DEF div
<1>10. Closes(f, r, p, expected, s, t, Unit)
  BY <1>1, <1>3, <1>5, <1>8, <1>9, TypedClosed
<1> QED
  BY <1>10 DEF Closes

\* if a { b }
LEMMA IfChecked ==
    ASSUME NEW c, NEW f, NEW r, NEW p, NEW expected, NEW s, Call(c, f, r, p, expected, s),
           f[p].op = "if", NEW t, t = CheckIf(c, p, expected, s), Okay(t)
    PROVE  CheckPost(f, r, p, expected, s, t)
<1>1. IsBody(f) /\ p \in DOMAIN f /\ c.body = f /\ expected \in Types \cup {None}
  BY DEF Call
<1>2. Len(f[p].sub) = 2 /\ 1 \in 1 .. Len(f[p].sub) /\ 2 \in 1 .. Len(f[p].sub)
  BY <1>1, OpArity
<1> DEFINE one == f[p].sub[1]
           two == f[p].sub[2]
           a == CheckSub(c, one, Bool, s)
           b == CheckSub(c, two, Unit, a)
<1>3. Okay(a) /\ Okay(b) /\ t = Typed(b, p, Unit, expected, a.div)
  BY <1>1 DEF CheckIf, Child, Then, Okay
<1>4. Runs(c, f, p, 1, Bool, s, a) /\ Runs(c, f, p, 2, Unit, a, b)
  BY <1>2, <1>3 DEF Runs, Types
<1> HIDE DEF a, b
<1>5. Gathered(f, r, p, s, b) /\ Second(f, p, Bool, Unit, s, a, b)
  BY <1>2, <1>4, TwoCalls
<1>6. a.div \in BOOLEAN /\ a.info[one].val = Bool /\ b.info[two].val = Unit
  BY <1>5, Zenon DEF Second, Got, None, Bool, Unit
<1>8. Ending(Unit, a.div) /\ f[p].op \notin Breaks
  BY <1>6 DEF Types, Never, Unit, Breaks, Ending
<1>9. Obeys(f, r, b, t, p, Unit, a.div)
  <2> SUFFICES ASSUME Recorded(f, b, t, p, Unit, a.div) PROVE Rule(f, r, t.info, p)
    BY DEF Obeys
  <2>1. /\ (a.div = TRUE <=> Ends(t.info, one))
        /\ Is(t.info, one, Bool) /\ Is(t.info, two, Unit) /\ t.info[p].ty = Unit /\ t.info[p].div = a.div
    <3>1. BothKept(f, p, a, b, t, Unit, a.div)
      BY <1>1, <1>2, <1>5, SecondKept
    <3> QED
      BY <3>1, <1>6 DEF BothKept
  <2>2. Ends(t.info, p) => Ends(t.info, one)
    BY <2>1 DEF Ends
  <2> QED
    BY <2>1, <2>2 DEF Rule, ValueRule, BlockRule, OperatorRule, BranchRule, JumpRule
<1>10. Closes(f, r, p, expected, s, t, Unit)
  BY <1>1, <1>3, <1>5, <1>8, <1>9, TypedClosed
<1> QED
  BY <1>10 DEF Closes

\* The least upper bound of two types is one of them, and both coerce to it.
LEMMA LubFacts ==
    ASSUME NEW T, NEW to, to = Lub(T), to # None
    PROVE  to \in T /\ \A from \in T : Coerces(from, to)
<1>1. \E x \in T : \A from \in T : Coerces(from, x)
  BY DEF Lub
<1>2. to = CHOOSE x \in T : \A from \in T : Coerces(from, x)
  BY <1>1 DEF Lub
<1> QED
  BY <1>1, <1>2

\* Only the types after coercion change.
CoercedAs(f, t, u, nodes, to) ==
  /\ u \in Checkers(f) /\ u.ok = TRUE /\ u.div = t.div /\ u.frames = t.frames /\ u.scope = t.scope
  /\ \A j \in Ids(f) : SameAt(t.info, u.info, j) /\ (j \notin nodes => u.info[j] = t.info[j])
  /\ \A j \in nodes : Coerces(t.info[j].ty, to) /\ u.info[j].val = to

\* A coercion that succeeds.
LEMMA CoerceFacts ==
    ASSUME NEW f, NEW t \in Checkers(f), t.ok = TRUE, NEW nodes \in SUBSET Ids(f), NEW to \in Types,
           NEW u, u = Coerce(t, nodes, to), Okay(u)
    PROVE  CoercedAs(f, t, u, nodes, to)
<1> DEFINE g == [q \in DOMAIN t.info |-> IF q \in nodes THEN [t.info[q] EXCEPT !.val = to] ELSE t.info[q]]
<1>1. /\ DOMAIN t.info = Ids(f) /\ \A j \in Ids(f) : t.info[j] \in Info
  BY CheckerFields
<1>2. \A q \in nodes : Coerces(t.info[q].ty, to)
  <2> SUFFICES ASSUME ~(\A q \in nodes : Coerces(t.info[q].ty, to)) PROVE FALSE
    OBVIOUS
  <2>1. u = Fail(t)
    BY DEF Coerce
  <2> QED
    BY <2>1, Failed
<1>3. u = [t EXCEPT !.info = g]
  BY <1>2 DEF Coerce
<1>4. ASSUME NEW j \in Ids(f)
      PROVE  /\ g[j] \in Info /\ g[j].ty = t.info[j].ty /\ g[j].div = t.info[j].div
             /\ g[j].jump = t.info[j].jump /\ g[j].local = t.info[j].local
             /\ (j \notin nodes => g[j] = t.info[j]) /\ (j \in nodes => g[j].val = to)
  <2>1. t.info[j] \in Info /\ g[j] = IF j \in nodes THEN [t.info[j] EXCEPT !.val = to] ELSE t.info[j]
    BY <1>1
  <2> DEFINE y == t.info[j]
             z == [y EXCEPT !.val = to]
  <2>2. y \in Info
    BY <2>1
  <2> HIDE DEF y
  <2>3. z \in Info /\ z.ty = y.ty /\ z.div = y.div /\ z.jump = y.jump /\ z.local = y.local /\ z.val = to
    BY <2>2 DEF Info
  <2> QED
    BY <2>1, <2>3, Zenon DEF y
<1>5. g \in [Ids(f) -> Info]
  BY <1>1, <1>4
<1> HIDE DEF g
<1>6. u \in Checkers(f) /\ u.info = g /\ u.ok = t.ok /\ u.div = t.div /\ u.frames = t.frames /\ u.scope = t.scope
  BY <1>3, <1>5, InfoReplaced
<1> QED
  BY <1>2, <1>4, <1>6 DEF CoercedAs, SameAt

\* A coercion of nodes below p leaves what is known of them.
LEMMA GatheredCoerced ==
    ASSUME NEW c, NEW f, NEW r, NEW p, NEW expected, NEW s, Call(c, f, r, p, expected, s),
           NEW t, Gathered(f, r, p, s, t), NEW u, NEW nodes, NEW to, CoercedAs(f, t, u, nodes, to), to \in Types,
           nodes \subseteq p + 1 .. f[p].last
    PROVE  Gathered(f, r, p, s, u)
<1>0. IsBody(f) /\ p \in DOMAIN f
  BY DEF Call
<1>1. Row(f, p + 1, f[p].last) /\ p \in Nat /\ f[p].last \in Nat
  BY <1>0, SubtreeRow, NodeFacts
<1>2. /\ t \in Checkers(f) /\ t.ok = TRUE /\ t.scope = s.scope /\ u \in Checkers(f) /\ u.ok = TRUE /\ u.scope = s.scope
      /\ u.frames = t.frames /\ \A j \in Ids(f) : SameAt(t.info, u.info, j) /\ (j \notin nodes => u.info[j] = t.info[j])
      /\ \A j \in nodes : Coerces(t.info[j].ty, to) /\ u.info[j].val = to
  BY DEF Gathered, CoercedAs
<1>3. /\ \A j \in Ids(f) : Home(j) < p => t.info[j] = s.info[j]
      /\ FramesGrow(f, t.info, p + 1, f[p].last, s.frames, t.frames)
      /\ \A q \in p + 1 .. f[p].last : Checked(f, r, t.info, p + 1, Pending(t.frames), q)
  BY DEF Gathered, Span
<1>4. ASSUME NEW j \in Ids(f), Home(j) < p PROVE u.info[j] = s.info[j]
  <2>1. j \notin nodes
    <3> SUFFICES ASSUME j \in nodes PROVE FALSE
      OBVIOUS
    <3>1. j \in p + 1 .. f[p].last /\ j \in DOMAIN f
      BY <1>1 DEF Row
    <3>2. Home(j) = j /\ j > p
      BY <1>0, <1>1, <3>1, IdFacts
    <3> QED
      BY <1>1, <1>4, <3>2
  <2> QED
    BY <1>2, <1>3, <1>4, <2>1
<1>5. FramesGrow(f, u.info, p + 1, f[p].last, s.frames, u.frames)
  BY <1>0, <1>1, <1>2, <1>3, FramesStable
<1>6. ASSUME NEW q \in p + 1 .. f[p].last PROVE Checked(f, r, u.info, p + 1, Pending(u.frames), q)
  <2>1. Checked(f, r, t.info, p + 1, Pending(t.frames), q) /\ q \in DOMAIN f
    BY <1>1, <1>3 DEF Row
  <2>2. q \in Ids(f)
    BY <1>0, <2>1, IdFacts
  <2>3. Settled(u.info, q)
    BY <1>2, <2>1, <2>2 DEF Checked, Settled, Ends, SameAt
  <2> QED
    BY <1>0, <1>1, <1>2, <2>1, <2>3, CheckedStable
<1> QED
  BY <1>2, <1>4, <1>5, <1>6 DEF Gathered, Span

\* Nothing succeeds after a failure.
LEMMA TypedFailed ==
    ASSUME NEW f, NEW s \in Checkers(f), NEW p, NEW ty, NEW want, NEW div
    PROVE  ~Okay(Typed(Fail(s), p, ty, want, div))
<1> DEFINE x == Fail(s)
           y == Record(x, p, ty, ty)
           z == [y EXCEPT !.div = div, !.info[p].div = div]
<1>1. x.ok = FALSE /\ DOMAIN x = {"ok", "div", "info", "frames", "scope"}
  BY DEF Fail, Checkers
<1> HIDE DEF x
<1>2. y.ok = FALSE /\ DOMAIN y = {"ok", "div", "info", "frames", "scope"}
  BY <1>1 DEF Record
<1> HIDE DEF y
<1>3. z.ok = FALSE /\ DOMAIN z = {"ok", "div", "info", "frames", "scope"}
  BY <1>2
<1> HIDE DEF z
<1>4. Coerce(z, {p}, want).ok = FALSE
  BY <1>3 DEF Coerce, Fail
<1>5. Typed(x, p, ty, want, div) = IF want = None THEN z ELSE Coerce(z, {p}, want)
  BY DEF Typed, y, z
<1> QED
  BY <1>3, <1>4, <1>5 DEF x, Okay

\* What is typed after a coercion has been coerced.
LEMMA CoerceSucceeds ==
    ASSUME NEW f, NEW s \in Checkers(f), s.ok = TRUE, NEW nodes, NEW to, NEW u, u = Coerce(s, nodes, to),
           NEW p, NEW ty, NEW want, NEW div, Okay(Typed(u, p, ty, want, div))
    PROVE  Okay(u)
<1>1. u # Fail(s)
  BY TypedFailed
<1> QED
  BY <1>1 DEF Coerce, Okay, Checkers

\* if a { b } else { c }
LEMMA IfElseChecked ==
    ASSUME NEW c, NEW f, NEW r, NEW p, NEW expected, NEW s, Call(c, f, r, p, expected, s),
           f[p].op = "ifelse", NEW t, t = CheckIfElse(c, p, expected, s), Okay(t)
    PROVE  CheckPost(f, r, p, expected, s, t)
<1>1. IsBody(f) /\ p \in DOMAIN f /\ c.body = f /\ expected \in Types \cup {None}
  BY DEF Call
<1>2. Len(f[p].sub) = 3 /\ 1 \in 1 .. Len(f[p].sub) /\ 2 \in 1 .. Len(f[p].sub) /\ 3 \in 1 .. Len(f[p].sub)
  BY <1>1, OpArity
<1> DEFINE one == f[p].sub[1]
           two == f[p].sub[2]
           three == f[p].sub[3]
           a == CheckSub(c, one, Bool, s)
           b == CheckSub(c, two, expected, a)
           d == CheckSub(c, three, expected, b)
           lub == Lub({d.info[two].val, d.info[three].val})
           div == a.div \/ (b.div /\ d.div)
           u == IF expected # None THEN d ELSE Coerce(d, {two, three}, lub)
           ty == IF expected # None THEN expected ELSE lub
<1>3. Okay(a) /\ Okay(b) /\ Okay(d)
      /\ t = IF expected # None THEN Typed(d, p, expected, expected, div)
             ELSE IF lub = None THEN Fail(d) ELSE Typed(Coerce(d, {two, three}, lub), p, lub, None, div)
  BY <1>1, ZenonT(60) DEF CheckIfElse, Child, Then, Okay, IfDiverges
<1>4. Runs(c, f, p, 1, Bool, s, a) /\ Runs(c, f, p, 2, expected, a, b) /\ Runs(c, f, p, 3, expected, b, d)
  BY <1>1, <1>2, <1>3, Zenon DEF Runs, Types
<1> HIDE DEF a, b, d
<1>5. Gathered(f, r, p, s, d) /\ Third(f, p, Bool, expected, expected, s, a, b, d)
  BY <1>2, <1>4, ThreeCalls
<1>6. /\ Got(f, one, Bool, s, a) /\ Got(f, two, expected, a, b) /\ Got(f, three, expected, b, d)
      /\ d.info[one] = a.info[one] /\ d.info[two] = b.info[two] /\ d \in Checkers(f) /\ d.ok = TRUE
  BY <1>5, Zenon DEF Third, Second, Got
<1>7. /\ (a.div = TRUE <=> Ends(d.info, one)) /\ a.div \in BOOLEAN /\ Is(d.info, one, Bool)
      /\ (b.div = TRUE <=> Ends(d.info, two)) /\ b.div \in BOOLEAN /\ Settled(d.info, two) /\ d.info[two].val \in Types
      /\ (d.div = TRUE <=> Ends(d.info, three)) /\ d.div \in BOOLEAN /\ Settled(d.info, three) /\ d.info[three].val \in Types
      /\ expected # None => d.info[two].val = expected /\ d.info[three].val = expected
  BY <1>6, Zenon DEF Got, Ends, Is, Settled, None, Bool
<1>8. expected = None => lub # None
  BY <1>3, <1>6, Failed, Zenon
<1>9. expected = None => lub \in {d.info[two].val, d.info[three].val} /\ \A from \in {d.info[two].val, d.info[three].val} : Coerces(from, lub)
  BY <1>8, LubFacts
<1>10. ty \in Types
  BY <1>1, <1>7, <1>9
<1>11. two \in Ids(f) /\ three \in Ids(f) /\ one \in Ids(f) /\ one # p /\ two # p /\ three # p
  BY <1>1, <1>2, ChildApart
<1>111. {two, three} \subseteq p + 1 .. f[p].last
  <2>1. /\ p \in Nat /\ f[p].last \in Nat /\ two \in Nat /\ p < two /\ two <= f[two].last /\ f[two].last <= f[p].last /\ f[two].last \in Nat
    BY <1>1, <1>2, ChildrenBetween
  <2>2. /\ three \in Nat /\ p < three /\ three <= f[three].last /\ f[three].last <= f[p].last /\ f[three].last \in Nat
    BY <1>1, <1>2, ChildrenBetween
  <2> HIDE DEF two, three
  <2> QED
    BY <2>1, <2>2
<1>12. t = Typed(u, p, ty, expected, div)
  BY <1>3, <1>8, Zenon
<1>13. ty = Never => div = TRUE
  <2> SUFFICES ASSUME ty = Never PROVE Ends(d.info, two) /\ Ends(d.info, three)
    BY <1>7, SMTT(60)
  <2>1. Coerces(d.info[two].val, Never) /\ Coerces(d.info[three].val, Never)
    BY <1>7, <1>9 DEF Coerces
  <2> QED
    BY <1>7, <2>1, ZenonT(60) DEF Coerces, Settled
<1>14. div \in BOOLEAN
  BY <1>7
<1> HIDE DEF lub, div, one, two, three
<1>15. Gathered(f, r, p, s, u) /\ (\A j \in Ids(f) : SameAt(d.info, u.info, j)) /\ Coerces(d.info[two].ty, ty) /\ Coerces(d.info[three].ty, ty)
  <2>1. CASE expected # None
    BY <1>5, <1>7, <2>1 DEF SameAt, Settled
  <2>2. CASE expected = None
    <3>1. u = Coerce(d, {two, three}, lub)
      BY <2>2
    <3>2. ty = lub
      BY <2>2
    <3> HIDE DEF u, ty
    <3>3. Okay(u)
      BY <1>6, <1>12, <3>1, CoerceSucceeds, ZenonT(60)
    <3>4. CoercedAs(f, d, u, {two, three}, lub)
      BY <1>6, <1>10, <1>11, <3>1, <3>2, <3>3, CoerceFacts, Zenon
    <3>5. Gathered(f, r, p, s, u)
      BY <1>5, <1>10, <1>111, <3>2, <3>4, GatheredCoerced
    <3> QED
      BY <3>2, <3>4, <3>5 DEF CoercedAs
  <2> QED
    BY <2>1, <2>2
<1> HIDE DEF u, ty
<1>16. Obeys(f, r, u, t, p, ty, div)
  <2> SUFFICES ASSUME Recorded(f, u, t, p, ty, div) PROVE Rule(f, r, t.info, p)
    BY DEF Obeys
  <2>1. /\ t.info[p].ty = ty /\ t.info[p].div = div /\ t.info[one] = u.info[one] /\ t.info[two] = u.info[two] /\ t.info[three] = u.info[three]
    BY <1>11 DEF Recorded
  <2>2. /\ t.info[one].ty = d.info[one].ty /\ (Ends(t.info, one) <=> Ends(d.info, one))
        /\ t.info[two].ty = d.info[two].ty /\ (Ends(t.info, two) <=> Ends(d.info, two))
        /\ t.info[three].ty = d.info[three].ty /\ (Ends(t.info, three) <=> Ends(d.info, three))
    BY <1>11, <1>15, <2>1 DEF SameAt, Ends
  <2>3. Is(t.info, one, Bool) /\ Is(t.info, two, ty) /\ Is(t.info, three, ty)
    BY <1>7, <1>15, <2>2 DEF Is, Coerces, Settled
  <2>4. Ends(t.info, p) => Ends(t.info, one) \/ (Ends(t.info, two) /\ Ends(t.info, three))
    BY <1>7, <2>1, <2>2 DEF Ends, div
  <2> QED
    BY <2>1, <2>3, <2>4 DEF Rule, ValueRule, BlockRule, OperatorRule, BranchRule, JumpRule, one, two, three
<1>17. Ending(ty, div) /\ f[p].op \notin Breaks
  BY <1>10, <1>13, <1>14 DEF Ending, Breaks
<1>18. Closes(f, r, p, expected, s, t, ty)
  BY <1>1, <1>12, <1>15, <1>16, <1>17, TypedClosed
<1> QED
  BY <1>18 DEF Closes

\* return, return a
LEMMA ReturnChecked ==
    ASSUME NEW c, NEW f, NEW r, NEW p, NEW expected, NEW s, Call(c, f, r, p, expected, s),
           f[p].op \in {"return", "returnv"}, NEW t, t = CheckReturn(c, p, expected, s), Okay(t)
    PROVE  CheckPost(f, r, p, expected, s, t)
<1>1. IsBody(f) /\ p \in DOMAIN f /\ c.body = f /\ c.result = r /\ r \in {Unit, Bool} /\ expected \in Types \cup {None} /\ s \in Checkers(f)
  BY DEF Call, CheckPre
<1>2. Ending(Never, TRUE) /\ f[p].op \notin Breaks
  BY DEF Ending, Breaks, Types
<1>3. CASE f[p].op = "returnv"
  <2>1. Len(f[p].sub) = 1 /\ 1 \in 1 .. Len(f[p].sub)
    BY <1>1, <1>3, OpArity
  <2> DEFINE one == f[p].sub[1]
             a == CheckSub(c, one, r, s)
  <2>2. Okay(a) /\ t = Typed(a, p, Never, expected, TRUE)
    BY <1>1, <1>3, Zenon DEF CheckReturn, Child, Then, Okay
  <2>3. Runs(c, f, p, 1, r, s, a)
    BY <1>1, <2>1, <2>2 DEF Runs, Types
  <2> HIDE DEF a
  <2>4. Gathered(f, r, p, s, a) /\ Got(f, one, r, s, a)
    BY <2>1, <2>3, OneCall
  <2>5. Is(a.info, one, r)
    BY <1>1, <2>4 DEF Got, None, Unit, Bool
  <2>6. Obeys(f, r, a, t, p, Never, TRUE)
    <3> SUFFICES ASSUME Recorded(f, a, t, p, Never, TRUE) PROVE Rule(f, r, t.info, p)
      BY DEF Obeys
    <3>1. one \in Ids(f) /\ one # p
      BY <1>1, <2>1, ChildApart
    <3>2. Is(t.info, one, r)
      BY <2>5, <3>1 DEF Recorded, Is, Ends
    <3> QED
      BY <1>3, <3>2 DEF Rule, ValueRule, BlockRule, OperatorRule, BranchRule, JumpRule
  <2>7. Closes(f, r, p, expected, s, t, Never)
    BY <1>1, <1>2, <2>2, <2>4, <2>6, TypedClosed, Zenon
  <2> QED
    BY <2>7 DEF Closes
<1>4. CASE f[p].op = "return"
  <2>1. t = IF Coerces(Unit, r) THEN Typed(s, p, Never, expected, TRUE) ELSE Fail(s)
    BY <1>1, <1>4 DEF CheckReturn
  <2>2. Coerces(Unit, r) /\ t = Typed(s, p, Never, expected, TRUE)
    BY <1>1, <2>1, Failed, Zenon
  <2>3. r = Unit
    BY <2>2 DEF Coerces, Unit, Never
  <2>4. Len(f[p].sub) = 0
    BY <1>1, <1>4, OpArity
  <2>5. Gathered(f, r, p, s, s)
    BY <2>4, NoneGathered
  <2>6. Obeys(f, r, s, t, p, Never, TRUE)
    BY <1>4, <2>3 DEF Obeys, Rule, ValueRule, BlockRule, OperatorRule, BranchRule, JumpRule, Breaks
  <2>7. Closes(f, r, p, expected, s, t, Never)
    BY <1>1, <1>2, <2>2, <2>5, <2>6, TypedClosed, Zenon
  <2> QED
    BY <2>7 DEF Closes
<1> QED
  BY <1>3, <1>4

\* Only the jumps change.
JumpedAs(f, s, t, nodes, target) ==
  /\ t \in Checkers(f) /\ t.ok = s.ok /\ t.div = s.div /\ t.frames = s.frames /\ t.scope = s.scope
  /\ \A j \in Ids(f) : /\ t.info[j].ty = s.info[j].ty /\ t.info[j].val = s.info[j].val
                       /\ t.info[j].div = s.info[j].div /\ t.info[j].local = s.info[j].local
                       /\ (j \notin nodes => t.info[j] = s.info[j])
                       /\ (j \in nodes => t.info[j].jump = target)

\* Recording where some nodes jump to.
LEMMA JumpsFacts ==
    ASSUME NEW f, NEW s \in Checkers(f), NEW nodes, NEW target \in Nat, NEW t, t = RecordJumps(s, nodes, target)
    PROVE  JumpedAs(f, s, t, nodes, target)
<1> DEFINE g == [q \in DOMAIN s.info |-> IF q \in nodes THEN [s.info[q] EXCEPT !.jump = target] ELSE s.info[q]]
<1>1. /\ DOMAIN s.info = Ids(f) /\ \A j \in Ids(f) : s.info[j] \in Info
  BY CheckerFields
<1>3. t = [s EXCEPT !.info = g]
  BY DEF RecordJumps
<1>4. ASSUME NEW j \in Ids(f)
      PROVE  /\ g[j] \in Info /\ g[j].ty = s.info[j].ty /\ g[j].div = s.info[j].div
             /\ g[j].val = s.info[j].val /\ g[j].local = s.info[j].local
             /\ (j \notin nodes => g[j] = s.info[j]) /\ (j \in nodes => g[j].jump = target)
  <2>1. s.info[j] \in Info /\ g[j] = IF j \in nodes THEN [s.info[j] EXCEPT !.jump = target] ELSE s.info[j]
    BY <1>1
  <2> DEFINE y == s.info[j]
             z == [y EXCEPT !.jump = target]
  <2>2. y \in Info
    BY <2>1
  <2> HIDE DEF y
  <2>3. z \in Info /\ z.ty = y.ty /\ z.div = y.div /\ z.val = y.val /\ z.local = y.local /\ z.jump = target
    BY <2>2 DEF Info
  <2> QED
    BY <2>1, <2>3, Zenon DEF y
<1>5. g \in [Ids(f) -> Info]
  BY <1>1, <1>4
<1> HIDE DEF g
<1>6. t \in Checkers(f) /\ t.info = g /\ t.ok = s.ok /\ t.div = s.div /\ t.frames = s.frames /\ t.scope = s.scope
  BY <1>3, <1>5, InfoReplaced
<1> QED
  BY <1>4, <1>6 DEF JumpedAs

\* The innermost loop, at a place a jump is allowed.
InBody(f, p, s) ==
  /\ s.frames # <<>> /\ s.frames \in Seq(Frame) /\ Len(s.frames) \in Nat /\ Len(s.frames) > 0
  /\ Last(s.frames) = s.frames[Len(s.frames)] /\ Last(s.frames) \in Frame
  /\ Last(s.frames).id \in DOMAIN f /\ Last(s.frames).id \in Nat /\ Inside(f, Last(s.frames).id, p)
  /\ f[Last(s.frames).id].op = IF Last(s.frames).kind = "Loop" THEN "loop" ELSE "while"
  /\ Last(s.frames).expected \in Types \cup {None}

\* A jump inside a loop body finds its loop.
LEMMA InBodyFacts ==
    ASSUME NEW f, IsBody(f), NEW p \in DOMAIN f, NEW s, CheckPre(f, p, s), s.frames # <<>>, Last(s.frames).phase # "Condition"
    PROVE  InBody(f, p, s) /\ Last(s.frames).phase = "Body"
<1>1. s \in Checkers(f)
  BY DEF CheckPre
<1>2. s.frames \in Seq(Frame)
  BY <1>1, CheckerFields
<1>3. Len(s.frames) \in Nat /\ Len(s.frames) > 0 /\ Last(s.frames) = s.frames[Len(s.frames)] /\ Last(s.frames) \in Frame
  BY <1>2 DEF Last
<1>4. Last(s.frames).phase = "Body" /\ Last(s.frames).expected \in Types \cup {None}
  BY <1>3 DEF Frame
<1>5. /\ Last(s.frames).id \in DOMAIN f /\ Inside(f, Last(s.frames).id, p)
      /\ f[Last(s.frames).id].op = IF Last(s.frames).kind = "Loop" THEN "loop" ELSE "while"
  BY <1>4 DEF CheckPre
<1>6. Last(s.frames).id \in Nat
  BY <1>5, IdFacts
<1> QED
  BY <1>2, <1>3, <1>4, <1>5, <1>6 DEF InBody

\* continue
LEMMA ContinueChecked ==
    ASSUME NEW c, NEW f, NEW r, NEW p, NEW expected, NEW s, Call(c, f, r, p, expected, s),
           f[p].op = "continue", NEW t, t = CheckContinue(p, expected, s), Okay(t)
    PROVE  CheckPost(f, r, p, expected, s, t)
<1>1. IsBody(f) /\ p \in DOMAIN f /\ expected \in Types \cup {None} /\ CheckPre(f, p, s) /\ s \in Checkers(f) /\ s.ok = TRUE
  BY DEF Call, CheckPre
<1> DEFINE v == RecordJumps(s, {p}, Last(s.frames).id)
<1>2. s.frames # <<>> /\ Last(s.frames).phase # "Condition" /\ t = Typed(v, p, Never, expected, TRUE)
  BY <1>1, Failed, Zenon DEF CheckContinue
<1>3. InBody(f, p, s)
  BY <1>1, <1>2, InBodyFacts
<1>4. /\ Last(s.frames).id \in DOMAIN f /\ Last(s.frames).id \in Nat /\ Inside(f, Last(s.frames).id, p)
      /\ f[Last(s.frames).id].op \in {"loop", "while"}
  BY <1>3 DEF InBody
<1>5. JumpedAs(f, s, v, {p}, Last(s.frames).id)
  BY <1>1, <1>4, JumpsFacts
<1> HIDE DEF v
<1>6. /\ v \in Checkers(f) /\ v.ok = s.ok /\ v.frames = s.frames /\ v.scope = s.scope
      /\ \A j \in Ids(f) : j # p => v.info[j] = s.info[j]
      /\ p \in Ids(f) => v.info[p].jump = Last(s.frames).id
  BY <1>5 DEF JumpedAs
<1>7. Len(f[p].sub) = 0
  BY <1>1, OpArity
<1>8. f[p].last = p /\ p \in Nat /\ p \in Ids(f) /\ Home(p) = p
  BY <1>1, <1>7, NoChild, IdFacts
<1>9. Gathered(f, r, p, s, v)
  <2>2. \A j \in Ids(f) : Home(j) < p => v.info[j] = s.info[j]
    BY <1>6, <1>8
  <2>3. FramesGrow(f, v.info, p + 1, p, s.frames, v.frames)
    <3>1. s.frames \in Seq(Frame)
      BY <1>1, CheckerFields
    <3> QED
      BY <1>6, <3>1 DEF FramesGrow
  <2>4. p + 1 .. p = {}
    BY <1>8
  <2> QED
    BY <1>1, <1>6, <1>8, <2>2, <2>3, <2>4 DEF Span, Gathered
<1>10. Ending(Never, TRUE) /\ f[p].op \notin Breaks
  BY DEF Ending, Types, Breaks
<1>11. Obeys(f, r, v, t, p, Never, TRUE)
  <2> SUFFICES ASSUME Recorded(f, v, t, p, Never, TRUE) PROVE Rule(f, r, t.info, p)
    BY DEF Obeys
  <2>1. t.info[p].jump = Last(s.frames).id
    BY <1>6, <1>8 DEF Recorded
  <2> QED
    BY <1>4, <2>1 DEF Rule, ValueRule, BlockRule, OperatorRule, BranchRule, JumpRule
<1>12. Closes(f, r, p, expected, s, t, Never)
  BY <1>1, <1>2, <1>9, <1>10, <1>11, TypedClosed, Zenon
<1> QED
  BY <1>12 DEF Closes

\* The innermost loop with one break more.
AddBreak(frames, b) == [frames EXCEPT ![Len(frames)].breaks = @ \cup {b}]

\* One break more is one record more in the last frame.
LEMMA AddBreakFacts ==
    ASSUME NEW frames \in Seq(Frame), frames # <<>>, NEW b \in Break, NEW new, new = AddBreak(frames, b)
    PROVE  /\ new \in Seq(Frame) /\ Len(new) = Len(frames) /\ new # <<>>
           /\ \A k \in 1 .. Len(frames) : k # Len(frames) => new[k] = frames[k]
           /\ Last(new).id = Last(frames).id /\ Last(new).kind = Last(frames).kind
           /\ Last(new).phase = Last(frames).phase /\ Last(new).expected = Last(frames).expected
           /\ Last(new).breaks = Last(frames).breaks \cup {b}
<1> DEFINE n == Len(frames)
           x == frames[n]
           y == [x EXCEPT !.breaks = @ \cup {b}]
<1>1. n \in Nat /\ n > 0 /\ frames \in [1 .. n -> Frame] /\ x \in Frame
  OBVIOUS
<1>2. new = [frames EXCEPT ![n] = y]
  BY DEF AddBreak
<1> HIDE DEF x
<1>3. /\ y \in Frame /\ y.id = x.id /\ y.kind = x.kind /\ y.phase = x.phase /\ y.expected = x.expected
      /\ y.breaks = x.breaks \cup {b}
  BY <1>1, Zenon DEF Frame
<1> HIDE DEF y
<1>4. new \in Seq(Frame) /\ Len(new) = n /\ new # <<>> /\ new[n] = y /\ \A k \in 1 .. n : k # n => new[k] = frames[k]
  <2>1. n \in 1 .. Len(frames) /\ y \in Frame
    BY <1>1, <1>3
  <2>2. new \in Seq(Frame) /\ Len(new) = n /\ \A k \in 1 .. n : new[k] = IF k = n THEN y ELSE frames[k]
    BY <1>2, <2>1, ExceptSeq
  <2>3. n \in 1 .. n
    BY <1>1
  <2>4. new[n] = y /\ \A k \in 1 .. n : k # n => new[k] = frames[k]
    BY <2>2, <2>3
  <2>5. new # <<>>
    <3> SUFFICES ASSUME new = <<>> PROVE FALSE
      OBVIOUS
    <3>1. Len(new) = 0
      OBVIOUS
    <3>2. Len(new) = n
      BY <2>2
    <3> HIDE DEF n
    <3> QED
      BY <1>1, <3>1, <3>2
  <2> QED
    BY <2>2, <2>4, <2>5
<1>5. Last(new) = y /\ Last(frames) = x
  BY <1>4 DEF Last, x
<1> QED
  BY <1>3, <1>4, <1>5

\* Frames that have grown may get a break that fits.
LEMMA FramesAdd ==
    ASSUME NEW f, IsBody(f), NEW info, NEW lo, NEW hi, Row(f, lo, hi), NEW old, old \in Seq(Frame), old # <<>>, NEW mid,
           FramesGrow(f, info, lo, hi, old, mid), NEW b \in Break, BreakFits(f, info, lo, hi, Last(mid), b)
    PROVE  FramesGrow(f, info, lo, hi, old, AddBreak(mid, b))
<1> DEFINE new == AddBreak(mid, b)
<1>1. /\ mid \in Seq(Frame) /\ Len(mid) = Len(old)
      /\ \A k \in 1 .. Len(old) : k # Len(old) => mid[k] = old[k]
      /\ Last(mid).id = Last(old).id /\ Last(mid).kind = Last(old).kind
      /\ Last(mid).phase = Last(old).phase /\ Last(mid).expected = Last(old).expected
      /\ Last(old).breaks \subseteq Last(mid).breaks
      /\ \A x \in Last(mid).breaks \ Last(old).breaks : BreakFits(f, info, lo, hi, Last(mid), x)
  BY DEF FramesGrow
<1>2. mid # <<>>
  BY <1>1
<1>3. /\ new \in Seq(Frame) /\ Len(new) = Len(mid)
      /\ \A k \in 1 .. Len(mid) : k # Len(mid) => new[k] = mid[k]
      /\ Last(new).id = Last(mid).id /\ Last(new).kind = Last(mid).kind
      /\ Last(new).phase = Last(mid).phase /\ Last(new).expected = Last(mid).expected
      /\ Last(new).breaks = Last(mid).breaks \cup {b}
  BY <1>1, <1>2, AddBreakFacts
<1> HIDE DEF new
<1>4. lo \in Nat /\ hi \in Nat /\ \A j \in Ids(f) : SameAt(info, info, j)
  BY DEF Row, SameAt
<1>5. ASSUME NEW x \in Last(new).breaks \ Last(old).breaks PROVE BreakFits(f, info, lo, hi, Last(new), x)
  <2>1. BreakFits(f, info, lo, hi, Last(mid), x)
    BY <1>1, <1>3, <1>5
  <2> QED
    BY <1>3, <1>4, <2>1, BreakFitsStable
<1> QED
  BY <1>1, <1>3, <1>5 DEF FramesGrow, new

\* The state with other frames.
LEMMA FramesReplaced ==
    ASSUME NEW f, NEW s \in Checkers(f), NEW g \in Seq(Frame)
    PROVE  LET t == [s EXCEPT !.frames = g] IN
           t \in Checkers(f) /\ t.info = s.info /\ t.ok = s.ok /\ t.div = s.div /\ t.frames = g /\ t.scope = s.scope
BY DEF Checkers

\* The same innermost loop.
LoopKept(old, new) ==
  /\ new \in Seq(Frame) /\ new # <<>>
  /\ Last(new).id = Last(old).id /\ Last(new).kind = Last(old).kind
  /\ Last(new).phase = Last(old).phase /\ Last(new).expected = Last(old).expected

\* What is below p leaves the innermost loop.
LEMMA GatheredFrames ==
    ASSUME NEW f, NEW r, NEW p, NEW s, s.frames \in Seq(Frame), s.frames # <<>>, NEW v, Gathered(f, r, p, s, v)
    PROVE  LoopKept(s.frames, v.frames)
<1> DEFINE old == s.frames
           new == v.frames
<1>1. FramesGrow(f, v.info, p + 1, f[p].last, old, new)
  BY DEF Gathered, Span
<1>2. old \in Seq(Frame) /\ old # <<>>
  OBVIOUS
<1> HIDE DEF old, new
<1>3. new \in Seq(Frame) /\ Len(new) = Len(old)
  BY <1>1 DEF FramesGrow
<1>4. new # <<>>
  BY <1>2, <1>3
<1> QED
  BY <1>1, <1>2, <1>3, <1>4 DEF FramesGrow, LoopKept, old, new

\* The end of a break: its record is added, and its type is never.
BreakTyped(p, expected, v, b, t) ==
  t = Typed([v EXCEPT !.frames = AddBreak(v.frames, b)], p, Never, expected, TRUE) /\ Okay(t)

\* A break of p, recorded for the innermost loop.
LEMMA BreakClosed ==
    ASSUME NEW c, NEW f, NEW r, NEW p, NEW expected, NEW s, Call(c, f, r, p, expected, s), s.frames # <<>>,
           NEW v, Gathered(f, r, p, s, v), NEW b \in Break, b.source = p,
           BreakFits(f, v.info, p, f[p].last, Last(v.frames), b),
           NEW t, BreakTyped(p, expected, v, b, t)
    PROVE  CheckPost(f, r, p, expected, s, t)
<1>1. IsBody(f) /\ p \in DOMAIN f /\ expected \in Types \cup {None} /\ s \in Checkers(f) /\ s.frames \in Seq(Frame)
  BY CheckerFields DEF Call, CheckPre
<1>2. /\ v \in Checkers(f) /\ v.ok = TRUE /\ v.scope = s.scope
      /\ \A j \in Ids(f) : Home(j) < p => v.info[j] = s.info[j]
      /\ FramesGrow(f, v.info, p + 1, f[p].last, s.frames, v.frames)
      /\ \A q \in p + 1 .. f[p].last : Checked(f, r, v.info, p + 1, Pending(v.frames), q)
  BY DEF Gathered, Span
<1>3. Row(f, p, f[p].last) /\ Row(f, p + 1, f[p].last) /\ p \in Nat /\ f[p].last \in Nat /\ p <= f[p].last /\ p + 1 \in Nat /\ p <= p + 1
  BY <1>1, SubtreeRow, NodeFacts
<1>4. p \in Ids(f) /\ Home(p) = p /\ \A j \in Ids(f) : Home(j) \in Nat
  BY <1>1, IdFacts
<1>5. v.frames \in Seq(Frame) /\ v.frames # <<>>
  BY <1>1, GatheredFrames DEF LoopKept
<1> DEFINE new == AddBreak(v.frames, b)
           w == [v EXCEPT !.frames = new]
<1>6. /\ new \in Seq(Frame) /\ new # <<>>
      /\ Last(new).breaks = Last(v.frames).breaks \cup {b}
  BY <1>5, AddBreakFacts
<1> HIDE DEF new
<1>7. w \in Checkers(f) /\ w.info = v.info /\ w.ok = TRUE /\ w.frames = new /\ w.scope = s.scope
  BY <1>2, <1>6, FramesReplaced
<1>71. t = Typed(w, p, Never, expected, TRUE) /\ Okay(t)
  BY DEF BreakTyped, new
<1> HIDE DEF w
<1>8. TypedAs(f, w, t, p, Never, expected, TRUE)
  BY <1>1, <1>4, <1>7, <1>71, TypedFacts, Zenon DEF Types
<1>9. /\ t \in Checkers(f) /\ t.ok = TRUE /\ t.div = TRUE /\ t.frames = new /\ t.scope = s.scope
      /\ \A j \in Ids(f) : j # p => t.info[j] = v.info[j]
      /\ t.info[p].ty = Never /\ t.info[p].div = TRUE
      /\ t.info[p].val \in Types /\ Coerces(Never, t.info[p].val) /\ (expected # None => t.info[p].val = expected)
  BY <1>7, <1>8 DEF TypedAs
<1>10. \A j \in Ids(f) : Home(j) # p => t.info[j] = v.info[j] /\ SameAt(v.info, t.info, j)
  BY <1>4, <1>9 DEF SameAt
<1>11. \A j \in Ids(f) : p + 1 <= Home(j) /\ Home(j) <= f[p].last => SameAt(v.info, t.info, j)
  BY <1>3, <1>4, <1>10
<1>12. FramesGrow(f, t.info, p, f[p].last, s.frames, v.frames)
  BY <1>1, <1>2, <1>3, <1>11, FramesStable
<1>13. BreakFits(f, t.info, p, f[p].last, Last(v.frames), b)
  <2>1. f[p].op = "breakv" => f[p].sub[1] \in Ids(f) /\ f[p].sub[1] # p
    BY <1>1, OpArity, ChildApart
  <2>2. f[p].op = "breakv" => t.info[f[p].sub[1]] = v.info[f[p].sub[1]]
    BY <1>9, <2>1
  <2> QED
    BY <2>2 DEF BreakFits
<1>14. FramesGrow(f, t.info, p, f[p].last, s.frames, new)
  BY <1>1, <1>3, <1>12, <1>13, FramesAdd DEF new
<1>15. Pending(v.frames) \subseteq Pending(new) /\ b \in Pending(new)
  BY <1>5, <1>6 DEF Pending
<1>16. ASSUME NEW q \in p .. f[p].last PROVE Checked(f, r, t.info, p, Pending(new), q)
  <2>1. CASE q = p
    <3>1. Settled(t.info, p)
      BY <1>9 DEF Settled, Ends, Types
    <3>2. Waiting(Pending(new), p)
      BY <1>15 DEF Waiting
    <3> QED
      BY <2>1, <3>1, <3>2 DEF Checked
  <2>2. CASE q \in p + 1 .. f[p].last
    <3>1. Checked(f, r, v.info, p + 1, Pending(v.frames), q) /\ q \in DOMAIN f
      BY <1>2, <1>3, <2>2 DEF Row
    <3>2. q \in Ids(f) /\ q # p
      BY <1>1, <1>3, <2>2, <3>1, IdFacts
    <3>3. Settled(t.info, q)
      BY <1>9, <3>1, <3>2 DEF Checked, Settled, Ends
    <3>4. ASSUME NEW j \in Ids(f), Visible(f, q, j) PROVE SameAt(v.info, t.info, j)
      <4>1. j # p
        BY <1>1, <3>1, <3>4, VisibleFacts
      <4> QED
        BY <1>9, <4>1 DEF SameAt
    <3>5. \A j \in Ids(f) : (p + 1 <= Home(j) /\ Home(j) <= f[p].last) \/ Visible(f, q, j) => SameAt(v.info, t.info, j)
      BY <1>11, <3>4
    <3> QED
      BY <1>1, <1>3, <1>15, <2>2, <3>1, <3>3, <3>5, CheckedStable
  <2> QED
    BY <1>3, <2>1, <2>2
<1>17. \A j \in Ids(f) : Home(j) < p => t.info[j] = s.info[j]
  BY <1>2, <1>3, <1>4, <1>10
<1>18. Span(f, r, p, p, f[p].last, s, t)
  BY <1>9, <1>14, <1>16, <1>17 DEF Span
<1> QED
  BY <1>9, <1>18, Zenon DEF CheckPost

\* break, break a
LEMMA BreakChecked ==
    ASSUME NEW c, NEW f, NEW r, NEW p, NEW expected, NEW s, Call(c, f, r, p, expected, s),
           f[p].op \in Breaks, NEW t, t = CheckBreak(c, p, expected, s), Okay(t)
    PROVE  CheckPost(f, r, p, expected, s, t)
<1>1. IsBody(f) /\ p \in DOMAIN f /\ c.body = f /\ CheckPre(f, p, s) /\ s \in Checkers(f) /\ s.ok = TRUE /\ s.frames \in Seq(Frame)
  BY CheckerFields DEF Call, CheckPre
<1>2. BreakAllowed(f[p].op = "breakv", s.frames)
  BY <1>1, Failed DEF CheckBreak
<1>3. /\ s.frames # <<>> /\ Last(s.frames).phase = "Body"
      /\ f[p].op = "breakv" => Last(s.frames).kind = "Loop"
      /\ f[p].op # "breakv" /\ Last(s.frames).expected # None => Coerces(Unit, Last(s.frames).expected)
  BY <1>2 DEF BreakAllowed
<1>4. InBody(f, p, s)
  BY <1>1, <1>3, InBodyFacts
<1>5. Last(s.frames).expected \in Types \cup {None}
  BY <1>4 DEF InBody
<1>6. p \in Nat /\ p \in p .. f[p].last
  BY <1>1, NodeFacts
<1>7. CASE f[p].op = "breakv"
  <2>1. Len(f[p].sub) = 1 /\ 1 \in 1 .. Len(f[p].sub)
    BY <1>1, <1>7, OpArity
  <2> DEFINE one == f[p].sub[1]
             want == Last(s.frames).expected
             v == CheckSub(c, one, want, s)
             b == [source |-> p, operand |-> one, div |-> v.div]
             w == [v EXCEPT !.frames[Len(v.frames)].breaks = @ \cup {b}]
  <2>2. Okay(v) /\ t = Typed(w, p, Never, expected, TRUE)
    BY <1>1, <1>2, <1>7, ZenonT(60) DEF CheckBreak, Child, Then, Okay
  <2>3. Runs(c, f, p, 1, want, s, v)
    BY <1>5, <2>1, <2>2, Zenon DEF Runs
  <2> HIDE DEF v, b
  <2>4. Gathered(f, r, p, s, v) /\ Got(f, one, want, s, v)
    BY <2>1, <2>3, OneCall
  <2>5. v \in Checkers(f) /\ v.div \in BOOLEAN /\ (v.div = TRUE <=> Ends(v.info, one)) /\ Settled(v.info, one) /\ (want # None => v.info[one].val = want)
    BY <2>4 DEF Got
  <2>6. one \in DOMAIN f /\ one \in Nat
    BY <1>1, <2>1, ChildApart, IdFacts
  <2>7. b \in Break /\ b.source = p /\ b.operand = one /\ b.div = v.div
    BY <1>6, <2>5, <2>6 DEF Break, b
  <2>8. w = [v EXCEPT !.frames = AddBreak(v.frames, b)]
    BY <2>5 DEF AddBreak, Checkers
  <2>9. v.info[one].div = v.div
    <3>1. v.info[one].div \in BOOLEAN
      BY <1>1, <2>5, <2>6, IdFacts, CheckerFields, InfoFields
    <3> QED
      BY <2>5, <3>1 DEF Ends
  <2>10. Last(v.frames).kind = "Loop" /\ Last(v.frames).phase = "Body" /\ Last(v.frames).expected = want
    BY <1>1, <1>3, <1>7, <2>4, GatheredFrames, SMTT(60) DEF LoopKept
  <2>11. want # None => Coerces(v.info[one].ty, want)
    BY <2>5 DEF Settled
  <2>12. BreakFits(f, v.info, p, f[p].last, Last(v.frames), b)
    BY <1>6, <1>7, <2>7, <2>9, <2>10, <2>11 DEF BreakFits, Breaks
  <2> HIDE DEF w
  <2>13. BreakTyped(p, expected, v, b, t)
    BY <2>2, <2>8 DEF BreakTyped
  <2> QED
    BY <1>3, <2>13, <2>4, <2>7, <2>8, <2>12, BreakClosed
<1>8. CASE f[p].op = "break"
  <2> DEFINE v == [s EXCEPT !.div = FALSE]
             b == [source |-> p, operand |-> NoNode, div |-> v.div]
             w == [v EXCEPT !.frames[Len(v.frames)].breaks = @ \cup {b}]
  <2>1. v \in Checkers(f) /\ v.ok = TRUE /\ v.div = FALSE /\ v.frames = s.frames /\ v.info = s.info /\ v.scope = s.scope
    BY <1>1, Zenon DEF Checkers
  <2>2. t = Typed(w, p, Never, expected, TRUE)
    BY <1>1, <1>2, <1>8, <2>1, Zenon DEF CheckBreak, Then
  <2> HIDE DEF v, b
  <2>3. Len(f[p].sub) = 0
    BY <1>1, <1>8, OpArity
  <2>4. f[p].last = p
    BY <1>1, <2>3, NoChild
  <2>5. Gathered(f, r, p, s, v)
    <3>1. Span(f, r, p, p + 1, p, s, v)
      BY <1>1, <1>6, <2>1, SpanEmpty
    <3> QED
      BY <2>1, <2>4, <3>1 DEF Gathered
  <2>6. b \in Break /\ b.source = p /\ b.operand = NoNode /\ b.div = FALSE
    BY <1>6, <2>1, Zenon DEF Break, b, NoNode
  <2>7. w = [v EXCEPT !.frames = AddBreak(v.frames, b)]
    BY <2>1 DEF AddBreak, Checkers
  <2>8. BreakFits(f, v.info, p, f[p].last, Last(v.frames), b)
    BY <1>3, <1>6, <1>8, <2>1, <2>6 DEF BreakFits, Breaks
  <2> HIDE DEF w
  <2>9. BreakTyped(p, expected, v, b, t)
    BY <2>2, <2>7 DEF BreakTyped
  <2> QED
    BY <1>3, <2>9, <2>5, <2>6, <2>7, <2>8, BreakClosed
<1> QED
  BY <1>7, <1>8 DEF Breaks

\* The state with another divergence.
LEMMA DivReplaced ==
    ASSUME NEW f, NEW s \in Checkers(f), NEW d \in BOOLEAN
    PROVE  LET t == [s EXCEPT !.div = d] IN
           t \in Checkers(f) /\ t.info = s.info /\ t.ok = s.ok /\ t.div = d /\ t.frames = s.frames /\ t.scope = s.scope
BY DEF Checkers

\* A state that differs only in divergence.
Alike(f, s, t) ==
  t \in Checkers(f) /\ s \in Checkers(f) /\ t.info = s.info /\ t.ok = s.ok /\ t.frames = s.frames /\ t.scope = s.scope

\* What holds of a call does not depend on the divergence left by the one before.
LEMMA CallAlike ==
    ASSUME NEW c, NEW f, NEW r, NEW p, NEW expected, NEW s, NEW t, Call(c, f, r, p, expected, s), Alike(f, s, t)
    PROVE  Call(c, f, r, p, expected, t)
BY DEF Call, CheckPre, Alike

\* What follows the state follows the one before.
LEMMA BelowAlike ==
    ASSUME NEW f, NEW r, NEW p, NEW s, NEW t, NEW u, Alike(f, s, t), Gathered(f, r, p, t, u)
    PROVE  Gathered(f, r, p, s, u) /\ Below(f, r, p, s, u)
BY DEF Gathered, Below, Span, Alike

\* {} and { a; }
LEMMA SemiChecked ==
    ASSUME NEW c, NEW f, NEW r, NEW p, NEW expected, NEW s, Call(c, f, r, p, expected, s),
           f[p].op \in {"empty", "semi"}, NEW t, t = CheckBlock(c, p, expected, s), Okay(t)
    PROVE  CheckPost(f, r, p, expected, s, t)
<1>1. IsBody(f) /\ p \in DOMAIN f /\ c.body = f /\ expected \in Types \cup {None} /\ s \in Checkers(f) /\ s.ok = TRUE
  BY DEF Call, CheckPre
<1>2. f[p].op \notin Breaks /\ f[p].op \notin TailOps
  BY DEF Breaks, TailOps
<1>3. CASE f[p].op = "empty"
  <2> DEFINE a == [s EXCEPT !.div = FALSE]
             v == Typed(a, p, Unit, expected, FALSE)
  <2>1. Alike(f, s, a) /\ a.div = FALSE /\ a.ok = TRUE
    BY <1>1, DivReplaced, ZenonT(60) DEF Alike
  <2>2. t = [v EXCEPT !.scope = s.scope]
    BY <1>1, <1>2, <1>3, <2>1, Zenon DEF CheckBlock, CheckStmt, Then
  <2> HIDE DEF a
  <2>3. Len(f[p].sub) = 0
    BY <1>1, <1>3, OpArity
  <2>4. Below(f, r, p, s, a)
    <3>1. Gathered(f, r, p, s, s)
      BY <2>3, NoneGathered
    <3> QED
      BY <2>1, <3>1 DEF Gathered, Below, Span, Alike
  <2>5. Obeys(f, r, a, t, p, Unit, FALSE)
    <3> SUFFICES ASSUME Recorded(f, a, t, p, Unit, FALSE) PROVE Rule(f, r, t.info, p)
      BY DEF Obeys
    <3>1. t.info[p].ty = Unit /\ ~Ends(t.info, p)
      BY DEF Recorded, Ends
    <3> QED
      BY <1>3, <3>1 DEF Rule, ValueRule, BlockRule, OperatorRule, BranchRule, JumpRule, Is, Breaks
  <2>6. BlockTyped(p, Unit, expected, FALSE, s, a, t)
    <3>1. v.ok = t.ok
      BY <2>2
    <3> QED
      BY <2>2, <3>1, Zenon DEF BlockTyped, Okay
  <2>7. Ending(Unit, FALSE)
    BY DEF Ending, Types, Never, Unit
  <2>8. Closes(f, r, p, expected, s, t, Unit)
    BY <1>1, <1>2, <2>4, <2>5, <2>6, <2>7, BlockClosed, Zenon
  <2> QED
    BY <2>8 DEF Closes
<1>4. CASE f[p].op = "semi"
  <2>1. Len(f[p].sub) = 1 /\ 1 \in 1 .. Len(f[p].sub)
    BY <1>1, <1>4, OpArity, SMTT(60)
  <2> DEFINE one == f[p].sub[1]
             a == CheckSub(c, one, None, s)
             ty == IF a.div THEN Never ELSE Unit
             v == Typed(a, p, ty, expected, a.div)
             x == IF a.ok THEN v ELSE a
  <2>2. t = [x EXCEPT !.scope = s.scope]
    BY <1>1, <1>2, <1>4 DEF CheckBlock, CheckStmt, Then, Child
  <2>3. x.ok = t.ok
    <3> HIDE DEF x
    <3> QED
      BY <2>2
  <2>4. Okay(a) /\ t = [v EXCEPT !.scope = s.scope] /\ Okay(v)
    BY <2>2, <2>3, Zenon DEF Okay
  <2>5. Runs(c, f, p, 1, None, s, a)
    BY <2>1, <2>4, Zenon DEF Runs
  <2> HIDE DEF a
  <2>6. Gathered(f, r, p, s, a) /\ Got(f, one, None, s, a)
    BY <2>1, <2>5, OneCall
  <2>7. Below(f, r, p, s, a)
    BY <2>6 DEF Gathered, Below
  <2>8. a.div \in BOOLEAN /\ (a.div = TRUE <=> Ends(a.info, one))
    BY <2>6 DEF Got
  <2>9. BlockTyped(p, ty, expected, a.div, s, a, t)
    BY <2>4 DEF BlockTyped
  <2>10. Ending(ty, a.div)
    BY <2>8 DEF Ending, Types, Never, Unit
  <2>11. Obeys(f, r, a, t, p, ty, a.div)
    <3> SUFFICES ASSUME Recorded(f, a, t, p, ty, a.div) PROVE Rule(f, r, t.info, p)
      BY DEF Obeys
    <3>1. one \in Ids(f) /\ one # p
      BY <1>1, <2>1, ChildApart
    <3>2. t.info[one] = a.info[one] /\ t.info[p].ty = ty /\ t.info[p].div = a.div
      BY <3>1 DEF Recorded
    <3>3. Is(t.info, p, Unit) /\ (Ends(t.info, p) => Ends(t.info, one))
      BY <2>8, <3>2 DEF Is, Ends
    <3> QED
      BY <1>4, <3>3 DEF Rule, ValueRule, BlockRule, OperatorRule, BranchRule, JumpRule, Breaks
  <2> HIDE DEF ty
  <2>12. Closes(f, r, p, expected, s, t, ty)
    BY <1>1, <1>2, <2>7, <2>9, <2>10, <2>11, BlockClosed
  <2> QED
    BY <2>12 DEF Closes
<1> QED
  BY <1>3, <1>4

\* { a }
LEMMA TailChecked ==
    ASSUME NEW c, NEW f, NEW r, NEW p, NEW expected, NEW s, Call(c, f, r, p, expected, s),
           f[p].op = "tail", NEW t, t = CheckBlock(c, p, expected, s), Okay(t)
    PROVE  CheckPost(f, r, p, expected, s, t)
<1>1. IsBody(f) /\ p \in DOMAIN f /\ c.body = f /\ expected \in Types \cup {None} /\ s \in Checkers(f) /\ s.ok = TRUE
  BY DEF Call, CheckPre
<1>2. f[p].op \notin Breaks /\ f[p].op \in TailOps
  BY DEF Breaks, TailOps
<1>3. Len(f[p].sub) = 1 /\ 1 \in 1 .. Len(f[p].sub) /\ Last(f[p].sub) = f[p].sub[1]
  BY <1>1, OpArity, OneChild
<1> DEFINE one == f[p].sub[1]
           a == [s EXCEPT !.div = FALSE]
           b == CheckSub(c, one, expected, a)
           ty == b.info[one].val
           div == a.div \/ b.div
           v == Typed(b, p, ty, None, div)
           x == IF b.ok THEN v ELSE b
<1>4. Alike(f, s, a) /\ a.div = FALSE /\ a.ok = TRUE
  BY <1>1, DivReplaced, ZenonT(60) DEF Alike
<1>5. t = [x EXCEPT !.scope = s.scope]
  BY <1>1, <1>2, <1>3, <1>4, Zenon DEF CheckBlock, CheckStmt, Then
<1>6. x.ok = t.ok
  <2> HIDE DEF x
  <2> QED
    BY <1>5
<1>7. Okay(b) /\ t = [v EXCEPT !.scope = s.scope] /\ Okay(v)
  BY <1>5, <1>6, Zenon DEF Okay
<1>8. Runs(c, f, p, 1, expected, a, b)
  BY <1>1, <1>3, <1>7, Zenon DEF Runs
<1> HIDE DEF a, b
<1>9. Call(c, f, r, p, expected, a)
  BY <1>4, CallAlike
<1>10. Gathered(f, r, p, a, b) /\ Got(f, one, expected, a, b)
  BY <1>3, <1>8, <1>9, OneCall
<1>11. Below(f, r, p, s, b)
  BY <1>4, <1>10, BelowAlike, SMTT(60)
<1>12. /\ b.div \in BOOLEAN /\ (b.div = TRUE <=> Ends(b.info, one)) /\ ty \in Types /\ Is(b.info, one, ty)
       /\ Settled(b.info, one) /\ (expected # None => ty = expected)
  BY <1>10 DEF Got
<1>13. BlockTyped(p, ty, None, div, s, b, t)
  BY <1>7, ZenonT(60) DEF BlockTyped
<1>14. Ending(ty, div)
  BY <1>4, <1>12, SMTT(60) DEF Ending, Settled, Coerces
<1>15. Obeys(f, r, b, t, p, ty, div)
  <2> SUFFICES ASSUME Recorded(f, b, t, p, ty, div) PROVE Rule(f, r, t.info, p)
    BY DEF Obeys
  <2>1. one \in Ids(f) /\ one # p
    BY <1>1, <1>3, ChildApart
  <2>2. t.info[one] = b.info[one] /\ t.info[p].ty = ty /\ t.info[p].div = div
    BY <2>1, SMTT(60) DEF Recorded
  <2>3. Is(t.info, one, ty) /\ (Ends(t.info, p) => Ends(t.info, one))
    BY <1>4, <1>12, <2>2 DEF Is, Ends
  <2> QED
    BY <2>2, <2>3 DEF Rule, ValueRule, BlockRule, OperatorRule, BranchRule, JumpRule, Breaks
<1> HIDE DEF ty, div
<1>16. Closes(f, r, p, None, s, t, ty)
  BY <1>2, <1>11, <1>13, <1>14, <1>15, BlockClosed
<1> QED
  BY <1>12, <1>16 DEF Closes, CheckPost

\* { a; b } and { a b }
LEMMA SeqChecked ==
    ASSUME NEW c, NEW f, NEW r, NEW p, NEW expected, NEW s, Call(c, f, r, p, expected, s),
           f[p].op \in {"seq", "run"}, NEW t, t = CheckBlock(c, p, expected, s), Okay(t)
    PROVE  CheckPost(f, r, p, expected, s, t)
<1>1. IsBody(f) /\ p \in DOMAIN f /\ c.body = f /\ expected \in Types \cup {None}
  BY DEF Call
<1>2. f[p].op \notin Breaks /\ f[p].op \in TailOps
  BY DEF Breaks, TailOps
<1>3. Len(f[p].sub) = 2 /\ 1 \in 1 .. Len(f[p].sub) /\ 2 \in 1 .. Len(f[p].sub) /\ Last(f[p].sub) = f[p].sub[2]
  BY <1>1, OpArity, TwoChildren
<1> DEFINE one == f[p].sub[1]
           two == f[p].sub[2]
           w1 == IF f[p].op = "run" THEN Unit ELSE None
           a == CheckSub(c, one, w1, s)
           b == CheckSub(c, two, expected, a)
           ty == b.info[two].val
           div == a.div \/ b.div
           v == Typed(b, p, ty, None, div)
           x == IF a.ok THEN IF b.ok THEN v ELSE b ELSE a
<1>5. t = [x EXCEPT !.scope = s.scope]
  BY <1>1, <1>2, <1>3, ZenonT(60) DEF CheckBlock, CheckStmt, Then, Child
<1>6. x.ok = t.ok
  <2> HIDE DEF x
  <2> QED
    BY <1>5
<1>7. Okay(a) /\ Okay(b) /\ t = [v EXCEPT !.scope = s.scope] /\ Okay(v)
  BY <1>5, <1>6, Zenon DEF Okay
<1>8. Runs(c, f, p, 1, w1, s, a) /\ Runs(c, f, p, 2, expected, a, b)
  BY <1>1, <1>3, <1>7, Zenon DEF Runs, Types
<1> HIDE DEF a, b, w1
<1>10. Gathered(f, r, p, s, b) /\ Second(f, p, w1, expected, s, a, b)
  BY <1>3, <1>8, TwoCalls
<1>11. Below(f, r, p, s, b)
  BY <1>10 DEF Gathered, Below
<1>12. /\ a.div \in BOOLEAN /\ b.div \in BOOLEAN /\ (b.div = TRUE <=> Ends(b.info, two)) /\ ty \in Types
       /\ Settled(b.info, two) /\ (expected # None => ty = expected)
  BY <1>10, Zenon DEF Second, Got
<1>13. BlockTyped(p, ty, None, div, s, b, t)
  BY <1>7, Zenon DEF BlockTyped
<1>14. Ending(ty, div)
  BY <1>12 DEF Ending, Settled, Coerces
<1>15. Obeys(f, r, b, t, p, ty, div)
  <2> SUFFICES ASSUME Recorded(f, b, t, p, ty, div) PROVE Rule(f, r, t.info, p)
    BY DEF Obeys
  <2>1. BothKept(f, p, a, b, t, ty, div)
    BY <1>1, <1>3, <1>10, SecondKept
  <2>2. Is(t.info, two, ty) /\ t.info[p].ty = ty /\ (Ends(t.info, p) => Ends(t.info, one) \/ Ends(t.info, two))
    BY <2>1, Zenon DEF Ends, BothKept
  <2> QED
    BY <2>2, Zenon DEF Rule, ValueRule, BlockRule, OperatorRule, BranchRule, JumpRule, Breaks
<1> HIDE DEF ty, div
<1>16. Closes(f, r, p, None, s, t, ty)
  BY <1>2, <1>11, <1>13, <1>14, <1>15, BlockClosed
<1> QED
  BY <1>12, <1>16 DEF Closes, CheckPost

\* The first part of a let: its local has the type of the initializer.
LetBound(p, a, b, ty) ==
  b = [Record(a, LetId(p), ty, ty) EXCEPT !.scope = LetId(p)]

\* The local is recorded and in scope; what is known of the initializer stays known.
LEMMA LetBoundFacts ==
    ASSUME NEW c, NEW f, NEW r, NEW p, NEW expected, NEW s, Call(c, f, r, p, expected, s), f[p].op = "let",
           NEW w1, NEW a, Runs(c, f, p, 1, w1, s, a), NEW ty \in Types, NEW b, LetBound(p, a, b, ty)
    PROVE  /\ Upto(f, r, p, 1, s, b) /\ CheckPre(f, f[p].sub[2], b) /\ b.div = a.div
           /\ \A j \in Ids(f) : j # LetId(p) => b.info[j] = a.info[j]
           /\ b.info[LetId(p)].ty = ty
<1>1. IsBody(f) /\ p \in DOMAIN f /\ s \in Checkers(f)
  BY DEF Call, CheckPre
<1>2. Len(f[p].sub) = 2 /\ 1 \in 1 .. Len(f[p].sub) /\ 2 \in 1 .. Len(f[p].sub)
  BY <1>1, OpArity
<1> DEFINE one == f[p].sub[1]
           two == f[p].sub[2]
           x == Record(a, LetId(p), ty, ty)
<1>3. Got(f, one, w1, s, a) /\ Upto(f, r, p, 1, s, a) /\ CheckPre(f, p, a) /\ one \in DOMAIN f
  BY FirstGot, SMTT(60)
<1>4. a \in Checkers(f) /\ a.ok = TRUE
  BY <1>3 DEF Got
<1>5. LetId(p) \in Ids(f) /\ Home(LetId(p)) = p /\ LetId(p) < -1 /\ LetId(p) \in Int /\ p \in Nat
  BY <1>1, IdFacts
<1>6. RecordAs(f, a, x, LetId(p), ty, ty)
  BY <1>4, <1>5, RecordFacts
<1> HIDE DEF x
<1>7. x \in Checkers(f) /\ b = [x EXCEPT !.scope = LetId(p)]
  BY <1>6 DEF RecordAs, LetBound, x
<1>8. /\ b \in Checkers(f) /\ b.ok = x.ok /\ b.div = x.div /\ b.info = x.info /\ b.frames = x.frames /\ b.scope = LetId(p)
  BY <1>5, <1>7, Zenon DEF Checkers
<1>9. /\ b.ok = TRUE /\ b.div = a.div /\ b.frames = a.frames /\ b.info[LetId(p)].ty = ty /\ b.info[LetId(p)].val = ty
      /\ \A j \in Ids(f) : j # LetId(p) => b.info[j] = a.info[j]
  BY <1>4, <1>6, <1>8 DEF RecordAs
<1>10. one \in Nat /\ f[one].last \in Nat /\ p < one /\ f[one].last < Last(f[p].sub) /\ f[p].sub # <<>>
  <2>1. f[p].sub # <<>> /\ Last(f[p].sub) = two /\ one = p + 1 /\ f[one].last \in Nat /\ two = f[one].last + 1
    BY <1>1, <1>2, TwoChildren
  <2>2. one \in Nat /\ p < one /\ f[one].last < two
    BY <1>5, <2>1
  <2> QED
    BY <2>1, <2>2
<1>11. Row(f, p + 1, f[one].last) /\ Span(f, r, p, p + 1, f[one].last, s, a)
  BY <1>3 DEF Upto
<1>12. \A j \in Ids(f) : Home(j) # p => b.info[j] = a.info[j]
  BY <1>5, <1>9
<1>13. ASSUME NEW q \in p + 1 .. f[one].last, NEW j \in Ids(f), Visible(f, q, j) PROVE b.info[j] = a.info[j]
  <2> SUFFICES ASSUME j = LetId(p) PROVE FALSE
    BY <1>9
  <2>1. PICK k \in DOMAIN f : f[k].op = "let" /\ Inside(f, k, q) /\ j = LetId(k)
    BY <1>5, <1>13 DEF Visible, ParamId
  <2>2. k = p
    BY <1>1, <2>1, IdFacts DEF LetId
  <2>3. Last(f[p].sub) <= q /\ Last(f[p].sub) \in Nat
    <3>1. Last(f[p].sub) \in DOMAIN f
      BY <1>1, <1>2, ChildrenBetween
    <3> QED
      BY <1>1, <2>1, <2>2, <3>1, IdFacts DEF Inside
  <2> QED
    BY <1>5, <1>10, <2>3, SMTT(60)
<1>14. Span(f, r, p, p + 1, f[one].last, s, b)
  <2>1. p < p + 1
    BY <1>5
  <2> QED
    BY <1>1, <1>5, <1>8, <1>9, <1>11, <1>12, <1>13, <2>1, SpanKept
<1>15. Upto(f, r, p, 1, s, b)
  BY <1>2, <1>8, <1>9, <1>11, <1>14 DEF Upto
<1>16. CheckPre(f, two, b)
  <2>1. Visible(f, two, LetId(p))
    BY <1>1, <1>2, VisibleChild, Zenon
  <2>2. \A j \in DOMAIN f : Inside(f, j, p) => Inside(f, j, two)
    BY <1>1, <1>2, InsideChild
  <2>3. a.frames # <<>> /\ Last(a.frames).phase = "Body" =>
       /\ Last(a.frames).id \in DOMAIN f /\ Inside(f, Last(a.frames).id, p)
       /\ f[Last(a.frames).id].op = IF Last(a.frames).kind = "Loop" THEN "loop" ELSE "while"
    BY <1>3 DEF CheckPre
  <2> QED
    BY <1>8, <1>9, <2>1, <2>2, <2>3 DEF CheckPre
<1> QED
  BY <1>9, <1>15, <1>16

\* { let mut x = a; b }
LEMMA LetChecked ==
    ASSUME NEW c, NEW f, NEW r, NEW p, NEW expected, NEW s, Call(c, f, r, p, expected, s),
           f[p].op = "let", NEW t, t = CheckBlock(c, p, expected, s), Okay(t)
    PROVE  CheckPost(f, r, p, expected, s, t)
<1>1. IsBody(f) /\ p \in DOMAIN f /\ c.body = f /\ expected \in Types \cup {None}
  BY DEF Call
<1>2. f[p].op \notin Breaks /\ f[p].op \in TailOps
  BY DEF Breaks, TailOps
<1>3. Len(f[p].sub) = 2 /\ 1 \in 1 .. Len(f[p].sub) /\ 2 \in 1 .. Len(f[p].sub) /\ Last(f[p].sub) = f[p].sub[2]
  BY <1>1, OpArity, TwoChildren
<1> DEFINE one == f[p].sub[1]
           two == f[p].sub[2]
           a == CheckSub(c, one, None, s)
           lt == a.info[one].val
           l == [Record(a, LetId(p), lt, lt) EXCEPT !.scope = LetId(p)]
           b == CheckSub(c, two, expected, l)
           ty == b.info[two].val
           div == a.div \/ b.div
           stmt == IF a.ok THEN l ELSE a
<1>4. CheckStmt(c, p, s) = stmt
  BY <1>1, Zenon DEF CheckStmt, Then, Child
<1>41. Okay(a)
  <2> SUFFICES ASSUME ~a.ok PROVE FALSE
    BY DEF Okay
  <2>1. stmt = a
    OBVIOUS
  <2>2. t = [a EXCEPT !.scope = s.scope]
    BY <1>4, <2>1, Zenon DEF CheckBlock, Then
  <2> HIDE DEF a
  <2> QED
    BY <2>2 DEF Okay
<1>42. CheckStmt(c, p, s) = l
  BY <1>4, <1>41, Zenon DEF Okay
<1>43. Runs(c, f, p, 1, None, s, a)
  BY <1>3, <1>41 DEF Runs
<1> HIDE DEF a, stmt
<1>5. Got(f, one, None, s, a) /\ one \in DOMAIN f
  BY <1>43, FirstGot, SMTT(60)
<1>6. a \in Checkers(f) /\ a.ok = TRUE /\ a.div \in BOOLEAN /\ (a.div = TRUE <=> Ends(a.info, one)) /\ lt \in Types /\ Is(a.info, one, lt)
  BY <1>5 DEF Got
<1>61. LetBound(p, a, l, lt)
  BY DEF LetBound
<1> HIDE DEF l
<1>7. /\ Upto(f, r, p, 1, s, l) /\ CheckPre(f, two, l) /\ l.div = a.div
      /\ \A j \in Ids(f) : j # LetId(p) => l.info[j] = a.info[j]
      /\ l.info[LetId(p)].ty = lt
  <2> HIDE DEF lt
  <2> QED
    BY <1>43, <1>6, <1>61, LetBoundFacts
<1>8. l.ok = TRUE
  BY <1>7 DEF Upto
<1> DEFINE v == Typed(b, p, ty, None, div)
           x == IF b.ok THEN v ELSE b
<1>9. t = [x EXCEPT !.scope = s.scope]
  BY <1>1, <1>2, <1>3, <1>42, <1>7, <1>8, Zenon DEF CheckBlock, Then
<1>10. x.ok = t.ok
  <2> HIDE DEF x
  <2> QED
    BY <1>9
<1>11. Okay(b) /\ t = [v EXCEPT !.scope = s.scope] /\ Okay(v)
  BY <1>9, <1>10, Zenon DEF Okay
<1>12. Runs(c, f, p, 2, expected, l, b)
  BY <1>1, <1>3, <1>11, Zenon DEF Runs
<1> HIDE DEF b
<1>13. Continues(f, r, p, 1, 2, expected, s, l, b)
  <2>1. 2 = 1 + 1
    OBVIOUS
  <2> QED
    BY <1>7, <1>12, <2>1, NextCall
<1>14. /\ CheckPost(f, r, two, expected, l, b) /\ Upto(f, r, p, 2, s, b)
       /\ \A j \in Ids(f) : Home(j) <= f[one].last => b.info[j] = l.info[j]
  BY <1>13 DEF Continues
<1>15. Below(f, r, p, s, b)
  BY <1>3, <1>14, AllBelow, Zenon
<1>16. Got(f, two, expected, l, b)
  <2>1. two \in DOMAIN f
    BY <1>1, <1>3, ChildApart, SMTT(60)
  <2> QED
    BY <1>1, <1>14, <2>1, PostFacts
<1>17. /\ b.div \in BOOLEAN /\ (b.div = TRUE <=> Ends(b.info, two)) /\ ty \in Types /\ Is(b.info, two, ty)
       /\ Settled(b.info, two) /\ (expected # None => ty = expected)
  BY <1>16 DEF Got
<1>18. BlockTyped(p, ty, None, div, s, b, t)
  BY <1>11, Zenon DEF BlockTyped
<1>19. Ending(ty, div)
  BY <1>6, <1>17, Zenon DEF Ending, Settled, Coerces
<1>20. Obeys(f, r, b, t, p, ty, div)
  <2> SUFFICES ASSUME Recorded(f, b, t, p, ty, div) PROVE Rule(f, r, t.info, p)
    BY DEF Obeys
  <2>1. one \in Ids(f) /\ one # p /\ two \in Ids(f) /\ two # p /\ LetId(p) \in Ids(f) /\ LetId(p) # p /\ LetId(p) # one
    BY <1>1, <1>3, <1>5, ChildApart, IdFacts, SMTT(60)
  <2>2. Home(one) <= f[one].last /\ Home(LetId(p)) <= f[one].last
    <3>1. one \in Nat /\ p \in Nat /\ p < one /\ one <= f[one].last /\ f[one].last \in Nat
      BY <1>1, <1>3, ChildrenBetween
    <3>2. Home(one) = one /\ Home(LetId(p)) = p
      BY <1>1, <1>5, IdFacts, SMTT(60)
    <3> QED
      BY <3>1, <3>2
  <2>3. b.info[one] = a.info[one] /\ b.info[LetId(p)].ty = lt
    BY <1>7, <1>14, <2>1, <2>2
  <2>4. t.info[one] = a.info[one] /\ t.info[two] = b.info[two] /\ t.info[p].ty = ty /\ t.info[p].div = div /\ t.info[LetId(p)].ty = lt
    BY <2>1, <2>3 DEF Recorded
  <2>5. Is(t.info, one, t.info[LetId(p)].ty) /\ Is(t.info, two, ty) /\ (Ends(t.info, p) => Ends(t.info, one) \/ Ends(t.info, two))
    BY <1>6, <1>17, <2>4, Zenon DEF Is, Ends
  <2> QED
    BY <2>4, <2>5, Zenon DEF Rule, ValueRule, BlockRule, OperatorRule, BranchRule, JumpRule, Breaks
<1> HIDE DEF ty, div
<1>21. Closes(f, r, p, None, s, t, ty)
  BY <1>2, <1>15, <1>18, <1>19, <1>20, BlockClosed
<1> QED
  BY <1>17, <1>21 DEF Closes, CheckPost

\* A block.
LEMMA BlockChecked ==
    ASSUME NEW c, NEW f, NEW r, NEW p, NEW expected, NEW s, Call(c, f, r, p, expected, s),
           f[p].op \in BlockOps, NEW t, t = CheckBlock(c, p, expected, s), Okay(t)
    PROVE  CheckPost(f, r, p, expected, s, t)
BY SemiChecked, TailChecked, SeqChecked, LetChecked DEF BlockOps

\* A block as an expression: it has the type it was coerced to.
LEMMA BlockExprChecked ==
    ASSUME NEW c, NEW f, NEW r, NEW p, NEW expected, NEW s, Call(c, f, r, p, expected, s),
           f[p].op \in BlockOps, NEW t, t = CheckBlockExpr(c, p, expected, s), Okay(t)
    PROVE  CheckPost(f, r, p, expected, s, t)
<1>1. IsBody(f) /\ p \in DOMAIN f /\ c.body = f /\ expected \in Types \cup {None} /\ s \in Checkers(f)
  BY DEF Call, CheckPre
<1> DEFINE b == CheckBlock(c, p, expected, s)
           ty == b.info[p].val
<1>2. Okay(b) /\ t = Record(b, p, ty, ty)
  BY DEF CheckBlockExpr, Then, Okay
<1> HIDE DEF b
<1>3. CheckPost(f, r, p, expected, s, b)
  BY <1>2, BlockChecked DEF b
<1>4. /\ b \in Checkers(f) /\ b.ok = TRUE /\ b.scope = s.scope /\ b.div = b.info[p].div
      /\ (expected # None => ty = expected)
      /\ \A j \in Ids(f) : Home(j) < p => b.info[j] = s.info[j]
      /\ FramesGrow(f, b.info, p, f[p].last, s.frames, b.frames)
      /\ \A q \in p .. f[p].last : Checked(f, r, b.info, p, Pending(b.frames), q)
  BY <1>3 DEF CheckPost, Span
<1>5. Row(f, p, f[p].last) /\ p \in Nat /\ f[p].last \in Nat /\ p <= f[p].last /\ p \in Ids(f) /\ Home(p) = p /\ p \in p .. f[p].last
  BY <1>1, SubtreeRow, NodeFacts, IdFacts
<1>6. Settled(b.info, p) /\ (Rule(f, r, b.info, p) \/ Waiting(Pending(b.frames), p))
  BY <1>4, <1>5 DEF Checked
<1>7. ty \in Types
  BY <1>6 DEF Settled
<1>8. RecordAs(f, b, t, p, ty, ty)
  BY <1>2, <1>4, <1>5, <1>7, RecordFacts
<1>9. /\ t \in Checkers(f) /\ t.ok = TRUE /\ t.div = b.div /\ t.frames = b.frames /\ t.scope = s.scope
      /\ \A j \in Ids(f) : j # p => t.info[j] = b.info[j]
      /\ t.info[p].ty = ty /\ t.info[p].val = ty /\ t.info[p].div = b.info[p].div
  BY <1>4, <1>8 DEF RecordAs
<1>10. \A j \in Ids(f) : j # p => SameAt(b.info, t.info, j)
  BY <1>9 DEF SameAt
<1>11. Settled(t.info, p)
  BY <1>6, <1>7, <1>9 DEF Settled, Ends, Coerces
<1>12. ~Waiting(Pending(b.frames), p) \/ Waiting(Pending(t.frames), p)
  BY <1>9
<1>13. ASSUME NEW k \in 1 .. Len(f[p].sub)
       PROVE  /\ f[p].sub[k] \in Ids(f) /\ f[p].sub[k] # p /\ t.info[f[p].sub[k]] = b.info[f[p].sub[k]]
              /\ Settled(b.info, f[p].sub[k])
  <2>1. f[p].sub[k] \in Ids(f) /\ f[p].sub[k] # p
    BY <1>1, ChildApart
  <2>2. f[p].sub[k] \in p .. f[p].last
    <3>1. /\ p < f[p].sub[k] /\ f[p].sub[k] \in Nat /\ f[f[p].sub[k]].last \in Nat
          /\ f[p].sub[k] <= f[f[p].sub[k]].last /\ f[f[p].sub[k]].last <= f[p].last
      BY <1>1, ChildrenBetween
    <3> QED
      BY <1>5, <3>1, SMTT(60)
  <2>3. Settled(b.info, f[p].sub[k])
    BY <1>4, <2>2 DEF Checked
  <2> QED
    BY <1>9, <2>1, <2>3
<1>14. ASSUME Rule(f, r, b.info, p) PROVE Rule(f, r, t.info, p)
  <2> DEFINE one == f[p].sub[1]
             two == f[p].sub[2]
  <2>1. f[p].op \in {"tail", "semi"} => 1 \in 1 .. Len(f[p].sub)
    BY <1>1, OpArity
  <2>2. f[p].op \in {"seq", "run", "let"} => 1 \in 1 .. Len(f[p].sub) /\ 2 \in 1 .. Len(f[p].sub)
    BY <1>1, OpArity
  <2>3. f[p].op \in {"tail", "semi", "seq", "run", "let"} => t.info[one] = b.info[one] /\ Settled(b.info, one)
    BY <1>13, <2>1, <2>2
  <2>4. f[p].op \in {"seq", "run", "let"} => t.info[two] = b.info[two] /\ Settled(b.info, two)
    BY <1>13, <2>2
  <2>5. LetId(p) \in Ids(f) /\ LetId(p) # p
    BY <1>1, <1>5, IdFacts
  <2>6. t.info[LetId(p)] = b.info[LetId(p)]
    BY <1>9, <2>5
  <2>7. (Ends(t.info, p) <=> Ends(b.info, p)) /\ (b.info[p].ty = ty \/ (b.info[p].ty = Never /\ Ends(b.info, p)))
    BY <1>6, <1>9 DEF Ends, Settled, Coerces
  <2>8. BlockRule(f, r, b.info, p)
    BY <1>14 DEF Rule
  <2>9. BlockRule(f, r, t.info, p)
    <3>1. f[p].op = "tail" => Is(t.info, one, ty)
      BY <2>3, <2>7, <2>8, ZenonT(60) DEF BlockRule, Is, Ends, Settled
    <3>2. f[p].op \in {"seq", "run", "let"} => Is(t.info, two, ty)
      BY <2>4, <2>7, <2>8, SMTT(60) DEF BlockRule, Is, Ends, Settled
    <3>3. f[p].op \in {"empty", "semi"} => Is(t.info, p, Unit)
      BY <1>9, <2>7, <2>8, SMTT(60) DEF BlockRule, Is, Ends
    <3>4. f[p].op = "let" => Is(t.info, one, t.info[LetId(p)].ty)
      BY <2>3, <2>6, <2>8 DEF BlockRule, Is, Ends
    <3>5. /\ f[p].op = "empty" => ~Ends(t.info, p)
          /\ f[p].op \in {"tail", "semi"} => (Ends(t.info, p) => Ends(t.info, one))
      BY <2>3, <2>7, <2>8 DEF BlockRule, Ends
    <3>6. f[p].op \in {"seq", "run", "let"} => (Ends(t.info, p) => Ends(t.info, one) \/ Ends(t.info, two))
      BY <2>3, <2>4, <2>7, <2>8 DEF BlockRule, Ends
    <3> QED
      BY <1>9, <3>1, <3>2, <3>3, <3>4, <3>5, <3>6 DEF BlockRule
  <2> QED
    BY <2>9 DEF Rule, ValueRule, OperatorRule, BranchRule, JumpRule, BlockOps
<1>15. ASSUME NEW q \in p .. f[p].last PROVE Checked(f, r, t.info, p, Pending(t.frames), q)
  <2>1. Checked(f, r, b.info, p, Pending(b.frames), q) /\ q \in DOMAIN f
    BY <1>4, <1>5 DEF Row
  <2>2. CASE q = p
    <3>1. f[q].op \notin Breaks
      BY <2>2 DEF Breaks, BlockOps
    <3> QED
      BY <1>9, <1>11, <1>14, <2>1, <2>2, <3>1 DEF Checked
  <2>3. CASE q # p
    <3>1. q \in Ids(f) /\ q \in Nat /\ q > p
      BY <1>1, <1>5, <2>1, <2>3, IdFacts
    <3>2. Settled(t.info, q)
      BY <1>9, <2>1, <2>3, <3>1 DEF Checked, Settled, Ends
    <3>3. ASSUME Rule(f, r, b.info, q) PROVE Rule(f, r, t.info, q)
      <4>1. LetId(q) \in Ids(f) /\ LetId(q) # p
        BY <1>1, <1>5, <2>1, IdFacts
      <4>2. \A k \in 1 .. Len(f[q].sub) : f[q].sub[k] \in Ids(f) /\ f[q].sub[k] # p
        <5>1. \A k \in 1 .. Len(f[q].sub) : f[q].sub[k] \in Ids(f) /\ q < f[q].sub[k] /\ f[q].sub[k] \in DOMAIN f
          BY <1>1, <2>1, ChildApart
        <5>2. \A k \in 1 .. Len(f[q].sub) : f[q].sub[k] \in Nat
          BY <1>1, <5>1, IdFacts, Zenon
        <5> QED
          BY <1>5, <3>1, <5>1, <5>2
      <4>3. f[q].op = "x" => b.info[q].local \in Ids(f) /\ b.info[q].local # p
        <5> SUFFICES ASSUME f[q].op = "x" PROVE b.info[q].local \in Ids(f) /\ b.info[q].local # p
          OBVIOUS
        <5>1. Visible(f, q, b.info[q].local)
          BY <3>3 DEF Rule, ValueRule
        <5> QED
          BY <1>1, <2>1, <5>1, VisibleFacts
      <4>4. f[q].op \in Breaks => b.info[q].jump \in Ids(f) /\ b.info[q].jump # p
        <5> SUFFICES ASSUME f[q].op \in Breaks PROVE b.info[q].jump \in Ids(f) /\ b.info[q].jump # p
          OBVIOUS
        <5>1. b.info[q].jump \in DOMAIN f /\ f[b.info[q].jump].op \in {"loop", "while"}
          BY <3>3 DEF Rule, JumpRule, Breaks
        <5>2. f[p].op \notin {"loop", "while"}
          BY DEF BlockOps
        <5> QED
          BY <1>1, <5>1, <5>2, IdFacts
      <4>5. SameAt(b.info, t.info, q) /\ SameAt(b.info, t.info, LetId(q))
        BY <1>10, <2>3, <3>1, <4>1, Zenon
      <4>6. \A k \in 1 .. Len(f[q].sub) : SameAt(b.info, t.info, f[q].sub[k])
        BY <1>10, <4>2
      <4>7. f[q].op = "x" => SameAt(b.info, t.info, b.info[q].local)
        BY <1>10, <4>3
      <4>8. f[q].op \in Breaks => SameAt(b.info, t.info, b.info[q].jump)
        BY <1>10, <4>4
      <4> QED
        BY <1>1, <2>1, <3>3, <4>5, <4>6, <4>7, <4>8, RuleStable
    <3>4. t.info[q].jump = b.info[q].jump
      BY <1>9, <2>3, <3>1
    <3> QED
      BY <1>9, <2>1, <3>2, <3>3, <3>4 DEF Checked
  <2> QED
    BY <2>2, <2>3
<1>16. FramesGrow(f, t.info, p, f[p].last, s.frames, t.frames)
  <2>1. ASSUME NEW frame, NEW x, BreakFits(f, b.info, p, f[p].last, frame, x)
        PROVE  BreakFits(f, t.info, p, f[p].last, frame, x)
    <3>1. x.source \in p .. f[p].last /\ x.source \in DOMAIN f /\ x.source \in Nat /\ x.source >= p
      BY <1>5, <2>1 DEF BreakFits, Row
    <3>2. f[x.source].op = "breakv" => t.info[f[x.source].sub[1]] = b.info[f[x.source].sub[1]]
      <4> SUFFICES ASSUME f[x.source].op = "breakv" PROVE t.info[f[x.source].sub[1]] = b.info[f[x.source].sub[1]]
        OBVIOUS
      <4>1. 1 \in 1 .. Len(f[x.source].sub)
        BY <1>1, <3>1, OpArity
      <4>2. f[x.source].sub[1] \in Ids(f) /\ x.source < f[x.source].sub[1] /\ f[x.source].sub[1] \in DOMAIN f
        BY <1>1, <3>1, <4>1, ChildApart
      <4>3. f[x.source].sub[1] # p
        BY <1>1, <1>5, <3>1, <4>2, IdFacts
      <4> QED
        BY <1>9, <4>2, <4>3
    <3> QED
      BY <2>1, <3>2 DEF BreakFits
  <2> QED
    BY <1>4, <1>9, <2>1 DEF FramesGrow
<1>17. \A j \in Ids(f) : Home(j) < p => t.info[j] = s.info[j]
  BY <1>4, <1>5, <1>9
<1>18. Span(f, r, p, p, f[p].last, s, t)
  BY <1>9, <1>15, <1>16, <1>17 DEF Span
<1> QED
  BY <1>4, <1>9, <1>18 DEF CheckPost

IsLoop(f, p) == f[p].op \in {"loop", "while"}

\* The frame a loop pushes.
LoopFrame(f, p, expected, stage) ==
  [id |-> p, kind |-> IF f[p].op = "loop" THEN "Loop" ELSE "While", phase |-> stage,
   expected |-> IF f[p].op = "loop" THEN expected ELSE None, breaks |-> {}]

\* One frame more, and nothing else that matters.
Pushed(f, p, expected, stage, s, a) ==
  /\ a \in Checkers(f) /\ a.ok = TRUE /\ a.scope = s.scope
  /\ a.frames = Append(s.frames, LoopFrame(f, p, expected, stage))

\* The frame x on top of old.
OnTop(x, old, new) ==
  /\ x \in Frame /\ old \in Seq(Frame) /\ new \in Seq(Frame) /\ new # <<>> /\ Len(new) = Len(old) + 1
  /\ Len(old) \in Nat /\ Last(new) = x /\ \A k \in 1 .. Len(old) : new[k] = old[k]

\* The frame of a loop is a frame.
LEMMA LoopFrameIsFrame ==
    ASSUME NEW f, IsBody(f), NEW p \in DOMAIN f, NEW expected \in Types \cup {None}, NEW stage \in {"Condition", "Body"}
    PROVE  LoopFrame(f, p, expected, stage) \in Frame
BY IdFacts DEF LoopFrame, Frame

\* The last frame of a sequence with one frame more.
LEMMA PushedFacts ==
    ASSUME NEW x \in Frame, NEW old \in Seq(Frame)
    PROVE  OnTop(x, old, Append(old, x))
<1> DEFINE new == Append(old, x)
<1>2. /\ new \in Seq(Frame) /\ new # <<>> /\ Len(new) = Len(old) + 1
      /\ \A k \in 1 .. Len(old) : new[k] = old[k]
      /\ new[Len(old) + 1] = x
  BY AppendProperties
<1>3. Last(new) = x
  BY <1>2 DEF Last
<1> QED
  BY <1>2, <1>3 DEF OnTop

Pushes(c, p, expected, s, a) == a = PushFrame(c, p, expected, s)

PushedTo(f, p, expected, s, a) ==
  /\ f[p].op = "loop" => Pushed(f, p, expected, "Body", s, a)
  /\ f[p].op = "while" => Pushed(f, p, expected, "Condition", s, a)
  /\ a.info = s.info /\ a.div = FALSE

\* Pushing the frame.
LEMMA PushChecked ==
    ASSUME NEW c, NEW f, NEW r, NEW p, NEW expected, NEW s, Call(c, f, r, p, expected, s),
           NEW a, Pushes(c, p, expected, s, a)
    PROVE  PushedTo(f, p, expected, s, a)
<1>1. IsBody(f) /\ p \in DOMAIN f /\ c.body = f /\ expected \in Types \cup {None} /\ s \in Checkers(f) /\ s.ok = TRUE
  BY DEF Call, CheckPre
<1>2. s.frames \in Seq(Frame)
  BY <1>1, CheckerFields
<1> DEFINE stage == IF f[p].op = "loop" THEN "Body" ELSE "Condition"
           new == Append(s.frames, LoopFrame(f, p, expected, stage))
<1>3. a = [s EXCEPT !.frames = new, !.div = FALSE]
  BY <1>1, Zenon DEF PushFrame, LoopFrame, Pushes
<1>4. new \in Seq(Frame)
  <2>1. LoopFrame(f, p, expected, "Body") \in Frame /\ LoopFrame(f, p, expected, "Condition") \in Frame
    BY <1>1, LoopFrameIsFrame
  <2> QED
    BY <1>2, <2>1, AppendProperties
<1>5. a.frames = new
  BY <1>1, <1>3 DEF Checkers
<1> HIDE DEF new
<1>6. a \in Checkers(f) /\ a.ok = TRUE /\ a.scope = s.scope /\ a.info = s.info /\ a.div = FALSE
  BY <1>1, <1>3, <1>4, Zenon DEF Checkers
<1> QED
  BY <1>5, <1>6 DEF Pushed, PushedTo, new

\* Before the body of the loop p: its frame is pushed, and its condition is checked.
Opened(f, r, p, expected, s, a) ==
  /\ Pushed(f, p, expected, "Body", s, a) /\ a.div \in BOOLEAN
  /\ \A j \in Ids(f) : Home(j) < p => a.info[j] = s.info[j]
  /\ Row(f, p + 1, Last(f[p].sub) - 1)
  /\ \A q \in p + 1 .. Last(f[p].sub) - 1 : Checked(f, r, a.info, p + 1, {}, q)
  /\ f[p].op = "while" => Is(a.info, f[p].sub[1], Bool) /\ (a.div = TRUE => Ends(a.info, f[p].sub[1]))

\* The frame of a while in its condition.
InCondition(c, f, r, p, expected, s, a) ==
  Call(c, f, r, p, expected, a) /\ Pushed(f, p, expected, "Condition", s, a) /\ a.info = s.info

\* A state whose last frame is in its body.
ToBody(a, b) == b = [a EXCEPT !.frames[Len(a.frames)].phase = "Body"]

\* The condition of a while.
LEMMA WhileOpened ==
    ASSUME NEW c, NEW f, NEW r, NEW p, NEW expected, NEW s, s \in Checkers(f), f[p].op = "while",
           NEW u, InCondition(c, f, r, p, expected, s, u),
           NEW a, Runs(c, f, p, 1, Bool, u, a), NEW b, ToBody(a, b)
    PROVE  Opened(f, r, p, expected, s, b)
<1>1. IsBody(f) /\ p \in DOMAIN f /\ Call(c, f, r, p, expected, u) /\ u.info = s.info /\ expected \in Types \cup {None}
  BY DEF InCondition, Call
<1>2. Got(f, f[p].sub[1], Bool, u, a) /\ Upto(f, r, p, 1, u, a)
  BY <1>1, FirstGot
<1>3. Len(f[p].sub) = 2 /\ 1 \in 1 .. Len(f[p].sub)
  BY <1>1, OpArity
<1> DEFINE one == f[p].sub[1]
           m == f[one].last
<1>4. Last(f[p].sub) = m + 1 /\ m \in Nat /\ p \in Nat /\ one = p + 1 /\ one <= m /\ one \in DOMAIN f
  <2>1. Last(f[p].sub) = f[p].sub[2] /\ one = p + 1 /\ p \in Nat /\ f[p].sub[2] = m + 1 /\ one \in DOMAIN f
    BY <1>1, <1>3, TwoChildren, ChildApart
  <2>2. m \in Nat /\ one <= m
    BY <1>1, <2>1, NodeFacts
  <2> QED
    BY <2>1, <2>2
<1>5. /\ u \in Checkers(f) /\ u.ok = TRUE /\ u.scope = s.scope
      /\ u.frames = Append(s.frames, LoopFrame(f, p, expected, "Condition"))
  BY DEF InCondition, Pushed
<1>6. s.frames \in Seq(Frame)
  BY CheckerFields
<1> DEFINE x == LoopFrame(f, p, expected, "Condition")
           y == LoopFrame(f, p, expected, "Body")
           n == Len(s.frames)
<1>7. /\ x \in Frame /\ u.frames \in Seq(Frame) /\ u.frames # <<>> /\ Len(u.frames) = n + 1 /\ n \in Nat
      /\ Last(u.frames) = x
  <2>1. x \in Frame
    BY <1>1, LoopFrameIsFrame
  <2> HIDE DEF x
  <2>2. OnTop(x, s.frames, u.frames)
    BY <1>5, <1>6, <2>1, PushedFacts DEF x
  <2> QED
    BY <2>2 DEF OnTop
<1>8. /\ a \in Checkers(f) /\ a.ok = TRUE /\ a.scope = s.scope /\ a.div \in BOOLEAN
      /\ (a.div = TRUE <=> Ends(a.info, one)) /\ Is(a.info, one, Bool)
  <2>1. /\ a \in Checkers(f) /\ a.ok = TRUE /\ a.scope = u.scope /\ a.div \in BOOLEAN
        /\ (a.div = TRUE <=> Ends(a.info, one)) /\ Is(a.info, one, Bool)
    BY <1>2 DEF Got, Bool, None
  <2> QED
    BY <1>5, <2>1, SMTT(60)
<1>9. Row(f, p + 1, m) /\ Span(f, r, p, p + 1, m, u, a)
  BY <1>2 DEF Upto
<1>10. /\ \A j \in Ids(f) : Home(j) < p => a.info[j] = u.info[j]
       /\ FramesGrow(f, a.info, p + 1, m, u.frames, a.frames)
       /\ \A q \in p + 1 .. m : Checked(f, r, a.info, p + 1, Pending(a.frames), q)
  BY <1>9 DEF Span
<1> HIDE DEF one, m, x, y, n
<1>11. x.phase = "Condition" /\ x.breaks = {}
  BY DEF x, LoopFrame
<1>12. /\ a.frames \in Seq(Frame) /\ Len(a.frames) = n + 1 /\ a.frames # <<>>
       /\ \A k \in 1 .. n : a.frames[k] = u.frames[k]
       /\ Last(a.frames).id = x.id /\ Last(a.frames).kind = x.kind
       /\ Last(a.frames).phase = x.phase /\ Last(a.frames).expected = x.expected
       /\ \A b1 \in Last(a.frames).breaks \ x.breaks : BreakFits(f, a.info, p + 1, m, Last(a.frames), b1)
  <2>1. a.frames \in Seq(Frame) /\ Len(a.frames) = n + 1
    BY <1>7, <1>10 DEF FramesGrow
  <2>2. a.frames # <<>>
    BY <1>7, <2>1
  <2>3. \A k \in 1 .. n : a.frames[k] = u.frames[k]
    <3>1. \A k \in 1 .. n + 1 : k # n + 1 => a.frames[k] = u.frames[k]
      BY <1>7, <1>10 DEF FramesGrow
    <3>2. \A k \in 1 .. n : k \in 1 .. n + 1 /\ k # n + 1
      BY <1>7
    <3> QED
      BY <3>1, <3>2
  <2> QED
    BY <1>7, <1>10, <2>1, <2>2, <2>3 DEF FramesGrow
<1>13. Last(a.frames).breaks = {}
  <2>1. \A b1 \in Last(a.frames).breaks : FALSE
    BY <1>11, <1>12 DEF BreakFits
  <2> QED
    BY <2>1
<1>14. Last(a.frames) = a.frames[n + 1] /\ a.frames[n + 1] \in Frame /\ n + 1 \in 1 .. Len(a.frames)
  BY <1>7, <1>12 DEF Last
<1> DEFINE z == a.frames[n + 1]
           g == [a.frames EXCEPT ![n + 1] = y]
<1>15. z = x
  <2> HIDE DEF z
  <2>1. z \in Frame /\ z.id = x.id /\ z.kind = x.kind /\ z.phase = x.phase /\ z.expected = x.expected /\ z.breaks = x.breaks
    BY <1>11, <1>12, <1>13, <1>14 DEF z
  <2> QED
    BY <1>7, <2>1 DEF Frame
<1>16. [x EXCEPT !.phase = "Body"] = y
  BY DEF x, y, LoopFrame
<1>17. b = [a EXCEPT !.frames = g]
  BY <1>8, <1>12, <1>15, <1>16, Zenon DEF ToBody, Checkers
<1>18. y \in Frame
  BY <1>1, LoopFrameIsFrame DEF y
<1>19. g \in Seq(Frame) /\ Len(g) = n + 1 /\ g[n + 1] = y /\ \A k \in 1 .. n : g[k] = a.frames[k]
  BY <1>7, <1>12, <1>14, <1>18, ExceptSeq
<1> HIDE DEF g
<1>20. g = Append(s.frames, y)
  <2> DEFINE h == Append(s.frames, y)
  <2>1. h \in Seq(Frame) /\ Len(h) = n + 1 /\ h[n + 1] = y /\ \A k \in 1 .. n : h[k] = s.frames[k]
    BY <1>6, <1>18, AppendProperties DEF n
  <2> HIDE DEF h
  <2>2. \A k \in 1 .. n : s.frames[k] = u.frames[k]
    BY <1>5, <1>6, <1>7, AppendProperties DEF n, x
  <2>3. \A k \in 1 .. n + 1 : k \in 1 .. n \/ k = n + 1
    BY <1>7
  <2>4. \A k \in 1 .. n + 1 : g[k] = h[k]
    BY <1>12, <1>19, <2>1, <2>2, <2>3
  <2>5. g = h
    BY <1>7, <1>19, <2>1, <2>4
  <2> QED
    BY <2>5 DEF h
<1>21. b \in Checkers(f) /\ b.info = a.info /\ b.ok = a.ok /\ b.div = a.div /\ b.frames = g /\ b.scope = a.scope
  BY <1>8, <1>17, <1>19, FramesReplaced
<1>22. Pushed(f, p, expected, "Body", s, b)
  BY <1>8, <1>20, <1>21 DEF Pushed, y
<1>23. Pending(a.frames) = {}
  BY <1>12, <1>13 DEF Pending
<1>24. Last(f[p].sub) - 1 = m
  BY <1>4
<1> QED
  BY <1>1, <1>8, <1>9, <1>10, <1>21, <1>22, <1>23, <1>24 DEF Opened, one

\* A frame more, and the nodes around p are still those around its children.
LEMMA PushedPre ==
    ASSUME NEW c, NEW f, NEW r, NEW p, NEW expected, NEW s, Call(c, f, r, p, expected, s),
           NEW stage \in {"Condition", "Body"}, NEW a, Pushed(f, p, expected, stage, s, a),
           \A j \in Ids(f) : Home(j) < p => a.info[j] = s.info[j],
           NEW k \in 1 .. Len(f[p].sub), stage = "Body" => k = Len(f[p].sub), IsLoop(f, p)
    PROVE  CheckPre(f, f[p].sub[k], a) /\ a.frames # <<>> /\ Last(a.frames) = LoopFrame(f, p, expected, stage)
<1>1. IsBody(f) /\ p \in DOMAIN f /\ expected \in Types \cup {None} /\ CheckPre(f, p, s) /\ s \in Checkers(f)
  BY DEF Call, CheckPre
<1>2. s.frames \in Seq(Frame)
  BY <1>1, CheckerFields
<1> DEFINE x == LoopFrame(f, p, expected, stage)
           d == f[p].sub[k]
<1>3. x \in Frame /\ x.id = p /\ x.phase = stage /\ x.kind = IF f[p].op = "loop" THEN "Loop" ELSE "While"
  BY <1>1, LoopFrameIsFrame, Zenon DEF LoopFrame, IsLoop
<1>4. a \in Checkers(f) /\ a.ok = TRUE /\ a.scope = s.scope /\ a.frames = Append(s.frames, x)
  BY DEF Pushed
<1> HIDE DEF x
<1>5. OnTop(x, s.frames, a.frames)
  BY <1>2, <1>3, <1>4, PushedFacts
<1>6. a.frames # <<>> /\ Last(a.frames) = x
  BY <1>5 DEF OnTop
<1>7. Visible(f, p, s.scope) /\ s.info[s.scope].ty \in Types /\ s.info[s.scope].val = s.info[s.scope].ty
  BY <1>1 DEF CheckPre
<1>8. s.scope \in Ids(f) /\ Home(s.scope) < p
  BY <1>1, <1>7, VisibleFacts
<1>9. Visible(f, d, a.scope) /\ a.info[a.scope].ty \in Types /\ a.info[a.scope].val = a.info[a.scope].ty
  BY <1>1, <1>4, <1>7, <1>8, VisibleChild
<1>10. x.phase = "Body" => x.id \in DOMAIN f /\ Inside(f, x.id, d) /\ f[x.id].op = IF x.kind = "Loop" THEN "loop" ELSE "while"
  BY <1>1, <1>3, InsideChild DEF IsLoop
<1>11. CheckPre(f, d, a)
  BY <1>4, <1>6, <1>9, <1>10 DEF CheckPre
<1> QED
  BY <1>6, <1>11 DEF x

\* Before the body: a loop.
LEMMA LoopOpened ==
    ASSUME NEW c, NEW f, NEW r, NEW p, NEW expected, NEW s, Call(c, f, r, p, expected, s), f[p].op = "loop",
           NEW a, Pushes(c, p, expected, s, a)
    PROVE  Opened(f, r, p, expected, s, a)
<1>1. Pushed(f, p, expected, "Body", s, a) /\ a.info = s.info /\ a.div = FALSE
  <2>1. PushedTo(f, p, expected, s, a)
    BY PushChecked
  <2> QED
    BY <2>1 DEF PushedTo
<1>2. IsBody(f) /\ p \in DOMAIN f
  BY DEF Call
<1>3. Len(f[p].sub) = 1
  BY <1>2, OpArity
<1>4. Last(f[p].sub) = p + 1 /\ p \in Nat
  BY <1>2, <1>3, OneChild
<1>5. Row(f, p + 1, Last(f[p].sub) - 1)
  BY <1>4 DEF Row
<1>6. p + 1 .. Last(f[p].sub) - 1 = {}
  BY <1>4
<1> QED
  BY <1>1, <1>5, <1>6, Zenon DEF Opened

\* The check of the condition, from the state with the frame.
ConditionRuns(c, f, r, p, u, a) ==
  a = CheckCondition(c, p, u) /\ Okay(a)

\* Before the body: a loop or a while.
LEMMA EachOpened ==
    ASSUME NEW c, NEW f, NEW r, NEW p, NEW expected, NEW s, Call(c, f, r, p, expected, s), IsLoop(f, p),
           NEW u, Pushes(c, p, expected, s, u), NEW a, ConditionRuns(c, f, r, p, u, a)
    PROVE  Opened(f, r, p, expected, s, a)
<1>1. IsBody(f) /\ p \in DOMAIN f /\ c.body = f /\ s \in Checkers(f) /\ c.result = r /\ r \in {Unit, Bool} /\ GoodBelow(c, f, r, p) /\ expected \in Types \cup {None}
  BY DEF Call, CheckPre
<1>2. CASE f[p].op = "loop"
  <2>1. a = u
    BY <1>1, <1>2 DEF CheckCondition, ConditionRuns
  <2> QED
    BY <1>2, <2>1, LoopOpened
<1>3. CASE f[p].op = "while"
  <2>1. Pushed(f, p, expected, "Condition", s, u) /\ u.info = s.info
    <3>1. PushedTo(f, p, expected, s, u)
      BY PushChecked
    <3> QED
      BY <1>3, <3>1 DEF PushedTo
  <2>2. Len(f[p].sub) = 2 /\ 1 \in 1 .. Len(f[p].sub)
    BY <1>1, <1>3, OpArity
  <2> HIDE DEF Call
  <2>3. CheckPre(f, p, u)
    <3>1. CheckPre(f, p, s) /\ s.frames \in Seq(Frame)
      BY <1>1, CheckerFields DEF Call
    <3> DEFINE x == LoopFrame(f, p, expected, "Condition")
    <3>2. x \in Frame /\ x.phase = "Condition"
      BY <1>1, LoopFrameIsFrame, Zenon DEF LoopFrame
    <3>3. u \in Checkers(f) /\ u.ok = TRUE /\ u.scope = s.scope /\ u.frames = Append(s.frames, x)
      BY <2>1 DEF Pushed
    <3> HIDE DEF x
    <3>4. OnTop(x, s.frames, u.frames)
      BY <3>1, <3>2, <3>3, PushedFacts
    <3>5. Last(u.frames).phase # "Body"
      BY <3>2, <3>4 DEF OnTop
    <3> QED
      BY <2>1, <3>1, <3>3, <3>5 DEF CheckPre
  <2>4. Call(c, f, r, p, expected, u)
    BY <1>1, <2>3 DEF Call
  <2>5. InCondition(c, f, r, p, expected, s, u)
    BY <2>1, <2>4, SMTT(60) DEF InCondition
  <2> DEFINE v == CheckSub(c, f[p].sub[1], Bool, u)
             w == [v EXCEPT !.frames[Len(v.frames)].phase = "Body"]
  <2>6. a = IF v.ok THEN w ELSE v
    BY <1>1, <1>3, SMTT(60) DEF CheckCondition, ConditionRuns, Then, Child
  <2>7. Okay(v) /\ a = w
    BY <2>6, SMTT(60) DEF Okay, ConditionRuns
  <2>8. Runs(c, f, p, 1, Bool, u, v)
    BY <2>2, <2>7, SMTT(60) DEF Runs, Types
  <2>9. ToBody(v, a)
    BY <2>7 DEF ToBody
  <2> HIDE DEF v, w
  <2> QED
    BY <1>1, <1>3, <2>5, <2>8, <2>9, WhileOpened
<1> QED
  BY <1>2, <1>3 DEF IsLoop

\* After the body of the loop p: the breaks that left it.
Looped(f, r, p, expected, s, a, b) ==
  /\ Opened(f, r, p, expected, s, a)
  /\ b \in Checkers(f) /\ b.ok = TRUE /\ b.scope = s.scope
  /\ \A j \in Ids(f) : Home(j) < Last(f[p].sub) => b.info[j] = a.info[j]
  /\ b.frames # <<>> /\ Front(b.frames) = s.frames /\ Last(b.frames) \in Frame
  /\ Last(b.frames).id = p /\ Last(b.frames).kind = IF f[p].op = "loop" THEN "Loop" ELSE "While"
  /\ Last(b.frames).expected = IF f[p].op = "loop" THEN expected ELSE None
  /\ \A x \in Last(b.frames).breaks : BreakFits(f, b.info, Last(f[p].sub), f[p].last, Last(b.frames), x)
  /\ \A q \in Last(f[p].sub) .. f[p].last : Checked(f, r, b.info, Last(f[p].sub), Last(b.frames).breaks, q)

\* The check of the body, from the state before it.
BodyRuns(c, f, p, a, b) == b = CheckBlock(c, Last(f[p].sub), Unit, a) /\ Okay(b)

\* The body of a loop.
LEMMA BodyLooped ==
    ASSUME NEW c, NEW f, NEW r, NEW p, NEW expected, NEW s, Call(c, f, r, p, expected, s), IsLoop(f, p),
           NEW a, Opened(f, r, p, expected, s, a), NEW b, BodyRuns(c, f, p, a, b)
    PROVE  Looped(f, r, p, expected, s, a, b)
<1>1. IsBody(f) /\ p \in DOMAIN f /\ c.body = f /\ s \in Checkers(f) /\ c.result = r /\ r \in {Unit, Bool} /\ GoodBelow(c, f, r, p) /\ expected \in Types \cup {None}
  BY DEF Call, CheckPre
<1> DEFINE n == Len(f[p].sub)
           d == f[p].sub[n]
<1>2. n \in 1 .. Len(f[p].sub) /\ Last(f[p].sub) = d
  BY <1>1, OpArity DEF Last, IsLoop
<1>3. /\ d \in DOMAIN f /\ d \in Nat /\ p \in Nat /\ p < d /\ f[d].last = f[p].last /\ f[p].last \in Nat /\ d <= f[d].last
      /\ f[d].op \in BlockOps
  <2>1. f[d].op \in Allowed(f[p].op, n) /\ d \in DOMAIN f
    BY <1>1, <1>2 DEF IsBody, Numbered
  <2>2. f[d].op \in BlockOps
    <3>1. f[p].op = "loop" => n = 1
      BY <1>1, OpArity
    <3>2. f[p].op = "while" => n = 2
      BY <1>1, OpArity
    <3> QED
      BY <2>1, <3>1, <3>2, SMTT(60) DEF Allowed, IsLoop
  <2>3. d \in Nat /\ p \in Nat /\ p < d /\ f[d].last = f[p].last /\ f[p].last \in Nat /\ d <= f[d].last
    BY <1>1, <1>2, ChildrenBetween
  <2> QED
    BY <2>1, <2>2, <2>3
<1>4. Pushed(f, p, expected, "Body", s, a) /\ \A j \in Ids(f) : Home(j) < p => a.info[j] = s.info[j]
  BY DEF Opened
<1>5. CheckPre(f, d, a)
  BY <1>2, <1>4, PushedPre
<1>6. Call(c, f, r, d, Unit, a)
  <2>1. GoodBelow(c, f, r, d)
    <3>1. \A j \in DOMAIN f : j \in Nat
      BY <1>1, IdFacts
    <3>2. \A j \in DOMAIN f : d < j /\ j <= f[d].last => p < j /\ j <= f[p].last
      BY <1>3, <3>1
    <3> QED
      BY <1>1, <3>2 DEF GoodBelow
  <2>2. Unit \in Types \cup {None}
    BY DEF Types
  <2> QED
    BY <1>1, <1>3, <1>5, <2>1, <2>2 DEF Call
<1>7. b = CheckBlock(c, d, Unit, a) /\ Okay(b)
  BY <1>2 DEF BodyRuns
<1>8. CheckPost(f, r, d, Unit, a, b)
  BY <1>3, <1>6, <1>7, BlockChecked
<1> DEFINE x == LoopFrame(f, p, expected, "Body")
<1>9. s.frames \in Seq(Frame) /\ x \in Frame /\ a.frames = Append(s.frames, x) /\ a.scope = s.scope
  BY <1>1, <1>4, CheckerFields, LoopFrameIsFrame DEF Pushed
<1>10. /\ x.id = p /\ x.kind = (IF f[p].op = "loop" THEN "Loop" ELSE "While")
       /\ x.expected = (IF f[p].op = "loop" THEN expected ELSE None) /\ x.breaks = {}
  BY DEF LoopFrame
<1> HIDE DEF x, n, d
<1>11. OnTop(x, s.frames, a.frames)
  BY <1>9, PushedFacts
<1>12. /\ b \in Checkers(f) /\ b.ok = TRUE /\ b.scope = s.scope
       /\ \A j \in Ids(f) : Home(j) < d => b.info[j] = a.info[j]
       /\ FramesGrow(f, b.info, d, f[p].last, a.frames, b.frames)
       /\ \A q \in d .. f[p].last : Checked(f, r, b.info, d, Pending(b.frames), q)
  BY <1>3, <1>8, <1>9 DEF CheckPost, Span
<1> DEFINE m == Len(s.frames)
<1>13. /\ m \in Nat /\ a.frames # <<>> /\ Len(a.frames) = m + 1 /\ Last(a.frames) = x /\ \A k \in 1 .. m : a.frames[k] = s.frames[k]
  BY <1>11 DEF OnTop
<1>14. b.frames \in Seq(Frame) /\ Len(b.frames) = m + 1 /\ \A k \in 1 .. m : b.frames[k] = s.frames[k]
  <2>1. b.frames \in Seq(Frame) /\ Len(b.frames) = m + 1 /\ \A k \in 1 .. m + 1 : k # m + 1 => b.frames[k] = a.frames[k]
    BY <1>12, <1>13 DEF FramesGrow
  <2>2. \A k \in 1 .. m : k \in 1 .. m + 1 /\ k # m + 1
    BY <1>13
  <2> QED
    BY <1>13, <2>1, <2>2
<1>15. /\ Last(b.frames).id = x.id /\ Last(b.frames).kind = x.kind /\ Last(b.frames).expected = x.expected
       /\ \A y \in Last(b.frames).breaks \ x.breaks : BreakFits(f, b.info, d, f[p].last, Last(b.frames), y)
  BY <1>12, <1>13 DEF FramesGrow
<1>16. b.frames # <<>> /\ Last(b.frames) \in Frame
  <2>1. b.frames # <<>> /\ m + 1 \in 1 .. m + 1
    BY <1>13, <1>14
  <2> QED
    BY <1>14, <2>1 DEF Last
<1>17. Front(b.frames) = s.frames
  <2> DEFINE g == SubSeq(b.frames, 1, m)
  <2>1. \A k \in 1 .. m : b.frames[k] \in Frame
    BY <1>13, <1>14
  <2>2. g \in Seq(Frame) /\ Len(g) = m /\ \A k \in 1 .. m : g[k] = b.frames[k]
    <3> DEFINE h == b.frames
    <3>1. \A k \in 1 .. m : h[k] \in Frame
      BY <2>1
    <3>2. m \in Int /\ 1 \in Int
      BY <1>13
    <3> HIDE DEF h, m
    <3>3. /\ SubSeq(h, 1, m) \in Seq(Frame)
          /\ Len(SubSeq(h, 1, m)) = IF 1 <= m THEN m - 1 + 1 ELSE 0
          /\ \A k \in 1 .. m - 1 + 1 : SubSeq(h, 1, m)[k] = h[1 + k - 1]
      BY <3>1, <3>2, SubSeqProperties
    <3>4. \A k \in 1 .. m : k \in 1 .. m - 1 + 1 /\ 1 + k - 1 = k
      BY <3>2
    <3>5. Len(SubSeq(h, 1, m)) = m
      BY <1>13, <3>3
    <3> QED
      BY <3>3, <3>4, <3>5 DEF h
  <2> HIDE DEF g
  <2>3. \A k \in 1 .. m : g[k] = s.frames[k]
    BY <1>14, <2>2
  <2>4. g = s.frames
    BY <1>9, <2>2, <2>3, SeqEqual
  <2>5. Len(b.frames) - 1 = m
    BY <1>13, <1>14
  <2> QED
    BY <2>4, <2>5 DEF g, Front
<1>18. Pending(b.frames) = Last(b.frames).breaks
  BY <1>16 DEF Pending
<1>19. Last(f[p].sub) = d
  BY <1>2 DEF d
<1> HIDE DEF Checked, BreakFits
<1> QED
  BY <1>10, <1>12, <1>15, <1>16, <1>17, <1>18, <1>19 DEF Looped

\* A break that left the loop p.
Left(f, p, expected, info, x) ==
  /\ x \in Break /\ x.source \in Last(f[p].sub) .. f[p].last /\ x.source \in DOMAIN f /\ Inside(f, p, x.source)
  /\ f[x.source].op \in Breaks /\ x.div \in BOOLEAN
  /\ f[x.source].op = "break" =>
       x.operand = NoNode /\ x.div = FALSE /\ (f[p].op = "loop" /\ expected # None => Coerces(Unit, expected))
  /\ f[x.source].op = "breakv" =>
       /\ x.operand = f[x.source].sub[1] /\ x.operand \in DOMAIN f /\ x.operand # NoNode
       /\ x.operand \in p + 1 .. f[p].last /\ x.operand \in Last(f[p].sub) .. f[p].last
       /\ x.div = info[x.operand].div /\ f[p].op = "loop" /\ Settled(info, x.operand)
       /\ expected # None => Coerces(info[x.operand].ty, expected)

\* The loop and its body.
LEMMA BodyPlace ==
    ASSUME NEW f, IsBody(f), NEW p \in DOMAIN f, IsLoop(f, p)
    PROVE  /\ p \in Nat /\ f[p].last \in Nat /\ Last(f[p].sub) \in DOMAIN f /\ Last(f[p].sub) \in Nat
           /\ p < Last(f[p].sub) /\ Last(f[p].sub) <= f[p].last /\ f[p].sub # <<>>
<1> DEFINE n == Len(f[p].sub)
           d == f[p].sub[n]
<1>1. n \in 1 .. Len(f[p].sub) /\ Last(f[p].sub) = d
  BY OpArity DEF Last, IsLoop
<1>2. d \in Nat /\ p \in Nat /\ p < d /\ f[d].last = f[p].last /\ f[p].last \in Nat /\ d <= f[d].last /\ d \in DOMAIN f /\ f[p].sub # <<>>
  BY <1>1, ChildrenBetween
<1> QED
  BY <1>1, <1>2

Among(x, breaks) == x \in breaks

\* Every break recorded for the loop has left it from inside.
LEMMA LeftFacts ==
    ASSUME NEW f, IsBody(f), NEW r, NEW p \in DOMAIN f, NEW expected, NEW s, IsLoop(f, p),
           NEW a, NEW b, Looped(f, r, p, expected, s, a, b), NEW x, Among(x, Last(b.frames).breaks)
    PROVE  Left(f, p, expected, b.info, x)
<1> DEFINE d == Last(f[p].sub)
           last == f[p].last
           w == Last(b.frames)
<1>1. p \in Nat /\ last \in Nat /\ d \in DOMAIN f /\ d \in Nat /\ p < d /\ d <= last /\ f[p].sub # <<>>
  BY BodyPlace
<1>2. /\ w \in Frame /\ w.kind = (IF f[p].op = "loop" THEN "Loop" ELSE "While")
      /\ w.expected = (IF f[p].op = "loop" THEN expected ELSE None) /\ BreakFits(f, b.info, d, last, w, x)
      /\ \A q \in d .. last : Checked(f, r, b.info, d, w.breaks, q)
  BY DEF Looped, Among
<1>3. x \in Break
  BY <1>2 DEF Frame, Among
<1>4. x.div \in BOOLEAN
  BY <1>3 DEF Break
<1> DEFINE q == x.source
<1>5. /\ q \in d .. last /\ f[q].op \in Breaks
      /\ f[q].op = "break" => x.operand = NoNode /\ x.div = FALSE /\ (w.expected # None => Coerces(Unit, w.expected))
      /\ f[q].op = "breakv" => /\ x.operand = f[q].sub[1] /\ x.div = b.info[x.operand].div /\ w.kind = "Loop"
                               /\ w.expected # None => Coerces(b.info[x.operand].ty, w.expected)
  BY <1>2 DEF BreakFits
<1>6. q \in DOMAIN f /\ f[q].last <= last /\ f[q].last \in Nat
  <2>1. Row(f, p, last)
    BY SubtreeRow
  <2>2. q \in p .. last
    BY <1>1, <1>5
  <2>3. q \in DOMAIN f /\ f[q].last <= last
    BY <2>1, <2>2 DEF Row
  <2> QED
    BY <2>3, NodeFacts
<1>7. Inside(f, p, q)
  BY <1>1, <1>5 DEF Inside
<1> HIDE DEF d, last, q, w
<1>8. ASSUME f[q].op = "breakv"
      PROVE  /\ f[q].sub[1] \in DOMAIN f /\ f[q].sub[1] # NoNode /\ f[q].sub[1] \in p + 1 .. last /\ f[q].sub[1] \in d .. last
             /\ Settled(b.info, f[q].sub[1])
  <2> DEFINE o == f[q].sub[1]
  <2>1. 1 \in 1 .. Len(f[q].sub)
    BY <1>6, <1>8, OpArity
  <2>2. o \in DOMAIN f /\ o \in Nat /\ q < o /\ o <= f[o].last /\ f[o].last <= f[q].last /\ f[o].last \in Nat /\ q \in Nat
    BY <1>6, <2>1, ChildrenBetween
  <2> HIDE DEF o
  <2>3. o \in p + 1 .. last /\ o \in d .. last /\ o # NoNode
    BY <1>1, <1>5, <1>6, <2>2 DEF NoNode
  <2>4. Settled(b.info, o)
    BY <1>2, <2>3 DEF Checked
  <2> QED
    BY <2>2, <2>3, <2>4 DEF o
<1>9. w.kind = "Loop" <=> f[p].op = "loop"
  BY <1>2
<1>10. f[p].op = "loop" => w.expected = expected
  BY <1>2
<1> QED
  BY <1>3, <1>4, <1>5, <1>6, <1>7, <1>8, <1>9, <1>10 DEF Left, d, last, q

\* The type a break brings to its loop.
Brings(info, x) == IF x.operand = NoNode THEN Unit ELSE info[x.operand].ty

\* The type of a loop is one every break coerces to.
LoopTyped(f, p, info, breaks, ty) ==
  /\ ty \in Types /\ (f[p].op = "while" => ty = Unit)
  /\ f[p].op = "loop" => (breaks = {} => ty = Never) /\ \A x \in breaks : Coerces(Brings(info, x), ty)

\* Only the jumps, and perhaps the types after coercion, differ.
Alikes(f, info, info2) ==
  \A j \in Ids(f) : info2[j].ty = info[j].ty /\ info2[j].div = info[j].div

TypeOfLoop(frame, expected, v, ty) == ty = LoopType(frame, expected, v) /\ ty # None

\* The type of a loop.
LEMMA LoopTypeFacts ==
    ASSUME NEW f, IsBody(f), NEW r, NEW p \in DOMAIN f, NEW expected \in Types \cup {None}, NEW s, IsLoop(f, p),
           NEW a, NEW b, Looped(f, r, p, expected, s, a, b),
           NEW v, Alikes(f, b.info, v.info), NEW ty, TypeOfLoop(Last(b.frames), expected, v, ty)
    PROVE  LoopTyped(f, p, b.info, Last(b.frames).breaks, ty)
<1> DEFINE w == Last(b.frames)
           B == w.breaks
<1>1. w.kind = IF f[p].op = "loop" THEN "Loop" ELSE "While"
  BY DEF Looped
<1>2. ASSUME NEW x \in B PROVE Left(f, p, expected, b.info, x)
  <2>1. Among(x, Last(b.frames).breaks)
    BY DEF Among
  <2> HIDE DEF w
  <2> QED
    BY <2>1, LeftFacts, Zenon
<1>3. ty = LoopType(w, expected, v) /\ ty # None
  BY DEF TypeOfLoop
<1> HIDE DEF w
<1>4. CASE f[p].op = "while"
  BY <1>1, <1>3, <1>4 DEF LoopType, LoopTyped, Types
<1>5. CASE f[p].op = "loop" /\ B = {}
  BY <1>1, <1>3, <1>5 DEF LoopType, LoopTyped, Types, w
<1>6. CASE f[p].op = "loop" /\ B # {} /\ expected # None
  <2>1. ty = expected
    BY <1>1, <1>3, <1>6 DEF LoopType
  <2>2. ASSUME NEW x \in B PROVE Coerces(Brings(b.info, x), expected)
    <3>1. Left(f, p, expected, b.info, x)
      BY <1>2
    <3> QED
      BY <1>6, <3>1 DEF Left, Brings, Breaks
  <2> QED
    BY <1>6, <2>1, <2>2 DEF LoopTyped, w
<1>7. CASE f[p].op = "loop" /\ B # {} /\ expected = None
  <2> DEFINE T == {IF x.operand = NoNode THEN Unit ELSE v.info[x.operand].ty : x \in B}
  <2>1. ty = Lub(T)
    BY <1>1, <1>3, <1>7 DEF LoopType
  <2>2. \A x \in B : Brings(b.info, x) \in Types /\ Brings(b.info, x) \in T
    <3> SUFFICES ASSUME NEW x \in B PROVE Brings(b.info, x) \in Types /\ Brings(b.info, x) \in T
      OBVIOUS
    <3>1. Left(f, p, expected, b.info, x)
      BY <1>2
    <3>2. CASE f[x.source].op = "break"
      BY <3>1, <3>2 DEF Left, Brings, Types
    <3>3. CASE f[x.source].op = "breakv"
      <4>1. x.operand # NoNode /\ x.operand \in DOMAIN f /\ Settled(b.info, x.operand)
        BY <3>1, <3>3 DEF Left
      <4>2. v.info[x.operand].ty = b.info[x.operand].ty
        BY <4>1, IdFacts DEF Alikes
      <4>3. b.info[x.operand].ty \in Types
        BY <4>1 DEF Settled
      <4> QED
        BY <4>1, <4>2, <4>3 DEF Brings
    <3> QED
      BY <3>1, <3>2, <3>3 DEF Left, Breaks
  <2>3. \A y \in T : \E x \in B : y = Brings(b.info, x)
    <3> SUFFICES ASSUME NEW x \in B
                 PROVE  (IF x.operand = NoNode THEN Unit ELSE v.info[x.operand].ty) = Brings(b.info, x)
      BY DEF Brings
    <3>1. Left(f, p, expected, b.info, x)
      BY <1>2
    <3>2. x.operand # NoNode => x.operand \in DOMAIN f
      BY <3>1 DEF Left, Breaks
    <3>3. x.operand # NoNode => v.info[x.operand].ty = b.info[x.operand].ty
      BY <3>2, IdFacts DEF Alikes
    <3> QED
      BY <3>3 DEF Brings
  <2> HIDE DEF T
  <2>4. ty \in T /\ \A y \in T : Coerces(y, ty)
    BY <1>3, <2>1, LubFacts
  <2>5. ty \in Types
    BY <2>2, <2>3, <2>4
  <2> QED
    BY <1>7, <2>2, <2>4, <2>5 DEF LoopTyped, w
<1> QED
  BY <1>4, <1>5, <1>6, <1>7 DEF w, IsLoop

\* A loop diverges when no break comes back from it.
LoopDiv(f, p, breaks, conditionDiv, div) ==
  div = IF f[p].op = "while" THEN conditionDiv ELSE \A x \in breaks : x.div

\* The type and the divergence of a loop belong together.
LEMMA LoopEnding ==
    ASSUME NEW f, IsBody(f), NEW r, NEW p \in DOMAIN f, NEW expected \in Types \cup {None}, NEW s, IsLoop(f, p),
           NEW a, NEW b, Looped(f, r, p, expected, s, a, b),
           NEW ty, LoopTyped(f, p, b.info, Last(b.frames).breaks, ty), NEW div, LoopDiv(f, p, Last(b.frames).breaks, a.div, div)
    PROVE  Ending(ty, div)
<1> DEFINE B == Last(b.frames).breaks
<1>1. ASSUME NEW x \in B PROVE Left(f, p, expected, b.info, x)
  <2>1. Among(x, Last(b.frames).breaks)
    BY DEF Among
  <2> HIDE DEF B
  <2> QED
    BY <2>1, LeftFacts, Zenon
<1>2. a.div \in BOOLEAN
  BY DEF Looped, Opened
<1>3. div \in BOOLEAN
  BY <1>2, Zenon DEF LoopDiv
<1>4. ty \in Types
  BY DEF LoopTyped
<1>5. ASSUME ty = Never PROVE div = TRUE
  <2>1. f[p].op = "loop"
    BY <1>5 DEF LoopTyped, Never, Unit, IsLoop
  <2>2. ASSUME NEW x \in B PROVE x.div = TRUE
    <3>1. Left(f, p, expected, b.info, x) /\ Coerces(Brings(b.info, x), Never)
      BY <1>1, <1>5, <2>1 DEF LoopTyped
    <3>2. CASE f[x.source].op = "break"
      BY <3>1, <3>2 DEF Left, Brings, Coerces, Unit, Never
    <3>3. CASE f[x.source].op = "breakv"
      <4>1. x.operand # NoNode /\ Settled(b.info, x.operand) /\ x.div = b.info[x.operand].div
        BY <3>1, <3>3 DEF Left
      <4>2. b.info[x.operand].ty = Never
        BY <3>1, <4>1 DEF Brings, Coerces
      <4> QED
        BY <4>1, <4>2 DEF Settled, Ends
    <3> QED
      BY <3>1, <3>2, <3>3, Zenon DEF Left, Breaks
  <2>3. \A x \in B : x.div
    BY <2>2, Zenon
  <2> QED
    BY <2>1, <2>3 DEF LoopDiv
<1> QED
  BY <1>3, <1>4, <1>5, Zenon DEF Ending

\* The records after the loop: its type and divergence, and its breaks jump to it.
LoopRecorded(f, p, info, breaks, ty, div, u) ==
  /\ u[p].ty = ty /\ u[p].div = div
  /\ \A j \in Ids(f) : j # p => u[j].ty = info[j].ty /\ u[j].div = info[j].div /\ u[j].local = info[j].local
  /\ \A j \in Ids(f) : (\E x \in breaks : j = x.source) => u[j].jump = p
  /\ \A j \in Ids(f) : j # p /\ (\A x \in breaks : j # x.source) => u[j].jump = info[j].jump

\* A break that has found its loop follows its rule.
LEMMA LeftRule ==
    ASSUME NEW f, IsBody(f), NEW r, NEW p \in DOMAIN f, NEW expected, IsLoop(f, p),
           NEW info, NEW breaks, NEW ty, LoopTyped(f, p, info, breaks, ty), NEW cdiv, NEW div, LoopDiv(f, p, breaks, cdiv, div),
           NEW u, LoopRecorded(f, p, info, breaks, ty, div, u), NEW x, Among(x, breaks), Left(f, p, expected, info, x)
    PROVE  Rule(f, r, u, x.source)
<1>1. Left(f, p, expected, info, x) /\ x.source \in Ids(f) /\ u[x.source].jump = p /\ u[p].ty = ty /\ u[p].div = div
  <2>1. Left(f, p, expected, info, x) /\ x.source \in Ids(f)
    BY IdFacts DEF Left
  <2> QED
    BY <2>1 DEF LoopRecorded, Among
<1>2. f[p].op = "loop" => Coerces(Brings(info, x), ty)
  BY DEF LoopTyped, Among
<1>3. f[p].op = "loop" /\ x.div = FALSE => ~Ends(u, p)
  BY <1>1 DEF LoopDiv, Ends, Among
<1>4. CASE f[x.source].op = "break"
  <2>1. f[p].op = "loop" => ty = Unit
    BY <1>1, <1>2, <1>4, SMTT(60) DEF Left, Brings, Coerces, Unit, Never
  <2> QED
    BY <1>1, <1>3, <1>4, <2>1 DEF Left, Rule, ValueRule, BlockRule, OperatorRule, BranchRule, JumpRule, IsLoop
<1>5. CASE f[x.source].op = "breakv"
  <2> DEFINE o == f[x.source].sub[1]
  <2>1. x.operand = o /\ o \in DOMAIN f /\ o # NoNode /\ o \in p + 1 .. f[p].last /\ x.div = info[o].div /\ f[p].op = "loop" /\ Settled(info, o) /\ x.div \in BOOLEAN
    BY <1>1, <1>5 DEF Left
  <2>2. o \in Ids(f) /\ o # p
    BY <2>1, IdFacts
  <2>3. u[o].ty = info[o].ty /\ u[o].div = info[o].div
    BY <2>2, SMTT(60) DEF LoopRecorded
  <2>4. Coerces(info[o].ty, ty)
    BY <1>2, <2>1, SMTT(60) DEF Brings
  <2>5. ~Ends(u, o) => u[o].ty = u[p].ty /\ ~Ends(u, p)
    BY <1>1, <1>3, <2>1, <2>3, <2>4 DEF Ends, Settled, Coerces
  <2> QED
    BY <1>1, <1>5, <2>1, <2>5 DEF Left, Rule, ValueRule, BlockRule, OperatorRule, BranchRule, JumpRule
<1> QED
  BY <1>1, <1>4, <1>5 DEF Left, Breaks

\* Everything below the loop, once its type and its jumps are recorded.
LEMMA LoopNodes ==
    ASSUME NEW f, IsBody(f), NEW r, NEW p \in DOMAIN f, NEW expected \in Types \cup {None}, NEW s, IsLoop(f, p),
           NEW a, NEW b, Looped(f, r, p, expected, s, a, b),
           NEW ty, LoopTyped(f, p, b.info, Last(b.frames).breaks, ty), NEW div, LoopDiv(f, p, Last(b.frames).breaks, a.div, div),
           NEW u, LoopRecorded(f, p, b.info, Last(b.frames).breaks, ty, div, u), NEW P,
           NEW q \in p + 1 .. f[p].last, Settled(u, q)
    PROVE  Checked(f, r, u, p, P, q)
<1> DEFINE d == Last(f[p].sub)
           last == f[p].last
           B == Last(b.frames).breaks
<1>1. p \in Nat /\ last \in Nat /\ d \in DOMAIN f /\ d \in Nat /\ p < d /\ d <= last /\ f[p].sub # <<>>
  BY BodyPlace
<1>2. /\ Opened(f, r, p, expected, s, a)
      /\ \A j \in Ids(f) : Home(j) < d => b.info[j] = a.info[j]
      /\ \A j \in d .. last : Checked(f, r, b.info, d, B, j)
  BY DEF Looped
<1>3. Row(f, p + 1, d - 1) /\ (\A j \in p + 1 .. d - 1 : Checked(f, r, a.info, p + 1, {}, j))
  BY <1>2 DEF Opened
<1>4. ASSUME NEW x \in B PROVE Left(f, p, expected, b.info, x) /\ x.source >= d /\ x.source \in Nat
  <2>1. Among(x, Last(b.frames).breaks)
    BY DEF Among
  <2> HIDE DEF B
  <2>2. Left(f, p, expected, b.info, x)
    BY <2>1, LeftFacts, Zenon
  <2> QED
    BY <1>1, <2>2 DEF Left
<1>5. /\ u[p].ty = ty /\ u[p].div = div
      /\ \A j \in Ids(f) : j # p => u[j].ty = b.info[j].ty /\ u[j].div = b.info[j].div /\ u[j].local = b.info[j].local
      /\ \A j \in Ids(f) : (\E x \in B : j = x.source) => u[j].jump = p
      /\ \A j \in Ids(f) : j # p /\ (\A x \in B : j # x.source) => u[j].jump = b.info[j].jump
  BY DEF LoopRecorded
<1>6. q \in DOMAIN f /\ q \in Ids(f) /\ Home(q) = q /\ q # p /\ q \in Nat
  <2>1. Row(f, p + 1, last)
    BY SubtreeRow
  <2>2. q \in DOMAIN f
    BY <2>1 DEF Row
  <2> QED
    BY <1>1, <2>2, IdFacts
<1>7. LoopTyped(f, p, b.info, B, ty) /\ LoopDiv(f, p, B, a.div, div) /\ LoopRecorded(f, p, b.info, B, ty, div, u)
  OBVIOUS
<1> HIDE DEF d, last, B
<1>8. CASE q < d
  <2>1. q \in p + 1 .. d - 1
    BY <1>1, <1>6, <1>8
  <2>2. Checked(f, r, a.info, p + 1, {}, q)
    BY <1>3, <2>1
  <2>3. \A j \in Ids(f) : (p + 1 <= Home(j) /\ Home(j) <= d - 1) \/ Visible(f, q, j) => SameAt(a.info, u, j)
    <3> SUFFICES ASSUME NEW j \in Ids(f), (p + 1 <= Home(j) /\ Home(j) <= d - 1) \/ Visible(f, q, j) PROVE SameAt(a.info, u, j)
      OBVIOUS
    <3>0. (p + 1 <= Home(j) /\ Home(j) <= d - 1) \/ Visible(f, q, j)
      OBVIOUS
    <3>1. Home(j) < d /\ j # p /\ \A x \in B : j # x.source
      <4>1. CASE Visible(f, q, j)
        <5>1. Home(j) < q /\ j < 0 /\ Home(j) \in Nat /\ j \in Int
          BY <1>6, <4>1, VisibleFacts, IdFacts
        <5> QED
          BY <1>1, <1>4, <1>6, <1>8, <5>1
      <4>2. CASE p + 1 <= Home(j) /\ Home(j) <= d - 1
        <5>1. Home(j) \in Nat /\ j \in Int /\ (j \in Nat => Home(j) = j)
          BY IdFacts DEF Home
        <5> QED
          BY <1>1, <1>4, <4>2, <5>1
      <4> QED
        BY <3>0, <4>1, <4>2
    <3> QED
      BY <1>2, <1>5, <3>1 DEF SameAt
  <2>4. {} \subseteq P /\ p <= p + 1
    BY <1>1
  <2> QED
    BY <1>1, <1>3, <2>1, <2>2, <2>3, <2>4, CheckedStable
<1>9. CASE q >= d /\ \E x \in B : q = x.source
  <2>1. PICK x \in B : q = x.source
    BY <1>9
  <2>2. Left(f, p, expected, b.info, x) /\ Among(x, B)
    BY <1>4 DEF Among
  <2>3. Rule(f, r, u, x.source)
    BY <1>7, <2>2, LeftRule, Zenon
  <2>4. u[q].jump = p
    BY <1>5, <1>6, <2>1
  <2> QED
    BY <1>1, <2>1, <2>3, <2>4 DEF Checked
<1>10. CASE q >= d /\ \A x \in B : q # x.source
  <2>1. Checked(f, r, b.info, d, B, q)
    BY <1>1, <1>2, <1>6, <1>10 DEF last
  <2>2. Rule(f, r, b.info, q) /\ (f[q].op \in Breaks => b.info[q].jump >= d)
    BY <1>10, <2>1 DEF Checked, Waiting
  <2>3. SameAt(b.info, u, q)
    BY <1>5, <1>6, <1>10 DEF SameAt
  <2>4. SameType(b.info, u, LetId(q))
    <3>1. LetId(q) \in Ids(f) /\ LetId(q) # p
      BY <1>1, <1>6, IdFacts
    <3> QED
      BY <1>5, <3>1 DEF SameType
  <2>5. \A k \in 1 .. Len(f[q].sub) : SameType(b.info, u, f[q].sub[k])
    <3> SUFFICES ASSUME NEW k \in 1 .. Len(f[q].sub) PROVE SameType(b.info, u, f[q].sub[k])
      OBVIOUS
    <3>1. f[q].sub[k] \in DOMAIN f /\ q < f[q].sub[k] /\ f[q].sub[k] \in Nat
      BY <1>6, ChildrenBetween
    <3>2. f[q].sub[k] \in Ids(f) /\ f[q].sub[k] # p
      BY <1>1, <1>6, <1>10, <3>1, IdFacts, SMTT(60)
    <3> QED
      BY <1>5, <3>2 DEF SameType
  <2>6. f[q].op = "x" => SameType(b.info, u, b.info[q].local)
    <3> SUFFICES ASSUME f[q].op = "x" PROVE SameType(b.info, u, b.info[q].local)
      OBVIOUS
    <3>1. Visible(f, q, b.info[q].local)
      BY <2>2 DEF Rule, ValueRule
    <3>2. b.info[q].local \in Ids(f) /\ b.info[q].local # p
      BY <1>6, <3>1, VisibleFacts
    <3> QED
      BY <1>5, <3>2 DEF SameType
  <2>7. f[q].op \in Breaks => SameType(b.info, u, b.info[q].jump) /\ b.info[q].jump \in Nat
    <3> SUFFICES ASSUME f[q].op \in Breaks PROVE SameType(b.info, u, b.info[q].jump) /\ b.info[q].jump \in Nat
      OBVIOUS
    <3>1. b.info[q].jump \in DOMAIN f /\ b.info[q].jump >= d
      BY <2>2 DEF Rule, JumpRule, Breaks
    <3>2. b.info[q].jump \in Ids(f) /\ b.info[q].jump \in Nat
      BY <3>1, IdFacts
    <3>3. b.info[q].jump # p
      BY <1>1, <3>1, <3>2
    <3> QED
      BY <1>5, <3>2, <3>3 DEF SameType
  <2>8. Rule(f, r, u, q)
    BY <1>6, <2>2, <2>3, <2>4, <2>5, <2>6, <2>7, RuleDepends
  <2>9. f[q].op \in Breaks => u[q].jump >= p
    BY <1>1, <2>2, <2>3, <2>7 DEF SameAt
  <2> QED
    BY <2>8, <2>9 DEF Checked
<1> QED
  BY <1>1, <1>6, <1>8, <1>9, <1>10

\* The jumps of the loop and its own record, from the state after its body.
Resolved(f, p, ty, want, div, s, b, t) ==
  /\ t \in Checkers(f) /\ t.ok = TRUE /\ t.scope = b.scope /\ t.frames = s.frames /\ t.div = t.info[p].div
  /\ LoopRecorded(f, p, b.info, Last(b.frames).breaks, ty, div, t.info)
  /\ \A j \in Ids(f) : Home(j) < p => t.info[j] = b.info[j]
  /\ \A j \in Ids(f) : j # p /\ Settled(b.info, j) => Settled(t.info, j)
  /\ t.info[p].val \in Types /\ Coerces(ty, t.info[p].val) /\ (want # None => t.info[p].val = want)

\* So the promise is kept.
LEMMA LoopClosed ==
    ASSUME NEW c, NEW f, NEW r, NEW p, NEW expected, NEW s, Call(c, f, r, p, expected, s), IsLoop(f, p),
           NEW a, NEW b, Looped(f, r, p, expected, s, a, b),
           NEW ty, LoopTyped(f, p, b.info, Last(b.frames).breaks, ty), NEW div, LoopDiv(f, p, Last(b.frames).breaks, a.div, div),
           NEW t, Resolved(f, p, ty, expected, div, s, b, t)
    PROVE  CheckPost(f, r, p, expected, s, t)
<1> DEFINE d == Last(f[p].sub)
           last == f[p].last
           B == Last(b.frames).breaks
<1>0. IsBody(f) /\ p \in DOMAIN f /\ expected \in Types \cup {None} /\ s \in Checkers(f) /\ s.frames \in Seq(Frame)
  BY CheckerFields DEF Call, CheckPre
<1>1. p \in Nat /\ last \in Nat /\ d \in DOMAIN f /\ d \in Nat /\ p < d /\ d <= last /\ f[p].sub # <<>>
  BY <1>0, BodyPlace
<1>2. /\ Opened(f, r, p, expected, s, a) /\ b.scope = s.scope /\ b \in Checkers(f)
      /\ \A j \in Ids(f) : Home(j) < d => b.info[j] = a.info[j]
      /\ \A j \in d .. last : Checked(f, r, b.info, d, B, j)
  BY DEF Looped
<1>3. /\ \A j \in p + 1 .. d - 1 : Checked(f, r, a.info, p + 1, {}, j)
      /\ \A j \in Ids(f) : Home(j) < p => a.info[j] = s.info[j]
      /\ f[p].op = "while" => Is(a.info, f[p].sub[1], Bool) /\ (a.div = TRUE => Ends(a.info, f[p].sub[1]))
  BY <1>2 DEF Opened
<1>4. /\ t \in Checkers(f) /\ t.ok = TRUE /\ t.scope = b.scope /\ t.frames = s.frames /\ t.div = t.info[p].div
      /\ LoopRecorded(f, p, b.info, B, ty, div, t.info)
      /\ \A j \in Ids(f) : Home(j) < p => t.info[j] = b.info[j]
      /\ \A j \in Ids(f) : j # p /\ Settled(b.info, j) => Settled(t.info, j)
      /\ t.info[p].val \in Types /\ Coerces(ty, t.info[p].val) /\ (expected # None => t.info[p].val = expected)
  BY DEF Resolved
<1>5. t.info[p].ty = ty /\ t.info[p].div = div /\ \A j \in Ids(f) : j # p => t.info[j].ty = b.info[j].ty /\ t.info[j].div = b.info[j].div
  BY <1>4 DEF LoopRecorded
<1>6. Ending(ty, div)
  BY <1>0, LoopEnding
<1>7. Settled(t.info, p)
  BY <1>4, <1>5, <1>6 DEF Settled, Ends, Ending
<1>8. \A q \in p + 1 .. last : q \in DOMAIN f /\ q \in Ids(f) /\ Home(q) = q /\ q # p /\ q \in Nat
  <2>1. Row(f, p + 1, last)
    BY <1>0, SubtreeRow
  <2>2. \A q \in p + 1 .. last : q \in DOMAIN f
    BY <2>1 DEF Row
  <2> QED
    BY <1>0, <1>1, <2>2, IdFacts
<1>81. Looped(f, r, p, expected, s, a, b) /\ LoopTyped(f, p, b.info, Last(b.frames).breaks, ty)
       /\ LoopDiv(f, p, Last(b.frames).breaks, a.div, div) /\ LoopRecorded(f, p, b.info, Last(b.frames).breaks, ty, div, t.info)
  BY <1>4
<1> HIDE DEF d, last, B
<1>9. ASSUME NEW q \in p + 1 .. last PROVE Settled(b.info, q)
  <2>1. CASE q < d
    <3>1. q \in p + 1 .. d - 1
      BY <1>1, <1>8, <2>1
    <3>2. b.info[q] = a.info[q]
      BY <1>2, <1>8, <2>1
    <3>3. Settled(a.info, q)
      BY <1>3, <3>1 DEF Checked
    <3> QED
      BY <3>2, <3>3 DEF Settled, Ends
  <2>2. CASE q >= d
    <3>1. q \in d .. last
      BY <1>1, <1>8, <2>2
    <3> QED
      BY <1>2, <3>1 DEF Checked
  <2> QED
    BY <1>1, <1>8, <2>1, <2>2
<1>10. ASSUME NEW q \in p + 1 .. last PROVE Checked(f, r, t.info, p, Pending(t.frames), q)
  <2>1. Settled(t.info, q)
    BY <1>4, <1>8, <1>9
  <2>2. q \in p + 1 .. f[p].last
    BY DEF last
  <2> QED
    BY <1>0, <1>81, <2>1, <2>2, LoopNodes, Zenon
<1>11. Rule(f, r, t.info, p)
  <2>1. CASE f[p].op = "loop"
    BY <2>1 DEF Rule, ValueRule, BlockRule, OperatorRule, BranchRule, JumpRule
  <2>2. CASE f[p].op = "while"
    <3> DEFINE one == f[p].sub[1]
    <3>1. ty = Unit /\ div = a.div
      BY <1>81, <2>2 DEF LoopTyped, LoopDiv
    <3>2. one \in Ids(f) /\ one # p /\ Home(one) = one /\ one < d
      <4>1. Len(f[p].sub) = 2 /\ 1 \in 1 .. Len(f[p].sub) /\ 2 \in 1 .. Len(f[p].sub)
        BY <1>0, <2>2, OpArity
      <4>2. one \in Ids(f) /\ one # p /\ one \in DOMAIN f
        BY <1>0, <4>1, ChildApart
      <4>3. one < d
        <5> DEFINE k == 1
        <5>1. k \in 1 .. Len(f[p].sub) /\ k # Len(f[p].sub)
          BY <4>1
        <5> HIDE DEF k
        <5>2. /\ f[p].sub[k] \in Nat /\ f[f[p].sub[k]].last \in Nat
              /\ f[p].sub[k] <= f[f[p].sub[k]].last /\ f[f[p].sub[k]].last < Last(f[p].sub)
          BY <1>0, <5>1, ChildrenBetween
        <5>3. f[p].sub[k] < d
          BY <1>1, <5>2 DEF d
        <5> QED
          BY <5>3 DEF k
      <4> QED
        BY <1>0, <4>2, <4>3, IdFacts
    <3>3. t.info[one].ty = a.info[one].ty /\ t.info[one].div = a.info[one].div
      BY <1>2, <1>5, <3>2, SMTT(60)
    <3>4. Is(t.info, one, Bool) /\ (Ends(t.info, p) => Ends(t.info, one))
      BY <1>3, <1>5, <2>2, <3>1, <3>3 DEF Is, Ends
    <3> QED
      BY <1>5, <2>2, <3>1, <3>4 DEF Rule, ValueRule, BlockRule, OperatorRule, BranchRule, JumpRule
  <2> QED
    BY <2>1, <2>2 DEF IsLoop
<1>12. ASSUME NEW q \in p .. last PROVE Checked(f, r, t.info, p, Pending(t.frames), q)
  <2>1. CASE q = p
    BY <1>7, <1>11, <2>1 DEF Checked, IsLoop, Breaks
  <2>2. CASE q \in p + 1 .. last
    BY <1>10, <2>2
  <2> QED
    BY <1>1, <2>1, <2>2
<1>13. \A j \in Ids(f) : Home(j) < p => t.info[j] = s.info[j]
  <2>1. \A j \in Ids(f) : Home(j) < p => Home(j) < d
    BY <1>0, <1>1, IdFacts
  <2> QED
    BY <1>2, <1>3, <1>4, <2>1
<1>14. FramesGrow(f, t.info, p, last, s.frames, t.frames)
  BY <1>0, <1>4 DEF FramesGrow
<1>15. Span(f, r, p, p, f[p].last, s, t)
  BY <1>4, <1>12, <1>13, <1>14 DEF Span, last
<1> QED
  BY <1>2, <1>4, <1>15 DEF CheckPost

\* The end of a loop, from the state after its body.
Finishes(p, expected, cdiv, b, t) == t = FinishLoop(p, expected, cdiv, b) /\ Okay(t)

\* The coercion of the values of the breaks.
Adjusted(f, p, expected, nodes, to, v, w) ==
  /\ w \in Checkers(f) /\ w.ok = TRUE /\ w.frames = v.frames /\ w.scope = v.scope
  /\ \A j \in Ids(f) : SameAt(v.info, w.info, j) /\ (j \notin nodes => w.info[j] = v.info[j])
                       /\ (Settled(v.info, j) => Settled(w.info, j))

\* The end of a loop.
LEMMA FinishChecked ==
    ASSUME NEW c, NEW f, NEW r, NEW p, NEW expected, NEW s, Call(c, f, r, p, expected, s), IsLoop(f, p),
           NEW a, NEW b, Looped(f, r, p, expected, s, a, b), NEW t, Finishes(p, expected, a.div, b, t)
    PROVE  CheckPost(f, r, p, expected, s, t)
<1>0. IsBody(f) /\ p \in DOMAIN f /\ expected \in Types \cup {None} /\ s \in Checkers(f) /\ s.frames \in Seq(Frame) /\ p \in Ids(f) /\ p \in Nat
      /\ Home(p) = p
  BY CheckerFields, IdFacts DEF Call, CheckPre
<1> DEFINE w == Last(b.frames)
           B == w.breaks
           S == {x.source : x \in B}
           y == [b EXCEPT !.frames = Front(@)]
           v == RecordJumps(y, S, w.id)
           ty == LoopType(w, expected, v)
           O == {x.operand : x \in B} \ {NoNode}
           u == IF w.kind = "While" \/ expected # None THEN v ELSE Coerce(v, O, ty)
           div == IF w.kind = "While" THEN a.div ELSE \A x \in B : x.div
<1>1. /\ b \in Checkers(f) /\ b.ok = TRUE /\ b.scope = s.scope /\ Front(b.frames) = s.frames /\ w.id = p
      /\ w.kind = (IF f[p].op = "loop" THEN "Loop" ELSE "While")
  BY DEF Looped
<1>2. y \in Checkers(f) /\ y.info = b.info /\ y.ok = TRUE /\ y.frames = s.frames /\ y.scope = s.scope
  <2>1. y = [b EXCEPT !.frames = s.frames]
    BY <1>1 DEF Checkers
  <2> QED
    BY <1>0, <1>1, <2>1, FramesReplaced
<1>3. t = (IF ty = None THEN Fail(v) ELSE Typed(u, p, ty, expected, div)) /\ Okay(t)
  BY DEF Finishes, FinishLoop
<1>4. JumpedAs(f, y, v, S, p)
  <2> HIDE DEF y, S
  <2> QED
    BY <1>0, <1>1, <1>2, JumpsFacts
<1>5. \A x \in B : Left(f, p, expected, b.info, x)
  <2> SUFFICES ASSUME NEW x \in B PROVE Left(f, p, expected, b.info, x)
    OBVIOUS
  <2>1. Among(x, Last(b.frames).breaks)
    BY DEF Among
  <2> HIDE DEF B
  <2> QED
    BY <1>0, <2>1, LeftFacts, Zenon
<1> HIDE DEF y, v
<1>6. /\ v \in Checkers(f) /\ v.ok = TRUE /\ v.frames = s.frames /\ v.scope = s.scope
      /\ \A j \in Ids(f) : /\ v.info[j].ty = b.info[j].ty /\ v.info[j].val = b.info[j].val
                           /\ v.info[j].div = b.info[j].div /\ v.info[j].local = b.info[j].local
                           /\ (j \notin S => v.info[j] = b.info[j])
                           /\ (j \in S => v.info[j].jump = p)
  BY <1>2, <1>4 DEF JumpedAs
<1>7. ty # None /\ t = Typed(u, p, ty, expected, div)
  BY <1>3, <1>6, Failed, Zenon
<1>8. LoopTyped(f, p, b.info, Last(b.frames).breaks, ty)
  <2>1. Alikes(f, b.info, v.info)
    BY <1>6 DEF Alikes
  <2>2. TypeOfLoop(Last(b.frames), expected, v, ty)
    BY <1>7 DEF TypeOfLoop
  <2> HIDE DEF ty
  <2> QED
    BY <1>0, <2>1, <2>2, LoopTypeFacts, Zenon
<1>9. LoopDiv(f, p, Last(b.frames).breaks, a.div, div)
  BY <1>1, Zenon DEF LoopDiv, IsLoop
<1> HIDE DEF ty, div
<1>10. Ending(ty, div)
  BY <1>0, <1>8, <1>9, LoopEnding
<1>11. ty \in Types /\ div \in BOOLEAN
  BY <1>10 DEF Ending
<1>12. O \subseteq Ids(f) /\ \A j \in O : j \in p + 1 .. f[p].last
  <2> SUFFICES ASSUME NEW x \in B, x.operand # NoNode PROVE x.operand \in Ids(f) /\ x.operand \in p + 1 .. f[p].last
    OBVIOUS
  <2>1. Left(f, p, expected, b.info, x)
    BY <1>5
  <2> QED
    BY <1>0, <2>1, IdFacts DEF Left, Breaks
<1>13. \A j \in S : j \in Ids(f) /\ Home(j) > p /\ j # p
  <2> SUFFICES ASSUME NEW x \in B PROVE x.source \in Ids(f) /\ Home(x.source) > p /\ x.source # p
    OBVIOUS
  <2>1. Left(f, p, expected, b.info, x)
    BY <1>5
  <2>2. x.source \in DOMAIN f /\ Inside(f, p, x.source)
    BY <2>1 DEF Left
  <2>3. p < x.source /\ x.source \in Nat
    BY <1>0, <2>2, InsideAfter
  <2> QED
    BY <1>0, <2>2, <2>3, IdFacts
<1>14. \A j \in O : Home(j) > p /\ j # p
  <2>1. \A j \in O : Home(j) = j
    <3> SUFFICES ASSUME NEW x \in B, x.operand # NoNode PROVE Home(x.operand) = x.operand
      OBVIOUS
    <3>1. Left(f, p, expected, b.info, x)
      BY <1>5
    <3> QED
      BY <1>0, <3>1, IdFacts DEF Left, Breaks
  <2>2. f[p].last \in Nat
    BY <1>0, NodeFacts
  <2> HIDE DEF O
  <2>3. ASSUME NEW j \in O PROVE Home(j) > p /\ j # p
    <3>1. j \in p + 1 .. f[p].last /\ Home(j) = j
      BY <1>12, <2>1
    <3> QED
      BY <1>0, <2>2, <3>1
  <2> QED
    BY <2>3
<1> HIDE DEF O
<1>15. Adjusted(f, p, expected, O, ty, v, u)
  <2>1. CASE w.kind = "While" \/ expected # None
    <3>1. u = v
      BY <2>1
    <3> QED
      BY <1>6, <3>1 DEF Adjusted, SameAt
  <2>2. CASE ~(w.kind = "While" \/ expected # None)
    <3>1. u = Coerce(v, O, ty)
      BY <2>2
    <3> HIDE DEF u
    <3>0. Okay(Typed(u, p, ty, expected, div))
      BY <1>3, <1>7
    <3>2. Okay(u)
      BY <1>6, <3>0, <3>1, CoerceSucceeds, Zenon
    <3>3. CoercedAs(f, v, u, O, ty)
      BY <1>6, <1>11, <1>12, <3>1, <3>2, CoerceFacts, Zenon
    <3>4. /\ u \in Checkers(f) /\ u.ok = TRUE /\ u.frames = v.frames /\ u.scope = v.scope
          /\ \A j \in Ids(f) : SameAt(v.info, u.info, j) /\ (j \notin O => u.info[j] = v.info[j])
          /\ \A j \in O : Coerces(v.info[j].ty, ty) /\ u.info[j].val = ty
      BY <3>3 DEF CoercedAs
    <3>5. ASSUME NEW j \in Ids(f), Settled(v.info, j) PROVE Settled(u.info, j)
      BY <1>11, <3>4, <3>5 DEF Settled, Ends, SameAt
    <3> QED
      BY <3>4, <3>5 DEF Adjusted
  <2> QED
    BY <2>1, <2>2
<1> HIDE DEF u
<1>16. /\ u \in Checkers(f) /\ u.ok = TRUE /\ u.frames = v.frames /\ u.scope = v.scope
       /\ \A j \in Ids(f) : SameAt(v.info, u.info, j) /\ (j \notin O => u.info[j] = v.info[j])
                            /\ (Settled(v.info, j) => Settled(u.info, j))
  BY <1>15 DEF Adjusted
<1>17. TypedAs(f, u, t, p, ty, expected, div)
  BY <1>0, <1>3, <1>7, <1>11, <1>16, TypedFacts, Zenon
<1>18. /\ t \in Checkers(f) /\ t.ok = TRUE /\ t.div = div /\ t.frames = u.frames /\ t.scope = u.scope
       /\ \A j \in Ids(f) : j # p => t.info[j] = u.info[j]
       /\ t.info[p].ty = ty /\ t.info[p].div = div
       /\ t.info[p].val \in Types /\ Coerces(ty, t.info[p].val) /\ (expected # None => t.info[p].val = expected)
  BY <1>17 DEF TypedAs
<1>19. ASSUME NEW j \in Ids(f), j # p
       PROVE  /\ t.info[j].ty = b.info[j].ty /\ t.info[j].div = b.info[j].div /\ t.info[j].local = b.info[j].local
              /\ t.info[j].jump = v.info[j].jump
  <2>1. t.info[j] = u.info[j] /\ SameAt(v.info, u.info, j)
    BY <1>16, <1>18, <1>19
  <2> QED
    BY <1>6, <2>1 DEF SameAt
<1>20. LoopRecorded(f, p, b.info, Last(b.frames).breaks, ty, div, t.info)
  <2>1. \A j \in Ids(f) : (\E x \in B : j = x.source) => t.info[j].jump = p
    BY <1>6, <1>13, <1>19
  <2>2. \A j \in Ids(f) : j # p /\ (\A x \in B : j # x.source) => t.info[j].jump = b.info[j].jump
    BY <1>6, <1>19
  <2> QED
    BY <1>18, <1>19, <2>1, <2>2 DEF LoopRecorded
<1>21. \A j \in Ids(f) : Home(j) < p => t.info[j] = b.info[j]
  <2> SUFFICES ASSUME NEW j \in Ids(f), Home(j) < p PROVE t.info[j] = b.info[j]
    OBVIOUS
  <2>1. Home(j) \in Nat
    BY <1>0, IdFacts
  <2>2. j # p /\ j \notin S /\ j \notin O
    <3> HIDE DEF S
    <3>1. j # p
      BY <1>0
    <3>2. ~(Home(j) > p)
      BY <1>0, <2>1
    <3> QED
      BY <1>13, <1>14, <3>1, <3>2
  <2> QED
    BY <1>6, <1>16, <1>18, <2>2
<1>22. \A j \in Ids(f) : j # p /\ Settled(b.info, j) => Settled(t.info, j)
  <2> SUFFICES ASSUME NEW j \in Ids(f), j # p, Settled(b.info, j) PROVE Settled(t.info, j)
    OBVIOUS
  <2>1. Settled(v.info, j)
    BY <1>6 DEF Settled, Ends
  <2>2. Settled(u.info, j)
    BY <1>16, <2>1
  <2> QED
    BY <1>18, <2>2 DEF Settled, Ends
<1>23. Resolved(f, p, ty, expected, div, s, b, t)
  BY <1>1, <1>6, <1>16, <1>18, <1>20, <1>21, <1>22 DEF Resolved
<1> QED
  BY <1>8, <1>9, <1>23, LoopClosed

\* loop { a } and while a { b }
LEMMA LoopChecked ==
    ASSUME NEW c, NEW f, NEW r, NEW p, NEW expected, NEW s, Call(c, f, r, p, expected, s), IsLoop(f, p),
           NEW t, t = CheckLoop(c, p, expected, s), Okay(t)
    PROVE  CheckPost(f, r, p, expected, s, t)
<1>1. IsBody(f) /\ p \in DOMAIN f /\ c.body = f
  BY DEF Call
<1> DEFINE u == PushFrame(c, p, expected, s)
           a == CheckCondition(c, p, u)
           b == CheckBlock(c, Last(f[p].sub), Unit, a)
<1>2. t = IF a.ok THEN IF b.ok THEN FinishLoop(p, expected, a.div, b) ELSE b ELSE a
  BY <1>1 DEF CheckLoop, Then
<1>3. Okay(a) /\ Okay(b) /\ t = FinishLoop(p, expected, a.div, b)
  BY <1>2 DEF Okay
<1>4. Pushes(c, p, expected, s, u) /\ ConditionRuns(c, f, r, p, u, a) /\ BodyRuns(c, f, p, a, b) /\ Finishes(p, expected, a.div, b, t)
  BY <1>3 DEF Pushes, ConditionRuns, BodyRuns, Finishes
<1> HIDE DEF u, a, b
<1>5. Opened(f, r, p, expected, s, a)
  BY <1>4, EachOpened
<1>6. Looped(f, r, p, expected, s, a, b)
  BY <1>4, <1>5, BodyLooped
<1> QED
  BY <1>4, <1>6, FinishChecked

\* Whatever the node, its check keeps the promise.
LEMMA ExprChecked ==
    ASSUME NEW c, NEW f, NEW r, NEW p, NEW expected, NEW s, Call(c, f, r, p, expected, s),
           NEW t, t = CheckExpr(c, p, expected, s), Okay(t)
    PROVE  CheckPost(f, r, p, expected, s, t)
<1> DEFINE op == f[p].op
<1>1. IsBody(f) /\ p \in DOMAIN f /\ c.body = f
  BY DEF Call
<1>2. op \in Ops
  BY <1>1, NodeFacts
<1>3. CASE op \in {"unit", "true", "read"}
  BY <1>3, AtomChecked
<1>4. CASE op = "x"
  BY <1>1, <1>4, PathChecked DEF CheckExpr, BlockOps
<1>5. CASE op \in BlockOps
  BY <1>1, <1>5, BlockExprChecked DEF CheckExpr, BlockOps
<1>6. CASE op = "not"
  BY <1>1, <1>6, NotChecked DEF CheckExpr, BlockOps
<1>7. CASE op \in {"xor", "eq", "and", "or"}
  BY <1>1, <1>7, BinaryChecked DEF CheckExpr, BlockOps
<1>8. CASE op = "set"
  BY <1>1, <1>8, AssignChecked DEF CheckExpr, BlockOps
<1>9. CASE op \in {"loop", "while"}
  <2>1. IsLoop(f, p)
    BY <1>9 DEF IsLoop
  <2>2. t = CheckLoop(c, p, expected, s)
    BY <1>1, <1>9 DEF CheckExpr, BlockOps
  <2> QED
    BY <2>1, <2>2, LoopChecked
<1>10. CASE op \in {"break", "breakv"}
  BY <1>1, <1>10, BreakChecked DEF CheckExpr, BlockOps, Breaks
<1>11. CASE op = "continue"
  BY <1>1, <1>11, ContinueChecked DEF CheckExpr, BlockOps
<1>12. CASE op = "if"
  BY <1>1, <1>12, IfChecked DEF CheckExpr, BlockOps
<1>13. CASE op = "ifelse"
  BY <1>1, <1>13, IfElseChecked DEF CheckExpr, BlockOps
<1>14. CASE op \in {"return", "returnv"}
  BY <1>1, <1>14, ReturnChecked DEF CheckExpr, BlockOps
<1>15. op \in {"unit", "true", "read"} \cup {"x"} \cup BlockOps \cup {"not"} \cup {"xor", "eq", "and", "or"} \cup {"set"}
            \cup {"loop", "while"} \cup {"break", "breakv"} \cup {"continue"} \cup {"if"} \cup {"ifelse"} \cup {"return", "returnv"}
  BY <1>2 DEF Ops, Atoms, Unary, Binary, BlockOps
<1> HIDE DEF op
<1> QED
  BY <1>3, <1>4, <1>5, <1>6, <1>7, <1>8, <1>9, <1>10, <1>11, <1>12, <1>13, <1>14, <1>15

\* A table of checks keeps the promise for node j.
Keeps(f, r, e, j) ==
  \A expected \in Types \cup {None}, s \in Checkers(f) :
    CheckPre(f, j, s) /\ Okay(e[<<j, expected, s>>]) => CheckPost(f, r, j, expected, s, e[<<j, expected, s>>])

\* The nodes below a node have fewer nodes below them.
LEMMA Deeper ==
    ASSUME NEW f, IsBody(f), NEW i \in DOMAIN f, NEW j \in DOMAIN f, i < j, j <= f[i].last
    PROVE  f[j].last - j < f[i].last - i
<1>1. i \in Nat /\ j \in Nat /\ f[j].last \in Nat /\ f[i].last \in Nat
  BY NodeFacts
<1>2. Row(f, i + 1, f[i].last)
  BY SubtreeRow
<1>3. f[j].last <= f[i].last
  BY <1>1, <1>2 DEF Row
<1> QED
  BY <1>1, <1>3

\* The check of the nodes with at most n nodes below them keeps the promise.
LEMMA DepthChecked ==
    ASSUME NEW f, IsBody(f), NEW r \in {Unit, Bool}
    PROVE  \A n \in Nat : \A j \in DOMAIN f : f[j].last - j <= n => Keeps(f, r, CheckTree(f, r)[n], j)
<1> DEFINE S == {n \in Nat : \A j \in DOMAIN f : f[j].last - j <= n => Keeps(f, r, CheckTree(f, r)[n], j)}
<1>1. ASSUME NEW n \in Nat, NEW e, CheckTree(f, r)[n] = CheckLevel(f, r, e),
             \A i \in DOMAIN f, j \in DOMAIN f : f[i].last - i <= n /\ i < j /\ j <= f[i].last => Keeps(f, r, e, j)
      PROVE  n \in S
  <2> SUFFICES ASSUME NEW j \in DOMAIN f, f[j].last - j <= n, NEW expected \in Types \cup {None}, NEW s \in Checkers(f),
                      CheckPre(f, j, s), Okay(CheckLevel(f, r, e)[<<j, expected, s>>])
               PROVE  CheckPost(f, r, j, expected, s, CheckLevel(f, r, e)[<<j, expected, s>>])
    BY <1>1 DEF Keeps
  <2> DEFINE c == [body |-> f, result |-> r, expr |-> e]
             t == CheckLevel(f, r, e)[<<j, expected, s>>]
  <2>1. t = CheckExpr(c, j, expected, s)
    BY DEF CheckLevel
  <2>2. c.body = f /\ c.result = r /\ c.expr = e
    OBVIOUS
  <2> HIDE DEF c, t
  <2>3. GoodBelow(c, f, r, j)
    <3> SUFFICES ASSUME NEW i \in DOMAIN f, j < i, i <= f[j].last, NEW want \in Types \cup {None}, NEW u \in Checkers(f),
                        CheckPre(f, i, u), Okay(CheckSub(c, i, want, u))
                 PROVE  CheckPost(f, r, i, want, u, CheckSub(c, i, want, u))
      BY DEF GoodBelow
    <3>1. Keeps(f, r, e, i)
      BY <1>1
    <3> QED
      BY <2>2, <3>1 DEF Keeps, CheckSub
  <2>4. Call(c, f, r, j, expected, s)
    BY <2>2, <2>3 DEF Call
  <2>5. Okay(t)
    BY DEF t
  <2>6. CheckPost(f, r, j, expected, s, t)
    BY <2>1, <2>4, <2>5, ExprChecked
  <2> QED
    BY <2>6 DEF t
<1>2. 0 \in S
  <2>1. CheckTree(f, r)[0] = CheckLevel(f, r, <<>>)
    BY CheckTreeLevels
  <2>2. \A i \in DOMAIN f, j \in DOMAIN f : f[i].last - i <= 0 /\ i < j /\ j <= f[i].last => Keeps(f, r, <<>>, j)
    <3> SUFFICES ASSUME NEW i \in DOMAIN f, NEW j \in DOMAIN f, f[i].last - i <= 0, i < j, j <= f[i].last PROVE FALSE
      OBVIOUS
    <3>1. i \in Nat /\ j \in Nat /\ f[i].last \in Nat
      BY NodeFacts
    <3> QED
      BY <3>1
  <2> QED
    BY <1>1, <2>1, <2>2
<1>3. ASSUME NEW n \in Nat, n \in S PROVE n + 1 \in S
  <2> DEFINE e == CheckTree(f, r)[n]
             m == n + 1
  <2>1. m \in Nat /\ m # 0 /\ m - 1 = n
    OBVIOUS
  <2>2. CheckTree(f, r)[m] = CheckLevel(f, r, e)
    BY <2>1, CheckTreeLevels
  <2>3. \A i \in DOMAIN f, j \in DOMAIN f : f[i].last - i <= m /\ i < j /\ j <= f[i].last => Keeps(f, r, e, j)
    <3> SUFFICES ASSUME NEW i \in DOMAIN f, NEW j \in DOMAIN f, f[i].last - i <= m, i < j, j <= f[i].last PROVE Keeps(f, r, e, j)
      OBVIOUS
    <3>1. i \in Nat /\ j \in Nat /\ f[i].last \in Nat /\ f[j].last \in Nat
      BY NodeFacts
    <3>2. f[j].last - j < f[i].last - i
      BY Deeper
    <3>3. f[j].last - j <= n
      BY <3>1, <3>2
    <3> QED
      BY <1>3, <3>3
  <2> HIDE DEF e, m
  <2>4. m \in S
    BY <1>1, <2>1, <2>2, <2>3
  <2> QED
    BY <2>4 DEF m
<1> HIDE DEF S
<1>4. Nat \subseteq S
  BY <1>2, <1>3, SetInduction
<1> QED
  BY <1>4 DEF S

\* The checker is sound: in a body that check_function accepts, every node has a type that
\* follows from those of its children, every jump has a loop around it to go to, and a node
\* that is said not to come back does not.
THEOREM AcceptedIsWellTyped ==
    ASSUME NEW f, IsBody(f), NEW r \in {Unit, Bool}, NEW t, t = CheckFunction(f, r), Okay(t)
    PROVE  Accepted(f, r, t.info) /\ t.div = t.info[1].div
<1> DEFINE c == [body |-> f, result |-> r, expr |-> CheckTree(f, r)[Len(f)]]
           g == [q \in Ids(f) |-> IF q = ParamId THEN [NoInfo EXCEPT !.ty = Bool, !.val = Bool] ELSE NoInfo]
           s == [ok |-> TRUE, div |-> FALSE, frames |-> <<>>, scope |-> ParamId, info |-> g]
<1>1. t = CheckBlock(c, 1, r, s)
  BY DEF CheckFunction
<1>2. c.body = f /\ c.result = r /\ c.expr = CheckTree(f, r)[Len(f)]
  OBVIOUS
<1>3. 1 \in DOMAIN f /\ f[1].op \in BlockOps /\ f[1].last = Len(f) /\ Len(f) \in Nat /\ DOMAIN f = 1 .. Len(f)
  BY DEF IsBody
<1>4. ParamId \in Ids(f) /\ Home(ParamId) = 0 /\ \A q \in Ids(f) : Home(q) \in Nat
  BY IdFacts
<1>5. g \in [Ids(f) -> Info]
  <2>1. NoInfo \in Info /\ [NoInfo EXCEPT !.ty = Bool, !.val = Bool] \in Info
    <3>1. NoNode \in Nat /\ NoNode \in Int /\ Bool \in Types
      BY DEF NoNode, Types
    <3>2. NoInfo \in Info
      BY <3>1 DEF NoInfo, Info
    <3> QED
      BY <3>1, <3>2, Zenon DEF Info
  <2> QED
    BY <2>1
<1>6. g[ParamId].ty = Bool /\ g[ParamId].val = Bool
  BY <1>4, Zenon DEF NoInfo
<1> HIDE DEF g
<1>7. s \in Checkers(f) /\ s.ok = TRUE /\ s.frames = <<>> /\ s.scope = ParamId /\ s.info = g
  BY <1>4, <1>5 DEF Checkers
<1> HIDE DEF c, s
<1>8. CheckPre(f, 1, s)
  BY <1>6, <1>7 DEF CheckPre, Visible, Types
<1>9. GoodBelow(c, f, r, 1)
  <2> SUFFICES ASSUME NEW i \in DOMAIN f, NEW want \in Types \cup {None}, NEW u \in Checkers(f),
                      CheckPre(f, i, u), Okay(CheckSub(c, i, want, u))
               PROVE  CheckPost(f, r, i, want, u, CheckSub(c, i, want, u))
    BY DEF GoodBelow
  <2>1. i \in Nat /\ f[i].last \in Nat /\ f[i].last <= Len(f)
    BY NodeFacts
  <2>2. f[i].last - i <= Len(f)
    BY <1>3, <2>1
  <2>3. Keeps(f, r, CheckTree(f, r)[Len(f)], i)
    BY <1>3, <2>2, DepthChecked
  <2> QED
    BY <1>2, <2>3 DEF Keeps, CheckSub
<1>10. r \in Types \cup {None} /\ r # None
  BY DEF Types, Unit, Bool, None
<1>11. Call(c, f, r, 1, r, s)
  BY <1>2, <1>3, <1>8, <1>9, <1>10 DEF Call
<1>12. CheckPost(f, r, 1, r, s, t)
  BY <1>1, <1>3, <1>11, BlockChecked
<1>13. Span(f, r, 1, 1, Len(f), s, t) /\ t.div = t.info[1].div /\ t.info[1].val = r
  BY <1>3, <1>10, <1>12 DEF CheckPost
<1>14. /\ t \in Checkers(f) /\ FramesGrow(f, t.info, 1, Len(f), s.frames, t.frames)
       /\ \A j \in Ids(f) : Home(j) < 1 => t.info[j] = s.info[j]
       /\ \A q \in 1 .. Len(f) : Checked(f, r, t.info, 1, Pending(t.frames), q)
  BY <1>13 DEF Span
<1>15. t.frames = <<>>
  BY <1>7, <1>14 DEF FramesGrow
<1>16. WellTyped(f, r, t.info)
  BY <1>3, <1>14, <1>15, CheckerFields DEF WellTyped, Checked, Pending, Waiting
<1>17. t.info[ParamId].ty = Bool
  BY <1>4, <1>6, <1>7, <1>14
<1> QED
  BY <1>13, <1>16, <1>17 DEF Accepted
=============================================================================
