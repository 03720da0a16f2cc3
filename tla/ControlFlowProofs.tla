-------------------------- MODULE ControlFlowProofs --------------------------
(* For every body and every answer of the environment: what is accepted is     *)
(* lowered and printed without a failed assertion, and its code uses nothing   *)
(* that is not there.                                                          *)
EXTENDS ControlFlow, FlowCheckProofs

(***************************************************************************)
(* The lowering is what its defining equation says.                        *)
(***************************************************************************)

\* One more level of the lowering of a body.
LowerLevel(f, y, e) ==
  [call \in (DOMAIN f) \X Lowerers(f) |->
     LowerExpr([body |-> f, info |-> y, expr |-> e], call[1], call[2])]

LowerLevels(f, y, n, p) == p = [m \in 0 .. n |-> LowerLevel(f, y, IF m = 0 THEN <<>> ELSE p[m - 1])]

\* The first levels of the lowering of a body exist, and are determined.
LEMMA LowerLevelsExists ==
    ASSUME NEW f, NEW y, NEW n \in Nat
    PROVE  \E p : LowerLevels(f, y, n, p)
<1> DEFINE U == {m \in Nat : \E p : LowerLevels(f, y, m, p)}
<1>1. 0 \in U
  <2> DEFINE p == [m \in 0 .. 0 |-> LowerLevel(f, y, <<>>)]
  <2> HIDE DEF LowerLevel
  <2>1. p = [m \in 0 .. 0 |-> LowerLevel(f, y, IF m = 0 THEN <<>> ELSE p[m - 1])]
    OBVIOUS
  <2> QED
    BY <2>1, Zenon DEF LowerLevels
<1>2. ASSUME NEW m \in Nat, m \in U PROVE m + 1 \in U
  <2>1. PICK p : LowerLevels(f, y, m, p)
    BY <1>2
  <2> DEFINE q == [k \in 0 .. (m + 1) |-> IF k = m + 1 THEN LowerLevel(f, y, p[m]) ELSE p[k]]
  <2> HIDE DEF LowerLevel
  <2>2. \A k \in 0 .. m : p[k] = LowerLevel(f, y, IF k = 0 THEN <<>> ELSE p[k - 1])
    BY <2>1 DEF LowerLevels
  <2>3. \A k \in 0 .. (m + 1) : q[k] = LowerLevel(f, y, IF k = 0 THEN <<>> ELSE q[k - 1])
    <3> SUFFICES ASSUME NEW k \in 0 .. (m + 1) PROVE q[k] = LowerLevel(f, y, IF k = 0 THEN <<>> ELSE q[k - 1])
      BY Zenon
    <3>1. CASE k = m + 1
      <4>1. k # 0 /\ k - 1 = m /\ k - 1 \in 0 .. (m + 1) /\ k - 1 # m + 1
        BY <3>1
      <4>2. q[k] = LowerLevel(f, y, p[m]) /\ q[k - 1] = p[m]
        BY <3>1, <4>1
      <4> HIDE DEF q
      <4> QED
        BY <4>1, <4>2
    <3>2. CASE k = 0
      BY <2>2, <3>2
    <3>3. CASE k # 0 /\ k # m + 1
      <4>1. k \in 0 .. m /\ k - 1 \in 0 .. (m + 1) /\ k - 1 # m + 1
        BY <3>3
      <4>2. q[k] = p[k] /\ q[k - 1] = p[k - 1]
        BY <3>3, <4>1
      <4> HIDE DEF q
      <4> QED
        BY <2>2, <3>3, <4>1, <4>2
    <3> QED
      BY <3>1, <3>2, <3>3
  <2>4. q = [k \in 0 .. (m + 1) |-> q[k]]
    OBVIOUS
  <2> HIDE DEF q
  <2>5. q = [k \in 0 .. (m + 1) |-> LowerLevel(f, y, IF k = 0 THEN <<>> ELSE q[k - 1])]
    BY <2>3, <2>4, ZenonT(30)
  <2>6. LowerLevels(f, y, m + 1, q)
    BY <2>5 DEF LowerLevels
  <2> QED
    BY <2>6
<1> HIDE DEF U
<1>3. n \in U
  BY <1>1, <1>2, SetInduction
<1> QED
  BY <1>3 DEF U

\* Two prefixes agree.
LEMMA LowerLevelsUnique ==
    ASSUME NEW f, NEW y, NEW n \in Nat, NEW n2 \in Nat, NEW p, NEW q,
           LowerLevels(f, y, n, p), LowerLevels(f, y, n2, q), NEW m \in Nat, m <= n, m <= n2
    PROVE  p[m] = q[m]
<1> DEFINE U == {k \in Nat : k <= n /\ k <= n2 => p[k] = q[k]}
<1>1. \A k \in Nat : k <= n => p[k] = LowerLevel(f, y, IF k = 0 THEN <<>> ELSE p[k - 1])
  <2> HIDE DEF LowerLevel
  <2> QED
    BY DEF LowerLevels
<1>2. \A k \in Nat : k <= n2 => q[k] = LowerLevel(f, y, IF k = 0 THEN <<>> ELSE q[k - 1])
  <2> HIDE DEF LowerLevel
  <2> QED
    BY DEF LowerLevels
<1> HIDE DEF LowerLevel
<1>3. 0 \in U
  BY <1>1, <1>2
<1>4. ASSUME NEW k \in Nat, k \in U PROVE k + 1 \in U
  <2> SUFFICES ASSUME k + 1 <= n, k + 1 <= n2 PROVE p[k + 1] = q[k + 1]
    OBVIOUS
  <2>1. p[k] = q[k] /\ k + 1 # 0 /\ (k + 1) - 1 = k /\ k + 1 \in Nat
    BY <1>4
  <2>2. p[k + 1] = LowerLevel(f, y, p[k])
    BY <1>1, <2>1
  <2>3. q[k + 1] = LowerLevel(f, y, q[k])
    BY <1>2, <2>1
  <2> QED
    BY <2>1, <2>2, <2>3
<1> HIDE DEF U
<1>5. m \in U
  BY <1>3, <1>4, SetInduction
<1> QED
  BY <1>5 DEF U

\* LowerTree is what its defining equation says.
LEMMA LowerTreeLevels ==
    ASSUME NEW f, NEW y, NEW n \in Nat
    PROVE  LowerTree(f, y)[n] = LowerLevel(f, y, IF n = 0 THEN <<>> ELSE LowerTree(f, y)[n - 1])
<1> DEFINE part(m) == CHOOSE p : LowerLevels(f, y, m, p)
           g == [m \in Nat |-> part(m)[m]]
<1>1. \A m \in Nat : LowerLevels(f, y, m, part(m))
  <2> HIDE DEF LowerLevels
  <2> QED
    BY LowerLevelsExists
<1>2. \A m \in Nat : m # 0 => part(m)[m - 1] = part(m - 1)[m - 1]
  <2> SUFFICES ASSUME NEW m \in Nat, m # 0 PROVE part(m)[m - 1] = part(m - 1)[m - 1]
    OBVIOUS
  <2> HIDE DEF part, LowerLevels
  <2>1. m - 1 \in Nat /\ m - 1 <= m /\ m - 1 <= m - 1
    OBVIOUS
  <2>2. LowerLevels(f, y, m, part(m)) /\ LowerLevels(f, y, m - 1, part(m - 1))
    BY <1>1, <2>1
  <2> QED
    BY <2>1, <2>2, LowerLevelsUnique
<1>3. \A m \in Nat : g[m] = LowerLevel(f, y, IF m = 0 THEN <<>> ELSE g[m - 1])
  <2> SUFFICES ASSUME NEW m \in Nat PROVE g[m] = LowerLevel(f, y, IF m = 0 THEN <<>> ELSE g[m - 1])
    BY Zenon
  <2> HIDE DEF part, LowerLevel
  <2>1. part(m)[m] = LowerLevel(f, y, IF m = 0 THEN <<>> ELSE part(m)[m - 1])
    <3>1. part(m) = [k \in 0 .. m |-> LowerLevel(f, y, IF k = 0 THEN <<>> ELSE part(m)[k - 1])]
      BY <1>1 DEF LowerLevels
    <3>2. m \in 0 .. m
      OBVIOUS
    <3> DEFINE h == [k \in 0 .. m |-> LowerLevel(f, y, IF k = 0 THEN <<>> ELSE part(m)[k - 1])]
    <3>3. h[m] = LowerLevel(f, y, IF m = 0 THEN <<>> ELSE part(m)[m - 1])
      BY <3>2
    <3>4. part(m) = h
      BY <3>1
    <3> HIDE DEF h
    <3> QED
      BY <3>3, <3>4
  <2>2. CASE m = 0
    BY <2>1, <2>2
  <2>3. CASE m # 0
    <3>1. m - 1 \in Nat /\ g[m - 1] = part(m - 1)[m - 1] /\ g[m] = part(m)[m]
      BY <2>3
    <3>2. part(m)[m - 1] = part(m - 1)[m - 1]
      BY <1>2, <2>3
    <3> HIDE DEF g
    <3> QED
      BY <2>1, <2>3, <3>1, <3>2
  <2> QED
    BY <2>2, <2>3
<1>4. g = [m \in Nat |-> g[m]]
  <2> HIDE DEF part
  <2> QED
    OBVIOUS
<1> HIDE DEF g
<1>5. g = [m \in Nat |-> LowerLevel(f, y, IF m = 0 THEN <<>> ELSE g[m - 1])]
  <2> HIDE DEF LowerLevel
  <2> QED
    BY <1>3, <1>4, ZenonT(30)
<1>6. g = [m \in Nat |-> [call \in (DOMAIN f) \X Lowerers(f) |->
             LowerExpr([body |-> f, info |-> y, expr |-> IF m = 0 THEN <<>> ELSE g[m - 1]], call[1], call[2])]]
  BY <1>5, Zenon DEF LowerLevel
<1>7. LowerTree(f, y) = [m \in Nat |-> [call \in (DOMAIN f) \X Lowerers(f) |->
             LowerExpr([body |-> f, info |-> y, expr |-> IF m = 0 THEN <<>> ELSE LowerTree(f, y)[m - 1]], call[1], call[2])]]
  BY <1>6, Zenon DEF LowerTree
<1>8. LowerTree(f, y) = [m \in Nat |-> LowerLevel(f, y, IF m = 0 THEN <<>> ELSE LowerTree(f, y)[m - 1])]
  <2> HIDE DEF LowerTree
  <2> QED
    BY <1>7, Zenon DEF LowerLevel
<1> DEFINE t == LowerTree(f, y)
           h == [m \in Nat |-> LowerLevel(f, y, IF m = 0 THEN <<>> ELSE t[m - 1])]
<1>9. t = h
  BY <1>8
<1>10. h[n] = LowerLevel(f, y, IF n = 0 THEN <<>> ELSE t[n - 1])
  <2> HIDE DEF t, LowerLevel
  <2> QED
    OBVIOUS
<1> HIDE DEF t, h
<1>11. t[n] = LowerLevel(f, y, IF n = 0 THEN <<>> ELSE t[n - 1])
  BY <1>9, <1>10
<1> QED
  BY <1>11 DEF t

(***************************************************************************)
(* The certificate of the code a lowering emits.  A token v of a set H is  *)
(* the register v, or the slot v once it has been written.                 *)
(***************************************************************************)

Alloca(insts, v) == v \in DOMAIN insts /\ insts[v].op = "alloca"
Computed(insts, v) == v \in DOMAIN insts /\ insts[v].op # "alloca" /\ insts[v].op # "store"

ValueIn(insts, o, H) == o.k = "const" \/ o.k = "param" \/ (o.k = "inst" /\ o.v \in H /\ Computed(insts, o.v))
IsSlot(insts, o) == o.k = "inst" /\ Alloca(insts, o.v)
SlotIn(insts, o, H) == IsSlot(insts, o) /\ o.v \in H

\* What an instruction makes available.
Gives(insts, id) ==
  IF insts[id].op = "alloca" THEN {} ELSE IF insts[id].op = "store" THEN {insts[id].b.v} ELSE {id}

\* What the instructions is make available, before its m-th and all of them.
Given(insts, is, m) == {v \in Nat : \E n \in DOMAIN is : n < m /\ v \in Gives(insts, is[n])}
All(insts, is) == {v \in Nat : \E n \in DOMAIN is : v \in Gives(insts, is[n])}

\* An instruction has its operands.
InstOK(insts, i, H) ==
  /\ i.op = "load" => SlotIn(insts, i.a, H)
  /\ i.op = "store" => ValueIn(insts, i.a, H) /\ IsSlot(insts, i.b)
  /\ i.op = "xor" \/ i.op = "icmp" => ValueIn(insts, i.a, H) /\ ValueIn(insts, i.b, H)

\* The instructions of a block at whose start H is available.
InstsOK(insts, is, H) ==
  \A n \in DOMAIN is : is[n] \in DOMAIN insts /\ InstOK(insts, insts[is[n]], H \cup Given(insts, is, n))

\* A jump from where E is available goes to a block that needs no more.
Target(A, E, x) == x \in DOMAIN A /\ x # 1 /\ A[x] \subseteq E

TermOK(r, insts, t, A, E) ==
  /\ t.k = "br" => Target(A, E, t.to[1])
  /\ t.k = "condbr" => Target(A, E, t.to[1]) /\ Target(A, E, t.to[2]) /\ ValueIn(insts, t.opd, E)
  /\ t.k = "ret" => (r = Unit /\ t.opd = Void) \/ (r = Bool /\ ValueIn(insts, t.opd, E))

BlockGood(r, insts, x, A, H) == InstsOK(insts, x.insts, H) /\ TermOK(r, insts, x.term, A, H \cup All(insts, x.insts))

\* The slots are at the head of the first block.
SlotsFirst(insts, is) ==
  /\ \A v \in DOMAIN insts : Alloca(insts, v) => \E n \in DOMAIN is : is[n] = v
  /\ \A n \in DOMAIN is, m \in DOMAIN is : m < n /\ Alloca(insts, is[n]) => Alloca(insts, is[m])

\* What the printer wants of an instruction.
Printed(i) ==
  i.op \in {"store", "load", "xor", "icmp"} => i.a # Void /\ (i.op # "load" => i.b # Void)

\* More instructions, the old ones as they were; more blocks.
Ext(insts, new) == Len(insts) <= Len(new) /\ \A v \in DOMAIN insts : v \in DOMAIN new /\ new[v] = insts[v]
Wider(A, B) == \A j \in DOMAIN A : j \in DOMAIN B /\ B[j] = A[j]

\* The fields of a sequence of instructions.
LEMMA InstFields ==
    ASSUME NEW insts \in Seq(Instructions), NEW v \in DOMAIN insts
    PROVE  /\ insts[v] \in Instructions /\ insts[v].op \in InstructionOps
           /\ insts[v].a \in Operand /\ insts[v].b \in Operand /\ insts[v].b.v \in Nat /\ insts[v].a.v \in Nat /\ v \in Nat
<1>1. insts[v] \in Instructions /\ v \in Nat
  OBVIOUS
<1> QED
  BY <1>1 DEF Instructions, Operand

\* What was available stays available as the code grows.
LEMMA ValueStays ==
    ASSUME NEW insts, NEW new, Ext(insts, new), NEW o, NEW H, NEW G, H \subseteq G
    PROVE  /\ ValueIn(insts, o, H) => ValueIn(new, o, G)
           /\ IsSlot(insts, o) => IsSlot(new, o)
           /\ SlotIn(insts, o, H) => SlotIn(new, o, G)
BY DEF Ext, ValueIn, IsSlot, SlotIn, Computed, Alloca

\* So does an instruction's.
LEMMA InstStays ==
    ASSUME NEW insts, NEW new, Ext(insts, new), NEW i, NEW H, NEW G, H \subseteq G, InstOK(insts, i, H)
    PROVE  InstOK(new, i, G)
BY ValueStays DEF InstOK

\* And a terminator's.
LEMMA TermStays ==
    ASSUME NEW r, NEW insts, NEW new, Ext(insts, new), NEW t, NEW A, NEW B, Wider(A, B), NEW E, NEW G, E \subseteq G,
           TermOK(r, insts, t, A, E)
    PROVE  TermOK(r, new, t, B, G)
<1>1. \A x : Target(A, E, x) => Target(B, G, x)
  BY DEF Target, Wider
<1>2. ValueIn(insts, t.opd, E) => ValueIn(new, t.opd, G)
  BY ValueStays
<1> QED
  BY <1>1, <1>2 DEF TermOK

\* What the instructions of a block make available stays the same.
LEMMA GivenStays ==
    ASSUME NEW insts, NEW new, Ext(insts, new), NEW is, \A n \in DOMAIN is : is[n] \in DOMAIN insts
    PROVE  All(new, is) = All(insts, is) /\ \A m : Given(new, is, m) = Given(insts, is, m)
<1>1. \A n \in DOMAIN is : Gives(new, is[n]) = Gives(insts, is[n])
  BY Zenon DEF Gives, Ext
<1> QED
  BY <1>1 DEF All, Given

\* And a block stays good.
LEMMA BlockStays ==
    ASSUME NEW r, NEW insts, NEW new, Ext(insts, new), NEW x, NEW A, NEW B, Wider(A, B), NEW H,
           BlockGood(r, insts, x, A, H)
    PROVE  BlockGood(r, new, x, B, H) /\ All(new, x.insts) = All(insts, x.insts)
<1>1. InstsOK(insts, x.insts, H) /\ TermOK(r, insts, x.term, A, H \cup All(insts, x.insts))
  BY DEF BlockGood
<1>2. \A n \in DOMAIN x.insts : x.insts[n] \in DOMAIN insts
  BY <1>1, Zenon DEF InstsOK
<1>3. All(new, x.insts) = All(insts, x.insts) /\ \A m : Given(new, x.insts, m) = Given(insts, x.insts, m)
  BY <1>2, GivenStays
<1>4. TermOK(r, new, x.term, B, H \cup All(new, x.insts))
  BY <1>1, <1>3, TermStays
<1>5. ASSUME NEW n \in DOMAIN x.insts
      PROVE  x.insts[n] \in DOMAIN new /\ InstOK(new, new[x.insts[n]], H \cup Given(new, x.insts, n))
  <2>1. x.insts[n] \in DOMAIN insts /\ InstOK(insts, insts[x.insts[n]], H \cup Given(insts, x.insts, n))
    BY <1>1 DEF InstsOK
  <2>2. x.insts[n] \in DOMAIN new /\ new[x.insts[n]] = insts[x.insts[n]]
    BY <2>1 DEF Ext
  <2>3. InstOK(new, insts[x.insts[n]], H \cup Given(insts, x.insts, n))
    BY <2>1, InstStays
  <2> QED
    BY <1>3, <2>2, <2>3
<1> QED
  BY <1>3, <1>4, <1>5 DEF BlockGood, InstsOK

\* An instruction at the end of a block.
LEMMA InstAdded ==
    ASSUME NEW insts \in Seq(Instructions), NEW is \in Seq(Nat), NEW H, InstsOK(insts, is, H), NEW id \in DOMAIN insts,
           InstOK(insts, insts[id], H \cup All(insts, is))
    PROVE  /\ InstsOK(insts, Append(is, id), H)
           /\ All(insts, Append(is, id)) = All(insts, is) \cup Gives(insts, id)
<1> DEFINE new == Append(is, id)
           last == Len(is) + 1
<1>1. id \in Nat /\ Gives(insts, id) \subseteq Nat
  BY InstFields DEF Gives
<1>2. /\ Len(is) \in Nat /\ DOMAIN is = 1 .. Len(is) /\ DOMAIN new = 1 .. last /\ new[last] = id
      /\ \A n \in 1 .. Len(is) : new[n] = is[n]
  BY <1>1, AppendProperties
<1> HIDE DEF new
<1>3. \A n \in DOMAIN is : n \in DOMAIN new /\ new[n] = is[n] /\ n < last
  BY <1>2
<1>4. \A n \in DOMAIN new : n \in DOMAIN is \/ n = last
  BY <1>2
<1>5. last \in DOMAIN new /\ new[last] = id
  BY <1>2
<1>6. All(insts, new) = All(insts, is) \cup Gives(insts, id)
  BY <1>1, <1>3, <1>4, <1>5 DEF All
<1>7. Given(insts, new, last) = All(insts, is)
  <2>1. \A n \in DOMAIN new : n < last <=> n \in DOMAIN is
    BY <1>2
  <2> QED
    BY <1>3, <2>1 DEF All, Given
<1>8. ASSUME NEW n \in DOMAIN is PROVE Given(insts, new, n) = Given(insts, is, n)
  <2>1. \A m \in DOMAIN new : m < n => m \in DOMAIN is
    BY <1>2
  <2> QED
    BY <1>3, <2>1, Zenon DEF Given
<1>9. ASSUME NEW n \in DOMAIN new PROVE new[n] \in DOMAIN insts /\ InstOK(insts, insts[new[n]], H \cup Given(insts, new, n))
  BY <1>3, <1>4, <1>5, <1>7, <1>8, Zenon DEF InstsOK
<1> QED
  BY <1>6, <1>9, Zenon DEF InstsOK, new

\* A slot at the head of a block.
LEMMA SlotAdded ==
    ASSUME NEW insts \in Seq(Instructions), NEW is \in Seq(Nat), NEW H, InstsOK(insts, is, H), NEW id, Alloca(insts, id)
    PROVE  /\ InstsOK(insts, <<id>> \o is, H)
           /\ All(insts, <<id>> \o is) = All(insts, is)
<1> DEFINE new == <<id>> \o is
           next(n) == n + 1
<1>1. id \in DOMAIN insts /\ id \in Nat /\ Gives(insts, id) = {} /\ insts[id].op = "alloca"
  BY DEF Gives, Alloca
<1>2. /\ Len(is) \in Nat /\ DOMAIN is = 1 .. Len(is) /\ DOMAIN new = 1 .. Len(is) + 1 /\ new[1] = id
      /\ \A n \in 1 .. Len(is) : new[n + 1] = is[n]
  <2>1. <<id>> \in Seq(Nat) /\ Len(<<id>>) = 1 /\ <<id>>[1] = id
    BY <1>1
  <2>2. /\ new \in Seq(Nat) /\ Len(new) = 1 + Len(is)
        /\ \A n \in 1 .. 1 + Len(is) : new[n] = IF n <= 1 THEN id ELSE is[n - 1]
    BY <2>1, ConcatProperties
  <2> HIDE DEF new
  <2>3. \A n \in 1 .. Len(is) : n + 1 \in 1 .. 1 + Len(is) /\ ~(n + 1 <= 1) /\ (n + 1) - 1 = n
    OBVIOUS
  <2> QED
    BY <2>2, <2>3, SMTT(60)
<1> HIDE DEF new
<1>3. \A n \in DOMAIN is : next(n) \in DOMAIN new /\ new[next(n)] = is[n]
  BY <1>2
<1>4. \A m \in DOMAIN new : m = 1 \/ \E n \in DOMAIN is : m = next(n)
  <2> SUFFICES ASSUME NEW m \in DOMAIN new, m # 1 PROVE \E n \in DOMAIN is : m = next(n)
    OBVIOUS
  <2>1. m - 1 \in DOMAIN is /\ m = next(m - 1)
    BY <1>2
  <2> QED
    BY <2>1
<1>5. \A n \in DOMAIN is, m \in DOMAIN is : n < m <=> next(n) < next(m)
  BY <1>2, SMTT(60)
<1>6. 1 \in DOMAIN new /\ new[1] = id
  BY <1>2
<1> HIDE DEF next
<1>7. \A m \in DOMAIN new : Gives(insts, new[m]) = {} \/ \E n \in DOMAIN is : m = next(n)
  BY <1>1, <1>4, <1>6
<1>8. All(insts, new) = All(insts, is)
  BY <1>3, <1>7 DEF All
<1>9. ASSUME NEW n \in DOMAIN is PROVE Given(insts, new, next(n)) = Given(insts, is, n)
  BY <1>3, <1>5, <1>7, SMTT(60) DEF Given
<1>10. ASSUME NEW m \in DOMAIN new PROVE new[m] \in DOMAIN insts /\ InstOK(insts, insts[new[m]], H \cup Given(insts, new, m))
  <2>1. CASE m = 1
    BY <1>1, <1>6, <2>1 DEF InstOK
  <2>2. CASE \E n \in DOMAIN is : m = next(n)
    BY <1>3, <1>9, <2>2, Zenon DEF InstsOK
  <2> QED
    BY <1>4, <2>1, <2>2
<1> QED
  BY <1>8, <1>10, Zenon DEF InstsOK, new

\* The function being lowered: body, info and result.  The known defects of lazy
\* operators and of unit values are out of the way.
Env(e) ==
  /\ IsBody(e.body) /\ e.result \in {Unit, Bool} /\ WellTyped(e.body, e.result, e.info) /\ e.info[ParamId].ty = Bool
  /\ \A p \in DOMAIN e.body : /\ e.body[p].op \in {"and", "or"} => ~Ends(e.info, e.body[p].sub[2])
                              /\ e.body[p].op = "let" => e.info[LetId(p)].ty # Unit
                              /\ e.body[p].op = "eq" => \A k \in 1 .. 2 : e.info[e.body[p].sub[k]].val # Unit

\* The code of b is good when A is available at the starts of its blocks.
CodeGood(e, b, A) ==
  /\ b \in Lowerers(e.body) /\ b.fault = FALSE /\ b.blocks # <<>>
  /\ A \in [DOMAIN b.blocks -> SUBSET Nat] /\ A[1] = {}
  /\ \A j \in DOMAIN b.blocks : BlockGood(e.result, b.insts, b.blocks[j], A, A[j])
  /\ SlotsFirst(b.insts, b.blocks[1].insts)
  /\ \A v \in DOMAIN b.insts : Printed(b.insts[v])

\* An open loop: what its entry, its exit and its result slot are.
LoopGood(e, insts, A, p, loop) ==
  /\ p \in DOMAIN e.body /\ IsLoop(e.body, p) /\ loop.entry \in DOMAIN A /\ loop.entry # 1
  /\ loop.exit = NoBlock => loop.result = Void /\ e.body[p].op = "loop"
  /\ loop.exit # NoBlock =>
       /\ loop.exit \in DOMAIN A /\ loop.exit # 1 /\ A[loop.entry] \subseteq A[loop.exit]
       /\ e.body[p].op = "loop" => ~Ends(e.info, p)
       /\ loop.result = Void => A[loop.exit] \subseteq A[loop.entry] /\ e.info[p].ty = Unit
       /\ loop.result # Void => /\ SlotIn(insts, loop.result, A[loop.exit]) /\ e.info[p].ty = Bool
                                /\ A[loop.exit] \subseteq A[loop.entry] \cup {loop.result.v}

LoopsGood(e, b, A) == \A p \in DOMAIN b.loops : b.loops[p].open = TRUE => LoopGood(e, b.insts, A, p, b.loops[p])

ExitsApart(b) ==
  \A p \in DOMAIN b.loops, q \in DOMAIN b.loops :
    p # q /\ b.loops[p].open = TRUE /\ b.loops[q].open = TRUE /\ b.loops[p].exit # NoBlock => b.loops[p].exit # b.loops[q].exit

IsExit(b, j) == \E p \in DOMAIN b.loops : b.loops[p].open = TRUE /\ b.loops[p].exit = j

\* The blocks without a terminator are those of P and the exits of open loops.
Holding(b, P) ==
  /\ P \subseteq DOMAIN b.blocks
  /\ \A j \in DOMAIN b.blocks : b.blocks[j].term = NoTerminator <=> j \in P \/ IsExit(b, j)
  /\ \A j \in P : ~IsExit(b, j)

Held(e, b, A, P) == CodeGood(e, b, A) /\ LoopsGood(e, b, A) /\ ExitsApart(b) /\ Holding(b, P)

\* What is available at the end of the current block.
Have(b, A) == A[b.cur] \cup All(b.insts, b.blocks[b.cur].insts)

\* The fields of a lowerer state.
LEMMA LowererFields ==
    ASSUME NEW f, NEW b \in Lowerers(f)
    PROVE  /\ b.ok \in BOOLEAN /\ b.fault \in BOOLEAN /\ b.insts \in Seq(Instructions) /\ b.blocks \in Seq(BasicBlock)
           /\ b.cur \in Nat /\ b.locals \in [Ids(f) -> LoweredExpr] /\ b.loops \in [0 .. Len(f) -> LoopInfo]
           /\ DOMAIN b.loops = 0 .. Len(f) /\ DOMAIN b.locals = Ids(f)
           /\ b.res \in LoweredExpr /\ b.res.opd \in Operand
           /\ Len(b.insts) \in Nat /\ DOMAIN b.insts = 1 .. Len(b.insts)
           /\ Len(b.blocks) \in Nat /\ DOMAIN b.blocks = 1 .. Len(b.blocks)
BY DEF Lowerers, LoweredExpr

\* The fields of a block.
LEMMA BlockFields ==
    ASSUME NEW blocks \in Seq(BasicBlock), NEW j \in DOMAIN blocks
    PROVE  blocks[j] \in BasicBlock /\ blocks[j].insts \in Seq(Nat) /\ blocks[j].term \in Terminator
<1>1. blocks[j] \in BasicBlock
  OBVIOUS
<1> QED
  BY <1>1 DEF BasicBlock

\* The fields of a loop.
LEMMA LoopFields ==
    ASSUME NEW f, NEW b \in Lowerers(f), NEW p \in DOMAIN b.loops
    PROVE  /\ b.loops[p] \in LoopInfo /\ b.loops[p].open \in BOOLEAN /\ b.loops[p].entry \in Nat
           /\ b.loops[p].exit \in Nat /\ b.loops[p].result \in Operand
<1>1. b.loops[p] \in LoopInfo
  BY LowererFields, SMTT(60)
<1> QED
  BY <1>1 DEF LoopInfo

\* Open loops stay good as the code grows.
LEMMA LoopStays ==
    ASSUME NEW e, NEW insts, NEW new, Ext(insts, new), NEW A, NEW B, Wider(A, B), NEW p, NEW loop, LoopGood(e, insts, A, p, loop)
    PROVE  LoopGood(e, new, B, p, loop)
<1>1. loop.entry \in DOMAIN A /\ loop.entry \in DOMAIN B /\ B[loop.entry] = A[loop.entry]
  BY DEF LoopGood, Wider
<1>2. loop.exit # NoBlock => loop.exit \in DOMAIN A /\ loop.exit \in DOMAIN B /\ B[loop.exit] = A[loop.exit]
  BY DEF LoopGood, Wider
<1>3. SlotIn(insts, loop.result, A[loop.exit]) => SlotIn(new, loop.result, A[loop.exit])
  BY ValueStays
<1> QED
  BY <1>1, <1>2, <1>3 DEF LoopGood

\* With the same loops and code that has grown, what is left to show.
LEMMA LoopsStay ==
    ASSUME NEW e, NEW b, NEW t, t.loops = b.loops, Ext(b.insts, t.insts), NEW A, NEW B, Wider(A, B),
           LoopsGood(e, b, A), ExitsApart(b)
    PROVE  LoopsGood(e, t, B) /\ ExitsApart(t) /\ \A j : IsExit(t, j) <=> IsExit(b, j)
<1>1. LoopsGood(e, t, B)
  BY LoopStays DEF LoopsGood
<1> QED
  BY <1>1 DEF ExitsApart, IsExit

\* The fields of states that hold.
LEMMA HeldFields ==
    ASSUME NEW e, NEW b, NEW A, NEW P, Held(e, b, A, P)
    PROVE  /\ b \in Lowerers(e.body) /\ b.fault = FALSE /\ b.blocks # <<>> /\ DOMAIN A = DOMAIN b.blocks
           /\ A \in [DOMAIN b.blocks -> SUBSET Nat] /\ 1 \in DOMAIN b.blocks /\ P \subseteq DOMAIN b.blocks
           /\ \A j \in P : b.blocks[j].term = NoTerminator
<1>1. b \in Lowerers(e.body) /\ b.fault = FALSE /\ b.blocks # <<>> /\ A \in [DOMAIN b.blocks -> SUBSET Nat]
  BY DEF Held, CodeGood
<1>2. 1 \in DOMAIN b.blocks
  BY <1>1, LowererFields
<1> QED
  BY <1>1, <1>2 DEF Held, Holding

\* Parts of the state the code does not depend on.
SameCode(b, t) == t.insts = b.insts /\ t.blocks = b.blocks /\ t.loops = b.loops /\ t.fault = b.fault

\* They may change.
LEMMA HeldAlike ==
    ASSUME NEW e, NEW b, NEW A, NEW P, Held(e, b, A, P), NEW t \in Lowerers(e.body), SameCode(b, t)
    PROVE  Held(e, t, A, P)
BY DEF Held, CodeGood, LoopsGood, ExitsApart, Holding, IsExit, SameCode

\* What an instruction appended to the current block leaves.
EmittedAs(b, A, t, op, x, y) ==
  /\ Ext(b.insts, t.insts) /\ Len(t.insts) = Len(b.insts) + 1 /\ t.insts[Len(b.insts) + 1] = Instruction(op, x, y)
  /\ Len(b.insts) + 1 \in DOMAIN t.insts
  /\ t.cur = b.cur /\ t.loops = b.loops /\ t.locals = b.locals /\ t.res = b.res /\ t.ok = b.ok /\ DOMAIN t.blocks = DOMAIN b.blocks
  /\ Have(t, A) = Have(b, A) \cup Gives(t.insts, Len(b.insts) + 1)

\* What may be appended.
Fits(b, A, op, x, y) ==
  /\ op \in InstructionOps /\ op # "alloca" /\ x \in Operand /\ y \in Operand
  /\ InstOK(b.insts, Instruction(op, x, y), Have(b, A)) /\ Printed(Instruction(op, x, y))

\* A sequence of instructions with one more.
LEMMA ExtAppend ==
    ASSUME NEW insts \in Seq(Instructions), NEW i \in Instructions
    PROVE  /\ Append(insts, i) \in Seq(Instructions) /\ Ext(insts, Append(insts, i))
           /\ Len(Append(insts, i)) = Len(insts) + 1 /\ Len(insts) + 1 \in DOMAIN Append(insts, i)
           /\ Append(insts, i)[Len(insts) + 1] = i
           /\ \A v \in DOMAIN Append(insts, i) : v \in DOMAIN insts \/ v = Len(insts) + 1
           /\ Len(insts) + 1 \in Nat /\ Len(insts) + 1 \notin DOMAIN insts
<1> DEFINE new == Append(insts, i)
<1>1. /\ new \in Seq(Instructions) /\ Len(new) = Len(insts) + 1 /\ new[Len(insts) + 1] = i
      /\ \A n \in 1 .. Len(insts) : new[n] = insts[n]
  BY AppendProperties
<1> HIDE DEF new
<1>2. Len(insts) \in Nat /\ DOMAIN insts = 1 .. Len(insts) /\ DOMAIN new = 1 .. Len(insts) + 1
  BY <1>1
<1> QED
  BY <1>1, <1>2 DEF Ext, new

\* A block without a terminator is good as far as its instructions are.
LEMMA OpenBlock ==
    ASSUME NEW r, NEW insts, NEW x, x.term = NoTerminator, NEW A, NEW H
    PROVE  BlockGood(r, insts, x, A, H) <=> InstsOK(insts, x.insts, H)
BY DEF BlockGood, TermOK, NoTerminator

\* Emit, on a block that is still open.
LEMMA EmitGood ==
    ASSUME NEW e, NEW b, NEW A, NEW P, Held(e, b, A, P), b.cur \in P,
           NEW op, NEW x, NEW y, Fits(b, A, op, x, y), NEW t, t = Emit(b, op, x, y)
    PROVE  Held(e, t, A, P) /\ EmittedAs(b, A, t, op, x, y)
<1> DEFINE cur == b.cur
           i == Instruction(op, x, y)
           id == Len(b.insts) + 1
           insts == Append(b.insts, i)
           old == b.blocks[cur]
           blk == [old EXCEPT !.insts = Append(old.insts, id)]
           blocks == [b.blocks EXCEPT ![cur] = blk]
<1>01. /\ b \in Lowerers(e.body) /\ b.fault = FALSE /\ b.blocks # <<>> /\ P \subseteq DOMAIN b.blocks
       /\ A \in [DOMAIN b.blocks -> SUBSET Nat] /\ (\A j \in P : b.blocks[j].term = NoTerminator) /\ 1 \in DOMAIN b.blocks
  BY HeldFields, Zenon
<1>0. /\ b \in Lowerers(e.body) /\ b.fault = FALSE /\ b.blocks # <<>> /\ cur \in DOMAIN b.blocks
      /\ A \in [DOMAIN b.blocks -> SUBSET Nat] /\ old.term = NoTerminator /\ 1 \in DOMAIN b.blocks
  BY <1>01
<1>1. b.insts \in Seq(Instructions) /\ b.blocks \in Seq(BasicBlock)
  BY <1>0, LowererFields
<1>2. old \in BasicBlock /\ old.insts \in Seq(Nat)
  BY <1>0, <1>1, BlockFields
<1>3. i \in Instructions /\ i.op = op /\ i.a = x /\ i.b = y
  BY DEF Fits, Instruction, Instructions
<1>4. t = [b EXCEPT !.insts = insts, !.blocks = blocks, !.fault = FALSE]
  <2>1. t = [b EXCEPT !.insts = insts, !.blocks = blocks, !.fault = b.fault \/ Terminated(b)]
    BY DEF Emit, Lowerers
  <2>2. (b.fault \/ Terminated(b)) = FALSE
    BY <1>0 DEF Terminated
  <2> QED
    BY <2>1, <2>2, Zenon
<1> HIDE DEF i
<1>5. /\ insts \in Seq(Instructions) /\ Ext(b.insts, insts) /\ Len(insts) = id /\ insts[id] = i /\ id \in DOMAIN insts
      /\ \A v \in DOMAIN insts : v \in DOMAIN b.insts \/ v = id
      /\ id \in Nat /\ id \notin DOMAIN b.insts
  BY <1>1, <1>3, ExtAppend
<1> HIDE DEF insts, id
<1>6. blk \in BasicBlock /\ blk.insts = Append(old.insts, id) /\ blk.term = NoTerminator
  <2>1. Append(old.insts, id) \in Seq(Nat)
    BY <1>2, <1>5, AppendProperties
  <2> QED
    BY <1>0, <1>2, <2>1, Zenon DEF BasicBlock
<1> HIDE DEF old, blk
<1>7. blocks \in Seq(BasicBlock) /\ DOMAIN blocks = DOMAIN b.blocks /\ blocks[cur] = blk /\ blocks # <<>>
      /\ \A j \in DOMAIN b.blocks : j # cur => blocks[j] = b.blocks[j]
  BY <1>0, <1>1, <1>6, ExceptSeq
<1> HIDE DEF blocks
<1>8. /\ t \in Lowerers(e.body) /\ t.fault = FALSE /\ t.insts = insts /\ t.blocks = blocks /\ t.cur = cur /\ t.loops = b.loops
      /\ t.locals = b.locals /\ t.res = b.res /\ t.ok = b.ok
  BY <1>0, <1>4, <1>5, <1>7, Zenon DEF Lowerers
<1>9. Wider(A, A)
  BY DEF Wider
<1>10. /\ \A j \in DOMAIN b.blocks : BlockGood(e.result, b.insts, b.blocks[j], A, A[j])
       /\ SlotsFirst(b.insts, b.blocks[1].insts) /\ A[1] = {}
       /\ \A v \in DOMAIN b.insts : Printed(b.insts[v])
       /\ LoopsGood(e, b, A) /\ ExitsApart(b) /\ Holding(b, P)
  BY DEF Held, CodeGood
<1>11. \A j \in DOMAIN b.blocks : BlockGood(e.result, insts, b.blocks[j], A, A[j]) /\ All(insts, b.blocks[j].insts) = All(b.insts, b.blocks[j].insts)
  <2> SUFFICES ASSUME NEW j \in DOMAIN b.blocks
               PROVE  BlockGood(e.result, insts, b.blocks[j], A, A[j]) /\ All(insts, b.blocks[j].insts) = All(b.insts, b.blocks[j].insts)
    OBVIOUS
  <2> DEFINE z == b.blocks[j]
             H == A[j]
             r == e.result
  <2>1. BlockGood(r, b.insts, z, A, H)
    BY <1>10
  <2> HIDE DEF z, H, r
  <2>2. BlockGood(r, insts, z, A, H) /\ All(insts, z.insts) = All(b.insts, z.insts)
    BY <1>5, <1>9, <2>1, BlockStays
  <2> QED
    BY <2>2 DEF z, H, r
<1>12. InstsOK(insts, old.insts, A[cur]) /\ All(insts, old.insts) = All(b.insts, old.insts)
  BY <1>0, <1>11, Zenon DEF BlockGood, old
<1>13. Have(b, A) = A[cur] \cup All(b.insts, old.insts)
  BY DEF Have, old
<1>14. InstOK(insts, insts[id], A[cur] \cup All(insts, old.insts))
  <2>1. InstOK(b.insts, i, Have(b, A))
    BY DEF Fits, i
  <2> QED
    BY <1>5, <1>12, <1>13, <2>1, InstStays
<1>15. InstsOK(insts, blk.insts, A[cur]) /\ All(insts, blk.insts) = All(insts, old.insts) \cup Gives(insts, id)
  <2> DEFINE H == A[cur]
             is == old.insts
  <2>1. InstsOK(insts, is, H) /\ InstOK(insts, insts[id], H \cup All(insts, is)) /\ is \in Seq(Nat)
    BY <1>2, <1>12, <1>14
  <2> HIDE DEF H, is
  <2>2. InstsOK(insts, Append(is, id), H) /\ All(insts, Append(is, id)) = All(insts, is) \cup Gives(insts, id)
    BY <1>5, <2>1, InstAdded, Zenon
  <2> QED
    BY <1>6, <2>2 DEF H, is
<1>16. \A j \in DOMAIN blocks : BlockGood(e.result, insts, blocks[j], A, A[j])
  <2>1. BlockGood(e.result, insts, blk, A, A[cur])
    BY <1>6, <1>15, OpenBlock, Zenon
  <2> QED
    BY <1>7, <1>11, <2>1
<1>17. SlotsFirst(insts, blocks[1].insts)
  <2>0. \A v \in DOMAIN insts : Alloca(insts, v) <=> v \in DOMAIN b.insts /\ Alloca(b.insts, v)
    <3>1. ~Alloca(insts, id)
      BY <1>3, <1>5 DEF Alloca, Fits
    <3> QED
      BY <1>5, <3>1 DEF Alloca, Ext
  <2>1. CASE cur # 1
    <3>1. blocks[1] = b.blocks[1]
      BY <1>0, <1>7, <2>1
    <3>2. \A n \in DOMAIN b.blocks[1].insts : b.blocks[1].insts[n] \in DOMAIN b.insts
      BY <1>0, <1>10, Zenon DEF BlockGood, InstsOK
    <3>3. \A v \in DOMAIN b.insts : v \in DOMAIN insts
      BY <1>5 DEF Ext
    <3> QED
      BY <1>10, <2>0, <3>1, <3>2, <3>3 DEF SlotsFirst
  <2>2. CASE cur = 1
    <3>1. blocks[1].insts = Append(old.insts, id) /\ old.insts = b.blocks[1].insts
      BY <1>6, <1>7, <2>2 DEF old
    <3>2. \A n \in DOMAIN old.insts : old.insts[n] \in DOMAIN b.insts
      BY <1>0, <1>10, <2>2, Zenon DEF BlockGood, InstsOK, old
    <3>3. /\ DOMAIN Append(old.insts, id) = 1 .. Len(old.insts) + 1 /\ Append(old.insts, id)[Len(old.insts) + 1] = id
          /\ \A n \in 1 .. Len(old.insts) : Append(old.insts, id)[n] = old.insts[n]
      BY <1>2, <1>5, AppendProperties
    <3>4. DOMAIN old.insts = 1 .. Len(old.insts) /\ Len(old.insts) \in Nat
      BY <1>2
    <3> DEFINE is == Append(old.insts, id)
    <3>5. \A n \in DOMAIN is : n \in Nat /\ ((n \in DOMAIN old.insts /\ is[n] = old.insts[n]) \/ (n > Len(old.insts) /\ is[n] = id))
      BY <3>3, <3>4
    <3>51. \A n \in DOMAIN old.insts : n \in DOMAIN is /\ is[n] = old.insts[n] /\ n <= Len(old.insts)
      BY <3>3, <3>4
    <3> HIDE DEF is
    <3>6. ~Alloca(insts, id)
      BY <1>5, <2>0
    <3>7. \A n \in DOMAIN is, m \in DOMAIN is : m < n /\ Alloca(insts, is[n]) => Alloca(insts, is[m])
      <4> SUFFICES ASSUME NEW n \in DOMAIN is, NEW m \in DOMAIN is, m < n, Alloca(insts, is[n]) PROVE Alloca(insts, is[m])
        OBVIOUS
      <4>1. n \in DOMAIN old.insts /\ is[n] = old.insts[n]
        BY <3>5, <3>6
      <4>2. m \in DOMAIN old.insts /\ is[m] = old.insts[m]
        BY <3>4, <3>5, <4>1
      <4>3. old.insts[m] \in DOMAIN insts /\ old.insts[n] \in DOMAIN insts
        BY <1>5, <3>2, <4>1, <4>2 DEF Ext
      <4>4. Alloca(b.insts, old.insts[n])
        BY <2>0, <4>1, <4>3, SMTT(60)
      <4>5. Alloca(b.insts, old.insts[m])
        BY <1>10, <3>1, <4>1, <4>2, <4>4 DEF SlotsFirst
      <4> QED
        BY <2>0, <3>2, <4>2, <4>3, <4>5
    <3>8. \A v \in DOMAIN insts : Alloca(insts, v) => \E n \in DOMAIN is : is[n] = v
      BY <1>10, <2>0, <3>1, <3>51 DEF SlotsFirst
    <3> QED
      BY <3>1, <3>7, <3>8, Zenon DEF SlotsFirst, is
  <2> QED
    BY <2>1, <2>2
<1>18. \A v \in DOMAIN insts : Printed(insts[v])
  <2>1. Printed(i)
    BY DEF Fits, i
  <2> QED
    BY <1>5, <1>10, <2>1 DEF Ext
<1>19. CodeGood(e, t, A)
  BY <1>0, <1>7, <1>8, <1>10, <1>16, <1>17, <1>18 DEF CodeGood
<1>20. LoopsGood(e, t, A) /\ ExitsApart(t) /\ \A j : IsExit(t, j) <=> IsExit(b, j)
  BY <1>5, <1>8, <1>9, <1>10, LoopsStay, Zenon
<1>21. Holding(t, P)
  BY <1>0, <1>6, <1>7, <1>8, <1>10, <1>20 DEF Holding, old
<1>22. Have(t, A) = Have(b, A) \cup Gives(t.insts, id)
  BY <1>6, <1>7, <1>8, <1>12, <1>13, <1>15, Zenon DEF Have
<1>23. EmittedAs(b, A, t, op, x, y)
  BY <1>5, <1>7, <1>8, <1>22 DEF EmittedAs, id, i
<1> QED
  BY <1>19, <1>20, <1>21, <1>23 DEF Held

\* Parts of the state that most builder calls leave alone.
Rest(b, t) == t.cur = b.cur /\ t.loops = b.loops /\ t.locals = b.locals /\ t.res = b.res /\ t.ok = b.ok

\* What a new slot leaves.
SlotAs(b, A, t) ==
  /\ Ext(b.insts, t.insts) /\ Rest(b, t) /\ DOMAIN t.blocks = DOMAIN b.blocks
  /\ Have(t, A) = Have(b, A) /\ IsSlot(t.insts, LastInst(t)) /\ LastInst(t) \in Operand /\ LastInst(t) # Void
  /\ LastInst(t) = Inst(Len(b.insts) + 1)

\* AllocaInEntry, whatever block is current.
LEMMA AllocaGood ==
    ASSUME NEW e, NEW b, NEW A, NEW P, Held(e, b, A, P), b.cur \in DOMAIN b.blocks, NEW t, t = AllocaInEntry(b)
    PROVE  Held(e, t, A, P) /\ SlotAs(b, A, t)
<1> DEFINE i == Instruction("alloca", Void, Void)
           id == Len(b.insts) + 1
           insts == Append(b.insts, i)
           old == b.blocks[1]
           blk == [old EXCEPT !.insts = <<id>> \o old.insts]
           blocks == [b.blocks EXCEPT ![1] = blk]
<1>0. /\ b \in Lowerers(e.body) /\ b.fault = FALSE /\ b.blocks # <<>> /\ 1 \in DOMAIN b.blocks
      /\ A \in [DOMAIN b.blocks -> SUBSET Nat] /\ P \subseteq DOMAIN b.blocks
  BY HeldFields, Zenon
<1>1. b.insts \in Seq(Instructions) /\ b.blocks \in Seq(BasicBlock)
  BY <1>0, LowererFields
<1>2. old \in BasicBlock /\ old.insts \in Seq(Nat)
  BY <1>0, <1>1, BlockFields
<1>3. i \in Instructions /\ i.op = "alloca"
  BY DEF Instruction, Instructions, InstructionOps, Operand, Void
<1>4. t = [b EXCEPT !.insts = insts, !.blocks = blocks]
  BY DEF AllocaInEntry, Lowerers
<1> HIDE DEF i
<1>5. /\ insts \in Seq(Instructions) /\ Ext(b.insts, insts) /\ Len(insts) = id /\ insts[id] = i /\ id \in DOMAIN insts
      /\ \A v \in DOMAIN insts : v \in DOMAIN b.insts \/ v = id
      /\ id \in Nat /\ id \notin DOMAIN b.insts
  BY <1>1, <1>3, ExtAppend
<1>50. id = Len(b.insts) + 1
  OBVIOUS
<1> HIDE DEF insts, id
<1>6. blk \in BasicBlock /\ blk.insts = <<id>> \o old.insts /\ blk.term = old.term
  <2>1. <<id>> \o old.insts \in Seq(Nat)
    BY <1>2, <1>5, ConcatProperties
  <2> QED
    BY <1>0, <1>2, <2>1, Zenon DEF BasicBlock
<1> HIDE DEF old, blk
<1>7. blocks \in Seq(BasicBlock) /\ DOMAIN blocks = DOMAIN b.blocks /\ blocks[1] = blk /\ blocks # <<>>
      /\ \A j \in DOMAIN b.blocks : j # 1 => blocks[j] = b.blocks[j]
  BY <1>0, <1>1, <1>6, ExceptSeq
<1> HIDE DEF blocks
<1>8. /\ t \in Lowerers(e.body) /\ t.fault = FALSE /\ t.insts = insts /\ t.blocks = blocks /\ t.cur = b.cur /\ t.loops = b.loops
      /\ t.locals = b.locals /\ t.res = b.res /\ t.ok = b.ok
  BY <1>0, <1>4, <1>5, <1>7, Zenon DEF Lowerers
<1>9. Wider(A, A)
  BY DEF Wider
<1>10. /\ \A j \in DOMAIN b.blocks : BlockGood(e.result, b.insts, b.blocks[j], A, A[j])
       /\ SlotsFirst(b.insts, b.blocks[1].insts) /\ A[1] = {}
       /\ \A v \in DOMAIN b.insts : Printed(b.insts[v])
       /\ LoopsGood(e, b, A) /\ ExitsApart(b) /\ Holding(b, P)
  BY DEF Held, CodeGood
<1>11. \A j \in DOMAIN b.blocks : BlockGood(e.result, insts, b.blocks[j], A, A[j]) /\ All(insts, b.blocks[j].insts) = All(b.insts, b.blocks[j].insts)
  <2> SUFFICES ASSUME NEW j \in DOMAIN b.blocks
               PROVE  BlockGood(e.result, insts, b.blocks[j], A, A[j]) /\ All(insts, b.blocks[j].insts) = All(b.insts, b.blocks[j].insts)
    OBVIOUS
  <2> DEFINE x == b.blocks[j]
             H == A[j]
             r == e.result
  <2>1. BlockGood(r, b.insts, x, A, H)
    BY <1>10
  <2> HIDE DEF x, H, r
  <2>2. BlockGood(r, insts, x, A, H) /\ All(insts, x.insts) = All(b.insts, x.insts)
    BY <1>5, <1>9, <2>1, BlockStays
  <2> QED
    BY <2>2 DEF x, H, r
<1>12. Alloca(insts, id)
  BY <1>3, <1>5 DEF Alloca
<1>13. BlockGood(e.result, insts, old, A, A[1]) /\ All(insts, old.insts) = All(b.insts, old.insts)
  BY <1>0, <1>11 DEF old
<1>14. BlockGood(e.result, insts, blk, A, A[1]) /\ All(insts, blk.insts) = All(insts, old.insts)
  <2> DEFINE is == old.insts
             H == A[1]
  <2>1. is \in Seq(Nat) /\ InstsOK(insts, is, H)
    BY <1>2, <1>13 DEF BlockGood
  <2> HIDE DEF is, H
  <2>2. InstsOK(insts, <<id>> \o is, H) /\ All(insts, <<id>> \o is) = All(insts, is)
    BY <1>5, <1>12, <2>1, SlotAdded
  <2>3. InstsOK(insts, blk.insts, A[1]) /\ All(insts, blk.insts) = All(insts, old.insts)
    BY <1>6, <2>2 DEF is, H
  <2> QED
    BY <1>6, <1>13, <2>3, Zenon DEF BlockGood
<1>15. \A j \in DOMAIN blocks : BlockGood(e.result, insts, blocks[j], A, A[j])
  BY <1>7, <1>11, <1>14
<1>16. SlotsFirst(insts, blk.insts)
  <2>1. \A v \in DOMAIN b.insts : Alloca(insts, v) <=> Alloca(b.insts, v)
    BY <1>5 DEF Alloca, Ext
  <2>2. \A n \in DOMAIN old.insts : old.insts[n] \in DOMAIN b.insts
    BY <1>0, <1>10, Zenon DEF BlockGood, InstsOK, old
  <2> DEFINE is == blk.insts
             next(n) == n + 1
  <2>3. /\ DOMAIN is = 1 .. Len(old.insts) + 1 /\ is[1] = id /\ Len(old.insts) \in Nat /\ DOMAIN old.insts = 1 .. Len(old.insts)
        /\ \A n \in 1 .. Len(old.insts) : is[n + 1] = old.insts[n]
    <3>1. <<id>> \in Seq(Nat) /\ Len(<<id>>) = 1 /\ <<id>>[1] = id
      BY <1>5
    <3> DEFINE new == <<id>> \o old.insts
    <3>2. /\ new \in Seq(Nat) /\ Len(new) = 1 + Len(old.insts)
          /\ \A n \in 1 .. 1 + Len(old.insts) : new[n] = IF n <= 1 THEN id ELSE old.insts[n - 1]
      BY <1>2, <3>1, ConcatProperties
    <3>3. is = new
      BY <1>6
    <3> HIDE DEF new, is
    <3>4. \A n \in 1 .. Len(old.insts) : n + 1 \in 1 .. 1 + Len(old.insts) /\ ~(n + 1 <= 1) /\ (n + 1) - 1 = n
      BY <1>2
    <3>5. Len(old.insts) \in Nat /\ DOMAIN old.insts = 1 .. Len(old.insts)
      BY <1>2
    <3>6. DOMAIN is = 1 .. Len(old.insts) + 1 /\ is[1] = id
      BY <3>2, <3>3, <3>5
    <3>7. ASSUME NEW n \in 1 .. Len(old.insts) PROVE is[n + 1] = old.insts[n]
      BY <3>2, <3>3, <3>4, <3>5
    <3> QED
      BY <3>5, <3>6, <3>7
  <2> HIDE DEF is
  <2>4. \A m \in DOMAIN is : m = 1 \/ \E n \in DOMAIN old.insts : m = next(n)
    <3> SUFFICES ASSUME NEW m \in DOMAIN is, m # 1 PROVE \E n \in DOMAIN old.insts : m = next(n)
      OBVIOUS
    <3>1. m - 1 \in DOMAIN old.insts /\ m = next(m - 1)
      BY <2>3
    <3> QED
      BY <3>1
  <2>5. \A n \in DOMAIN old.insts, m \in DOMAIN old.insts : n < m <=> next(n) < next(m)
    BY <2>3
  <2>6. \A n \in DOMAIN old.insts : next(n) \in DOMAIN is /\ is[next(n)] = old.insts[n]
    BY <2>3
  <2>7. 1 \in DOMAIN is /\ is[1] = id /\ \A m \in DOMAIN is : ~(m < 1)
    BY <2>3
  <2> HIDE DEF next
  <2>8. \A v \in DOMAIN insts : Alloca(insts, v) => \E n \in DOMAIN is : is[n] = v
    <3> SUFFICES ASSUME NEW v \in DOMAIN insts, Alloca(insts, v), v # id PROVE \E n \in DOMAIN is : is[n] = v
      BY <2>7
    <3>1. v \in DOMAIN b.insts /\ Alloca(b.insts, v)
      BY <1>5, <2>1
    <3>2. PICK n \in DOMAIN old.insts : old.insts[n] = v
      BY <1>10, <3>1 DEF SlotsFirst, old
    <3> QED
      BY <2>6, <3>2
  <2>9. ASSUME NEW n \in DOMAIN is, NEW m \in DOMAIN is, m < n, Alloca(insts, is[n]) PROVE Alloca(insts, is[m])
    <3>1. CASE m = 1
      BY <1>12, <2>7, <3>1
    <3>2. CASE m # 1
      <4>1. n # 1
        BY <2>7, <2>9
      <4>2. PICK x \in DOMAIN old.insts : n = next(x)
        BY <2>4, <4>1
      <4>3. PICK y \in DOMAIN old.insts : m = next(y)
        BY <2>4, <3>2
      <4>4. y < x /\ is[n] = old.insts[x] /\ is[m] = old.insts[y]
        BY <2>5, <2>6, <2>9, <4>2, <4>3
      <4>5. Alloca(b.insts, old.insts[x])
        BY <2>1, <2>2, <2>9, <4>4
      <4>6. Alloca(b.insts, old.insts[y])
        BY <1>10, <4>4, <4>5 DEF SlotsFirst, old
      <4> QED
        BY <2>1, <2>2, <4>4, <4>6
    <3> QED
      BY <3>1, <3>2
  <2> QED
    BY <2>8, <2>9 DEF SlotsFirst, is
<1>17. \A v \in DOMAIN insts : Printed(insts[v])
  <2>1. Printed(i)
    BY <1>3 DEF Printed
  <2> QED
    BY <1>5, <1>10, <2>1 DEF Ext
<1>18. CodeGood(e, t, A)
  BY <1>0, <1>7, <1>8, <1>10, <1>15, <1>16, <1>17 DEF CodeGood
<1>19. LoopsGood(e, t, A) /\ ExitsApart(t) /\ \A j : IsExit(t, j) <=> IsExit(b, j)
  BY <1>5, <1>8, <1>9, <1>10, LoopsStay, Zenon
<1>20. Holding(t, P)
  BY <1>0, <1>6, <1>7, <1>8, <1>10, <1>19, SMTT(60) DEF Holding, old
<1>21. Have(t, A) = Have(b, A)
  <2>1. CASE b.cur = 1
    BY <1>7, <1>8, <1>13, <1>14, <2>1 DEF Have, old
  <2>2. CASE b.cur # 1
    BY <1>7, <1>8, <1>11, <2>2 DEF Have
  <2> QED
    BY <2>1, <2>2
<1>22. LastInst(t) = Inst(id) /\ Inst(id) \in Operand /\ Inst(id) # Void /\ IsSlot(insts, Inst(id))
  BY <1>5, <1>8, <1>12 DEF LastInst, Inst, Operand, Void, IsSlot
<1>23. SlotAs(b, A, t)
  BY <1>5, <1>50, <1>7, <1>8, <1>21, <1>22 DEF SlotAs, Rest
<1> QED
  BY <1>18, <1>19, <1>20, <1>23 DEF Held

\* One block more, at whose start G is available.
WithBlock(b, A, G) == [j \in 1 .. Len(b.blocks) + 1 |-> IF j = Len(b.blocks) + 1 THEN G ELSE A[j]]

\* What a new block leaves.
CreatedAs(b, A, t, B, G, new) ==
  /\ Wider(A, B) /\ new \in DOMAIN t.blocks /\ new \notin DOMAIN b.blocks /\ new \in DOMAIN B /\ B[new] = G /\ new # 1 /\ new # NoBlock /\ new \in Nat
  /\ new = LastBlock(t) /\ DOMAIN b.blocks \subseteq DOMAIN t.blocks
  /\ \A j \in DOMAIN b.blocks : t.blocks[j] = b.blocks[j]
  /\ t.insts = b.insts /\ Rest(b, t) /\ (b.cur \in DOMAIN b.blocks => Have(t, B) = Have(b, A))

\* CreateBlock.
LEMMA CreateGood ==
    ASSUME NEW e, NEW b, NEW A, NEW P, Held(e, b, A, P), NEW G \in SUBSET Nat, NEW t, t = CreateBlock(b),
           NEW B, B = WithBlock(b, A, G)
    PROVE  Held(e, t, B, P \cup {LastBlock(t)}) /\ CreatedAs(b, A, t, B, G, LastBlock(t))
<1> DEFINE new == Len(b.blocks) + 1
           blk == [insts |-> <<>>, term |-> NoTerminator]
           blocks == Append(b.blocks, blk)
<1>0. /\ b \in Lowerers(e.body) /\ b.fault = FALSE /\ b.blocks # <<>> /\ 1 \in DOMAIN b.blocks
      /\ A \in [DOMAIN b.blocks -> SUBSET Nat] /\ P \subseteq DOMAIN b.blocks
  BY HeldFields, Zenon
<1>1. b.insts \in Seq(Instructions) /\ b.blocks \in Seq(BasicBlock) /\ Len(b.blocks) \in Nat /\ DOMAIN b.blocks = 1 .. Len(b.blocks)
  BY <1>0, LowererFields
<1>2. blk \in BasicBlock /\ blk.insts = <<>> /\ blk.term = NoTerminator
  <2>1. NoTerminator \in Terminator
    BY DEF NoTerminator, Terminator, Operand, Void
  <2> QED
    BY <2>1 DEF BasicBlock
<1>3. t = [b EXCEPT !.blocks = blocks]
  BY DEF CreateBlock
<1> HIDE DEF blk
<1>4. /\ blocks \in Seq(BasicBlock) /\ Len(blocks) = new /\ blocks[new] = blk /\ blocks # <<>>
      /\ \A j \in 1 .. Len(b.blocks) : blocks[j] = b.blocks[j]
  BY <1>1, <1>2, AppendProperties
<1> HIDE DEF blocks
<1>5. DOMAIN blocks = 1 .. new /\ new \in Nat /\ new # 1 /\ new # 0
  BY <1>0, <1>1, <1>4
<1>6. /\ t \in Lowerers(e.body) /\ t.fault = FALSE /\ t.insts = b.insts /\ t.blocks = blocks /\ t.cur = b.cur /\ t.loops = b.loops
      /\ t.locals = b.locals /\ t.res = b.res /\ t.ok = b.ok
  BY <1>0, <1>3, <1>4, Zenon DEF Lowerers
<1>7. new = LastBlock(t)
  BY <1>4, <1>6 DEF LastBlock
<1>8. /\ B \in [1 .. new -> SUBSET Nat] /\ B[new] = G /\ \A j \in 1 .. Len(b.blocks) : B[j] = A[j]
  <2>1. \A j \in 1 .. new : j # new => j \in DOMAIN b.blocks
    BY <1>1
  <2>2. \A j \in 1 .. Len(b.blocks) : j \in 1 .. new /\ j # new
    BY <1>1
  <2> QED
    BY <1>0, <1>5, <2>1, <2>2 DEF WithBlock
<1>9. \A j \in DOMAIN b.blocks : j \in DOMAIN blocks /\ j # new
  BY <1>1, <1>5
<1>10. \A j \in DOMAIN blocks : j \in DOMAIN b.blocks \/ j = new
  BY <1>1, <1>5
<1>101. DOMAIN B = DOMAIN blocks /\ new \in DOMAIN blocks /\ DOMAIN A = DOMAIN b.blocks
  BY <1>0, <1>5, <1>8
<1>11. Wider(A, B)
  BY <1>1, <1>8, <1>9, <1>101 DEF Wider
<1>12. /\ \A j \in DOMAIN b.blocks : BlockGood(e.result, b.insts, b.blocks[j], A, A[j])
       /\ SlotsFirst(b.insts, b.blocks[1].insts) /\ A[1] = {}
       /\ \A v \in DOMAIN b.insts : Printed(b.insts[v])
       /\ LoopsGood(e, b, A) /\ ExitsApart(b) /\ Holding(b, P)
  BY DEF Held, CodeGood
<1>13. Ext(b.insts, b.insts)
  BY <1>1 DEF Ext
<1>14. \A j \in DOMAIN b.blocks : BlockGood(e.result, b.insts, b.blocks[j], B, A[j])
  <2> SUFFICES ASSUME NEW j \in DOMAIN b.blocks PROVE BlockGood(e.result, b.insts, b.blocks[j], B, A[j])
    OBVIOUS
  <2> DEFINE x == b.blocks[j]
             H == A[j]
             r == e.result
             insts == b.insts
  <2>1. BlockGood(r, insts, x, A, H) /\ Ext(insts, insts)
    BY <1>12, <1>13
  <2> HIDE DEF x, H, r, insts
  <2>2. BlockGood(r, insts, x, B, H)
    BY <1>11, <2>1, BlockStays
  <2> QED
    BY <2>2 DEF x, H, r, insts
<1>15. BlockGood(e.result, b.insts, blk, B, G)
  <2>1. InstsOK(b.insts, blk.insts, G)
    BY <1>2 DEF InstsOK
  <2> QED
    BY <1>2, <2>1, OpenBlock
<1> HIDE DEF new
<1>16. \A j \in DOMAIN blocks : BlockGood(e.result, b.insts, blocks[j], B, B[j])
  BY <1>1, <1>4, <1>8, <1>10, <1>14, <1>15
<1>17. CodeGood(e, t, B)
  <2>1. blocks[1] = b.blocks[1] /\ B[1] = {}
    BY <1>0, <1>1, <1>4, <1>8, <1>12
  <2>2. B \in [DOMAIN blocks -> SUBSET Nat]
    BY <1>8, <1>101, Zenon
  <2> QED
    BY <1>4, <1>6, <1>12, <1>16, <2>1, <2>2 DEF CodeGood
<1>18. LoopsGood(e, t, B) /\ ExitsApart(t) /\ \A j : IsExit(t, j) <=> IsExit(b, j)
  BY <1>6, <1>11, <1>12, <1>13, LoopsStay
<1>19. ~IsExit(b, new)
  <2> SUFFICES ASSUME NEW p \in DOMAIN b.loops, b.loops[p].open = TRUE, b.loops[p].exit = new PROVE FALSE
    BY Zenon DEF IsExit
  <2>1. LoopGood(e, b.insts, A, p, b.loops[p]) /\ new # NoBlock
    BY <1>5, <1>12 DEF LoopsGood, NoBlock
  <2>2. new \in DOMAIN A
    BY <2>1 DEF LoopGood
  <2> QED
    BY <1>9, <1>101, <2>2
<1>20. Holding(t, P \cup {new})
  <2>1. blocks[new].term = NoTerminator
    BY <1>2, <1>4
  <2>2. new \notin P
    BY <1>0, <1>9
  <2>3. \A j \in DOMAIN b.blocks : blocks[j] = b.blocks[j]
    BY <1>1, <1>4
  <2> QED
    BY <1>0, <1>6, <1>9, <1>10, <1>101, <1>12, <1>18, <1>19, <2>1, <2>2, <2>3 DEF Holding
<1>21. b.cur \in DOMAIN b.blocks => Have(t, B) = Have(b, A)
  BY <1>1, <1>4, <1>6, <1>8 DEF Have
<1>22. CreatedAs(b, A, t, B, G, new)
  BY <1>1, <1>4, <1>5, <1>6, <1>7, <1>8, <1>9, <1>101, <1>11, <1>21 DEF CreatedAs, Rest, NoBlock
<1> QED
  BY <1>7, <1>17, <1>18, <1>20, <1>22 DEF Held

\* What a terminator leaves.
TerminatedAs(b, A, t) ==
  t.insts = b.insts /\ Rest(b, t) /\ DOMAIN t.blocks = DOMAIN b.blocks

\* The terminator t may close the current block.
Closing(e, b, A, t) == t \in Terminator /\ t # NoTerminator /\ TermOK(e.result, b.insts, t, A, Have(b, A))

\* Terminate, of a block that is still open.
LEMMA TerminateGood ==
    ASSUME NEW e, NEW b, NEW A, NEW P, Held(e, b, A, P), b.cur \in P, NEW x, Closing(e, b, A, x), NEW t, t = Terminate(b, x)
    PROVE  Held(e, t, A, P \ {b.cur}) /\ TerminatedAs(b, A, t)
<1> DEFINE cur == b.cur
           old == b.blocks[cur]
           blk == [old EXCEPT !.term = x]
           blocks == [b.blocks EXCEPT ![cur] = blk]
<1>01. /\ b \in Lowerers(e.body) /\ b.fault = FALSE /\ b.blocks # <<>> /\ P \subseteq DOMAIN b.blocks
       /\ A \in [DOMAIN b.blocks -> SUBSET Nat] /\ (\A j \in P : b.blocks[j].term = NoTerminator) /\ 1 \in DOMAIN b.blocks
  BY HeldFields, Zenon
<1>0. /\ b \in Lowerers(e.body) /\ b.fault = FALSE /\ b.blocks # <<>> /\ cur \in DOMAIN b.blocks
      /\ A \in [DOMAIN b.blocks -> SUBSET Nat] /\ old.term = NoTerminator /\ 1 \in DOMAIN b.blocks
  BY <1>01
<1>1. b.blocks \in Seq(BasicBlock)
  BY <1>0, LowererFields
<1>2. old \in BasicBlock
  BY <1>0, <1>1, BlockFields
<1>3. x \in Terminator /\ x # NoTerminator
  BY DEF Closing
<1>4. t = [b EXCEPT !.blocks = blocks, !.fault = FALSE]
  <2>1. t = [b EXCEPT !.blocks = blocks, !.fault = b.fault \/ Terminated(b)]
    BY DEF Terminate, Lowerers
  <2>2. (b.fault \/ Terminated(b)) = FALSE
    BY <1>0 DEF Terminated
  <2> QED
    BY <2>1, <2>2, Zenon
<1>5. blk \in BasicBlock /\ blk.insts = old.insts /\ blk.term = x
  BY <1>2, <1>3 DEF BasicBlock
<1> HIDE DEF old, blk
<1>6. blocks \in Seq(BasicBlock) /\ DOMAIN blocks = DOMAIN b.blocks /\ blocks[cur] = blk /\ blocks # <<>>
      /\ \A j \in DOMAIN b.blocks : j # cur => blocks[j] = b.blocks[j]
  BY <1>0, <1>1, <1>5, ExceptSeq
<1> HIDE DEF blocks
<1>7. /\ t \in Lowerers(e.body) /\ t.fault = FALSE /\ t.insts = b.insts /\ t.blocks = blocks /\ t.cur = cur /\ t.loops = b.loops
      /\ t.locals = b.locals /\ t.res = b.res /\ t.ok = b.ok
  BY <1>0, <1>4, <1>6, Zenon DEF Lowerers
<1>8. /\ \A j \in DOMAIN b.blocks : BlockGood(e.result, b.insts, b.blocks[j], A, A[j])
      /\ SlotsFirst(b.insts, b.blocks[1].insts) /\ A[1] = {}
      /\ \A v \in DOMAIN b.insts : Printed(b.insts[v])
      /\ LoopsGood(e, b, A) /\ ExitsApart(b) /\ Holding(b, P)
  BY DEF Held, CodeGood
<1>9. BlockGood(e.result, b.insts, blk, A, A[cur])
  <2>1. InstsOK(b.insts, old.insts, A[cur])
    BY <1>0, <1>8, Zenon DEF BlockGood, old
  <2>2. TermOK(e.result, b.insts, x, A, A[cur] \cup All(b.insts, old.insts))
    BY DEF Closing, Have, old
  <2> QED
    BY <1>5, <2>1, <2>2 DEF BlockGood
<1>10. \A j \in DOMAIN blocks : BlockGood(e.result, b.insts, blocks[j], A, A[j])
  BY <1>6, <1>8, <1>9
<1>11. \A j \in DOMAIN blocks : blocks[j].insts = b.blocks[j].insts
  BY <1>5, <1>6 DEF old
<1>12. CodeGood(e, t, A)
  BY <1>0, <1>6, <1>7, <1>8, <1>10, <1>11 DEF CodeGood
<1>13. LoopsGood(e, t, A) /\ ExitsApart(t) /\ \A j : IsExit(t, j) <=> IsExit(b, j)
  BY <1>7, <1>8 DEF LoopsGood, ExitsApart, IsExit
<1>14. Holding(t, P \ {cur})
  <2>1. blocks[cur].term # NoTerminator
    BY <1>3, <1>5, <1>6
  <2>2. ~IsExit(b, cur)
    BY <1>8 DEF Holding
  <2> QED
    BY <1>01, <1>6, <1>7, <1>8, <1>13, <2>1, <2>2 DEF Holding
<1> QED
  BY <1>6, <1>7, <1>12, <1>13, <1>14 DEF Held, TerminatedAs, Rest

\* PositionAtEnd.
LEMMA PositionGood ==
    ASSUME NEW e, NEW b, NEW A, NEW P, Held(e, b, A, P), NEW j \in DOMAIN b.blocks, NEW t, t = PositionAtEnd(b, j)
    PROVE  /\ Held(e, t, A, P) /\ A[j] \subseteq Have(t, A) /\ SameCode(b, t)
           /\ t.cur = j /\ t.locals = b.locals /\ t.res = b.res /\ t.ok = b.ok /\ t \in Lowerers(e.body)
<1>1. b \in Lowerers(e.body) /\ j \in Nat
  <2>1. b \in Lowerers(e.body)
    BY HeldFields, Zenon
  <2> QED
    BY <2>1, LowererFields
<1>2. t = [b EXCEPT !.cur = j]
  BY DEF PositionAtEnd
<1>3. t \in Lowerers(e.body) /\ SameCode(b, t) /\ t.cur = j /\ t.locals = b.locals /\ t.res = b.res /\ t.ok = b.ok
  BY <1>1, <1>2, Zenon DEF Lowerers, SameCode
<1>4. Held(e, t, A, P)
  BY <1>3, HeldAlike
<1> QED
  BY <1>3, <1>4 DEF Have

\* Lowering may go on in the current block while the blocks W wait, or has ended.
Live(e, b, A, W) == Held(e, b, A, W \cup {b.cur}) /\ b.cur \notin W /\ b.ok = TRUE
Ended(e, b, A, W) == Held(e, b, A, W) /\ b.ok = FALSE

SameLoops(b, t) ==
  /\ DOMAIN t.loops = DOMAIN b.loops
  /\ \A p \in DOMAIN b.loops : /\ t.loops[p].open = b.loops[p].open
                               /\ b.loops[p].open = TRUE => t.loops[p].entry = b.loops[p].entry
SameLocals(f, i, b, t) == \A l \in Ids(f) : Home(l) < i => t.locals[l] = b.locals[l]

\* Code, open loops and the locals of what is before node i stay.
Since(e, i, b, A, t, B) ==
  Ext(b.insts, t.insts) /\ Wider(A, B) /\ SameLoops(b, t) /\ SameLocals(e.body, i, b, t)

Passed(e, i, b, A, W, t, B) == Since(e, i, b, A, t, B) /\ Live(e, t, B, W) /\ Have(b, A) \subseteq Have(t, B)
Halted(e, i, b, A, W, t, B) == Since(e, i, b, A, t, B) /\ Ended(e, t, B, W)

\* A local in its slot.
LocalGood(e, b, A, l) ==
  /\ b.locals[l].kind = "place" /\ b.locals[l].ty = Bool /\ e.info[l].ty = Bool
  /\ SlotIn(b.insts, b.locals[l].opd, Have(b, A))

\* The open loops are those around node i, the locals visible there are bound.
Ctx(e, i, b, A) ==
  /\ \A p \in DOMAIN b.loops : b.loops[p].open = TRUE <=> p \in DOMAIN e.body /\ IsLoop(e.body, p) /\ Inside(e.body, p, i)
  /\ \A p \in DOMAIN b.loops : b.loops[p].open = TRUE => A[b.loops[p].entry] \subseteq Have(b, A)
  /\ \A l \in Ids(e.body) : Visible(e.body, i, l) => LocalGood(e, b, A, l)

\* The result: no value for (), a value or a place for bool.
IsValue(b, A) == b.res.kind = "value" /\ ((b.res.ty = Unit /\ b.res.opd = Void) \/ (b.res.ty = Bool /\ ValueIn(b.insts, b.res.opd, Have(b, A))))
IsPlace(b, A) == b.res.kind = "place" /\ b.res.ty = Bool /\ SlotIn(b.insts, b.res.opd, Have(b, A))

Yields(e, i, t, B) ==
  /\ ~Ends(e.info, i) /\ t.res.ty = e.info[i].ty /\ (IsValue(t, B) \/ IsPlace(t, B))
  /\ e.body[i].op = "x" => IsPlace(t, B)
  /\ e.body[i].op \in BlockOps => IsValue(t, B)

LPost(e, i, b, A, W, t, B) == (Passed(e, i, b, A, W, t, B) /\ Yields(e, i, t, B)) \/ Halted(e, i, b, A, W, t, B)

\* The lowering of the nodes below i keeps its promise.
LGood(c, e, i) ==
  \A j \in DOMAIN e.body : i < j /\ j <= e.body[i].last =>
    \A b, A, W : Live(e, b, A, W) /\ Ctx(e, j, b, A) => \E B : LPost(e, j, b, A, W, LowerSub(c, j, b), B)

\* What a handler may rely on.
Task(c, e, i, b, A, W) ==
  /\ Env(e) /\ i \in DOMAIN e.body /\ c.body = e.body /\ c.info = e.info /\ LGood(c, e, i)
  /\ Live(e, b, A, W) /\ Ctx(e, i, b, A)

\* The parts of a state lowering may go on from.
LEMMA LiveFields ==
    ASSUME NEW e, NEW b, NEW A, NEW W, Live(e, b, A, W)
    PROVE  /\ b \in Lowerers(e.body) /\ b.cur \in DOMAIN b.blocks /\ b.cur \in DOMAIN A /\ DOMAIN A = DOMAIN b.blocks /\ b.ok = TRUE
           /\ A[b.cur] \subseteq Nat /\ Have(b, A) \subseteq Nat /\ Held(e, b, A, W \cup {b.cur}) /\ b.cur \notin W
           /\ W \subseteq DOMAIN b.blocks
<1>1. Held(e, b, A, W \cup {b.cur}) /\ b.cur \notin W /\ b.ok = TRUE
  BY DEF Live
<1>2. /\ b \in Lowerers(e.body) /\ DOMAIN A = DOMAIN b.blocks /\ A \in [DOMAIN b.blocks -> SUBSET Nat]
      /\ W \cup {b.cur} \subseteq DOMAIN b.blocks
  BY <1>1, HeldFields, ZenonT(60)
<1> QED
  BY <1>1, <1>2 DEF Have, All

\* Growing twice.
LEMMA SinceJoin ==
    ASSUME NEW e, NEW i, NEW b, NEW A, NEW t, NEW B, NEW u, NEW C, Since(e, i, b, A, t, B), Since(e, i, t, B, u, C)
    PROVE  Since(e, i, b, A, u, C)
<1>1. Ext(b.insts, u.insts)
  <2>1. Len(b.insts) <= Len(t.insts) /\ Len(t.insts) <= Len(u.insts) /\ Len(b.insts) \in Int /\ Len(t.insts) \in Int /\ Len(u.insts) \in Int
         => Len(b.insts) <= Len(u.insts)
    OBVIOUS
  <2> QED
    BY DEF Since, Ext
<1>2. Wider(A, C)
  BY DEF Since, Wider
<1> QED
  BY <1>1, <1>2 DEF Since, SameLoops, SameLocals

\* Code does not shrink.
LEMMA SinceSelf ==
    ASSUME NEW e, NEW i, NEW b \in Lowerers(e.body), NEW t \in Lowerers(e.body), NEW A, Ext(b.insts, t.insts), t.loops = b.loops, t.locals = b.locals
    PROVE  Since(e, i, b, A, t, A)
BY DEF Since, Wider, SameLoops, SameLocals

\* One step after the other.
LEMMA PassedJoin ==
    ASSUME NEW e, NEW i, NEW b, NEW A, NEW W, NEW t, NEW B, NEW u, NEW C, Passed(e, i, b, A, W, t, B)
    PROVE  /\ Passed(e, i, t, B, W, u, C) => Passed(e, i, b, A, W, u, C)
           /\ Halted(e, i, t, B, W, u, C) => Halted(e, i, b, A, W, u, C)
BY SinceJoin DEF Passed, Halted

\* The context of a node, later.
LEMMA CtxKept ==
    ASSUME NEW e, IsBody(e.body), NEW i \in DOMAIN e.body, NEW b, NEW A, NEW P, Held(e, b, A, P), Ctx(e, i, b, A), NEW t, NEW B, Since(e, i, b, A, t, B),
           Have(b, A) \subseteq Have(t, B)
    PROVE  Ctx(e, i, t, B)
<1>1. /\ Ext(b.insts, t.insts) /\ Wider(A, B) /\ DOMAIN t.loops = DOMAIN b.loops
      /\ \A p \in DOMAIN b.loops : /\ t.loops[p].open = b.loops[p].open
                                   /\ b.loops[p].open = TRUE => t.loops[p].entry = b.loops[p].entry
      /\ \A l \in Ids(e.body) : Home(l) < i => t.locals[l] = b.locals[l]
  BY DEF Since, SameLoops, SameLocals
<1>2. ASSUME NEW p \in DOMAIN t.loops, t.loops[p].open = TRUE PROVE B[t.loops[p].entry] \subseteq Have(t, B)
  <2>1. p \in DOMAIN b.loops /\ b.loops[p].open = TRUE /\ t.loops[p].entry = b.loops[p].entry
    BY <1>1, <1>2
  <2>2. b.loops[p].entry \in DOMAIN A
    BY <2>1 DEF Held, LoopsGood, LoopGood
  <2>3. B[b.loops[p].entry] = A[b.loops[p].entry]
    BY <1>1, <2>2 DEF Wider
  <2>4. A[b.loops[p].entry] \subseteq Have(b, A)
    BY <2>1 DEF Ctx
  <2> QED
    BY <2>1, <2>3, <2>4
<1>3. ASSUME NEW l \in Ids(e.body), Visible(e.body, i, l) PROVE LocalGood(e, t, B, l)
  <2>1. t.locals[l] = b.locals[l]
    BY <1>1, <1>3, VisibleFacts
  <2>2. LocalGood(e, b, A, l)
    BY <1>3 DEF Ctx
  <2>3. SlotIn(b.insts, b.locals[l].opd, Have(b, A)) => SlotIn(t.insts, b.locals[l].opd, Have(t, B))
    BY <1>1, ValueStays, ZenonT(60)
  <2> QED
    BY <2>1, <2>2, <2>3 DEF LocalGood
<1>4. \A p \in DOMAIN t.loops : t.loops[p].open = TRUE <=> p \in DOMAIN e.body /\ IsLoop(e.body, p) /\ Inside(e.body, p, i)
  BY <1>1 DEF Ctx
<1> QED
  BY <1>2, <1>3, <1>4, Zenon DEF Ctx

\* A child that is neither the body of a loop nor what follows a let.
Plain(f, p, k) == k \in 1 .. Len(f[p].sub) /\ (k = Len(f[p].sub) => ~IsLoop(f, p) /\ f[p].op # "let")

\* It has the context of its parent.
LEMMA CtxChild ==
    ASSUME NEW e, IsBody(e.body), NEW p \in DOMAIN e.body, NEW k, Plain(e.body, p, k), NEW b, NEW A, Ctx(e, p, b, A)
    PROVE  Ctx(e, e.body[p].sub[k], b, A)
<1> DEFINE f == e.body
           j == f[p].sub[k]
<1>1. k \in 1 .. Len(f[p].sub) /\ (k = Len(f[p].sub) => ~IsLoop(f, p) /\ f[p].op # "let")
  BY DEF Plain
<1>2. \A q \in DOMAIN f : Inside(f, q, j) <=> Inside(f, q, p) \/ (q = p /\ k = Len(f[p].sub))
  BY <1>1, InsideChild
<1>3. \A l : Visible(f, j, l) => Visible(f, p, l)
  <2> SUFFICES ASSUME NEW l, Visible(f, j, l) PROVE Visible(f, p, l)
    OBVIOUS
  <2>1. Visible(f, p, l) \/ (f[p].op = "let" /\ k = Len(f[p].sub) /\ l = LetId(p))
    BY <1>1, VisibleChild
  <2> QED
    BY <1>1, <2>1
<1> HIDE DEF j
<1>4. \A q \in DOMAIN f : IsLoop(f, q) => (Inside(f, q, j) <=> Inside(f, q, p))
  BY <1>1, <1>2
<1>5. \A q \in DOMAIN b.loops : b.loops[q].open = TRUE <=> q \in DOMAIN f /\ IsLoop(f, q) /\ Inside(f, q, j)
  BY <1>4 DEF Ctx
<1>6. Ctx(e, j, b, A)
  BY <1>3, <1>5 DEF Ctx
<1> QED
  BY <1>6 DEF j

\* The handler may go on after a step.
LEMMA TaskPassed ==
    ASSUME NEW c, NEW e, NEW p, NEW b, NEW A, NEW W, Task(c, e, p, b, A, W), NEW t, NEW B, Passed(e, p, b, A, W, t, B)
    PROVE  Task(c, e, p, t, B, W)
<1>1. Env(e) /\ p \in DOMAIN e.body /\ Live(e, b, A, W) /\ Ctx(e, p, b, A) /\ IsBody(e.body)
  BY DEF Task, Env
<1>2. Live(e, t, B, W) /\ Since(e, p, b, A, t, B) /\ Have(b, A) \subseteq Have(t, B)
  BY DEF Passed
<1>3. Held(e, b, A, W \cup {b.cur})
  BY <1>1 DEF Live
<1>4. Ctx(e, p, t, B)
  BY <1>1, <1>2, <1>3, CtxKept
<1> QED
  BY <1>2, <1>4, SMTT(60) DEF Task

\* What is grown since a child is grown since its parent.
LEMMA SinceChild ==
    ASSUME NEW e, IsBody(e.body), NEW p \in DOMAIN e.body, NEW j \in DOMAIN e.body, p < j, NEW b, NEW A, NEW t, NEW B, Since(e, j, b, A, t, B)
    PROVE  Since(e, p, b, A, t, B)
<1>1. \A l \in Ids(e.body) : Home(l) < p => Home(l) < j
  BY IdFacts
<1> QED
  BY <1>1 DEF Since, SameLocals

\* What lowering a child leaves: a result, or an end.
SubDone(e, p, j, b, A, W, t, B) ==
  (Passed(e, p, b, A, W, t, B) /\ Yields(e, j, t, B)) \/ Halted(e, p, b, A, W, t, B)

\* The handler of p lowers its k-th child.
Lowers(c, e, p, k, b, t) == Plain(e.body, p, k) /\ t = LowerSub(c, e.body[p].sub[k], b)

\* That keeps the promise.
LEMMA SubLowered ==
    ASSUME NEW c, NEW e, NEW p, NEW b, NEW A, NEW W, Task(c, e, p, b, A, W), NEW k, NEW t, Lowers(c, e, p, k, b, t)
    PROVE  \E B : SubDone(e, p, e.body[p].sub[k], b, A, W, t, B)
<1> DEFINE j == e.body[p].sub[k]
<1>1. Env(e) /\ p \in DOMAIN e.body /\ Live(e, b, A, W) /\ Ctx(e, p, b, A) /\ IsBody(e.body) /\ LGood(c, e, p)
  BY DEF Task, Env
<1>2. Plain(e.body, p, k) /\ t = LowerSub(c, j, b) /\ k \in 1 .. Len(e.body[p].sub)
  BY DEF Lowers, Plain
<1>3. Ctx(e, j, b, A)
  BY <1>1, <1>2, CtxChild
<1>4. j \in DOMAIN e.body /\ p < j /\ j <= e.body[p].last
  <2>1. /\ j \in DOMAIN e.body /\ p < j /\ j <= e.body[j].last /\ e.body[j].last <= e.body[p].last /\ p \in Nat
        /\ j \in Nat /\ e.body[j].last \in Nat /\ e.body[p].last \in Nat
    BY <1>1, <1>2, ChildrenBetween
  <2> QED
    BY <2>1
<1> HIDE DEF j
<1>5. PICK B : LPost(e, j, b, A, W, t, B)
  BY <1>1, <1>2, <1>3, <1>4 DEF LGood
<1>6. Since(e, j, b, A, t, B)
  BY <1>5 DEF LPost, Passed, Halted
<1>7. Since(e, p, b, A, t, B)
  BY <1>1, <1>4, <1>6, SinceChild
<1>8. SubDone(e, p, j, b, A, W, t, B)
  BY <1>5, <1>7 DEF LPost, Passed, Halted, SubDone
<1> QED
  BY <1>8, SMTT(60) DEF j

\* Steps inside the current block.
Quiet(b, t) ==
  t.cur = b.cur /\ t.loops = b.loops /\ t.locals = b.locals /\ DOMAIN t.blocks = DOMAIN b.blocks /\ Ext(b.insts, t.insts)
Stepped(e, b, A, W, t) == Quiet(b, t) /\ Live(e, t, A, W) /\ Have(b, A) \subseteq Have(t, A)

\* One after the other.
LEMMA SteppedJoin ==
    ASSUME NEW e, NEW b, NEW A, NEW W, NEW t, NEW u, Stepped(e, b, A, W, t), Stepped(e, t, A, W, u)
    PROVE  Stepped(e, b, A, W, u)
<1>1. Ext(b.insts, u.insts)
  <2>1. Len(b.insts) <= Len(t.insts) /\ Len(t.insts) <= Len(u.insts) => Len(b.insts) <= Len(u.insts)
    OBVIOUS
  <2> QED
    BY DEF Stepped, Quiet, Ext
<1> QED
  BY <1>1 DEF Stepped, Quiet

\* A step inside the current block goes forward.
LEMMA SteppedPassed ==
    ASSUME NEW e, NEW i, NEW b, NEW A, NEW W, Live(e, b, A, W), NEW t, Stepped(e, b, A, W, t)
    PROVE  Passed(e, i, b, A, W, t, A)
<1>1. b \in Lowerers(e.body) /\ t \in Lowerers(e.body)
  BY LiveFields, Zenon DEF Stepped
<1>2. Since(e, i, b, A, t, A)
  BY <1>1, SinceSelf DEF Stepped, Quiet
<1> QED
  BY <1>2 DEF Stepped, Passed

\* Emit.
LEMMA EmitStepped ==
    ASSUME NEW e, NEW b, NEW A, NEW W, Live(e, b, A, W), NEW op, NEW x, NEW y, Fits(b, A, op, x, y), NEW t, t = Emit(b, op, x, y)
    PROVE  Stepped(e, b, A, W, t) /\ EmittedAs(b, A, t, op, x, y)
<1>1. Held(e, b, A, W \cup {b.cur}) /\ b.cur \notin W /\ b.ok = TRUE
  BY DEF Live
<1> DEFINE P == W \cup {b.cur}
<1>2. Held(e, b, A, P) /\ b.cur \in P
  BY <1>1
<1> HIDE DEF P
<1>3. Held(e, t, A, P) /\ EmittedAs(b, A, t, op, x, y)
  BY <1>2, EmitGood
<1>4. Ext(b.insts, t.insts) /\ t.cur = b.cur /\ t.loops = b.loops /\ t.locals = b.locals /\ t.ok = b.ok /\ DOMAIN t.blocks = DOMAIN b.blocks
      /\ Have(b, A) \subseteq Have(t, A)
  BY <1>3 DEF EmittedAs
<1>5. Live(e, t, A, W)
  BY <1>1, <1>3, <1>4 DEF Live, P
<1> QED
  BY <1>3, <1>4, <1>5 DEF Stepped, Quiet

\* AllocaInEntry.
LEMMA AllocaStepped ==
    ASSUME NEW e, NEW b, NEW A, NEW W, Live(e, b, A, W), NEW t, t = AllocaInEntry(b)
    PROVE  Stepped(e, b, A, W, t) /\ SlotAs(b, A, t)
<1>1. Held(e, b, A, W \cup {b.cur}) /\ b.cur \notin W /\ b.ok = TRUE /\ b.cur \in DOMAIN b.blocks
  BY LiveFields, Zenon
<1>2. Held(e, t, A, W \cup {b.cur}) /\ SlotAs(b, A, t)
  BY <1>1, AllocaGood
<1>3. Ext(b.insts, t.insts) /\ t.cur = b.cur /\ t.loops = b.loops /\ t.locals = b.locals /\ t.ok = b.ok /\ DOMAIN t.blocks = DOMAIN b.blocks
      /\ Have(b, A) = Have(t, A)
  BY <1>2 DEF SlotAs, Rest
<1>4. Live(e, t, A, W)
  BY <1>1, <1>2, <1>3 DEF Live
<1> QED
  BY <1>2, <1>3, <1>4 DEF Stepped, Quiet

\* Value and Place.
LEMMA ResultStepped ==
    ASSUME NEW e, NEW b, NEW A, NEW W, Live(e, b, A, W), NEW res \in LoweredExpr, NEW t, t = [b EXCEPT !.res = res]
    PROVE  Stepped(e, b, A, W, t) /\ t.res = res /\ Have(t, A) = Have(b, A) /\ t.insts = b.insts
<1>1. Held(e, b, A, W \cup {b.cur}) /\ b.cur \notin W /\ b.ok = TRUE /\ b \in Lowerers(e.body)
  BY LiveFields, Zenon
<1>2. /\ t \in Lowerers(e.body) /\ SameCode(b, t) /\ t.cur = b.cur /\ t.locals = b.locals /\ t.ok = b.ok /\ t.res = res
  BY <1>1, Zenon DEF Lowerers, SameCode
<1>3. Held(e, t, A, W \cup {b.cur})
  BY <1>1, <1>2, HeldAlike
<1>4. Live(e, t, A, W) /\ Have(t, A) = Have(b, A)
  BY <1>1, <1>2, <1>3 DEF Live, Have, SameCode
<1>5. Ext(b.insts, t.insts)
  BY <1>1, <1>2, LowererFields DEF Ext, SameCode
<1> QED
  BY <1>2, <1>4, <1>5 DEF Stepped, Quiet, SameCode

\* The value of a result.
ValueOfResult(b, A, v) == IsValue(v, A) /\ v.res.ty = b.res.ty

\* as_value.
LEMMA AsValueStepped ==
    ASSUME NEW e, NEW b, NEW A, NEW W, Live(e, b, A, W), IsValue(b, A) \/ IsPlace(b, A), NEW v, v = AsValue(b)
    PROVE  Stepped(e, b, A, W, v) /\ ValueOfResult(b, A, v)
<1>1. b \in Lowerers(e.body) /\ b.res.opd \in Operand
  <2>1. b \in Lowerers(e.body)
    BY LiveFields, Zenon
  <2> QED
    BY <2>1, LowererFields
<1>2. CASE IsValue(b, A)
  <2>1. v = b
    BY <1>2 DEF AsValue, IsValue
  <2>2. Ext(b.insts, b.insts)
    BY <1>1, LowererFields DEF Ext
  <2> QED
    BY <1>2, <2>1, <2>2 DEF Stepped, Quiet, ValueOfResult
<1>3. CASE IsPlace(b, A)
  <2> DEFINE o == b.res.opd
             l == Emit(b, "load", o, Void)
             id == Len(b.insts) + 1
             res == [kind |-> "value", ty |-> b.res.ty, opd |-> LastInst(l)]
  <2>1. b.res.kind # "value" /\ b.res.ty = Bool /\ SlotIn(b.insts, o, Have(b, A))
    BY <1>3 DEF IsPlace
  <2>2. v = [l EXCEPT !.res = res]
    BY <2>1 DEF AsValue, Value
  <2>3. Fits(b, A, "load", o, Void)
    <3>1. o # Void
      BY <2>1 DEF SlotIn, IsSlot, Void
    <3> QED
      BY <1>1, <2>1, <3>1 DEF Fits, InstOK, Printed, Instruction, InstructionOps, Operand, Void
  <2> HIDE DEF l, o
  <2>4. Stepped(e, b, A, W, l) /\ EmittedAs(b, A, l, "load", o, Void)
    BY <2>3, EmitStepped DEF l
  <2>5. /\ Len(l.insts) = id /\ l.insts[id] = Instruction("load", o, Void) /\ id \in DOMAIN l.insts
        /\ Have(l, A) = Have(b, A) \cup Gives(l.insts, id)
    BY <2>4 DEF EmittedAs
  <2>6. LastInst(l) = Inst(id) /\ l.insts[id].op = "load" /\ id \in Have(l, A)
    BY <2>5 DEF LastInst, Instruction, Gives
  <2>7. ValueIn(l.insts, LastInst(l), Have(l, A)) /\ id \in Nat
    <3>1. l \in Lowerers(e.body)
      BY <2>4, LiveFields, Zenon DEF Stepped
    <3> QED
      BY <2>5, <2>6, <3>1, LowererFields DEF ValueIn, Computed, Inst
  <2> HIDE DEF id
  <2>8. res \in LoweredExpr /\ res.kind = "value" /\ res.ty = Bool /\ res.opd = LastInst(l)
    BY <2>1, <2>6, <2>7 DEF LoweredExpr, Types, Inst, Operand
  <2> HIDE DEF res
  <2>9. Stepped(e, l, A, W, v) /\ v.res = res /\ Have(v, A) = Have(l, A) /\ v.insts = l.insts
    BY <2>2, <2>4, <2>8, ResultStepped DEF Stepped
  <2>10. Stepped(e, b, A, W, v)
    BY <2>4, <2>9, SteppedJoin
  <2>11. IsValue(v, A) /\ v.res.ty = b.res.ty
    BY <2>1, <2>7, <2>8, <2>9 DEF IsValue
  <2> QED
    BY <2>10, <2>11 DEF ValueOfResult
<1> QED
  BY <1>2, <1>3

\* A bool stored into a slot.
LEMMA StoreStepped ==
    ASSUME NEW e, NEW b, NEW A, NEW W, Live(e, b, A, W), NEW o \in Operand, ValueIn(b.insts, o, Have(b, A)),
           NEW slot \in Operand, IsSlot(b.insts, slot), NEW t, t = Emit(b, "store", o, slot)
    PROVE  Stepped(e, b, A, W, t) /\ slot.v \in Have(t, A)
<1>1. Fits(b, A, "store", o, slot)
  <2>1. o # Void /\ slot # Void
    BY DEF ValueIn, IsSlot, Void
  <2> QED
    BY <2>1 DEF Fits, InstOK, Printed, Instruction, InstructionOps
<1>2. Stepped(e, b, A, W, t) /\ EmittedAs(b, A, t, "store", o, slot)
  BY <1>1, EmitStepped
<1> DEFINE id == Len(b.insts) + 1
<1>3. t.insts[id] = Instruction("store", o, slot) /\ Have(t, A) = Have(b, A) \cup Gives(t.insts, id)
  BY <1>2 DEF EmittedAs
<1> HIDE DEF id
<1>4. Gives(t.insts, id) = {slot.v}
  BY <1>3 DEF Gives, Instruction
<1> QED
  BY <1>2, <1>3, <1>4

\* A bool result stored into a slot.
LEMMA StoreResultStepped ==
    ASSUME NEW e, NEW b, NEW A, NEW W, Live(e, b, A, W), IsValue(b, A) \/ IsPlace(b, A), b.res.ty = Bool,
           NEW slot \in Operand, IsSlot(b.insts, slot), NEW t, t = StoreResult(b, slot)
    PROVE  Stepped(e, b, A, W, t) /\ slot.v \in Have(t, A)
<1> DEFINE v == AsValue(b)
<1>1. t = Emit(v, "store", v.res.opd, slot)
  BY DEF StoreResult
<1>2. v = AsValue(b)
  OBVIOUS
<1> HIDE DEF v
<1>3. Stepped(e, b, A, W, v) /\ ValueOfResult(b, A, v)
  BY <1>2, AsValueStepped
<1>4. Live(e, v, A, W) /\ Ext(b.insts, v.insts) /\ IsValue(v, A) /\ v.res.ty = Bool
  BY <1>3 DEF Stepped, Quiet, ValueOfResult
<1>5. ValueIn(v.insts, v.res.opd, Have(v, A)) /\ v.res.opd \in Operand /\ IsSlot(v.insts, slot)
  <2>1. v \in Lowerers(e.body)
    BY <1>4, LiveFields, Zenon
  <2>2. v.res.opd \in Operand
    BY <2>1, LowererFields
  <2>3. IsSlot(v.insts, slot)
    BY <1>4, ValueStays
  <2>4. Unit # Bool
    BY DEF Unit, Bool
  <2> QED
    BY <1>4, <2>2, <2>3, <2>4 DEF IsValue
<1>6. Stepped(e, v, A, W, t) /\ slot.v \in Have(t, A)
  BY <1>1, <1>4, <1>5, StoreStepped
<1> QED
  BY <1>3, <1>6, SteppedJoin

\* What lowering a child to a value leaves.
IsTyped(e, j, t) == t.res.ty = e.info[j].ty
ValueDone(e, p, j, b, A, W, t, B) ==
  (Passed(e, p, b, A, W, t, B) /\ ~Ends(e.info, j) /\ IsValue(t, B) /\ IsTyped(e, j, t)) \/ Halted(e, p, b, A, W, t, B)

\* The handler of p lowers its k-th child to a value.
Values(c, e, p, k, b, t) == Plain(e.body, p, k) /\ t = LowerValue(c, e.body[p].sub[k], b)

\* LowerExpr, and then as_value.
LEMMA ValueLowered ==
    ASSUME NEW c, NEW e, NEW p, NEW b, NEW A, NEW W, Task(c, e, p, b, A, W), NEW k, NEW t, Values(c, e, p, k, b, t)
    PROVE  \E B : ValueDone(e, p, e.body[p].sub[k], b, A, W, t, B)
<1> DEFINE j == e.body[p].sub[k]
           s == LowerSub(c, j, b)
<1>1. Lowers(c, e, p, k, b, s)
  BY DEF Values, Lowers
<1>2. t = IF s.ok THEN AsValue(s) ELSE s
  BY DEF Values, LowerValue, Then
<1>3. \E B : SubDone(e, p, j, b, A, W, s, B)
  BY <1>1, SubLowered
<1> HIDE DEF j, s
<1>4. PICK B : SubDone(e, p, j, b, A, W, s, B)
  BY <1>3
<1>5. CASE Halted(e, p, b, A, W, s, B)
  <2>1. t = s
    BY <1>2, <1>5 DEF Halted, Ended
  <2>2. ValueDone(e, p, j, b, A, W, t, B)
    BY <1>5, <2>1 DEF ValueDone
  <2> QED
    BY <2>2 DEF j
<1>6. CASE Passed(e, p, b, A, W, s, B) /\ Yields(e, j, s, B)
  <2>1. Live(e, s, B, W) /\ s.ok = TRUE
    BY <1>6 DEF Passed, Live
  <2>2. t = AsValue(s)
    BY <1>2, <2>1
  <2>3. (IsValue(s, B) \/ IsPlace(s, B)) /\ ~Ends(e.info, j) /\ s.res.ty = e.info[j].ty
    BY <1>6 DEF Yields
  <2>4. Stepped(e, s, B, W, t) /\ ValueOfResult(s, B, t)
    BY <2>1, <2>2, <2>3, AsValueStepped
  <2>5. Passed(e, p, s, B, W, t, B)
    BY <2>1, <2>4, SteppedPassed
  <2>6. Passed(e, p, b, A, W, t, B)
    BY <1>6, <2>5, PassedJoin
  <2>7. ValueDone(e, p, j, b, A, W, t, B)
    BY <2>3, <2>4, <2>6, SMTT(60) DEF ValueDone, ValueOfResult, IsTyped
  <2> QED
    BY <2>7 DEF j
<1> QED
  BY <1>4, <1>5, <1>6 DEF SubDone

\* What the checker has found of a node.
LEMMA TaskRules ==
    ASSUME NEW c, NEW e, NEW p, NEW b, NEW A, NEW W, Task(c, e, p, b, A, W)
    PROVE  Rule(e.body, e.result, e.info, p) /\ Settled(e.info, p) /\ IsBody(e.body) /\ p \in DOMAIN e.body /\ Live(e, b, A, W)
           /\ c.body = e.body /\ c.info = e.info
BY DEF Task, Env, WellTyped

\* Nothing has happened yet.
LEMMA PassedSelf ==
    ASSUME NEW e, NEW i, NEW b, NEW A, NEW W, Live(e, b, A, W)
    PROVE  Passed(e, i, b, A, W, b, A)
<1>1. b \in Lowerers(e.body)
  BY LiveFields, Zenon
<1>2. Ext(b.insts, b.insts)
  BY <1>1, LowererFields DEF Ext
<1> QED
  BY <1>1, <1>2, SinceSelf DEF Passed

\* A value as the result.
LEMMA ValueResult ==
    ASSUME NEW e, NEW b, NEW A, NEW W, Live(e, b, A, W), NEW ty \in Types, NEW o \in Operand, NEW t, t = Value(b, ty, o),
           (ty = Unit /\ o = Void) \/ (ty = Bool /\ ValueIn(b.insts, o, Have(b, A)))
    PROVE  Stepped(e, b, A, W, t) /\ IsValue(t, A) /\ t.res.ty = ty
<1> DEFINE res == [kind |-> "value", ty |-> ty, opd |-> o]
<1>1. res \in LoweredExpr /\ res.kind = "value" /\ res.ty = ty /\ res.opd = o
  BY DEF LoweredExpr
<1>2. t = [b EXCEPT !.res = res]
  BY DEF Value
<1> HIDE DEF res
<1>3. Stepped(e, b, A, W, t) /\ t.res = res /\ Have(t, A) = Have(b, A) /\ t.insts = b.insts
  BY <1>1, <1>2, ResultStepped
<1> QED
  BY <1>1, <1>3 DEF IsValue

\* A value in the current block keeps the promise of a node that is not a block.
LEMMA ValueEnds ==
    ASSUME NEW e, NEW p, NEW b, NEW A, NEW W, NEW t, NEW B, Passed(e, p, b, A, W, t, B), IsValue(t, B), IsTyped(e, p, t), ~Ends(e.info, p),
           e.body[p].op # "x"
    PROVE  \E C : LPost(e, p, b, A, W, t, C)
BY DEF LPost, Yields, IsTyped

\* unit, true and read().
LEMMA AtomLowered ==
    ASSUME NEW c, NEW e, NEW p, NEW b, NEW A, NEW W, Task(c, e, p, b, A, W), e.body[p].op \in {"unit", "true", "read"},
           NEW t, t = LowerExpr(c, p, b)
    PROVE  \E B : LPost(e, p, b, A, W, t, B)
<1>1. Rule(e.body, e.result, e.info, p) /\ Live(e, b, A, W) /\ c.body = e.body
  BY TaskRules
<1>2. /\ e.body[p].op = "unit" => e.info[p].ty = Unit
      /\ e.body[p].op # "unit" => e.info[p].ty = Bool
      /\ ~Ends(e.info, p)
  BY <1>1 DEF Rule, ValueRule
<1>3. CASE e.body[p].op = "unit"
  <2>1. t = Value(b, Unit, Void)
    BY <1>1, <1>3 DEF LowerExpr, BlockOps
  <2>2. Void \in Operand /\ Unit \in Types
    BY DEF Void, Operand, Types
  <2>3. Stepped(e, b, A, W, t) /\ IsValue(t, A) /\ t.res.ty = Unit
    BY <1>1, <2>1, <2>2, ValueResult
  <2>4. Passed(e, p, b, A, W, t, A)
    BY <1>1, <2>3, SteppedPassed
  <2> QED
    BY <1>2, <1>3, <2>3, <2>4, ValueEnds DEF IsTyped
<1>4. CASE e.body[p].op = "true"
  <2> DEFINE o == Const(1)
  <2>1. t = Value(b, Bool, o)
    BY <1>1, <1>4 DEF LowerExpr, BlockOps
  <2>2. o \in Operand /\ Bool \in Types /\ ValueIn(b.insts, o, Have(b, A))
    BY DEF Const, Operand, Types, ValueIn
  <2> HIDE DEF o
  <2>3. Stepped(e, b, A, W, t) /\ IsValue(t, A) /\ t.res.ty = Bool
    BY <1>1, <2>1, <2>2, ValueResult
  <2>4. Passed(e, p, b, A, W, t, A)
    BY <1>1, <2>3, SteppedPassed
  <2> QED
    BY <1>2, <1>4, <2>3, <2>4, ValueEnds DEF IsTyped
<1>5. CASE e.body[p].op = "read"
  <2> DEFINE x == Emit(b, "call", Void, Void)
             o == LastInst(x)
             id == Len(b.insts) + 1
  <2>1. t = Value(x, Bool, o)
    BY <1>1, <1>5 DEF LowerExpr, BlockOps
  <2>2. Fits(b, A, "call", Void, Void)
    BY DEF Fits, InstOK, Printed, Instruction, InstructionOps, Operand, Void
  <2>3. x = Emit(b, "call", Void, Void)
    OBVIOUS
  <2>30. o = LastInst(x)
    OBVIOUS
  <2> HIDE DEF x, o
  <2>4. Stepped(e, b, A, W, x) /\ EmittedAs(b, A, x, "call", Void, Void)
    BY <1>1, <2>2, <2>3, EmitStepped
  <2>5. Len(x.insts) = id /\ x.insts[id] = Instruction("call", Void, Void) /\ id \in DOMAIN x.insts
        /\ Have(x, A) = Have(b, A) \cup Gives(x.insts, id)
    BY <2>4 DEF EmittedAs
  <2>6. Live(e, x, A, W) /\ x \in Lowerers(e.body)
    BY <2>4, LiveFields, Zenon DEF Stepped
  <2>7. o \in Operand /\ ValueIn(x.insts, o, Have(x, A)) /\ Bool \in Types
    BY <2>30, <2>5, <2>6, LowererFields DEF LastInst, Inst, Instruction, Gives, ValueIn, Computed, Operand, Types
  <2>8. Stepped(e, x, A, W, t) /\ IsValue(t, A) /\ t.res.ty = Bool
    BY <2>1, <2>6, <2>7, ValueResult
  <2>9. Stepped(e, b, A, W, t)
    BY <2>4, <2>8, SteppedJoin
  <2>10. Passed(e, p, b, A, W, t, A)
    BY <1>1, <2>9, SteppedPassed
  <2> QED
    BY <1>2, <1>5, <2>8, <2>10, ValueEnds DEF IsTyped
<1> QED
  BY <1>3, <1>4, <1>5

\* x
LEMMA PathLowered ==
    ASSUME NEW c, NEW e, NEW p, NEW b, NEW A, NEW W, Task(c, e, p, b, A, W), e.body[p].op = "x",
           NEW t, t = LowerPath(c, p, b)
    PROVE  \E B : LPost(e, p, b, A, W, t, B)
<1> DEFINE l == e.info[p].local
           res == b.locals[l]
<1>1. Rule(e.body, e.result, e.info, p) /\ Settled(e.info, p) /\ Live(e, b, A, W) /\ c.info = e.info /\ IsBody(e.body) /\ p \in DOMAIN e.body
  BY TaskRules
<1>2. Visible(e.body, p, l) /\ e.info[p].ty = e.info[l].ty /\ (Ends(e.info, p) => e.info[p].ty = Never)
  BY <1>1 DEF Rule, ValueRule
<1>3. l \in Ids(e.body) /\ b \in Lowerers(e.body)
  BY <1>1, <1>2, VisibleFacts, LiveFields, Zenon
<1>4. LocalGood(e, b, A, l)
  BY <1>2, <1>3 DEF Task, Ctx
<1>5. res.kind = "place" /\ res.ty = Bool /\ e.info[l].ty = Bool /\ SlotIn(b.insts, res.opd, Have(b, A)) /\ res \in LoweredExpr
  BY <1>3, <1>4, LowererFields DEF LocalGood
<1>6. t = [b EXCEPT !.res = res]
  <2>1. t = Require([b EXCEPT !.res = res], res.kind # "none")
    BY <1>1 DEF LowerPath
  <2>2. b.fault = FALSE /\ b \in Lowerers(e.body)
    BY <1>1, HeldFields, Zenon DEF Live
  <2> HIDE DEF res
  <2>3. [b EXCEPT !.res = res].fault = FALSE /\ (FALSE \/ ~(res.kind # "none")) = FALSE
    BY <1>5, <2>2 DEF Lowerers
  <2> QED
    BY <2>1, <2>2, <2>3, Zenon DEF Require, Lowerers
<1> HIDE DEF l, res
<1>7. Stepped(e, b, A, W, t) /\ t.res = res /\ Have(t, A) = Have(b, A) /\ t.insts = b.insts
  BY <1>1, <1>5, <1>6, ResultStepped
<1>8. Passed(e, p, b, A, W, t, A)
  BY <1>1, <1>7, SteppedPassed
<1>9. IsPlace(t, A) /\ t.res.ty = e.info[p].ty
  BY <1>2, <1>5, <1>7 DEF IsPlace
<1>10. ~Ends(e.info, p)
  BY <1>2, <1>5 DEF Never, Bool
<1> QED
  BY <1>8, <1>9, <1>10 DEF LPost, Yields, BlockOps

\* The register of an instruction as the result.
LEMMA EmitValue ==
    ASSUME NEW e, NEW b, NEW A, NEW W, Live(e, b, A, W), NEW op, NEW u, NEW v, Fits(b, A, op, u, v), op # "store",
           NEW x, x = Emit(b, op, u, v), NEW t, t = Value(x, Bool, LastInst(x))
    PROVE  Stepped(e, b, A, W, t) /\ IsValue(t, A) /\ t.res.ty = Bool
<1> DEFINE id == Len(b.insts) + 1
           o == LastInst(x)
<1>1. Stepped(e, b, A, W, x) /\ EmittedAs(b, A, x, op, u, v)
  BY EmitStepped
<1>2. Len(x.insts) = id /\ x.insts[id] = Instruction(op, u, v) /\ id \in DOMAIN x.insts
      /\ Have(x, A) = Have(b, A) \cup Gives(x.insts, id)
  BY <1>1 DEF EmittedAs
<1>3. Live(e, x, A, W) /\ x \in Lowerers(e.body)
  BY <1>1, LiveFields, Zenon DEF Stepped
<1>4. op # "alloca"
  BY DEF Fits
<1>5. x.insts[id].op = op /\ id \in Nat
  BY <1>2, <1>3, LowererFields DEF Instruction
<1>6. id \in Have(x, A)
  BY <1>2, <1>4, <1>5 DEF Gives
<1>7. o = Inst(id)
  BY <1>2 DEF LastInst
<1> HIDE DEF o, id
<1>8. o \in Operand /\ ValueIn(x.insts, o, Have(x, A)) /\ Bool \in Types
  BY <1>2, <1>4, <1>5, <1>6, <1>7 DEF Inst, ValueIn, Computed, Operand, Types
<1>9. Stepped(e, x, A, W, t) /\ IsValue(t, A) /\ t.res.ty = Bool
  BY <1>3, <1>8, ValueResult DEF o
<1> QED
  BY <1>1, <1>9, SteppedJoin

\* The value of a bool.
LEMMA BoolValue ==
    ASSUME NEW e, NEW b, NEW A, NEW W, Live(e, b, A, W), IsValue(b, A), b.res.ty = Bool
    PROVE  ValueIn(b.insts, b.res.opd, Have(b, A)) /\ b.res.opd # Void /\ b.res.opd \in Operand
<1>1. b.res.opd \in Operand
  <2>1. b \in Lowerers(e.body)
    BY LiveFields, Zenon
  <2> QED
    BY <2>1, LowererFields
<1>2. ValueIn(b.insts, b.res.opd, Have(b, A))
  BY DEF IsValue, Unit, Bool
<1> QED
  BY <1>1, <1>2 DEF ValueIn, Void

\* A value known before a step is known after it.
LEMMA ValuePassed ==
    ASSUME NEW e, NEW i, NEW b, NEW A, NEW W, NEW t, NEW B, Passed(e, i, b, A, W, t, B), NEW o
    PROVE  /\ ValueIn(b.insts, o, Have(b, A)) => ValueIn(t.insts, o, Have(t, B))
           /\ SlotIn(b.insts, o, Have(b, A)) => SlotIn(t.insts, o, Have(t, B))
           /\ IsSlot(b.insts, o) => IsSlot(t.insts, o)
<1>1. Ext(b.insts, t.insts) /\ Have(b, A) \subseteq Have(t, B)
  BY DEF Passed, Since
<1> QED
  BY <1>1, ValueStays

\* An instruction on two values may be appended.
LEMMA FitsTwo ==
    ASSUME NEW b, NEW A, NEW op \in {"xor", "icmp"}, NEW u \in Operand, NEW v \in Operand,
           ValueIn(b.insts, u, Have(b, A)), ValueIn(b.insts, v, Have(b, A))
    PROVE  Fits(b, A, op, u, v)
<1>1. u # Void /\ v # Void
  BY DEF ValueIn, Void
<1> QED
  BY <1>1 DEF Fits, InstOK, Printed, Instruction, InstructionOps

\* The constant 1.
LEMMA OneIsValue ==
    ASSUME NEW insts, NEW H
    PROVE  ValueIn(insts, Const(1), H) /\ Const(1) \in Operand
BY DEF Const, ValueIn, Operand

\* The end of a handler, with the value of an instruction on two values.
LEMMA BinaryEnds ==
    ASSUME NEW e, NEW p, NEW b, NEW A, NEW W, NEW r, NEW B, Passed(e, p, b, A, W, r, B), NEW op \in {"xor", "icmp"},
           NEW u \in Operand, NEW v \in Operand, ValueIn(r.insts, u, Have(r, B)), ValueIn(r.insts, v, Have(r, B)),
           NEW x, x = Emit(r, op, u, v), NEW t, t = Value(x, Bool, LastInst(x)), e.info[p].ty = Bool, ~Ends(e.info, p), e.body[p].op # "x"
    PROVE  \E C : LPost(e, p, b, A, W, t, C)
<1>1. Live(e, r, B, W)
  BY DEF Passed
<1>2. Fits(r, B, op, u, v)
  BY FitsTwo
<1>3. Stepped(e, r, B, W, t) /\ IsValue(t, B) /\ t.res.ty = Bool
  BY <1>1, <1>2, EmitValue
<1>4. Passed(e, p, r, B, W, t, B)
  BY <1>1, <1>3, SteppedPassed
<1>5. Passed(e, p, b, A, W, t, B)
  BY <1>4, PassedJoin
<1> QED
  BY <1>3, <1>5, ValueEnds DEF IsTyped

\* !a
LEMMA NotLowered ==
    ASSUME NEW c, NEW e, NEW p, NEW b, NEW A, NEW W, Task(c, e, p, b, A, W), e.body[p].op = "not",
           NEW t, t = LowerNot(c, p, b)
    PROVE  \E B : LPost(e, p, b, A, W, t, B)
<1> DEFINE j == e.body[p].sub[1]
           a == LowerValue(c, j, b)
           x == Emit(a, "xor", a.res.opd, Const(1))
<1>1. Rule(e.body, e.result, e.info, p) /\ Live(e, b, A, W) /\ c.info = e.info /\ c.body = e.body /\ IsBody(e.body) /\ p \in DOMAIN e.body
  BY TaskRules
<1>2. e.info[p].ty = Bool /\ Is(e.info, j, Bool) /\ (Ends(e.info, p) => Ends(e.info, j))
  BY <1>1 DEF Rule, OperatorRule
<1>3. t = IF a.ok THEN Value(x, Bool, LastInst(x)) ELSE a
  BY <1>1, <1>2 DEF LowerNot, Then, Child
<1>4. Values(c, e, p, 1, b, a)
  BY <1>1, OpArity DEF Values, Plain, IsLoop
<1>5. \E B : ValueDone(e, p, j, b, A, W, a, B)
  BY <1>4, ValueLowered
<1>6. x = Emit(a, "xor", a.res.opd, Const(1))
  OBVIOUS
<1> HIDE DEF j, a, x
<1>7. PICK B : ValueDone(e, p, j, b, A, W, a, B)
  BY <1>5
<1>8. CASE Halted(e, p, b, A, W, a, B)
  <2>1. t = a
    BY <1>3, <1>8 DEF Halted, Ended
  <2> QED
    BY <1>8, <2>1 DEF LPost
<1>9. CASE Passed(e, p, b, A, W, a, B) /\ ~Ends(e.info, j) /\ IsValue(a, B) /\ IsTyped(e, j, a)
  <2>1. Live(e, a, B, W) /\ a.ok = TRUE
    BY <1>9 DEF Passed, Live
  <2>2. t = Value(x, Bool, LastInst(x))
    BY <1>3, <2>1
  <2>3. a.res.ty = Bool /\ ~Ends(e.info, p)
    BY <1>2, <1>9 DEF IsTyped, Is
  <2>4. ValueIn(a.insts, a.res.opd, Have(a, B)) /\ a.res.opd \in Operand
    BY <1>9, <2>1, <2>3, BoolValue
  <2>5. e.body[p].op # "x"
    OBVIOUS
  <2> DEFINE o == Const(1)
  <2>6. ValueIn(a.insts, o, Have(a, B)) /\ o \in Operand
    BY OneIsValue
  <2>7. x = Emit(a, "xor", a.res.opd, o)
    BY <1>6
  <2> HIDE DEF o
  <2> QED
    BY <1>2, <1>9, <2>2, <2>3, <2>4, <2>5, <2>6, <2>7, BinaryEnds
<1> QED
  BY <1>7, <1>8, <1>9 DEF ValueDone

\* a ^ b and the like
LEMMA ArithmeticLowered ==
    ASSUME NEW c, NEW e, NEW p, NEW b, NEW A, NEW W, Task(c, e, p, b, A, W), e.body[p].op = "xor",
           NEW t, t = LowerArithmetic(c, p, b)
    PROVE  \E B : LPost(e, p, b, A, W, t, B)
<1> DEFINE one == e.body[p].sub[1]
           two == e.body[p].sub[2]
           l == LowerValue(c, one, b)
           r == LowerValue(c, two, l)
           x == Emit(r, "xor", l.res.opd, r.res.opd)
<1>1. Rule(e.body, e.result, e.info, p) /\ Live(e, b, A, W) /\ c.info = e.info /\ c.body = e.body /\ IsBody(e.body) /\ p \in DOMAIN e.body
  BY TaskRules
<1>2. e.info[p].ty = Bool /\ Is(e.info, one, Bool) /\ Is(e.info, two, Bool) /\ (Ends(e.info, p) => Ends(e.info, one) \/ Ends(e.info, two))
  BY <1>1, SMTT(60) DEF Rule, OperatorRule
<1>3. t = IF l.ok THEN IF r.ok THEN Value(x, Bool, LastInst(x)) ELSE r ELSE l
  BY <1>1, <1>2 DEF LowerArithmetic, Then, Child
<1>4. Values(c, e, p, 1, b, l) /\ Values(c, e, p, 2, l, r)
  BY <1>1, OpArity DEF Values, Plain, IsLoop
<1>5. \E B : ValueDone(e, p, one, b, A, W, l, B)
  BY <1>4, ValueLowered
<1>6. x = Emit(r, "xor", l.res.opd, r.res.opd)
  OBVIOUS
<1>60. \A B : Task(c, e, p, l, B, W) => \E C : ValueDone(e, p, two, l, B, W, r, C)
  BY <1>4, ValueLowered
<1> HIDE DEF one, two, l, r, x
<1>7. PICK B : ValueDone(e, p, one, b, A, W, l, B)
  BY <1>5
<1>8. CASE Halted(e, p, b, A, W, l, B)
  <2>1. t = l
    BY <1>3, <1>8 DEF Halted, Ended
  <2> QED
    BY <1>8, <2>1 DEF LPost
<1>9. CASE Passed(e, p, b, A, W, l, B) /\ ~Ends(e.info, one) /\ IsValue(l, B) /\ IsTyped(e, one, l)
  <2>1. Live(e, l, B, W) /\ l.ok = TRUE
    BY <1>9 DEF Passed, Live
  <2>2. l.res.ty = Bool
    BY <1>2, <1>9 DEF IsTyped, Is
  <2>3. ValueIn(l.insts, l.res.opd, Have(l, B)) /\ l.res.opd \in Operand
    BY <1>9, <2>1, <2>2, BoolValue
  <2>4. Task(c, e, p, l, B, W)
    BY <1>9, TaskPassed
  <2>5. PICK C : ValueDone(e, p, two, l, B, W, r, C)
    BY <1>60, <2>4
  <2>6. CASE Halted(e, p, l, B, W, r, C)
    <3>1. t = r
      BY <1>3, <2>1, <2>6 DEF Halted, Ended
    <3>2. Halted(e, p, b, A, W, r, C)
      BY <1>9, <2>6, PassedJoin
    <3> QED
      BY <3>1, <3>2 DEF LPost
  <2>7. CASE Passed(e, p, l, B, W, r, C) /\ ~Ends(e.info, two) /\ IsValue(r, C) /\ IsTyped(e, two, r)
    <3>1. Live(e, r, C, W) /\ r.ok = TRUE
      BY <2>7 DEF Passed, Live
    <3>2. t = Value(x, Bool, LastInst(x))
      BY <1>3, <2>1, <3>1
    <3>3. r.res.ty = Bool /\ ~Ends(e.info, p)
      BY <1>2, <1>9, <2>7 DEF IsTyped, Is
    <3>4. ValueIn(r.insts, r.res.opd, Have(r, C)) /\ r.res.opd \in Operand
      BY <2>7, <3>1, <3>3, BoolValue
    <3>5. ValueIn(r.insts, l.res.opd, Have(r, C))
      BY <2>3, <2>7, ValuePassed
    <3>6. Passed(e, p, b, A, W, r, C)
      BY <1>9, <2>7, PassedJoin
    <3>7. e.body[p].op # "x"
      OBVIOUS
    <3> QED
      BY <1>2, <1>6, <2>3, <3>2, <3>3, <3>4, <3>5, <3>6, <3>7, BinaryEnds
  <2> QED
    BY <2>5, <2>6, <2>7 DEF ValueDone
<1> QED
  BY <1>7, <1>8, <1>9 DEF ValueDone

\* A result is there: a value or a place.
HasResult(b, A) == IsValue(b, A) \/ IsPlace(b, A)

\* A result known before a step, as the result after it.
LEMMA ResultAgain ==
    ASSUME NEW e, NEW i, NEW b, NEW A, NEW W, Live(e, b, A, W), NEW t, NEW B, Passed(e, i, b, A, W, t, B), HasResult(b, A),
           NEW res, res = b.res, NEW u, u = [t EXCEPT !.res = res]
    PROVE  Passed(e, i, b, A, W, u, B) /\ HasResult(u, B) /\ u.res = b.res
<1>1. Live(e, t, B, W) /\ b \in Lowerers(e.body)
  BY LiveFields, Zenon DEF Passed
<1>2. res \in LoweredExpr
  BY <1>1, LowererFields
<1>3. /\ ValueIn(b.insts, res.opd, Have(b, A)) => ValueIn(t.insts, res.opd, Have(t, B))
      /\ SlotIn(b.insts, res.opd, Have(b, A)) => SlotIn(t.insts, res.opd, Have(t, B))
  BY ValuePassed
<1>4. (res.kind = "value" /\ ((res.ty = Unit /\ res.opd = Void) \/ (res.ty = Bool /\ ValueIn(b.insts, res.opd, Have(b, A)))))
      \/ (res.kind = "place" /\ res.ty = Bool /\ SlotIn(b.insts, res.opd, Have(b, A)))
  BY DEF HasResult, IsValue, IsPlace
<1>6. Stepped(e, t, B, W, u) /\ u.res = res /\ Have(u, B) = Have(t, B) /\ u.insts = t.insts
  BY <1>1, <1>2, ResultStepped
<1>7. HasResult(u, B)
  BY <1>3, <1>4, <1>6 DEF HasResult, IsValue, IsPlace
<1>8. Passed(e, i, t, B, W, u, B)
  BY <1>1, <1>6, SteppedPassed
<1>9. Passed(e, i, b, A, W, u, B)
  BY <1>8, PassedJoin
<1> QED
  BY <1>6, <1>7, <1>9

\* as_value, later on.
LEMMA AsValuePassed ==
    ASSUME NEW e, NEW i, NEW b, NEW A, NEW W, NEW u, NEW B, Passed(e, i, b, A, W, u, B), HasResult(u, B), NEW v, v = AsValue(u)
    PROVE  Passed(e, i, b, A, W, v, B) /\ ValueOfResult(u, B, v) /\ Passed(e, i, u, B, W, v, B)
<1>1. Live(e, u, B, W)
  BY DEF Passed
<1>2. Stepped(e, u, B, W, v) /\ ValueOfResult(u, B, v)
  BY <1>1, AsValueStepped DEF HasResult
<1>3. Passed(e, i, u, B, W, v, B)
  BY <1>1, <1>2, SteppedPassed
<1> QED
  BY <1>2, <1>3, PassedJoin

\* An assertion that holds does nothing.
LEMMA RequireHolds ==
    ASSUME NEW e, NEW b, NEW A, NEW P, Held(e, b, A, P), NEW h, h = TRUE
    PROVE  Require(b, h) = b
<1>1. b.fault = FALSE /\ b \in Lowerers(e.body)
  BY HeldFields, Zenon
<1>2. (b.fault \/ ~h) = FALSE
  BY <1>1
<1> QED
  BY <1>1, <1>2 DEF Require, Lowerers

\* a == b
LEMMA EqualityLowered ==
    ASSUME NEW c, NEW e, NEW p, NEW b, NEW A, NEW W, Task(c, e, p, b, A, W), e.body[p].op = "eq",
           NEW t, t = LowerEquality(c, p, b)
    PROVE  \E B : LPost(e, p, b, A, W, t, B)
<1> DEFINE one == e.body[p].sub[1]
           two == e.body[p].sub[2]
           l == LowerSub(c, one, b)
           r == LowerSub(c, two, l)
           again == [r EXCEPT !.res = l.res]
           lv == AsValue(again)
           back == [lv EXCEPT !.res = r.res]
           rv == AsValue(back)
           x == Emit(rv, "icmp", lv.res.opd, rv.res.opd)
           v == Value(x, Bool, LastInst(x))
           isBool == l.res.ty = Bool
<1>1. Rule(e.body, e.result, e.info, p) /\ Live(e, b, A, W) /\ c.info = e.info /\ c.body = e.body /\ IsBody(e.body) /\ p \in DOMAIN e.body
  BY TaskRules
<1>2. e.info[p].ty = Bool /\ (Ends(e.info, p) => Ends(e.info, one) \/ Ends(e.info, two))
  BY <1>1 DEF Rule, OperatorRule
<1>20. 1 \in 1 .. Len(e.body[p].sub) /\ 2 \in 1 .. Len(e.body[p].sub) /\ Len(e.body[p].sub) = 2
  BY <1>1, OpArity, SMTT(60)
<1>21. /\ ~Ends(e.info, one) => e.info[one].ty # Unit
       /\ ~Ends(e.info, two) => e.info[two].ty # Unit
  <2>1. e.info[one].val # Unit /\ e.info[two].val # Unit
    BY <1>1 DEF Task, Env
  <2>2. one \in DOMAIN e.body /\ two \in DOMAIN e.body
    BY <1>1, <1>20, ChildrenBetween, SMTT(60)
  <2>3. Settled(e.info, one) /\ Settled(e.info, two)
    BY <2>2 DEF Task, Env, WellTyped
  <2> QED
    BY <2>1, <2>3, SMTT(60) DEF Settled, Coerces, Unit, Never
<1>3. t = IF l.ok THEN IF r.ok THEN Require(v, isBool) ELSE r ELSE l
  BY <1>1, <1>2, ZenonT(60) DEF LowerEquality, Then, Child
<1>4. Lowers(c, e, p, 1, b, l) /\ Lowers(c, e, p, 2, l, r)
  BY <1>1, <1>20 DEF Lowers, Plain, IsLoop
<1>5. \E B : SubDone(e, p, one, b, A, W, l, B)
  BY <1>4, SubLowered
<1>6. /\ x = Emit(rv, "icmp", lv.res.opd, rv.res.opd) /\ v = Value(x, Bool, LastInst(x))
      /\ again = [r EXCEPT !.res = l.res] /\ lv = AsValue(again) /\ back = [lv EXCEPT !.res = r.res] /\ rv = AsValue(back)
  OBVIOUS
<1>60. \A B : Task(c, e, p, l, B, W) => \E C : SubDone(e, p, two, l, B, W, r, C)
  BY <1>4, SubLowered
<1>61. isBool = (l.res.ty = Bool)
  OBVIOUS
<1> HIDE DEF one, two, l, r, x, v, again, back, lv, rv, isBool
<1>7. PICK B : SubDone(e, p, one, b, A, W, l, B)
  BY <1>5
<1>8. CASE Halted(e, p, b, A, W, l, B)
  <2>1. t = l
    BY <1>3, <1>8 DEF Halted, Ended
  <2> QED
    BY <1>8, <2>1 DEF LPost
<1>9. CASE Passed(e, p, b, A, W, l, B) /\ Yields(e, one, l, B)
  <2>1. Live(e, l, B, W) /\ l.ok = TRUE
    BY <1>9 DEF Passed, Live
  <2>2. HasResult(l, B) /\ l.res.ty = e.info[one].ty /\ ~Ends(e.info, one)
    BY <1>9 DEF Yields, HasResult
  <2>3. l.res.ty = Bool
    BY <1>21, <2>2 DEF HasResult, IsValue, IsPlace
  <2>4. Task(c, e, p, l, B, W)
    BY <1>9, TaskPassed
  <2>5. PICK C : SubDone(e, p, two, l, B, W, r, C)
    BY <1>60, <2>4
  <2>6. CASE Halted(e, p, l, B, W, r, C)
    <3>1. t = r
      BY <1>3, <2>1, <2>6 DEF Halted, Ended
    <3>2. Halted(e, p, b, A, W, r, C)
      BY <1>9, <2>6, PassedJoin, SMTT(60)
    <3> QED
      BY <3>1, <3>2 DEF LPost
  <2>7. CASE Passed(e, p, l, B, W, r, C) /\ Yields(e, two, r, C)
    <3>1. Live(e, r, C, W) /\ r.ok = TRUE
      BY <2>7 DEF Passed, Live
    <3>2. t = Require(v, isBool)
      BY <1>3, <2>1, <3>1
    <3>3. HasResult(r, C) /\ r.res.ty = e.info[two].ty /\ ~Ends(e.info, two)
      BY <2>7 DEF Yields, HasResult
    <3>4. r.res.ty = Bool
      BY <1>21, <3>3 DEF HasResult, IsValue, IsPlace
    <3>5. Passed(e, p, l, B, W, again, C) /\ HasResult(again, C) /\ again.res = l.res
      BY <1>6, <2>1, <2>2, <2>7, ResultAgain
    <3>6. Passed(e, p, r, C, W, again, C)
      <4>1. Stepped(e, r, C, W, again)
        <5> DEFINE res == l.res
        <5>1. res \in LoweredExpr
          BY <2>1, LiveFields, LowererFields, Zenon
        <5>2. again = [r EXCEPT !.res = res]
          BY <1>6
        <5> HIDE DEF res
        <5> QED
          BY <3>1, <5>1, <5>2, ResultStepped
      <4> QED
        BY <3>1, <4>1, SteppedPassed
    <3>7. Passed(e, p, r, C, W, lv, C) /\ ValueOfResult(again, C, lv)
      BY <1>6, <3>5, <3>6, AsValuePassed
    <3>8. Passed(e, p, r, C, W, back, C) /\ HasResult(back, C) /\ back.res = r.res
      BY <1>6, <3>1, <3>3, <3>7, ResultAgain
    <3>9. Passed(e, p, r, C, W, rv, C) /\ ValueOfResult(back, C, rv) /\ Passed(e, p, back, C, W, rv, C)
      BY <1>6, <3>8, AsValuePassed
    <3>10. Live(e, lv, C, W) /\ IsValue(lv, C) /\ lv.res.ty = Bool
      BY <2>3, <3>5, <3>7 DEF Passed, ValueOfResult
    <3>11. ValueIn(lv.insts, lv.res.opd, Have(lv, C)) /\ lv.res.opd \in Operand
      BY <3>10, BoolValue
    <3>12. Passed(e, p, lv, C, W, back, C)
      <4>1. Stepped(e, lv, C, W, back)
        <5> DEFINE res == r.res
        <5>1. res \in LoweredExpr
          BY <3>1, LiveFields, LowererFields, Zenon
        <5>2. back = [lv EXCEPT !.res = res]
          BY <1>6
        <5> HIDE DEF res
        <5> QED
          BY <3>10, <5>1, <5>2, ResultStepped
      <4> QED
        BY <3>10, <4>1, SteppedPassed
    <3>13. Passed(e, p, lv, C, W, rv, C)
      BY <3>9, <3>12, PassedJoin
    <3>14. ValueIn(rv.insts, lv.res.opd, Have(rv, C))
      BY <3>11, <3>13, ValuePassed
    <3>15. Live(e, rv, C, W) /\ IsValue(rv, C) /\ rv.res.ty = Bool
      BY <3>4, <3>8, <3>9 DEF Passed, ValueOfResult
    <3>16. ValueIn(rv.insts, rv.res.opd, Have(rv, C)) /\ rv.res.opd \in Operand
      BY <3>15, BoolValue
    <3>17. Passed(e, p, b, A, W, rv, C)
      <4>1. Passed(e, p, l, B, W, rv, C)
        BY <2>7, <3>9, PassedJoin
      <4> QED
        BY <1>9, <4>1, PassedJoin
    <3>18. ~Ends(e.info, p) /\ e.body[p].op # "x"
      BY <1>2, <2>2, <3>3
    <3>19. t = v
      <4>1. Fits(rv, C, "icmp", lv.res.opd, rv.res.opd)
        BY <3>11, <3>14, <3>16, FitsTwo
      <4>2. Stepped(e, rv, C, W, v)
        BY <1>6, <3>15, <4>1, EmitValue
      <4>3. \E P : Held(e, v, C, P)
        BY <4>2 DEF Stepped, Live
      <4> QED
        BY <1>61, <2>3, <3>2, <4>3, RequireHolds, Zenon
    <3> QED
      BY <1>2, <1>6, <3>11, <3>14, <3>16, <3>17, <3>18, <3>19, BinaryEnds
  <2> QED
    BY <2>5, <2>6, <2>7 DEF SubDone
<1> QED
  BY <1>7, <1>8, <1>9 DEF SubDone

\* x = a
LEMMA AssignLowered ==
    ASSUME NEW c, NEW e, NEW p, NEW b, NEW A, NEW W, Task(c, e, p, b, A, W), e.body[p].op = "set",
           NEW t, t = LowerAssign(c, p, b)
    PROVE  \E B : LPost(e, p, b, A, W, t, B)
<1> DEFINE one == e.body[p].sub[1]
           two == e.body[p].sub[2]
           r == LowerValue(c, two, b)
           l == LowerSub(c, one, r)
           x == Emit(l, "store", r.res.opd, l.res.opd)
<1>1. Rule(e.body, e.result, e.info, p) /\ Live(e, b, A, W) /\ c.info = e.info /\ c.body = e.body /\ IsBody(e.body) /\ p \in DOMAIN e.body
  BY TaskRules
<1>2. /\ e.info[p].ty = Unit /\ (Ends(e.info, p) => Ends(e.info, one) \/ Ends(e.info, two))
      /\ ~Ends(e.info, one) => Is(e.info, two, e.info[one].ty)
  BY <1>1 DEF Rule, OperatorRule
<1>20. 1 \in 1 .. Len(e.body[p].sub) /\ 2 \in 1 .. Len(e.body[p].sub) /\ Len(e.body[p].sub) = 2
  BY <1>1, OpArity
<1>21. e.body[one].op = "x"
  <2>1. e.body[one].op \in Allowed("set", 1)
    BY <1>1, <1>20 DEF IsBody, Numbered
  <2> QED
    BY <2>1 DEF Allowed
<1>3. t = IF r.ok THEN IF l.ok THEN Value(x, Unit, Void) ELSE l ELSE r
  BY <1>1, <1>2 DEF LowerAssign, Then, Child
<1>4. Values(c, e, p, 2, b, r) /\ Lowers(c, e, p, 1, r, l)
  BY <1>1, <1>20 DEF Lowers, Values, Plain, IsLoop
<1>5. \E B : ValueDone(e, p, two, b, A, W, r, B)
  BY <1>4, ValueLowered
<1>6. x = Emit(l, "store", r.res.opd, l.res.opd)
  OBVIOUS
<1>60. \A B : Task(c, e, p, r, B, W) => \E C : SubDone(e, p, one, r, B, W, l, C)
  BY <1>4, SubLowered
<1> HIDE DEF one, two, l, r, x
<1>7. PICK B : ValueDone(e, p, two, b, A, W, r, B)
  BY <1>5
<1>8. CASE Halted(e, p, b, A, W, r, B)
  <2>1. t = r
    BY <1>3, <1>8 DEF Halted, Ended
  <2> QED
    BY <1>8, <2>1 DEF LPost
<1>9. CASE Passed(e, p, b, A, W, r, B) /\ ~Ends(e.info, two) /\ IsValue(r, B) /\ IsTyped(e, two, r)
  <2>1. Live(e, r, B, W) /\ r.ok = TRUE
    BY <1>9 DEF Passed, Live
  <2>4. Task(c, e, p, r, B, W)
    BY <1>9, TaskPassed
  <2>5. PICK C : SubDone(e, p, one, r, B, W, l, C)
    BY <1>60, <2>4
  <2>6. CASE Halted(e, p, r, B, W, l, C)
    <3>1. t = l
      BY <1>3, <2>1, <2>6 DEF Halted, Ended
    <3>2. Halted(e, p, b, A, W, l, C)
      BY <1>9, <2>6, PassedJoin
    <3> QED
      BY <3>1, <3>2 DEF LPost
  <2>7. CASE Passed(e, p, r, B, W, l, C) /\ Yields(e, one, l, C)
    <3>1. Live(e, l, C, W) /\ l.ok = TRUE
      BY <2>7 DEF Passed, Live
    <3>2. t = Value(x, Unit, Void)
      BY <1>3, <2>1, <3>1
    <3>3. IsPlace(l, C) /\ l.res.ty = e.info[one].ty /\ ~Ends(e.info, one)
      BY <1>21, <2>7 DEF Yields
    <3>4. r.res.ty = Bool
      BY <1>2, <1>9, <3>3 DEF IsPlace, Is, IsTyped
    <3>5. ValueIn(r.insts, r.res.opd, Have(r, B)) /\ r.res.opd \in Operand
      BY <1>9, <2>1, <3>4, BoolValue
    <3>6. ValueIn(l.insts, r.res.opd, Have(l, C))
      BY <2>7, <3>5, ValuePassed
    <3>7. IsSlot(l.insts, l.res.opd) /\ l.res.opd \in Operand
      BY <3>1, <3>3, LiveFields, LowererFields, Zenon DEF IsPlace, SlotIn
    <3>8. Stepped(e, l, C, W, x)
      BY <1>6, <3>1, <3>5, <3>6, <3>7, StoreStepped
    <3>9. Live(e, x, C, W) /\ Unit \in Types /\ Void \in Operand
      BY <3>8 DEF Stepped, Types, Void, Operand
    <3>10. Stepped(e, x, C, W, t) /\ IsValue(t, C) /\ t.res.ty = Unit
      BY <3>2, <3>9, ValueResult
    <3>11. Passed(e, p, l, C, W, t, C)
      BY <3>1, <3>8, <3>10, SteppedJoin, SteppedPassed
    <3>12. Passed(e, p, b, A, W, t, C)
      <4>1. Passed(e, p, r, B, W, t, C)
        BY <2>7, <3>11, PassedJoin
      <4> QED
        BY <1>9, <4>1, PassedJoin
    <3>13. ~Ends(e.info, p) /\ e.body[p].op # "x"
      BY <1>2, <1>9, <3>3
    <3> QED
      BY <1>2, <3>10, <3>12, <3>13, ValueEnds DEF IsTyped
  <2> QED
    BY <2>5, <2>6, <2>7 DEF SubDone
<1> QED
  BY <1>7, <1>8, <1>9 DEF ValueDone

\* The node is a block.
IsBlock(e, p) == e.body[p].op \in BlockOps

\* A child in a context of its own.
LEMMA ChildLowered ==
    ASSUME NEW c, NEW e, NEW p, NEW b, NEW A, NEW W, Task(c, e, p, b, A, W), NEW k, k \in 1 .. Len(e.body[p].sub),
           NEW a, NEW B, Live(e, a, B, W), Ctx(e, e.body[p].sub[k], a, B), NEW t, t = LowerSub(c, e.body[p].sub[k], a)
    PROVE  \E C : SubDone(e, p, e.body[p].sub[k], a, B, W, t, C)
<1> DEFINE j == e.body[p].sub[k]
<1>1. Env(e) /\ p \in DOMAIN e.body /\ IsBody(e.body) /\ LGood(c, e, p)
  BY DEF Task, Env
<1>2. t = LowerSub(c, j, a) /\ Ctx(e, j, a, B)
  OBVIOUS
<1>4. j \in DOMAIN e.body /\ p < j /\ j <= e.body[p].last
  <2>1. /\ j \in DOMAIN e.body /\ p < j /\ j <= e.body[j].last /\ e.body[j].last <= e.body[p].last /\ p \in Nat
        /\ j \in Nat /\ e.body[j].last \in Nat /\ e.body[p].last \in Nat
    BY <1>1, ChildrenBetween
  <2> QED
    BY <2>1, SMTT(60)
<1> HIDE DEF j
<1>5. PICK C : LPost(e, j, a, B, W, t, C)
  BY <1>1, <1>2, <1>4 DEF LGood
<1>6. Since(e, j, a, B, t, C)
  BY <1>5 DEF LPost, Passed, Halted
<1>7. Since(e, p, a, B, t, C)
  BY <1>1, <1>4, <1>6, SinceChild
<1>8. SubDone(e, p, j, a, B, W, t, C)
  BY <1>5, <1>7 DEF LPost, Passed, Halted, SubDone
<1> QED
  BY <1>8, SMTT(60) DEF j

\* as_value of what lowering a child leaves.
LEMMA ValueOfSub ==
    ASSUME NEW e, NEW p, NEW j, NEW b, NEW A, NEW W, NEW s, NEW B, SubDone(e, p, j, b, A, W, s, B),
           NEW t, t = IF s.ok THEN AsValue(s) ELSE s
    PROVE  ValueDone(e, p, j, b, A, W, t, B)
<1>5. CASE Halted(e, p, b, A, W, s, B)
  <2>1. t = s
    BY <1>5 DEF Halted, Ended
  <2> QED
    BY <1>5, <2>1 DEF ValueDone
<1>6. CASE Passed(e, p, b, A, W, s, B) /\ Yields(e, j, s, B)
  <2>1. s.ok = TRUE
    BY <1>6 DEF Passed, Live
  <2>2. t = AsValue(s)
    BY <2>1
  <2>3. HasResult(s, B) /\ ~Ends(e.info, j) /\ s.res.ty = e.info[j].ty
    BY <1>6 DEF Yields, HasResult
  <2>4. Passed(e, p, b, A, W, t, B) /\ ValueOfResult(s, B, t)
    BY <1>6, <2>2, <2>3, AsValuePassed, Zenon
  <2> QED
    BY <2>3, <2>4 DEF ValueDone, ValueOfResult, IsTyped
<1> QED
  BY <1>5, <1>6 DEF SubDone

\* A block ends in the value of its tail.
LEMMA TailEnds ==
    ASSUME NEW e, NEW p, NEW j, NEW b, NEW A, NEW W, NEW t, NEW B, ValueDone(e, p, j, b, A, W, t, B),
           IsBlock(e, p), Is(e.info, j, e.info[p].ty), Ends(e.info, p) => Ends(e.info, j)
    PROVE  LPost(e, p, b, A, W, t, B)
<1>1. e.body[p].op # "x"
  BY DEF IsBlock, BlockOps
<1> QED
  BY <1>1 DEF ValueDone, LPost, Yields, Is, IsTyped

\* A node ends in ().
LEMMA UnitEnds ==
    ASSUME NEW e, NEW p, NEW b, NEW A, NEW W, NEW a, NEW B, Passed(e, p, b, A, W, a, B),
           NEW t, t = Value(a, Unit, Void), e.info[p].ty = Unit, ~Ends(e.info, p), e.body[p].op # "x"
    PROVE  LPost(e, p, b, A, W, t, B)
<1>1. Live(e, a, B, W) /\ Unit \in Types /\ Void \in Operand
  BY DEF Passed, Types, Void, Operand
<1>2. Stepped(e, a, B, W, t) /\ IsValue(t, B) /\ t.res.ty = Unit
  BY <1>1, ValueResult
<1>3. Passed(e, p, a, B, W, t, B)
  BY <1>1, <1>2, SteppedPassed
<1>4. Passed(e, p, b, A, W, t, B)
  BY <1>3, PassedJoin
<1> QED
  BY <1>2, <1>4 DEF LPost, Yields

\* The context of what follows a let.
LEMMA CtxLet ==
    ASSUME NEW e, IsBody(e.body), NEW p \in DOMAIN e.body, e.body[p].op = "let", NEW b, NEW A, Ctx(e, p, b, A),
           LocalGood(e, b, A, LetId(p))
    PROVE  Ctx(e, e.body[p].sub[2], b, A)
<1> DEFINE f == e.body
           j == f[p].sub[2]
<1>1. 2 \in 1 .. Len(f[p].sub) /\ Len(f[p].sub) = 2
  BY OpArity
<1>2. \A q \in DOMAIN f : Inside(f, q, j) <=> Inside(f, q, p) \/ (q = p /\ 2 = Len(f[p].sub))
  BY <1>1, InsideChild, Zenon
<1>3. \A l : Visible(f, j, l) => Visible(f, p, l) \/ l = LetId(p)
  BY <1>1, VisibleChild
<1> HIDE DEF j
<1>4. \A q \in DOMAIN f : IsLoop(f, q) => (Inside(f, q, j) <=> Inside(f, q, p))
  BY <1>2 DEF IsLoop
<1>5. \A q \in DOMAIN b.loops : b.loops[q].open = TRUE <=> q \in DOMAIN f /\ IsLoop(f, q) /\ Inside(f, q, j)
  BY <1>4 DEF Ctx
<1>6. Ctx(e, j, b, A)
  BY <1>3, <1>5 DEF Ctx
<1> QED
  BY <1>6 DEF j

\* What a let leaves.
LetDone(e, p, b, A, W, t) == Passed(e, p, b, A, W, t, A) /\ LocalGood(e, t, A, LetId(p))

\* let mut x = a;
LEMMA LetLowered ==
    ASSUME NEW c, NEW e, NEW p, p \in DOMAIN e.body, IsBody(e.body), c.info = e.info, NEW b, NEW A, NEW W, Live(e, b, A, W), HasResult(b, A),
           b.res.ty = Bool, e.info[LetId(p)].ty = Bool, NEW t, t = LowerLet(c, p, b)
    PROVE  LetDone(e, p, b, A, W, t)
<1> DEFINE l == LetId(p)
           slot == AllocaInEntry(b)
           id == LastInst(slot)
           stored == StoreResult(slot, id)
           bound == [kind |-> "place", ty |-> Bool, opd |-> id]
           locals == [stored.locals EXCEPT ![l] = bound]
           u == [stored EXCEPT !.locals = locals]
           same == b.res.ty = Bool
<1>1. t = Require(u, same)
  BY DEF LowerLet
<1>2. same = TRUE
  OBVIOUS
<1>3. l \in Ids(e.body) /\ Home(l) = p /\ p \in Nat
  BY IdFacts
<1>4. Stepped(e, b, A, W, slot) /\ SlotAs(b, A, slot)
  BY AllocaStepped
<1>5. stored = StoreResult(slot, id) /\ u = [stored EXCEPT !.locals = locals] /\ bound = [kind |-> "place", ty |-> Bool, opd |-> id]
      /\ locals = [stored.locals EXCEPT ![l] = bound] /\ id = LastInst(slot)
  OBVIOUS
<1> HIDE DEF slot, id, stored, bound, locals, u, same, l
<1>6. IsSlot(slot.insts, id) /\ id \in Operand /\ slot.res = b.res /\ Live(e, slot, A, W)
  <2>1. Live(e, slot, A, W) /\ slot \in Lowerers(e.body)
    BY <1>4, LiveFields, Zenon DEF Stepped
  <2> QED
    BY <1>4, <1>5, <2>1, LowererFields DEF SlotAs, Rest, IsSlot, LastInst, Inst, Operand
<1>7. Passed(e, p, b, A, W, slot, A)
  BY <1>4, SteppedPassed
<1>8. HasResult(slot, A)
  <2>1. /\ ValueIn(b.insts, b.res.opd, Have(b, A)) => ValueIn(slot.insts, b.res.opd, Have(slot, A))
        /\ SlotIn(b.insts, b.res.opd, Have(b, A)) => SlotIn(slot.insts, b.res.opd, Have(slot, A))
    BY <1>7, ValuePassed
  <2> QED
    BY <1>6, <2>1 DEF HasResult, IsValue, IsPlace
<1>9. Stepped(e, slot, A, W, stored) /\ id.v \in Have(stored, A)
  BY <1>5, <1>6, <1>8, StoreResultStepped DEF HasResult
<1>10. Live(e, stored, A, W) /\ stored \in Lowerers(e.body) /\ IsSlot(stored.insts, id)
  <2>1. Live(e, stored, A, W) /\ Ext(slot.insts, stored.insts)
    BY <1>9 DEF Stepped, Quiet
  <2> QED
    BY <1>6, <2>1, LiveFields, ValueStays, Zenon
<1>11. bound \in LoweredExpr /\ bound.kind = "place" /\ bound.ty = Bool /\ bound.opd = id
  BY <1>5, <1>6 DEF LoweredExpr, Types
<1>12. locals \in [Ids(e.body) -> LoweredExpr] /\ locals[l] = bound /\ \A m \in Ids(e.body) : m # l => locals[m] = stored.locals[m]
  BY <1>3, <1>5, <1>10, <1>11, LowererFields
<1>13. /\ u \in Lowerers(e.body) /\ SameCode(stored, u) /\ u.cur = stored.cur /\ u.ok = stored.ok /\ u.locals = locals
  BY <1>5, <1>10, <1>12, ZenonT(60) DEF Lowerers, SameCode
<1>14. Live(e, u, A, W) /\ Have(u, A) = Have(stored, A)
  <2>1. Held(e, stored, A, W \cup {stored.cur})
    BY <1>10 DEF Live
  <2>2. Held(e, u, A, W \cup {stored.cur})
    BY <1>13, <2>1, HeldAlike
  <2> QED
    BY <1>10, <1>13, <2>2 DEF Live, Have, SameCode
<1>15. Since(e, p, stored, A, u, A)
  <2>1. Ext(stored.insts, u.insts)
    BY <1>10, <1>13, LowererFields DEF Ext, SameCode
  <2>2. SameLocals(e.body, p, stored, u)
    BY <1>3, <1>12, <1>13 DEF SameLocals
  <2> QED
    BY <1>13, <2>1, <2>2 DEF Since, Wider, SameLoops, SameCode
<1>16. Passed(e, p, stored, A, W, u, A)
  BY <1>14, <1>15 DEF Passed
<1>17. Passed(e, p, slot, A, W, stored, A)
  BY <1>6, <1>9, SteppedPassed
<1>18. Passed(e, p, b, A, W, u, A)
  <2>1. Passed(e, p, b, A, W, stored, A)
    BY <1>7, <1>17, PassedJoin
  <2> QED
    BY <1>16, <2>1, PassedJoin
<1>19. LocalGood(e, u, A, l)
  <2>1. SlotIn(u.insts, id, Have(u, A))
    BY <1>9, <1>10, <1>13, <1>14 DEF SlotIn, SameCode
  <2>2. e.info[l].ty = Bool
    BY DEF l
  <2> QED
    BY <1>11, <1>12, <1>13, <2>1, <2>2 DEF LocalGood
<1>20. t = u
  <2>1. \E P : Held(e, u, A, P)
    BY <1>14 DEF Live
  <2> QED
    BY <1>1, <1>2, <2>1, RequireHolds, Zenon
<1> QED
  BY <1>18, <1>19, <1>20 DEF LetDone, l

\* A second value after a first step.
LEMMA ValueJoin ==
    ASSUME NEW e, NEW p, NEW j, NEW b, NEW A, NEW W, NEW a, NEW B, Passed(e, p, b, A, W, a, B),
           NEW t, NEW C, ValueDone(e, p, j, a, B, W, t, C)
    PROVE  ValueDone(e, p, j, b, A, W, t, C)
BY PassedJoin DEF ValueDone

\* {}
LEMMA EmptyLowered ==
    ASSUME NEW c, NEW e, NEW p, NEW b, NEW A, NEW W, Task(c, e, p, b, A, W), e.body[p].op = "empty",
           NEW t, t = LowerBlock(c, p, b)
    PROVE  \E B : LPost(e, p, b, A, W, t, B)
<1>1. Rule(e.body, e.result, e.info, p) /\ Live(e, b, A, W) /\ c.info = e.info /\ c.body = e.body
  BY TaskRules
<1>2. ~Ends(e.info, p) /\ Is(e.info, p, Unit) /\ e.body[p].op # "x"
  BY <1>1 DEF Rule, BlockRule
<1>3. e.info[p].ty = Unit /\ b.ok = TRUE
  BY <1>1, <1>2 DEF Is, Live
<1>4. t = Value(b, Unit, Void)
  BY <1>1, <1>3 DEF LowerBlock, LowerStmt, Then, TailOps
<1>5. Passed(e, p, b, A, W, b, A)
  BY <1>1, PassedSelf
<1>6. LPost(e, p, b, A, W, t, A)
  BY <1>2, <1>3, <1>4, <1>5, UnitEnds
<1> QED
  BY <1>6

\* {a}
LEMMA TailLowered ==
    ASSUME NEW c, NEW e, NEW p, NEW b, NEW A, NEW W, Task(c, e, p, b, A, W), e.body[p].op = "tail",
           NEW t, t = LowerBlock(c, p, b)
    PROVE  \E B : LPost(e, p, b, A, W, t, B)
<1> DEFINE one == e.body[p].sub[1]
<1>1. Rule(e.body, e.result, e.info, p) /\ Live(e, b, A, W) /\ c.info = e.info /\ c.body = e.body /\ IsBody(e.body) /\ p \in DOMAIN e.body
  BY TaskRules
<1>2. (Ends(e.info, p) => Ends(e.info, one)) /\ Is(e.info, one, e.info[p].ty)
  BY <1>1 DEF Rule, BlockRule
<1>3. 1 \in 1 .. Len(e.body[p].sub) /\ Len(e.body[p].sub) = 1 /\ IsBlock(e, p)
  BY <1>1, OpArity DEF IsBlock, BlockOps
<1>30. Last(e.body[p].sub) = one /\ b.ok = TRUE
  BY <1>1, <1>3, OneChild DEF Live
<1>4. t = LowerValue(c, one, b)
  BY <1>1, <1>30 DEF LowerBlock, LowerStmt, Then, TailOps
<1>5. Values(c, e, p, 1, b, t)
  BY <1>3, <1>4 DEF Values, Plain, IsLoop
<1>6. \E B : ValueDone(e, p, one, b, A, W, t, B)
  BY <1>5, ValueLowered
<1> HIDE DEF one
<1> QED
  BY <1>2, <1>3, <1>6, TailEnds

\* {a;}
LEMMA SemiLowered ==
    ASSUME NEW c, NEW e, NEW p, NEW b, NEW A, NEW W, Task(c, e, p, b, A, W), e.body[p].op = "semi",
           NEW t, t = LowerBlock(c, p, b)
    PROVE  \E B : LPost(e, p, b, A, W, t, B)
<1> DEFINE one == e.body[p].sub[1]
           a == LowerSub(c, one, b)
<1>1. Rule(e.body, e.result, e.info, p) /\ Live(e, b, A, W) /\ c.info = e.info /\ c.body = e.body /\ IsBody(e.body) /\ p \in DOMAIN e.body
  BY TaskRules
<1>2. (Ends(e.info, p) => Ends(e.info, one)) /\ Is(e.info, p, Unit)
  BY <1>1 DEF Rule, BlockRule
<1>3. 1 \in 1 .. Len(e.body[p].sub) /\ Len(e.body[p].sub) = 1 /\ b.ok = TRUE
  BY <1>1, OpArity, SMTT(60) DEF Live
<1>4. t = IF a.ok THEN Value(a, Unit, Void) ELSE a
  BY <1>1, <1>3 DEF LowerBlock, LowerStmt, Then, TailOps, Child
<1>5. Lowers(c, e, p, 1, b, a)
  BY <1>3 DEF Lowers, Plain, IsLoop
<1>6. \E B : SubDone(e, p, one, b, A, W, a, B)
  BY <1>5, SubLowered
<1> HIDE DEF one, a
<1>7. PICK B : SubDone(e, p, one, b, A, W, a, B)
  BY <1>6
<1>8. CASE Halted(e, p, b, A, W, a, B)
  BY <1>4, <1>8 DEF LPost, Halted, Ended
<1>9. CASE Passed(e, p, b, A, W, a, B) /\ Yields(e, one, a, B)
  <2>1. a.ok = TRUE
    BY <1>9 DEF Passed, Live
  <2>2. t = Value(a, Unit, Void)
    BY <1>4, <2>1
  <2>3. ~Ends(e.info, p) /\ e.info[p].ty = Unit /\ e.body[p].op # "x"
    BY <1>2, <1>9 DEF Yields, Is
  <2>4. LPost(e, p, b, A, W, t, B)
    BY <1>9, <2>2, <2>3, UnitEnds
  <2> QED
    BY <2>4
<1> QED
  BY <1>7, <1>8, <1>9 DEF SubDone

\* {a; b} and {a b}
LEMMA SeqLowered ==
    ASSUME NEW c, NEW e, NEW p, NEW b, NEW A, NEW W, Task(c, e, p, b, A, W), e.body[p].op \in {"seq", "run"},
           NEW t, t = LowerBlock(c, p, b)
    PROVE  \E B : LPost(e, p, b, A, W, t, B)
<1> DEFINE one == e.body[p].sub[1]
           two == e.body[p].sub[2]
           a == LowerSub(c, one, b)
           v == LowerValue(c, two, a)
<1>1. Rule(e.body, e.result, e.info, p) /\ Live(e, b, A, W) /\ c.info = e.info /\ c.body = e.body /\ IsBody(e.body) /\ p \in DOMAIN e.body
  BY TaskRules
<1>2. (Ends(e.info, p) => Ends(e.info, one) \/ Ends(e.info, two)) /\ Is(e.info, two, e.info[p].ty)
  BY <1>1 DEF Rule, BlockRule
<1>3. 1 \in 1 .. Len(e.body[p].sub) /\ 2 \in 1 .. Len(e.body[p].sub) /\ Len(e.body[p].sub) = 2 /\ b.ok = TRUE /\ IsBlock(e, p)
  BY <1>1, OpArity DEF Live, IsBlock, BlockOps
<1>30. Last(e.body[p].sub) = two
  BY <1>1, <1>3, TwoChildren, SMTT(60)
<1>4. t = IF a.ok THEN v ELSE a
  BY <1>1, <1>3, <1>30 DEF LowerBlock, LowerStmt, Then, TailOps, Child
<1>5. Lowers(c, e, p, 1, b, a) /\ Values(c, e, p, 2, a, v)
  BY <1>3 DEF Lowers, Values, Plain, IsLoop
<1>6. \E B : SubDone(e, p, one, b, A, W, a, B)
  BY <1>5, SubLowered
<1>60. \A B : Task(c, e, p, a, B, W) => \E C : ValueDone(e, p, two, a, B, W, v, C)
  BY <1>5, ValueLowered
<1> HIDE DEF one, two, a, v
<1>7. PICK B : SubDone(e, p, one, b, A, W, a, B)
  BY <1>6
<1>8. CASE Halted(e, p, b, A, W, a, B)
  BY <1>4, <1>8 DEF LPost, Halted, Ended
<1>9. CASE Passed(e, p, b, A, W, a, B) /\ Yields(e, one, a, B)
  <2>1. a.ok = TRUE /\ ~Ends(e.info, one)
    BY <1>9 DEF Passed, Live, Yields
  <2>2. t = v
    BY <1>4, <2>1
  <2>3. Task(c, e, p, a, B, W)
    BY <1>9, TaskPassed
  <2>4. PICK C : ValueDone(e, p, two, a, B, W, v, C)
    BY <1>60, <2>3
  <2>5. ValueDone(e, p, two, b, A, W, t, C)
    BY <1>9, <2>2, <2>4, ValueJoin
  <2>6. Ends(e.info, p) => Ends(e.info, two)
    BY <1>2, <2>1
  <2>7. LPost(e, p, b, A, W, t, C)
    BY <1>2, <1>3, <2>5, <2>6, TailEnds
  <2> QED
    BY <2>7
<1> QED
  BY <1>7, <1>8, <1>9 DEF SubDone

\* {let mut x = a; b}
LEMMA LetBlockLowered ==
    ASSUME NEW c, NEW e, NEW p, NEW b, NEW A, NEW W, Task(c, e, p, b, A, W), e.body[p].op = "let",
           NEW t, t = LowerBlock(c, p, b)
    PROVE  \E B : LPost(e, p, b, A, W, t, B)
<1> DEFINE one == e.body[p].sub[1]
           two == e.body[p].sub[2]
           a == LowerSub(c, one, b)
           x == LowerLet(c, p, a)
           s == LowerSub(c, two, x)
           v == IF s.ok THEN AsValue(s) ELSE s
<1>1. Rule(e.body, e.result, e.info, p) /\ Live(e, b, A, W) /\ c.info = e.info /\ c.body = e.body /\ IsBody(e.body) /\ p \in DOMAIN e.body
  BY TaskRules
<1>2. /\ Ends(e.info, p) => Ends(e.info, one) \/ Ends(e.info, two)
      /\ Is(e.info, two, e.info[p].ty) /\ Is(e.info, one, e.info[LetId(p)].ty)
  BY <1>1, SMTT(60) DEF Rule, BlockRule
<1>21. e.info[LetId(p)].ty # Unit
  BY <1>1 DEF Task, Env
<1>3. 1 \in 1 .. Len(e.body[p].sub) /\ 2 \in 1 .. Len(e.body[p].sub) /\ Len(e.body[p].sub) = 2 /\ b.ok = TRUE /\ IsBlock(e, p)
  BY <1>1, OpArity DEF Live, IsBlock, BlockOps
<1>30. Last(e.body[p].sub) = two
  BY <1>1, <1>3, TwoChildren, SMTT(60)
<1>4. t = IF a.ok THEN IF x.ok THEN v ELSE x ELSE a
  BY <1>1, <1>3, <1>30 DEF LowerBlock, LowerStmt, LowerValue, Then, TailOps, Child
<1>5. Lowers(c, e, p, 1, b, a)
  BY <1>3 DEF Lowers, Plain, IsLoop
<1>6. \E B : SubDone(e, p, one, b, A, W, a, B)
  BY <1>5, SubLowered
<1>60. x = LowerLet(c, p, a) /\ v = IF s.ok THEN AsValue(s) ELSE s
  OBVIOUS
<1>61. \A B : Live(e, x, B, W) /\ Ctx(e, two, x, B) => \E C : SubDone(e, p, two, x, B, W, s, C)
  <2> SUFFICES ASSUME NEW B, Live(e, x, B, W), Ctx(e, two, x, B) PROVE \E C : SubDone(e, p, two, x, B, W, s, C)
    OBVIOUS
  <2>1. s = LowerSub(c, two, x)
    OBVIOUS
  <2> HIDE DEF x, s
  <2> QED
    BY <1>3, <2>1, ChildLowered
<1> HIDE DEF one, two, a, v, x, s
<1>7. PICK B : SubDone(e, p, one, b, A, W, a, B)
  BY <1>6
<1>8. CASE Halted(e, p, b, A, W, a, B)
  BY <1>4, <1>8 DEF LPost, Halted, Ended
<1>9. CASE Passed(e, p, b, A, W, a, B) /\ Yields(e, one, a, B)
  <2>1. a.ok = TRUE /\ ~Ends(e.info, one) /\ Live(e, a, B, W)
    BY <1>9 DEF Passed, Live, Yields
  <2>2. HasResult(a, B) /\ a.res.ty = e.info[LetId(p)].ty
    BY <1>2, <1>9, <2>1 DEF Yields, HasResult, Is
  <2>3. a.res.ty = Bool /\ e.info[LetId(p)].ty = Bool
    BY <1>21, <2>2 DEF HasResult, IsValue, IsPlace
  <2>4. LetDone(e, p, a, B, W, x)
    BY <1>1, <1>60, <2>1, <2>2, <2>3, LetLowered, Zenon
  <2>5. Passed(e, p, a, B, W, x, B) /\ LocalGood(e, x, B, LetId(p))
    BY <2>4 DEF LetDone
  <2>6. Passed(e, p, b, A, W, x, B)
    BY <1>9, <2>5, PassedJoin
  <2>7. Task(c, e, p, x, B, W)
    BY <2>6, TaskPassed
  <2>8. Live(e, x, B, W) /\ Ctx(e, p, x, B) /\ x.ok = TRUE
    BY <2>7 DEF Task, Live
  <2>9. Ctx(e, two, x, B)
    BY <1>1, <2>5, <2>8, CtxLet DEF two
  <2>10. PICK C : SubDone(e, p, two, x, B, W, s, C)
    BY <1>61, <2>8, <2>9
  <2>11. ValueDone(e, p, two, x, B, W, v, C)
    BY <1>60, <2>10, ValueOfSub
  <2>12. t = v
    BY <1>4, <2>1, <2>8
  <2>13. ValueDone(e, p, two, b, A, W, t, C)
    BY <2>6, <2>11, <2>12, ValueJoin
  <2>14. Ends(e.info, p) => Ends(e.info, two)
    BY <1>2, <2>1
  <2>15. LPost(e, p, b, A, W, t, C)
    BY <1>2, <1>3, <2>13, <2>14, TailEnds
  <2> QED
    BY <2>15
<1> QED
  BY <1>7, <1>8, <1>9 DEF SubDone

\* A block, whatever it is.
LEMMA BlockLowered ==
    ASSUME NEW c, NEW e, NEW p, NEW b, NEW A, NEW W, Task(c, e, p, b, A, W), IsBlock(e, p),
           NEW t, t = LowerBlock(c, p, b)
    PROVE  \E B : LPost(e, p, b, A, W, t, B)
BY EmptyLowered, TailLowered, SemiLowered, SeqLowered, LetBlockLowered DEF IsBlock, BlockOps

\* One step after the other, with other blocks waiting.
LEMMA PassedOn ==
    ASSUME NEW e, NEW i, NEW b, NEW A, NEW t, NEW B, NEW W, Passed(e, i, b, A, W, t, B), NEW u, NEW C, NEW V, Passed(e, i, t, B, V, u, C)
    PROVE  Passed(e, i, b, A, V, u, C)
BY SinceJoin DEF Passed

\* An end after a step, with other blocks waiting.
LEMMA HaltedOn ==
    ASSUME NEW e, NEW i, NEW b, NEW A, NEW t, NEW B, NEW W, Passed(e, i, b, A, W, t, B), NEW u, NEW C, NEW V, Halted(e, i, t, B, V, u, C)
    PROVE  Halted(e, i, b, A, V, u, C)
BY SinceJoin DEF Passed, Halted

\* The handler may go on in another block.
LEMMA TaskMoved ==
    ASSUME NEW c, NEW e, NEW p, NEW b, NEW A, NEW W, Task(c, e, p, b, A, W), NEW t, NEW B, NEW V, Passed(e, p, b, A, V, t, B)
    PROVE  Task(c, e, p, t, B, V)
<1>1. Env(e) /\ p \in DOMAIN e.body /\ Live(e, b, A, W) /\ Ctx(e, p, b, A) /\ IsBody(e.body)
  BY DEF Task, Env
<1>2. Live(e, t, B, V) /\ Since(e, p, b, A, t, B) /\ Have(b, A) \subseteq Have(t, B)
  BY DEF Passed
<1>3. Held(e, b, A, W \cup {b.cur})
  BY <1>1 DEF Live
<1>4. Ctx(e, p, t, B)
  BY <1>1, <1>2, <1>3, CtxKept
<1> QED
  BY <1>2, <1>4, SMTT(60) DEF Task

\* What is new since b, whatever the node.
Grown(e, b, A, t, B) == \A i : Since(e, i, b, A, t, B)

\* Two new blocks with what is available here, and a branch to them.
Forked(e, b, A, W, t, B, n, m) ==
  /\ Held(e, t, B, (W \cup {n}) \cup {m}) /\ Grown(e, b, A, t, B) /\ t.ok = TRUE /\ t.insts = b.insts
  /\ n \in DOMAIN B /\ m \in DOMAIN B /\ B[n] = Have(b, A) /\ B[m] = Have(b, A)
  /\ n \notin W /\ m \notin W /\ n # m /\ n # 1 /\ m # 1 /\ n # NoBlock /\ m # NoBlock /\ n \in Nat /\ m \in Nat
  /\ n \in DOMAIN t.blocks /\ m \in DOMAIN t.blocks /\ t.locals = b.locals /\ t.loops = b.loops
  /\ LastBlock(t) = m

\* The branch of a lazy operator, a while or an if.
LEMMA Fork ==
    ASSUME NEW e, NEW b, NEW A, NEW W, Live(e, b, A, W), NEW o \in Operand, ValueIn(b.insts, o, Have(b, A)),
           NEW two, two = CreateBlock(CreateBlock(b)), NEW m, m = LastBlock(two), NEW n, n = m - 1,
           NEW x, NEW y, (x = n /\ y = m) \/ (x = m /\ y = n), NEW t, t = Terminate(two, CondBr(o, x, y))
    PROVE  \E B : Forked(e, b, A, W, t, B, n, m)
<1> DEFINE one == CreateBlock(b)
           k == LastBlock(one)
           P == W \cup {b.cur}
           G == Have(b, A)
           B == WithBlock(b, A, G)
           C == WithBlock(one, B, G)
           P1 == P \cup {k}
           P2 == P1 \cup {m}
           br == CondBr(o, x, y)
<1>1. Held(e, b, A, P) /\ b.cur \notin W /\ b.ok = TRUE /\ G \in SUBSET Nat /\ b.cur \in DOMAIN b.blocks /\ b \in Lowerers(e.body)
      /\ W \subseteq DOMAIN b.blocks
  BY LiveFields, Zenon
<1>2. P = W \cup {b.cur} /\ P1 = P \cup {k} /\ P2 = P1 \cup {m} /\ two = CreateBlock(one) /\ G = Have(b, A) /\ k = LastBlock(one)
      /\ one = CreateBlock(b) /\ B = WithBlock(b, A, G) /\ C = WithBlock(one, B, G) /\ br = CondBr(o, x, y)
  OBVIOUS
<1> HIDE DEF one, k, P, G, B, C, P1, P2, br
<1>3. Held(e, one, B, P1) /\ CreatedAs(b, A, one, B, G, k)
  BY <1>1, <1>2, CreateGood
<1>4. Held(e, two, C, P2) /\ CreatedAs(one, B, two, C, G, m)
  BY <1>1, <1>2, <1>3, CreateGood
<1>5. /\ Wider(A, B) /\ k \in DOMAIN one.blocks /\ k \notin DOMAIN b.blocks /\ k \in DOMAIN B /\ B[k] = G /\ k # 1 /\ k # NoBlock /\ k \in Nat
      /\ DOMAIN b.blocks \subseteq DOMAIN one.blocks /\ one.insts = b.insts /\ Rest(b, one) /\ Have(one, B) = Have(b, A)
  BY <1>1, <1>3 DEF CreatedAs
<1>6. /\ Wider(B, C) /\ m \in DOMAIN two.blocks /\ m \notin DOMAIN one.blocks /\ m \in DOMAIN C /\ C[m] = G /\ m # 1 /\ m # NoBlock /\ m \in Nat
      /\ DOMAIN one.blocks \subseteq DOMAIN two.blocks /\ two.insts = one.insts /\ Rest(one, two) /\ Have(two, C) = Have(one, B)
  <2>1. one.cur \in DOMAIN one.blocks
    BY <1>1, <1>5 DEF Rest
  <2> QED
    BY <1>4, <2>1 DEF CreatedAs
<1>7. n = k
  <2>1. one.blocks \in Seq(BasicBlock) /\ two.blocks = Append(one.blocks, [insts |-> <<>>, term |-> NoTerminator])
    <3>1. one \in Lowerers(e.body)
      BY <1>3, HeldFields, Zenon
    <3> QED
      BY <1>2, <3>1, LowererFields, Zenon DEF CreateBlock, Lowerers
  <2>2. Len(two.blocks) = Len(one.blocks) + 1 /\ Len(one.blocks) \in Nat
    BY <2>1
  <2>3. m = Len(two.blocks) /\ k = Len(one.blocks)
    BY <1>2 DEF LastBlock
  <2> QED
    BY <2>2, <2>3
<1>8. k \in DOMAIN C /\ C[k] = G
  BY <1>5, <1>6 DEF Wider
<1>9. two.cur = b.cur /\ two.locals = b.locals /\ two.loops = b.loops /\ two.ok = TRUE /\ two.insts = b.insts /\ Have(two, C) = G
  BY <1>1, <1>2, <1>5, <1>6 DEF Rest
<1>10. Closing(e, two, C, br)
  <2>1. x \in Nat /\ y \in Nat
    BY <1>5, <1>6, <1>7
  <2>2. <<x, y>> \in Seq(Nat) /\ <<x, y>>[1] = x /\ <<x, y>>[2] = y
    BY <2>1
  <2>3. br \in Terminator /\ br # NoTerminator /\ br.k = "condbr" /\ br.opd = o /\ br.to[1] = x /\ br.to[2] = y
    BY <1>2, <2>2 DEF CondBr, Terminator, NoTerminator
  <2>4. Target(C, G, x) /\ Target(C, G, y)
    BY <1>5, <1>6, <1>7, <1>8 DEF Target
  <2>5. ValueIn(two.insts, o, G)
    BY <1>2, <1>9
  <2> QED
    BY <1>9, <2>3, <2>4, <2>5 DEF Closing, TermOK
<1>11. Held(e, t, C, P2 \ {two.cur}) /\ TerminatedAs(two, C, t)
  <2>1. two.cur \in P2
    BY <1>2, <1>9
  <2>2. t = Terminate(two, br)
    BY <1>2
  <2> QED
    BY <1>4, <1>10, <2>1, <2>2, TerminateGood
<1>12. P2 \ {two.cur} = (W \cup {n}) \cup {m}
  BY <1>1, <1>2, <1>5, <1>6, <1>7, <1>9
<1>13. t.insts = b.insts /\ t.loops = b.loops /\ t.locals = b.locals /\ t.ok = TRUE /\ DOMAIN t.blocks = DOMAIN two.blocks
  BY <1>9, <1>11 DEF TerminatedAs, Rest
<1>14. Grown(e, b, A, t, C)
  <2>1. Ext(b.insts, t.insts)
    BY <1>1, <1>13, LowererFields DEF Ext
  <2>2. Wider(A, C)
    BY <1>5, <1>6 DEF Wider
  <2> QED
    BY <1>13, <2>1, <2>2 DEF Grown, Since, SameLoops, SameLocals
<1>15. n \notin W /\ m \notin W /\ n # m
  BY <1>1, <1>5, <1>6, <1>7
<1>16. LastBlock(t) = m
  <2>1. two \in Lowerers(e.body) /\ t \in Lowerers(e.body) /\ two.blocks # <<>> /\ t.blocks # <<>>
    BY <1>4, <1>11, HeldFields, Zenon
  <2>2. /\ two.blocks \in Seq(BasicBlock) /\ t.blocks \in Seq(BasicBlock)
        /\ Len(two.blocks) \in Nat /\ Len(t.blocks) \in Nat /\ DOMAIN two.blocks = 1 .. Len(two.blocks) /\ DOMAIN t.blocks = 1 .. Len(t.blocks)
    BY <2>1, LowererFields
  <2>3. Len(two.blocks) # 0 /\ Len(t.blocks) # 0
    BY <2>1, <2>2
  <2>4. Len(two.blocks) \in DOMAIN two.blocks /\ Len(t.blocks) \in DOMAIN t.blocks
    BY <2>2, <2>3
  <2>5. Len(two.blocks) <= Len(t.blocks) /\ Len(t.blocks) <= Len(two.blocks)
    BY <1>13, <2>2, <2>4
  <2> QED
    BY <2>2, <2>5 DEF LastBlock
<1> QED
  BY <1>2, <1>5, <1>6, <1>7, <1>8, <1>11, <1>12, <1>13, <1>14, <1>15, <1>16, ZenonT(60) DEF Forked

\* A waiting block becomes the current one.
Entered(e, t, B, V, n, u) ==
  /\ Live(e, u, B, V) /\ B[n] \subseteq Have(u, B) /\ u.insts = t.insts /\ u.loops = t.loops /\ u.locals = t.locals /\ u.cur = n
  /\ u.res = t.res /\ u.blocks = t.blocks /\ Grown(e, t, B, u, B)

\* PositionAtEnd.
LEMMA EnterBlock ==
    ASSUME NEW e, NEW t, NEW B, NEW V, NEW n, n \notin V, Held(e, t, B, V \cup {n}), t.ok = TRUE, NEW u, u = PositionAtEnd(t, n)
    PROVE  Entered(e, t, B, V, n, u)
<1> DEFINE P == V \cup {n}
<1>1. Held(e, t, B, P) /\ n \in P
  OBVIOUS
<1>2. P = V \cup {n}
  OBVIOUS
<1> HIDE DEF P
<1>3. n \in DOMAIN t.blocks /\ t \in Lowerers(e.body)
  BY <1>1, HeldFields, Zenon
<1>4. /\ Held(e, u, B, P) /\ B[n] \subseteq Have(u, B) /\ SameCode(t, u)
      /\ u.cur = n /\ u.locals = t.locals /\ u.res = t.res /\ u.ok = t.ok
  BY <1>1, <1>3, PositionGood
<1>5. Live(e, u, B, V)
  BY <1>2, <1>4 DEF Live
<1>6. Ext(t.insts, t.insts)
  BY <1>3, LowererFields DEF Ext
<1> QED
  BY <1>4, <1>5, <1>6 DEF Entered, SameCode, Grown, Since, Wider, SameLoops, SameLocals

\* A jump to a block that needs no more than there is here.
LEMMA JumpGood ==
    ASSUME NEW e, NEW b, NEW A, NEW W, Live(e, b, A, W), NEW x \in Nat, Target(A, Have(b, A), x), NEW t, t = Terminate(b, Br(x))
    PROVE  Held(e, t, A, W) /\ TerminatedAs(b, A, t) /\ Grown(e, b, A, t, A)
<1> DEFINE P == W \cup {b.cur}
           br == Br(x)
<1>1. Held(e, b, A, P) /\ b.cur \in P /\ b.cur \notin W /\ b \in Lowerers(e.body)
  BY LiveFields, Zenon
<1>2. P \ {b.cur} = W
  BY <1>1
<1>3. Closing(e, b, A, br)
  <2>1. <<x>> \in Seq(Nat) /\ <<x>>[1] = x
    OBVIOUS
  <2>2. br \in Terminator /\ br # NoTerminator /\ br.k = "br" /\ br.to[1] = x
    BY <2>1 DEF Br, Terminator, NoTerminator, Operand, Void
  <2> HIDE DEF br
  <2> QED
    BY <2>2 DEF Closing, TermOK
<1>4. t = Terminate(b, br)
  OBVIOUS
<1> HIDE DEF P, br
<1>5. Held(e, t, A, P \ {b.cur}) /\ TerminatedAs(b, A, t)
  BY <1>1, <1>3, <1>4, TerminateGood
<1>6. t.insts = b.insts /\ t.loops = b.loops /\ t.locals = b.locals
  BY <1>5 DEF TerminatedAs, Rest
<1>7. Ext(b.insts, b.insts)
  BY <1>1, LowererFields DEF Ext
<1> QED
  BY <1>2, <1>5, <1>6, <1>7 DEF Grown, Since, Wider, SameLoops, SameLocals

\* Ok again.
LEMMA Resume ==
    ASSUME NEW e, NEW b, NEW A, NEW P, Held(e, b, A, P), NEW ok, ok \in BOOLEAN, NEW t, t = [b EXCEPT !.ok = ok]
    PROVE  Held(e, t, A, P) /\ t.ok = ok /\ Grown(e, b, A, t, A) /\ SameCode(b, t) /\ t.locals = b.locals /\ t.cur = b.cur /\ t.res = b.res
<1>1. b \in Lowerers(e.body)
  BY HeldFields, Zenon
<1>2. t \in Lowerers(e.body) /\ SameCode(b, t) /\ t.ok = ok /\ t.locals = b.locals /\ t.cur = b.cur /\ t.res = b.res
  BY <1>1, Zenon DEF Lowerers, SameCode
<1>3. Held(e, t, A, P)
  BY <1>2, HeldAlike
<1>4. Ext(b.insts, b.insts)
  BY <1>1, LowererFields DEF Ext
<1> QED
  BY <1>2, <1>3, <1>4 DEF Grown, Since, Wider, SameLoops, SameLocals, SameCode

\* The register of an instruction.
LEMMA EmittedValue ==
    ASSUME NEW e, NEW b, NEW A, NEW W, Live(e, b, A, W), NEW op, NEW u, NEW v, Fits(b, A, op, u, v), op # "store",
           NEW x, x = Emit(b, op, u, v)
    PROVE  Stepped(e, b, A, W, x) /\ ValueIn(x.insts, LastInst(x), Have(x, A)) /\ LastInst(x) \in Operand
<1> DEFINE id == Len(b.insts) + 1
           o == LastInst(x)
<1>1. Stepped(e, b, A, W, x) /\ EmittedAs(b, A, x, op, u, v)
  BY EmitStepped
<1>2. Len(x.insts) = id /\ x.insts[id] = Instruction(op, u, v) /\ id \in DOMAIN x.insts
      /\ Have(x, A) = Have(b, A) \cup Gives(x.insts, id)
  BY <1>1 DEF EmittedAs
<1>3. Live(e, x, A, W) /\ x \in Lowerers(e.body)
  BY <1>1, LiveFields, Zenon DEF Stepped
<1>4. op # "alloca"
  BY DEF Fits
<1>5. x.insts[id].op = op /\ id \in Nat
  BY <1>2, <1>3, LowererFields DEF Instruction
<1>6. id \in Have(x, A)
  BY <1>2, <1>4, <1>5 DEF Gives
<1>7. o = Inst(id)
  BY <1>2 DEF LastInst
<1> HIDE DEF o, id
<1>8. o \in Operand /\ ValueIn(x.insts, o, Have(x, A))
  BY <1>2, <1>4, <1>5, <1>6, <1>7 DEF Inst, ValueIn, Computed, Operand
<1> QED
  BY <1>1, <1>8 DEF o

\* A result stays one.
LEMMA ResultStays ==
    ASSUME NEW e, NEW b, NEW A, NEW W, Live(e, b, A, W), NEW t, Stepped(e, b, A, W, t), t.res = b.res, HasResult(b, A)
    PROVE  HasResult(t, A)
<1>1. /\ ValueIn(b.insts, b.res.opd, Have(b, A)) => ValueIn(t.insts, b.res.opd, Have(t, A))
      /\ SlotIn(b.insts, b.res.opd, Have(b, A)) => SlotIn(t.insts, b.res.opd, Have(t, A))
  BY SteppedPassed, ValuePassed
<1> QED
  BY <1>1 DEF HasResult, IsValue, IsPlace

\* A new slot with the result in it.
Kept(e, b, A, W, lhs, t, slot) ==
  /\ Stepped(e, b, A, W, lhs) /\ Stepped(e, lhs, A, W, t) /\ IsValue(lhs, A) /\ lhs.res.ty = Bool
  /\ IsSlot(t.insts, slot) /\ slot \in Operand /\ slot.v \in Have(t, A) /\ slot = Inst(Len(b.insts) + 1)

\* The left side of a lazy operator is stored.
LEMMA LeftKept ==
    ASSUME NEW e, NEW b, NEW A, NEW W, Live(e, b, A, W), HasResult(b, A), b.res.ty = Bool,
           NEW s, s = AllocaInEntry(b), NEW lhs, lhs = AsValue(s), NEW slot, slot = LastInst(s),
           NEW t, t = Emit(lhs, "store", lhs.res.opd, slot)
    PROVE  Kept(e, b, A, W, lhs, t, slot)
<1>1. Stepped(e, b, A, W, s) /\ SlotAs(b, A, s)
  BY AllocaStepped
<1>2. s.res = b.res /\ IsSlot(s.insts, slot) /\ slot \in Operand /\ slot = Inst(Len(b.insts) + 1) /\ Live(e, s, A, W)
  BY <1>1 DEF SlotAs, Rest, Stepped
<1>3. HasResult(s, A)
  BY <1>1, <1>2, ResultStays
<1>4. Stepped(e, s, A, W, lhs) /\ ValueOfResult(s, A, lhs)
  BY <1>2, <1>3, AsValueStepped DEF HasResult
<1>5. Live(e, lhs, A, W) /\ IsValue(lhs, A) /\ lhs.res.ty = Bool /\ Ext(s.insts, lhs.insts)
  BY <1>2, <1>4 DEF Stepped, ValueOfResult, Quiet
<1>6. ValueIn(lhs.insts, lhs.res.opd, Have(lhs, A)) /\ lhs.res.opd \in Operand
  BY <1>5, BoolValue
<1>7. IsSlot(lhs.insts, slot)
  BY <1>2, <1>5, ValueStays
<1>8. Stepped(e, lhs, A, W, t) /\ slot.v \in Have(t, A)
  BY <1>2, <1>5, <1>6, <1>7, StoreStepped
<1>9. IsSlot(t.insts, slot)
  BY <1>7, <1>8, ValueStays DEF Stepped, Quiet
<1>10. Stepped(e, b, A, W, lhs)
  BY <1>1, <1>4, SteppedJoin
<1> QED
  BY <1>2, <1>5, <1>8, <1>9, <1>10 DEF Kept

\* The left side of a lazy operator leaves the block of the right side, with the merge block waiting.
LazyDone(e, p, b, A, W, t, B, m, slot) ==
  /\ Passed(e, p, b, A, W \cup {m}, t, B) /\ m \notin W /\ m \in DOMAIN B /\ m # 1 /\ m \in Nat
  /\ SlotIn(t.insts, slot, B[m]) /\ B[m] \subseteq Have(t, B) /\ Have(b, A) \subseteq B[m] /\ slot \in Operand

\* LowerLazyLeft
LEMMA LazyLeftLowered ==
    ASSUME NEW c, NEW e, NEW p, NEW b, NEW A, NEW W, Live(e, b, A, W), HasResult(b, A), b.res.ty = Bool,
           NEW t, t = LowerLazyLeft(c, p, b)
    PROVE  \E B : LazyDone(e, p, b, A, W, t, B, LastBlock(t), Inst(Len(b.insts) + 1))
<1> DEFINE s == AllocaInEntry(b)
           lhs == AsValue(s)
           slot == LastInst(s)
           stored == Emit(lhs, "store", lhs.res.opd, slot)
           one == Const(1)
           flipped == Emit(stored, "xor", lhs.res.opd, one)
           and == c.body[p].op = "and"
           cond == IF and THEN flipped ELSE stored
           o == IF and THEN LastInst(cond) ELSE lhs.res.opd
           two == CreateBlock(CreateBlock(cond))
           m == LastBlock(two)
           n == m - 1
           u == Terminate(two, CondBr(o, m, n))
<1>1. t = PositionAtEnd(u, n)
  BY DEF LowerLazyLeft
<1>2. /\ s = AllocaInEntry(b) /\ lhs = AsValue(s) /\ slot = LastInst(s) /\ stored = Emit(lhs, "store", lhs.res.opd, slot)
      /\ flipped = Emit(stored, "xor", lhs.res.opd, one) /\ cond = (IF and THEN flipped ELSE stored)
      /\ o = (IF and THEN LastInst(cond) ELSE lhs.res.opd) /\ two = CreateBlock(CreateBlock(cond)) /\ m = LastBlock(two) /\ n = m - 1
      /\ u = Terminate(two, CondBr(o, m, n)) /\ one = Const(1) /\ and \in BOOLEAN
  OBVIOUS
<1> HIDE DEF s, lhs, slot, stored, one, flipped, and, cond, o, two, m, n, u
<1>3. Kept(e, b, A, W, lhs, stored, slot)
  BY <1>2, LeftKept
<1>4. /\ Stepped(e, b, A, W, lhs) /\ Stepped(e, lhs, A, W, stored) /\ IsValue(lhs, A) /\ lhs.res.ty = Bool
      /\ IsSlot(stored.insts, slot) /\ slot \in Operand /\ slot.v \in Have(stored, A) /\ slot = Inst(Len(b.insts) + 1)
  BY <1>3 DEF Kept
<1>5. Live(e, lhs, A, W) /\ Live(e, stored, A, W)
  BY <1>4 DEF Stepped
<1>6. ValueIn(lhs.insts, lhs.res.opd, Have(lhs, A)) /\ lhs.res.opd \in Operand
  BY <1>4, <1>5, BoolValue
<1>7. Passed(e, p, lhs, A, W, stored, A) /\ Passed(e, p, b, A, W, lhs, A)
  BY <1>4, <1>5, SteppedPassed
<1>8. ValueIn(stored.insts, lhs.res.opd, Have(stored, A))
  BY <1>6, <1>7, ValuePassed
<1>9. Passed(e, p, b, A, W, stored, A)
  BY <1>7, PassedJoin
<1>10. /\ Passed(e, p, stored, A, W, cond, A) /\ ValueIn(cond.insts, o, Have(cond, A)) /\ o \in Operand
  <2>1. CASE and = TRUE
    <3>1. ValueIn(stored.insts, one, Have(stored, A)) /\ one \in Operand
      BY <1>2, OneIsValue
    <3>2. Fits(stored, A, "xor", lhs.res.opd, one)
      BY <1>6, <1>8, <3>1, FitsTwo
    <3>3. Stepped(e, stored, A, W, flipped) /\ ValueIn(flipped.insts, LastInst(flipped), Have(flipped, A)) /\ LastInst(flipped) \in Operand
      BY <1>2, <1>5, <3>2, EmittedValue
    <3>4. Passed(e, p, stored, A, W, flipped, A)
      BY <1>5, <3>3, SteppedPassed
    <3> QED
      BY <1>2, <2>1, <3>3, <3>4
  <2>2. CASE and = FALSE
    <3>1. Passed(e, p, stored, A, W, stored, A)
      BY <1>5, PassedSelf
    <3> QED
      BY <1>2, <1>6, <1>8, <2>2, <3>1
  <2> QED
    BY <1>2, <2>1, <2>2, ZenonT(60)
<1>11. Live(e, cond, A, W) /\ slot.v \in Have(cond, A) /\ IsSlot(cond.insts, slot)
  BY <1>4, <1>10, ValuePassed, SMTT(60) DEF Passed
<1>12. \E B : Forked(e, cond, A, W, u, B, n, m)
  BY <1>2, <1>10, <1>11, Fork
<1>13. PICK B : Forked(e, cond, A, W, u, B, n, m)
  BY <1>12
<1>14. /\ Held(e, u, B, (W \cup {n}) \cup {m}) /\ Grown(e, cond, A, u, B) /\ u.ok = TRUE /\ u.insts = cond.insts
       /\ n \in DOMAIN B /\ m \in DOMAIN B /\ B[n] = Have(cond, A) /\ B[m] = Have(cond, A)
       /\ n \notin W /\ m \notin W /\ n # m /\ m # 1 /\ m \in Nat /\ LastBlock(u) = m
  BY <1>13 DEF Forked
<1> DEFINE V == W \cup {m}
<1>15. V \cup {n} = (W \cup {n}) \cup {m} /\ n \notin V
  BY <1>14
<1>16. V = W \cup {m}
  OBVIOUS
<1> HIDE DEF V
<1>17. Entered(e, u, B, V, n, t)
  BY <1>1, <1>14, <1>15, EnterBlock, Zenon
<1>18. /\ Live(e, t, B, V) /\ B[n] \subseteq Have(t, B) /\ t.insts = u.insts /\ t.blocks = u.blocks /\ Grown(e, u, B, t, B)
  BY <1>17 DEF Entered
<1>19. Since(e, p, cond, A, t, B)
  <2>1. Since(e, p, cond, A, u, B) /\ Since(e, p, u, B, t, B)
    BY <1>14, <1>18 DEF Grown
  <2> QED
    BY <2>1, SinceJoin
<1>20. Passed(e, p, cond, A, V, t, B)
  BY <1>14, <1>18, <1>19 DEF Passed
<1>21. Passed(e, p, b, A, W, cond, A)
  BY <1>9, <1>10, PassedJoin
<1>22. Passed(e, p, b, A, V, t, B)
  BY <1>20, <1>21, PassedOn
<1>23. SlotIn(t.insts, slot, B[m])
  BY <1>11, <1>14, <1>18 DEF SlotIn
<1>24. LastBlock(t) = m
  BY <1>14, <1>18 DEF LastBlock
<1>25. Have(b, A) \subseteq B[m]
  BY <1>14, <1>21 DEF Passed
<1>26. LazyDone(e, p, b, A, W, t, B, m, slot)
  BY <1>4, <1>14, <1>16, <1>18, <1>22, <1>23, <1>25, SMTT(60) DEF LazyDone
<1> QED
  BY <1>4, <1>24, <1>26

\* a && b and a || b
IsLazy(e, p) == e.body[p].op \in {"and", "or"}

\* The right side of a lazy operator, in its block, with the merge block m waiting, and the end of that block.
RightDone(e, p, b, A, W, t, B, m) ==
  /\ Since(e, p, b, A, t, B) /\ Held(e, t, B, W \cup {m}) /\ t \in Lowerers(e.body)

\* The value of the right side is stored and the block ends, if it has not ended.
LEMMA RightJoined ==
    ASSUME NEW c, NEW e, NEW p, NEW b, NEW A, NEW W, NEW m, m \in Nat, m \notin W, m # 1, m \in DOMAIN A, A[m] \subseteq Have(b, A),
           Task(c, e, p, b, A, W \cup {m}), IsLazy(e, p), NEW slot, slot \in Operand, IsSlot(b.insts, slot),
           NEW r, r = LowerSub(c, e.body[p].sub[2], b),
           NEW t, t = IF r.ok THEN Terminate(StoreResult(r, slot), Br(m)) ELSE r
    PROVE  \E B : RightDone(e, p, b, A, W, t, B, m)
<1> DEFINE two == e.body[p].sub[2]
           V == W \cup {m}
           s == StoreResult(r, slot)
<1>1. Rule(e.body, e.result, e.info, p) /\ Live(e, b, A, V) /\ IsBody(e.body) /\ p \in DOMAIN e.body
  BY TaskRules
<1>2. Is(e.info, two, Bool)
  BY <1>1 DEF Rule, OperatorRule, IsLazy
<1>3. Lowers(c, e, p, 2, b, r)
  BY <1>1, OpArity DEF Lowers, Plain, IsLoop, IsLazy
<1>4. \E B : SubDone(e, p, two, b, A, V, r, B)
  BY <1>3, SubLowered
<1>5. s = StoreResult(r, slot) /\ t = (IF r.ok THEN Terminate(s, Br(m)) ELSE r) /\ V = W \cup {m}
  OBVIOUS
<1> HIDE DEF two, V, s
<1>6. PICK B : SubDone(e, p, two, b, A, V, r, B)
  BY <1>4, SMTT(60)
<1>7. CASE Halted(e, p, b, A, V, r, B)
  <2>1. t = r
    BY <1>5, <1>7 DEF Halted, Ended
  <2>2. RightDone(e, p, b, A, W, t, B, m)
    BY <1>5, <1>7, <2>1, HeldFields, ZenonT(60) DEF Halted, Ended, RightDone
  <2> QED
    BY <2>2
<1>8. CASE Passed(e, p, b, A, V, r, B) /\ Yields(e, two, r, B)
  <2>1. Live(e, r, B, V) /\ r.ok = TRUE /\ Wider(A, B)
    BY <1>8 DEF Passed, Live, Since
  <2>2. HasResult(r, B) /\ r.res.ty = Bool
    BY <1>2, <1>8 DEF Yields, HasResult, Is
  <2>3. IsSlot(r.insts, slot)
    BY <1>8, ValuePassed, SMTT(60)
  <2>4. Stepped(e, r, B, V, s) /\ slot.v \in Have(s, B)
    BY <1>5, <2>1, <2>2, <2>3, StoreResultStepped DEF HasResult
  <2>5. Passed(e, p, r, B, V, s, B)
    BY <2>1, <2>4, SteppedPassed
  <2>6. Passed(e, p, b, A, V, s, B)
    BY <1>8, <2>5, PassedJoin
  <2>7. m \in DOMAIN B /\ B[m] = A[m]
    BY <2>1 DEF Wider
  <2>8. Target(B, Have(s, B), m) /\ Live(e, s, B, V)
    BY <2>6, <2>7 DEF Target, Passed
  <2>9. t = Terminate(s, Br(m))
    BY <1>5, <2>1
  <2>10. Held(e, t, B, V) /\ Grown(e, s, B, t, B)
    BY <2>8, <2>9, JumpGood
  <2>11. Since(e, p, b, A, t, B)
    <3>1. Since(e, p, s, B, t, B) /\ Since(e, p, b, A, s, B)
      BY <2>6, <2>10 DEF Grown, Passed
    <3> QED
      BY <3>1, SinceJoin, SMTT(60)
  <2>12. RightDone(e, p, b, A, W, t, B, m)
    BY <1>5, <2>10, <2>11, HeldFields, Zenon DEF RightDone
  <2> QED
    BY <2>12
<1> QED
  BY <1>6, <1>7, <1>8 DEF SubDone

\* What follows the right side of a lazy operator.
Rejoined(b, m, slot) ==
  LET x == Emit(PositionAtEnd([b EXCEPT !.ok = TRUE], m), "load", slot, Void) IN Value(x, Bool, LastInst(x))

\* It leaves a bool.
Merged(e, p, b, A, W, m, t) ==
  Live(e, t, A, W) /\ A[m] \subseteq Have(t, A) /\ IsValue(t, A) /\ t.res.ty = Bool /\ Since(e, p, b, A, t, A)

\* The slot of a lazy operator is read in the merge block.
LEMMA MergeRead ==
    ASSUME NEW e, NEW p, NEW b, NEW A, NEW W, NEW m, m \notin W, Held(e, b, A, W \cup {m}),
           NEW slot, slot \in Operand, SlotIn(b.insts, slot, A[m]), NEW t, t = Rejoined(b, m, slot)
    PROVE  Merged(e, p, b, A, W, m, t)
<1> DEFINE u == [b EXCEPT !.ok = TRUE]
           v == PositionAtEnd(u, m)
           x == Emit(v, "load", slot, Void)
<1>0. u = [b EXCEPT !.ok = TRUE] /\ v = PositionAtEnd(u, m) /\ x = Emit(v, "load", slot, Void) /\ t = Value(x, Bool, LastInst(x))
  BY DEF Rejoined
<1> HIDE DEF u, v, x
<1>1. Held(e, u, A, W \cup {m}) /\ u.ok = TRUE /\ Grown(e, b, A, u, A) /\ SameCode(b, u)
  <2> DEFINE yes == TRUE
  <2>1. yes \in BOOLEAN /\ u = [b EXCEPT !.ok = yes]
    BY <1>0
  <2>2. yes = TRUE
    OBVIOUS
  <2> HIDE DEF yes
  <2> QED
    BY <2>1, <2>2, Resume, Zenon
<1>2. Entered(e, u, A, W, m, v)
  BY <1>0, <1>1, EnterBlock, Zenon
<1>3. Live(e, v, A, W) /\ A[m] \subseteq Have(v, A) /\ v.insts = b.insts /\ Grown(e, u, A, v, A)
  BY <1>1, <1>2 DEF Entered, SameCode
<1>4. SlotIn(v.insts, slot, Have(v, A))
  BY <1>3 DEF SlotIn
<1>5. Fits(v, A, "load", slot, Void)
  <2>1. slot # Void
    BY <1>4 DEF SlotIn, IsSlot, Void
  <2> QED
    BY <1>4, <2>1 DEF Fits, InstOK, Printed, Instruction, InstructionOps, Operand, Void
<1>6. Stepped(e, v, A, W, t) /\ IsValue(t, A) /\ t.res.ty = Bool
  BY <1>0, <1>3, <1>5, EmitValue
<1>7. Passed(e, p, v, A, W, t, A)
  BY <1>3, <1>6, SteppedPassed
<1>8. Since(e, p, b, A, u, A) /\ Since(e, p, u, A, v, A) /\ Since(e, p, v, A, t, A)
  BY <1>1, <1>3, <1>7 DEF Grown, Passed
<1>9. Since(e, p, b, A, t, A)
  BY <1>8, SinceJoin
<1> QED
  BY <1>3, <1>6, <1>7, <1>9 DEF Passed, Merged

\* A lazy operator.
LEMMA ShortCircuitLowered ==
    ASSUME NEW c, NEW e, NEW p, NEW b, NEW A, NEW W, Task(c, e, p, b, A, W), IsLazy(e, p),
           NEW t, t = LowerShortCircuit(c, p, b)
    PROVE  \E B : LPost(e, p, b, A, W, t, B)
<1> DEFINE one == e.body[p].sub[1]
           two == e.body[p].sub[2]
           l == LowerSub(c, one, b)
           left == LowerLazyLeft(c, p, l)
           slot == Inst(Len(l.insts) + 1)
           m == LastBlock(left)
           r == LowerSub(c, two, left)
           s == IF r.ok THEN Terminate(StoreResult(r, slot), Br(m)) ELSE r
           v == Rejoined(s, m, slot)
<1>1. Rule(e.body, e.result, e.info, p) /\ Live(e, b, A, W) /\ c.info = e.info /\ c.body = e.body /\ IsBody(e.body) /\ p \in DOMAIN e.body
  BY TaskRules
<1>2. e.info[p].ty = Bool /\ Is(e.info, one, Bool) /\ (Ends(e.info, p) => Ends(e.info, one) \/ Ends(e.info, two))
  BY <1>1, SMTT(60) DEF Rule, OperatorRule, IsLazy
<1>20. ~Ends(e.info, two) /\ e.body[p].op # "x"
  BY <1>1 DEF Task, Env, IsLazy
<1>3. t = IF l.ok THEN v ELSE l
  BY <1>1, Zenon DEF LowerShortCircuit, Then, Child, Rejoined
<1>4. Lowers(c, e, p, 1, b, l)
  BY <1>1, OpArity DEF Lowers, Plain, IsLoop, IsLazy
<1>5. \E B : SubDone(e, p, one, b, A, W, l, B)
  BY <1>4, SubLowered
<1>6. left = LowerLazyLeft(c, p, l) /\ slot = Inst(Len(l.insts) + 1) /\ m = LastBlock(left) /\ v = Rejoined(s, m, slot)
  OBVIOUS
<1>60. r = LowerSub(c, e.body[p].sub[2], left) /\ s = IF r.ok THEN Terminate(StoreResult(r, slot), Br(m)) ELSE r
  OBVIOUS
<1> HIDE DEF one, two, l, left, slot, m, r, s, v
<1>7. PICK B : SubDone(e, p, one, b, A, W, l, B)
  BY <1>5
<1>8. CASE Halted(e, p, b, A, W, l, B)
  BY <1>3, <1>8 DEF LPost, Halted, Ended
<1>9. CASE Passed(e, p, b, A, W, l, B) /\ Yields(e, one, l, B)
  <2>1. Live(e, l, B, W) /\ l.ok = TRUE /\ ~Ends(e.info, one)
    BY <1>9 DEF Passed, Live, Yields
  <2>2. HasResult(l, B) /\ l.res.ty = Bool
    BY <1>2, <1>9 DEF Yields, HasResult, Is
  <2>3. PICK C : LazyDone(e, p, l, B, W, left, C, m, slot)
    BY <1>6, <2>1, <2>2, LazyLeftLowered
  <2>4. /\ Passed(e, p, l, B, W \cup {m}, left, C) /\ m \notin W /\ m \in DOMAIN C /\ m # 1 /\ m \in Nat
        /\ SlotIn(left.insts, slot, C[m]) /\ C[m] \subseteq Have(left, C) /\ Have(l, B) \subseteq C[m] /\ slot \in Operand
    BY <2>3 DEF LazyDone
  <2>5. Task(c, e, p, left, C, W \cup {m})
    <3>1. Passed(e, p, b, A, W \cup {m}, left, C)
      BY <1>9, <2>4, PassedOn
    <3> QED
      BY <3>1, TaskMoved
  <2>6. IsSlot(left.insts, slot)
    BY <2>4 DEF SlotIn
  <2>7. \E D : RightDone(e, p, left, C, W, s, D, m)
    BY <1>60, <2>4, <2>5, <2>6, RightJoined
  <2>8. PICK D : RightDone(e, p, left, C, W, s, D, m)
    BY <2>7
  <2>9. Since(e, p, left, C, s, D) /\ Held(e, s, D, W \cup {m})
    BY <2>8 DEF RightDone
  <2>10. D[m] = C[m] /\ Ext(left.insts, s.insts)
    BY <2>4, <2>9 DEF Since, Wider
  <2>11. SlotIn(s.insts, slot, D[m])
    BY <2>4, <2>10, ValueStays
  <2>120. v = Rejoined(s, m, slot) /\ m \notin W /\ slot \in Operand
    BY <1>6, <2>4
  <2>121. Merged(e, p, s, D, W, m, v)
    BY <2>9, <2>11, <2>120, MergeRead
  <2>12. Live(e, v, D, W) /\ D[m] \subseteq Have(v, D) /\ IsValue(v, D) /\ v.res.ty = Bool /\ Since(e, p, s, D, v, D)
    BY <2>121 DEF Merged
  <2>13. Since(e, p, b, A, v, D)
    <3>1. Since(e, p, b, A, l, B) /\ Since(e, p, l, B, left, C)
      BY <1>9, <2>4 DEF Passed
    <3>2. Since(e, p, b, A, left, C)
      BY <3>1, SinceJoin
    <3>3. Since(e, p, b, A, s, D)
      BY <2>9, <3>2, SinceJoin
    <3> QED
      BY <2>12, <3>3, SinceJoin
  <2>14. Have(b, A) \subseteq Have(v, D)
    BY <1>9, <2>4, <2>10, <2>12 DEF Passed
  <2>15. Passed(e, p, b, A, W, v, D)
    BY <2>12, <2>13, <2>14 DEF Passed
  <2>16. ~Ends(e.info, p) /\ t = v
    BY <1>2, <1>20, <1>3, <2>1
  <2> QED
    BY <1>2, <1>20, <2>12, <2>15, <2>16, ValueEnds DEF IsTyped
<1> QED
  BY <1>7, <1>8, <1>9 DEF SubDone

\* A new block waits, with G available at its start.
NewBlock(e, b, A, W, t, B, G, new) ==
  /\ Live(e, t, B, W \cup {new}) /\ Grown(e, b, A, t, B) /\ Have(t, B) = Have(b, A) /\ B[new] = G
  /\ new \in DOMAIN B /\ new \notin W /\ new # 1 /\ new # NoBlock /\ new \in Nat /\ new \notin DOMAIN b.blocks
  /\ t.insts = b.insts /\ t.res = b.res /\ t.loops = b.loops /\ t.locals = b.locals

\* CreateBlock, and the lowering goes on where it was.
LEMMA BlockMade ==
    ASSUME NEW e, NEW b, NEW A, NEW W, Live(e, b, A, W), NEW G, G \subseteq Nat, NEW t, t = CreateBlock(b), NEW new, new = LastBlock(t)
    PROVE  \E B : NewBlock(e, b, A, W, t, B, G, new)
<1> DEFINE B == WithBlock(b, A, G)
           P == W \cup {b.cur}
<1>1. Held(e, b, A, P) /\ b.cur \notin W /\ b.ok = TRUE /\ b \in Lowerers(e.body) /\ b.cur \in DOMAIN b.blocks /\ W \subseteq DOMAIN b.blocks
  BY LiveFields, Zenon
<1>2. B = WithBlock(b, A, G) /\ P = W \cup {b.cur} /\ G \in SUBSET Nat
  OBVIOUS
<1> HIDE DEF B, P
<1>3. Held(e, t, B, P \cup {new}) /\ CreatedAs(b, A, t, B, G, new)
  BY <1>1, <1>2, CreateGood
<1>4. /\ Wider(A, B) /\ new \notin DOMAIN b.blocks /\ new \in DOMAIN B /\ B[new] = G /\ new # 1 /\ new # NoBlock /\ new \in Nat
      /\ t.insts = b.insts /\ Rest(b, t) /\ Have(t, B) = Have(b, A)
  BY <1>1, <1>3 DEF CreatedAs
<1>5. t.cur = b.cur /\ t.loops = b.loops /\ t.locals = b.locals /\ t.res = b.res /\ t.ok = TRUE
  BY <1>1, <1>4 DEF Rest
<1>6. new \notin W /\ new # b.cur /\ P \cup {new} = (W \cup {new}) \cup {t.cur}
  BY <1>1, <1>2, <1>4, <1>5
<1>7. Live(e, t, B, W \cup {new})
  BY <1>1, <1>3, <1>5, <1>6, Zenon DEF Live
<1>8. Grown(e, b, A, t, B)
  <2>1. Ext(b.insts, b.insts)
    BY <1>1, LowererFields DEF Ext
  <2> QED
    BY <1>4, <1>5, <2>1 DEF Grown, Since, SameLoops, SameLocals
<1>9. NewBlock(e, b, A, W, t, B, G, new)
  BY <1>4, <1>5, <1>6, <1>7, <1>8 DEF NewBlock
<1> QED
  BY <1>9

\* The merge block and the result slot of the arms so far; H is available where they start.
MergeOK(insts, B, H, merge, slot, ty) ==
  /\ merge = NoBlock => slot = Void
  /\ merge # NoBlock =>
       /\ merge \in DOMAIN B /\ merge # 1 /\ merge \in Nat /\ H \subseteq B[merge]
       /\ slot = Void => ty = Unit /\ B[merge] \subseteq H
       /\ slot # Void => ty = Bool /\ slot \in Operand /\ SlotIn(insts, slot, B[merge]) /\ B[merge] \subseteq H \cup {slot.v}

\* They stay as the code grows.
LEMMA MergeStays ==
    ASSUME NEW insts, NEW new, Ext(insts, new), NEW A, NEW B, Wider(A, B), NEW H, NEW merge, NEW slot, NEW ty, MergeOK(insts, A, H, merge, slot, ty)
    PROVE  MergeOK(new, B, H, merge, slot, ty)
<1>1. merge # NoBlock => merge \in DOMAIN B /\ B[merge] = A[merge]
  BY DEF MergeOK, Wider
<1>2. merge # NoBlock /\ slot # Void => SlotIn(new, slot, A[merge])
  BY ValueStays DEF MergeOK
<1> QED
  BY <1>1, <1>2 DEF MergeOK

\* The blocks that wait, with the merge block.
Joins(V, merge) == IF merge = NoBlock THEN V ELSE V \cup {merge}

\* The merge block and the slot of an arm, made if they are not there yet.
MergeBlock(a, merge) == IF merge # NoBlock THEN a ELSE CreateBlock(a)
MergeId(a, merge) == IF merge # NoBlock THEN merge ELSE LastBlock(MergeBlock(a, merge))
MergeSlots(a, merge, slot, ty) == IF slot # Void \/ ty = Unit THEN MergeBlock(a, merge) ELSE AllocaInEntry(MergeBlock(a, merge))
MergeSlot(a, merge, slot, ty) == IF slot # Void \/ ty = Unit THEN slot ELSE LastInst(MergeSlots(a, merge, slot, ty))

\* An arm has come to its end, and the merge block is there.
ArmReady(e, p, a, A, V, H, s, C, target, slot, ty) ==
  /\ Passed(e, p, a, A, V \cup {target}, s, C) /\ HasResult(s, C) /\ s.res.ty = ty /\ target \notin V
  /\ MergeOK(s.insts, C, H, target, slot, ty) /\ target # NoBlock

\* The arm makes them.
LEMMA MergeMade ==
    ASSUME NEW e, NEW p, NEW a, NEW A, NEW V, NEW merge, merge \notin V, Live(e, a, A, Joins(V, merge)), HasResult(a, A),
           NEW ty, a.res.ty = ty, NEW H, H \subseteq Have(a, A), NEW slot, MergeOK(a.insts, A, H, merge, slot, ty)
    PROVE  \E C : ArmReady(e, p, a, A, V, H, MergeSlots(a, merge, slot, ty), C, MergeId(a, merge), MergeSlot(a, merge, slot, ty), ty)
<1>1. ty = Unit \/ ty = Bool
  BY DEF HasResult, IsValue, IsPlace
<1>2. CASE merge # NoBlock
  <2>1. slot # Void \/ ty = Unit
    BY <1>2 DEF MergeOK
  <2>2. MergeSlots(a, merge, slot, ty) = a /\ MergeId(a, merge) = merge /\ MergeSlot(a, merge, slot, ty) = slot
    BY <1>2, <2>1 DEF MergeSlots, MergeId, MergeSlot, MergeBlock
  <2>3. Live(e, a, A, V \cup {merge})
    BY <1>2 DEF Joins
  <2>4. Passed(e, p, a, A, V \cup {merge}, a, A)
    BY <2>3, PassedSelf
  <2>5. ArmReady(e, p, a, A, V, H, a, A, merge, slot, ty)
    BY <1>2, <2>4 DEF ArmReady
  <2> QED
    BY <2>2, <2>5
<1>3. CASE merge = NoBlock
  <2> DEFINE m == CreateBlock(a)
             new == LastBlock(m)
             id == Len(a.insts) + 1
             G == IF ty = Unit THEN H ELSE H \cup {id}
             s == AllocaInEntry(m)
             is == LastInst(s)
  <2>1. slot = Void /\ Live(e, a, A, V)
    BY <1>3 DEF MergeOK, Joins
  <2>2. a \in Lowerers(e.body) /\ Have(a, A) \subseteq Nat /\ id \in Nat
    <3>1. a \in Lowerers(e.body) /\ Have(a, A) \subseteq Nat
      BY <2>1, LiveFields, Zenon
    <3> QED
      BY <3>1, LowererFields
  <2>3. G \subseteq Nat /\ m = CreateBlock(a) /\ new = LastBlock(m)
    BY <2>2
  <2>4. s = AllocaInEntry(m) /\ is = LastInst(s) /\ (ty = Unit => G = H) /\ (ty = Bool => G = H \cup {id}) /\ id = Len(a.insts) + 1
    BY DEF Unit, Bool
  <2>40. MergeId(a, merge) = new
    BY <1>3 DEF MergeId, MergeBlock
  <2>41. /\ ty = Unit => MergeSlots(a, merge, slot, ty) = m /\ MergeSlot(a, merge, slot, ty) = Void
         /\ ty = Bool => MergeSlots(a, merge, slot, ty) = s /\ MergeSlot(a, merge, slot, ty) = is
    BY <1>3, <2>1 DEF MergeSlots, MergeSlot, MergeBlock, Unit, Bool
  <2> HIDE DEF m, new, id, G, s, is
  <2>5. PICK C : NewBlock(e, a, A, V, m, C, G, new)
    BY <2>1, <2>3, BlockMade, Zenon
  <2>6. /\ Live(e, m, C, V \cup {new}) /\ Grown(e, a, A, m, C) /\ Have(m, C) = Have(a, A) /\ C[new] = G
        /\ new \in DOMAIN C /\ new \notin V /\ new # 1 /\ new # NoBlock /\ new \in Nat /\ m.insts = a.insts /\ m.res = a.res
    BY <2>5 DEF NewBlock
  <2>7. Passed(e, p, a, A, V \cup {new}, m, C)
    BY <2>6 DEF Passed, Grown
  <2>8. HasResult(m, C)
    BY <2>6 DEF HasResult, IsValue, IsPlace
  <2>9. CASE ty = Unit
    <3>1. MergeOK(m.insts, C, H, new, Void, ty)
      BY <2>4, <2>6, <2>9 DEF MergeOK
    <3>2. ArmReady(e, p, a, A, V, H, m, C, new, Void, ty)
      BY <2>6, <2>7, <2>8, <3>1 DEF ArmReady
    <3> QED
      BY <2>9, <2>40, <2>41, <3>2
  <2>10. CASE ty = Bool
    <3>1. Stepped(e, m, C, V \cup {new}, s) /\ SlotAs(m, C, s)
      BY <2>4, <2>6, AllocaStepped
    <3>2. s.res = m.res /\ IsSlot(s.insts, is) /\ is \in Operand /\ is # Void /\ is = Inst(id)
      BY <2>4, <2>6, <3>1 DEF SlotAs, Rest
    <3>3. HasResult(s, C)
      BY <2>6, <2>8, <3>1, <3>2, ResultStays
    <3>4. Passed(e, p, m, C, V \cup {new}, s, C)
      BY <2>6, <3>1, SteppedPassed
    <3>5. Passed(e, p, a, A, V \cup {new}, s, C)
      BY <2>7, <3>4, PassedJoin
    <3>6. MergeOK(s.insts, C, H, new, is, ty)
      <4>1. is.v = id
        BY <3>2 DEF Inst
      <4> QED
        BY <2>4, <2>6, <2>10, <3>2, <4>1 DEF MergeOK, SlotIn
    <3>7. ArmReady(e, p, a, A, V, H, s, C, new, is, ty)
      BY <2>6, <3>2, <3>3, <3>5, <3>6 DEF ArmReady
    <3> QED
      BY <2>10, <2>40, <2>41, <3>7
  <2> QED
    BY <1>1, <2>9, <2>10
<1> QED
  BY <1>2, <1>3

\* An arm has jumped to the merge block.
ArmJoined(e, p, a, A, V, H, t, C, target, slot, ty) ==
  /\ Since(e, p, a, A, t, C) /\ Held(e, t, C, V \cup {target}) /\ t.ok = TRUE /\ target \notin V /\ target # NoBlock
  /\ MergeOK(t.insts, C, H, target, slot, ty)

\* The value of an arm is stored, and the arm jumps to the merge block.
LEMMA ArmEnds ==
    ASSUME NEW e, NEW p, NEW a, NEW A, NEW V, NEW H, H \subseteq Have(a, A), NEW s, NEW C, NEW target, NEW slot, NEW ty,
           ArmReady(e, p, a, A, V, H, s, C, target, slot, ty),
           NEW t, t = Terminate(IF ty = Unit THEN s ELSE StoreResult(s, slot), Br(target))
    PROVE  ArmJoined(e, p, a, A, V, H, t, C, target, slot, ty)
<1> DEFINE st == IF ty = Unit THEN s ELSE StoreResult(s, slot)
           W == V \cup {target}
<1>1. Passed(e, p, a, A, W, s, C) /\ HasResult(s, C) /\ s.res.ty = ty /\ target \notin V /\ MergeOK(s.insts, C, H, target, slot, ty)
      /\ target # NoBlock
  BY DEF ArmReady
<1>2. t = Terminate(st, Br(target)) /\ (ty = Unit => st = s) /\ (ty # Unit => st = StoreResult(s, slot)) /\ W = V \cup {target}
  OBVIOUS
<1> HIDE DEF st, W
<1>3. Live(e, s, C, W) /\ target \in DOMAIN C /\ target # 1 /\ target \in Nat /\ H \subseteq C[target] /\ H \subseteq Have(s, C)
  BY <1>1 DEF Passed, MergeOK
<1>4. Passed(e, p, s, C, W, st, C) /\ C[target] \subseteq Have(st, C)
  <2>1. CASE slot = Void
    <3>1. st = s /\ C[target] \subseteq H
      BY <1>1, <1>2, <2>1 DEF MergeOK
    <3> QED
      BY <1>3, <3>1, PassedSelf
  <2>2. CASE slot # Void
    <3>1. ty = Bool /\ slot \in Operand /\ SlotIn(s.insts, slot, C[target]) /\ C[target] \subseteq H \cup {slot.v}
      BY <1>1, <2>2 DEF MergeOK
    <3>2. st = StoreResult(s, slot) /\ IsSlot(s.insts, slot)
      BY <1>2, <3>1 DEF Unit, Bool, SlotIn
    <3>3. Stepped(e, s, C, W, st) /\ slot.v \in Have(st, C)
      BY <1>1, <1>3, <3>1, <3>2, StoreResultStepped DEF HasResult
    <3>4. Passed(e, p, s, C, W, st, C)
      BY <1>3, <3>3, SteppedPassed
    <3>5. Have(s, C) \subseteq Have(st, C)
      BY <3>4 DEF Passed
    <3> QED
      BY <1>3, <3>1, <3>3, <3>4, <3>5
  <2> QED
    BY <2>1, <2>2
<1>5. Target(C, Have(st, C), target) /\ Live(e, st, C, W)
  BY <1>3, <1>4 DEF Target, Passed
<1>6. Held(e, t, C, W) /\ TerminatedAs(st, C, t) /\ Grown(e, st, C, t, C)
  BY <1>2, <1>3, <1>5, JumpGood
<1>7. t.ok = TRUE
  BY <1>5, <1>6 DEF TerminatedAs, Rest, Live
<1>8. Since(e, p, s, C, t, C)
  <2>1. Since(e, p, s, C, st, C) /\ Since(e, p, st, C, t, C)
    BY <1>4, <1>6 DEF Passed, Grown
  <2> QED
    BY <2>1, SinceJoin
<1>9. Since(e, p, a, A, t, C)
  <2>1. Since(e, p, a, A, s, C)
    BY <1>1 DEF Passed
  <2> QED
    BY <1>8, <2>1, SinceJoin
<1>10. MergeOK(t.insts, C, H, target, slot, ty)
  BY <1>1, <1>8, MergeStays DEF Since
<1> QED
  BY <1>1, <1>2, <1>6, <1>7, <1>9, <1>10 DEF ArmJoined

\* Before an arm, which starts in a block of its own; H is what is available where the arms start.
ArmsIn(e, b, A, V, block, H, merge, slot, ty) ==
  /\ Held(e, b, A, Joins(V, merge) \cup {block}) /\ block \notin Joins(V, merge) /\ merge \notin V /\ b.ok = TRUE
  /\ H \subseteq A[block] /\ MergeOK(b.insts, A, H, merge, slot, ty)

\* After it; j is the arm.
ArmsOut(e, p, j, b, A, V, H, merge, x, B, ty) ==
  /\ Since(e, p, b, A, x.b, B) /\ Held(e, x.b, B, Joins(V, x.merge)) /\ x.merge \notin V /\ x.b.ok = TRUE
  /\ MergeOK(x.b.insts, B, H, x.merge, x.result, ty)
  /\ x.merge # NoBlock => merge # NoBlock \/ ~Ends(e.info, j)

\* One arm of an if.
LEMMA BranchLowered ==
    ASSUME NEW c, NEW e, NEW p, NEW a, NEW A0, NEW W0, Task(c, e, p, a, A0, W0), NEW b, NEW A, Since(e, p, a, A0, b, A),
           NEW V, NEW block, NEW merge, NEW slot, NEW ty, ArmsIn(e, b, A, V, block, Have(a, A0), merge, slot, ty),
           NEW k, Plain(e.body, p, k), Is(e.info, e.body[p].sub[k], ty),
           NEW x, x = LowerBranch(c, e.body[p].sub[k], ty, b, block, merge, slot)
    PROVE  \E B : ArmsOut(e, p, e.body[p].sub[k], b, A, V, Have(a, A0), merge, x, B, ty)
<1> DEFINE j == e.body[p].sub[k]
           J == Joins(V, merge)
           H == Have(a, A0)
           u == PositionAtEnd(b, block)
           arm == LowerSub(c, j, u)
           s == MergeSlots(arm, merge, slot, ty)
           target == MergeId(arm, merge)
           new == MergeSlot(arm, merge, slot, ty)
           t == Terminate(IF ty = Unit THEN s ELSE StoreResult(s, new), Br(target))
           no == FALSE
           ended == [arm EXCEPT !.ok = TRUE]
<1>1. x = IF arm.ok THEN [b |-> t, merge |-> target, result |-> new] ELSE [b |-> ended, merge |-> merge, result |-> slot]
  BY DEF LowerBranch, MergeSlots, MergeId, MergeSlot, MergeBlock
<1>2. /\ Held(e, b, A, J \cup {block}) /\ block \notin J /\ merge \notin V /\ b.ok = TRUE
      /\ H \subseteq A[block] /\ MergeOK(b.insts, A, H, merge, slot, ty)
  BY DEF ArmsIn
<1>3. u = PositionAtEnd(b, block) /\ arm = LowerSub(c, j, u) /\ s = MergeSlots(arm, merge, slot, ty) /\ target = MergeId(arm, merge)
      /\ new = MergeSlot(arm, merge, slot, ty) /\ t = Terminate(IF ty = Unit THEN s ELSE StoreResult(s, new), Br(target))
      /\ H = Have(a, A0) /\ J = Joins(V, merge)
  OBVIOUS
<1>30. ended = [arm EXCEPT !.ok = TRUE]
  OBVIOUS
<1>31. Lowers(c, e, p, k, u, arm) /\ Is(e.info, j, ty)
  BY DEF Lowers
<1>32. \A B : Task(c, e, p, u, B, J) => \E C : SubDone(e, p, j, u, B, J, arm, C)
  BY <1>31, SubLowered
<1> HIDE DEF j, J, H, u, arm, s, target, new, t, ended
<1>4. Entered(e, b, A, J, block, u)
  BY <1>2, <1>3, EnterBlock, Zenon
<1>5. Live(e, u, A, J) /\ A[block] \subseteq Have(u, A) /\ u.insts = b.insts /\ Grown(e, b, A, u, A)
  BY <1>4 DEF Entered
<1>6. Since(e, p, b, A, u, A) /\ Since(e, p, a, A0, u, A)
  <2>1. Since(e, p, b, A, u, A)
    BY <1>5 DEF Grown
  <2> QED
    BY <2>1, SinceJoin
<1>7. Passed(e, p, a, A0, J, u, A)
  BY <1>2, <1>3, <1>5, <1>6 DEF Passed
<1>8. Task(c, e, p, u, A, J)
  BY <1>7, TaskMoved
<1>9. PICK B : SubDone(e, p, j, u, A, J, arm, B)
  BY <1>8, <1>32, SMTT(60)
<1>10. CASE Halted(e, p, u, A, J, arm, B)
  <2>1. Since(e, p, u, A, arm, B) /\ Held(e, arm, B, J) /\ arm.ok = FALSE
    BY <1>10 DEF Halted, Ended
  <2>2. Held(e, ended, B, J) /\ ended.ok = TRUE /\ Grown(e, arm, B, ended, B) /\ SameCode(arm, ended)
    <3> DEFINE yes == TRUE
    <3>1. yes \in BOOLEAN /\ ended = [arm EXCEPT !.ok = yes]
      BY <1>30
    <3>2. yes = TRUE
      OBVIOUS
    <3> HIDE DEF yes
    <3> QED
      BY <2>1, <3>1, <3>2, Resume, Zenon
  <2>3. x.b = ended /\ x.merge = merge /\ x.result = slot
    BY <1>1, <2>1
  <2>4. Since(e, p, b, A, ended, B)
    <3>1. Since(e, p, arm, B, ended, B)
      BY <2>2 DEF Grown
    <3>2. Since(e, p, b, A, arm, B)
      BY <1>6, <2>1, SinceJoin
    <3> QED
      BY <3>1, <3>2, SinceJoin
  <2>5. MergeOK(ended.insts, B, H, merge, slot, ty)
    BY <1>2, <2>4, MergeStays DEF Since
  <2>6. ArmsOut(e, p, j, b, A, V, H, merge, x, B, ty)
    BY <1>2, <1>3, <2>2, <2>3, <2>4, <2>5 DEF ArmsOut
  <2> QED
    BY <1>3, <2>6 DEF j
<1>11. CASE Passed(e, p, u, A, J, arm, B) /\ Yields(e, j, arm, B)
  <2>1. Live(e, arm, B, J) /\ arm.ok = TRUE /\ Since(e, p, u, A, arm, B) /\ Have(u, A) \subseteq Have(arm, B)
    BY <1>11 DEF Passed, Live
  <2>2. HasResult(arm, B) /\ arm.res.ty = ty /\ ~Ends(e.info, j)
    BY <1>11, <1>31 DEF Yields, HasResult, Is
  <2>3. H \subseteq Have(arm, B)
    BY <1>2, <1>5, <2>1
  <2>4. MergeOK(arm.insts, B, H, merge, slot, ty)
    <3>1. Ext(b.insts, arm.insts) /\ Wider(A, B)
      BY <1>5, <2>1 DEF Since
    <3> QED
      BY <1>2, <3>1, MergeStays
  <2>5. PICK C : ArmReady(e, p, arm, B, V, H, s, C, target, new, ty)
    BY <1>2, <1>3, <2>1, <2>2, <2>3, <2>4, MergeMade, Zenon
  <2>6. ArmJoined(e, p, arm, B, V, H, t, C, target, new, ty)
    BY <1>3, <2>3, <2>5, ArmEnds
  <2>7. /\ Since(e, p, arm, B, t, C) /\ Held(e, t, C, V \cup {target}) /\ t.ok = TRUE /\ target \notin V /\ target # NoBlock
        /\ MergeOK(t.insts, C, H, target, new, ty)
    BY <2>6 DEF ArmJoined
  <2>8. x.b = t /\ x.merge = target /\ x.result = new
    BY <1>1, <2>1
  <2>9. Since(e, p, b, A, t, C)
    <3>1. Since(e, p, b, A, arm, B)
      BY <1>6, <2>1, SinceJoin
    <3> QED
      BY <2>7, <3>1, SinceJoin
  <2>10. ArmsOut(e, p, j, b, A, V, H, merge, x, C, ty)
    BY <2>2, <2>7, <2>8, <2>9 DEF ArmsOut, Joins
  <2> QED
    BY <1>3, <2>10 DEF j
<1> QED
  BY <1>9, <1>10, <1>11, SMTT(60) DEF SubDone

\* A node ends in a place.
LEMMA PlaceEnds ==
    ASSUME NEW e, NEW p, NEW b, NEW A, NEW W, NEW a, NEW B, Passed(e, p, b, A, W, a, B),
           NEW slot, slot \in Operand, SlotIn(a.insts, slot, Have(a, B)), NEW t, t = Place(a, Bool, slot),
           e.info[p].ty = Bool, ~Ends(e.info, p), ~IsBlock(e, p)
    PROVE  LPost(e, p, b, A, W, t, B)
<1> DEFINE res == [kind |-> "place", ty |-> Bool, opd |-> slot]
<1>1. Live(e, a, B, W)
  BY DEF Passed
<1>2. res \in LoweredExpr /\ res.kind = "place" /\ res.ty = Bool /\ res.opd = slot
  BY DEF LoweredExpr, Types
<1>3. t = [a EXCEPT !.res = res]
  BY DEF Place
<1> HIDE DEF res
<1>4. Stepped(e, a, B, W, t) /\ t.res = res /\ Have(t, B) = Have(a, B) /\ t.insts = a.insts
  BY <1>1, <1>2, <1>3, ResultStepped
<1>5. IsPlace(t, B)
  BY <1>2, <1>4 DEF IsPlace
<1>6. Passed(e, p, a, B, W, t, B)
  BY <1>1, <1>4, SteppedPassed
<1>7. Passed(e, p, b, A, W, t, B)
  BY <1>6, PassedJoin
<1>8. t.res.ty = e.info[p].ty /\ ~(e.body[p].op \in BlockOps)
  BY <1>2, <1>4 DEF IsBlock
<1> QED
  BY <1>5, <1>7, <1>8 DEF LPost, Yields

\* Err(()), with the blocks W waiting.
LEMMA StopEnds ==
    ASSUME NEW e, NEW p, NEW b, NEW A, NEW W, NEW a, NEW B, Since(e, p, b, A, a, B), Held(e, a, B, W), NEW t, t = Stop(a)
    PROVE  LPost(e, p, b, A, W, t, B)
<1> DEFINE no == FALSE
<1>1. no \in BOOLEAN /\ t = [a EXCEPT !.ok = no] /\ no = FALSE
  BY DEF Stop
<1> HIDE DEF no
<1>2. Held(e, t, B, W) /\ t.ok = no /\ Grown(e, a, B, t, B)
  BY <1>1, Resume
<1>3. Since(e, p, a, B, t, B)
  BY <1>2 DEF Grown
<1>4. Since(e, p, b, A, t, B)
  BY <1>3, SinceJoin
<1> QED
  BY <1>1, <1>2, <1>4 DEF LPost, Halted, Ended

IsIf(e, p) == e.body[p].op \in {"if", "ifelse"}

\* The arms of an if are lowered.
ArmsDone(e, p, b, A, W, H, x, B, ty) ==
  /\ Since(e, p, b, A, x.b, B) /\ Held(e, x.b, B, Joins(W, x.merge)) /\ x.merge \notin W /\ x.b.ok = TRUE
  /\ MergeOK(x.b.insts, B, H, x.merge, x.result, ty) /\ Have(b, A) \subseteq H
  /\ x.merge # NoBlock => ~Ends(e.info, p)
  /\ ty = e.info[p].ty

\* The end of an if.
LEMMA EndIfLowered ==
    ASSUME NEW e, NEW p, NEW b, NEW A, NEW W, NEW H, NEW x, NEW B, NEW ty, ArmsDone(e, p, b, A, W, H, x, B, ty), IsIf(e, p),
           NEW t, t = EndIf(x, ty)
    PROVE  LPost(e, p, b, A, W, t, B)
<1> DEFINE a == x.b
           merge == x.merge
           slot == x.result
           out == PositionAtEnd(a, merge)
<1>1. /\ Since(e, p, b, A, a, B) /\ Held(e, a, B, Joins(W, merge)) /\ merge \notin W /\ a.ok = TRUE
      /\ MergeOK(a.insts, B, H, merge, slot, ty) /\ Have(b, A) \subseteq H
      /\ merge # NoBlock => ~Ends(e.info, p)
      /\ ty = e.info[p].ty
  BY DEF ArmsDone
<1>2. /\ merge = NoBlock => t = Stop(a)
      /\ merge # NoBlock /\ slot = Void => t = Value(out, ty, Void)
      /\ merge # NoBlock /\ slot # Void => t = Place(out, ty, slot)
  BY DEF EndIf
<1>3. out = PositionAtEnd(a, merge) /\ ~IsBlock(e, p) /\ e.body[p].op # "x"
  BY DEF IsIf, IsBlock, BlockOps
<1> HIDE DEF a, merge, slot, out
<1>4. CASE merge = NoBlock
  <2>1. Held(e, a, B, W) /\ t = Stop(a)
    BY <1>1, <1>2, <1>4 DEF Joins
  <2> QED
    BY <1>1, <2>1, StopEnds
<1>5. CASE merge # NoBlock
  <2>1. Held(e, a, B, W \cup {merge}) /\ H \subseteq B[merge] /\ ~Ends(e.info, p)
    BY <1>1, <1>5 DEF Joins, MergeOK
  <2>2. Entered(e, a, B, W, merge, out)
    BY <1>1, <1>3, <2>1, EnterBlock, Zenon
  <2>3. Live(e, out, B, W) /\ B[merge] \subseteq Have(out, B) /\ out.insts = a.insts /\ Since(e, p, a, B, out, B)
    BY <2>2 DEF Entered, Grown
  <2>4. Since(e, p, b, A, out, B)
    BY <1>1, <2>3, SinceJoin
  <2>5. Passed(e, p, b, A, W, out, B)
    BY <1>1, <2>1, <2>3, <2>4 DEF Passed
  <2>6. CASE slot = Void
    <3>1. ty = Unit
      BY <1>1, <1>5, <2>6 DEF MergeOK
    <3>2. t = Value(out, Unit, Void)
      BY <1>2, <1>5, <2>6, <3>1
    <3>3. e.info[p].ty = Unit
      BY <1>1, <3>1
    <3> QED
      BY <1>3, <2>1, <2>5, <3>2, <3>3, UnitEnds
  <2>7. CASE slot # Void
    <3>1. ty = Bool /\ slot \in Operand /\ SlotIn(a.insts, slot, B[merge])
      BY <1>1, <1>5, <2>7 DEF MergeOK
    <3>2. t = Place(out, Bool, slot) /\ e.info[p].ty = Bool
      BY <1>1, <1>2, <1>5, <2>7, <3>1
    <3>3. SlotIn(out.insts, slot, Have(out, B))
      BY <2>3, <3>1 DEF SlotIn
    <3> QED
      BY <1>3, <2>1, <2>5, <3>1, <3>2, <3>3, PlaceEnds
  <2> QED
    BY <2>6, <2>7
<1> QED
  BY <1>4, <1>5

\* An if without else: both ways lead to the merge block m.
LEMMA OneArmLowered ==
    ASSUME NEW c, NEW e, NEW p, NEW a, NEW B, NEW W, Task(c, e, p, a, B, W), e.body[p].op = "if", ~Ends(e.info, e.body[p].sub[1]),
           NEW start, NEW C, NEW n, NEW m, Forked(e, a, B, W, start, C, n, m), NEW ty, ty = e.info[p].ty,
           NEW x, x = LowerBranch(c, e.body[p].sub[2], ty, start, n, m, Void)
    PROVE  \E D : ArmsDone(e, p, a, B, W, Have(a, B), x, D, ty)
<1> DEFINE j == e.body[p].sub[2]
           H == Have(a, B)
<1>1. Rule(e.body, e.result, e.info, p) /\ IsBody(e.body) /\ p \in DOMAIN e.body
  BY TaskRules
<1>2. e.info[p].ty = Unit /\ Is(e.info, j, Unit) /\ ~Ends(e.info, p)
  BY <1>1 DEF Rule, BranchRule
<1>3. Plain(e.body, p, 2)
  BY <1>1, OpArity DEF Plain, IsLoop
<1>4. /\ Held(e, start, C, (W \cup {n}) \cup {m}) /\ Grown(e, a, B, start, C) /\ start.ok = TRUE
      /\ n \in DOMAIN C /\ m \in DOMAIN C /\ C[n] = H /\ C[m] = H
      /\ n \notin W /\ m \notin W /\ n # m /\ n # 1 /\ m # 1 /\ n # NoBlock /\ m # NoBlock /\ m \in Nat
  BY DEF Forked
<1>5. Since(e, p, a, B, start, C)
  BY <1>4 DEF Grown
<1>6. H = Have(a, B) /\ Is(e.info, j, ty) /\ ty = Unit
  BY <1>2
<1>61. \A A : ArmsIn(e, start, A, W, n, H, m, Void, ty) /\ Since(e, p, a, B, start, A) => \E D : ArmsOut(e, p, j, start, A, W, H, m, x, D, ty)
  BY <1>3, <1>6, BranchLowered
<1> HIDE DEF j, H
<1>7. ArmsIn(e, start, C, W, n, H, m, Void, ty)
  <2>1. Joins(W, m) = W \cup {m} /\ Joins(W, m) \cup {n} = (W \cup {n}) \cup {m}
    BY <1>4 DEF Joins
  <2>2. MergeOK(start.insts, C, H, m, Void, ty)
    BY <1>4, <1>6 DEF MergeOK
  <2> QED
    BY <1>4, <2>1, <2>2 DEF ArmsIn
<1>8. PICK D : ArmsOut(e, p, j, start, C, W, H, m, x, D, ty)
  BY <1>5, <1>61, <1>7
<1>9. /\ Since(e, p, start, C, x.b, D) /\ Held(e, x.b, D, Joins(W, x.merge)) /\ x.merge \notin W /\ x.b.ok = TRUE
      /\ MergeOK(x.b.insts, D, H, x.merge, x.result, ty)
  BY <1>8, Zenon DEF ArmsOut
<1>10. Since(e, p, a, B, x.b, D)
  BY <1>5, <1>9, SinceJoin, ZenonT(60)
<1>11. ArmsDone(e, p, a, B, W, H, x, D, ty)
  BY <1>2, <1>6, <1>9, <1>10, Zenon DEF ArmsDone
<1> QED
  BY <1>6, <1>11

\* An if with else: the merge block is made by the first arm that comes to its end.
LEMMA TwoArmsLowered ==
    ASSUME NEW c, NEW e, NEW p, NEW a, NEW B, NEW W, Task(c, e, p, a, B, W), e.body[p].op = "ifelse", ~Ends(e.info, e.body[p].sub[1]),
           NEW start, NEW C, NEW n, NEW m, Forked(e, a, B, W, start, C, n, m), NEW ty, ty = e.info[p].ty,
           NEW then, then = LowerBranch(c, e.body[p].sub[2], ty, start, n, NoBlock, Void),
           NEW x, x = LowerBranch(c, e.body[p].sub[3], ty, then.b, m, then.merge, then.result)
    PROVE  \E D : ArmsDone(e, p, a, B, W, Have(a, B), x, D, ty)
<1> DEFINE i == e.body[p].sub[2]
           j == e.body[p].sub[3]
           H == Have(a, B)
           V == W \cup {m}
           mid == then.b
           merge == then.merge
           slot == then.result
<1>1. Rule(e.body, e.result, e.info, p) /\ IsBody(e.body) /\ p \in DOMAIN e.body /\ Live(e, a, B, W)
  BY TaskRules
<1>2. Is(e.info, i, ty) /\ Is(e.info, j, ty) /\ (Ends(e.info, p) => Ends(e.info, i) /\ Ends(e.info, j))
  BY <1>1 DEF Rule, BranchRule
<1>3. Plain(e.body, p, 2) /\ Plain(e.body, p, 3)
  BY <1>1, OpArity, SMTT(60) DEF Plain, IsLoop
<1>4. /\ Held(e, start, C, (W \cup {n}) \cup {m}) /\ Grown(e, a, B, start, C) /\ start.ok = TRUE
      /\ n \in DOMAIN C /\ m \in DOMAIN C /\ C[n] = H /\ C[m] = H
      /\ n \notin W /\ m \notin W /\ n # m /\ n # 1 /\ m # 1 /\ n # NoBlock /\ m # NoBlock /\ m \in Nat
  BY DEF Forked
<1>5. Since(e, p, a, B, start, C)
  BY <1>4 DEF Grown
<1>50. NoBlock \notin W
  <2>1. W \subseteq DOMAIN a.blocks /\ a \in Lowerers(e.body)
    BY <1>1, LiveFields, ZenonT(60)
  <2>2. a.blocks \in Seq(BasicBlock)
    BY <2>1, LowererFields, SMTT(60)
  <2>3. NoBlock \notin DOMAIN a.blocks
    BY <2>2 DEF NoBlock
  <2> QED
    BY <2>1, <2>3
<1>6. H = Have(a, B) /\ V = W \cup {m}
  BY SMTT(60)
<1>61. \A A : ArmsIn(e, start, A, V, n, H, NoBlock, Void, ty) /\ Since(e, p, a, B, start, A)
          => \E D : ArmsOut(e, p, i, start, A, V, H, NoBlock, then, D, ty)
  BY <1>2, <1>3, BranchLowered
<1>62. \A A : ArmsIn(e, mid, A, W, m, H, merge, slot, ty) /\ Since(e, p, a, B, mid, A)
          => \E D : ArmsOut(e, p, j, mid, A, W, H, merge, x, D, ty)
  BY <1>2, <1>3, BranchLowered, Zenon
<1>63. mid = then.b /\ merge = then.merge /\ slot = then.result
  BY SMTT(60)
<1> HIDE DEF i, j, H, V, mid, merge, slot
<1>7. ArmsIn(e, start, C, V, n, H, NoBlock, Void, ty)
  <2>1. Joins(V, NoBlock) = V /\ V \cup {n} = (W \cup {n}) \cup {m} /\ n \notin V /\ NoBlock \notin V
    BY <1>4, <1>50, <1>6 DEF Joins
  <2>2. MergeOK(start.insts, C, H, NoBlock, Void, ty)
    BY SMTT(60) DEF MergeOK
  <2> QED
    BY <1>4, <2>1, <2>2 DEF ArmsIn
<1>8. PICK D : ArmsOut(e, p, i, start, C, V, H, NoBlock, then, D, ty)
  BY <1>5, <1>61, <1>7
<1>9. /\ Since(e, p, start, C, mid, D) /\ Held(e, mid, D, Joins(V, merge)) /\ merge \notin V /\ mid.ok = TRUE
      /\ MergeOK(mid.insts, D, H, merge, slot, ty) /\ (merge # NoBlock => ~Ends(e.info, i))
  BY <1>8, <1>63, Zenon DEF ArmsOut
<1>10. Since(e, p, a, B, mid, D)
  BY <1>5, <1>9, SinceJoin, SMTT(60)
<1>11. ArmsIn(e, mid, D, W, m, H, merge, slot, ty)
  <2>1. Joins(W, merge) \cup {m} = Joins(V, merge) /\ m \notin Joins(W, merge) /\ merge \notin W
    BY <1>4, <1>6, <1>9, SMTT(60) DEF Joins
  <2>2. D[m] = H
    BY <1>4, <1>9 DEF Since, Wider
  <2> QED
    BY <1>9, <2>1, <2>2, SMTT(60) DEF ArmsIn
<1>12. PICK E : ArmsOut(e, p, j, mid, D, W, H, merge, x, E, ty)
  BY <1>10, <1>11, <1>62, Zenon
<1>13. /\ Since(e, p, mid, D, x.b, E) /\ Held(e, x.b, E, Joins(W, x.merge)) /\ x.merge \notin W /\ x.b.ok = TRUE
       /\ MergeOK(x.b.insts, E, H, x.merge, x.result, ty) /\ (x.merge # NoBlock => merge # NoBlock \/ ~Ends(e.info, j))
  BY <1>12, Zenon DEF ArmsOut
<1>14. Since(e, p, a, B, x.b, E)
  <2> DEFINE out == x.b
  <2>1. Since(e, p, mid, D, out, E)
    BY <1>13, Zenon
  <2> HIDE DEF out
  <2>2. Since(e, p, a, B, out, E)
    BY <1>10, <2>1, SinceJoin
  <2> QED
    BY <2>2, Zenon DEF out
<1>15. ArmsDone(e, p, a, B, W, H, x, E, ty)
  BY <1>2, <1>6, <1>9, <1>13, <1>14, Zenon DEF ArmsDone
<1> QED
  BY <1>6, <1>15, Zenon

\* The arms of an if, once its condition has branched.
ArmsOf(c, e, p, ty, start, n, m) ==
  IF e.body[p].op = "if" THEN LowerBranch(c, e.body[p].sub[2], ty, start, n, m, Void)
  ELSE LET then == LowerBranch(c, e.body[p].sub[2], ty, start, n, NoBlock, Void)
       IN LowerBranch(c, e.body[p].sub[3], ty, then.b, m, then.merge, then.result)

\* They are lowered.
LEMMA ArmsLowered ==
    ASSUME NEW c, NEW e, NEW p, NEW a, NEW B, NEW W, Task(c, e, p, a, B, W), IsIf(e, p), ~Ends(e.info, e.body[p].sub[1]),
           NEW start, NEW C, NEW n, NEW m, Forked(e, a, B, W, start, C, n, m), NEW ty, ty = e.info[p].ty,
           NEW x, x = ArmsOf(c, e, p, ty, start, n, m)
    PROVE  \E D : ArmsDone(e, p, a, B, W, Have(a, B), x, D, ty)
<1>1. CASE e.body[p].op = "if"
  <2>1. x = LowerBranch(c, e.body[p].sub[2], ty, start, n, m, Void)
    BY <1>1 DEF ArmsOf
  <2> QED
    BY <1>1, <2>1, OneArmLowered
<1>2. CASE e.body[p].op = "ifelse"
  <2> DEFINE then == LowerBranch(c, e.body[p].sub[2], ty, start, n, NoBlock, Void)
  <2>1. x = LowerBranch(c, e.body[p].sub[3], ty, then.b, m, then.merge, then.result)
    BY <1>2 DEF ArmsOf
  <2>2. then = LowerBranch(c, e.body[p].sub[2], ty, start, n, NoBlock, Void)
    OBVIOUS
  <2> HIDE DEF then
  <2> QED
    BY <1>2, <2>1, <2>2, TwoArmsLowered, ZenonT(60)
<1> QED
  BY <1>1, <1>2 DEF IsIf

\* if a { b } and if a { b } else { c }
LEMMA IfLowered ==
    ASSUME NEW c, NEW e, NEW p, NEW b, NEW A, NEW W, Task(c, e, p, b, A, W), IsIf(e, p), NEW t, t = LowerIf(c, p, b)
    PROVE  \E B : LPost(e, p, b, A, W, t, B)
<1> DEFINE one == e.body[p].sub[1]
           a == LowerValue(c, one, b)
           two == CreateBlock(CreateBlock(a))
           m == LastBlock(two)
           n == m - 1
           start == Terminate(two, CondBr(a.res.opd, n, m))
           ty == e.info[p].ty
           x == ArmsOf(c, e, p, ty, start, n, m)
<1>1. Rule(e.body, e.result, e.info, p) /\ Live(e, b, A, W) /\ c.info = e.info /\ c.body = e.body /\ IsBody(e.body) /\ p \in DOMAIN e.body
  BY TaskRules
<1>2. Is(e.info, one, Bool)
  BY <1>1 DEF Rule, BranchRule, IsIf
<1>3. t = IF a.ok THEN EndIf(x, ty) ELSE a
  <2>1. CASE e.body[p].op = "if"
    BY <1>1, <2>1 DEF LowerIf, Then, Child, ArmsOf
  <2>2. CASE e.body[p].op = "ifelse"
    BY <1>1, <2>2 DEF LowerIf, Then, Child, ArmsOf
  <2> QED
    BY <2>1, <2>2 DEF IsIf
<1>4. Values(c, e, p, 1, b, a)
  BY <1>1, OpArity DEF Values, Plain, IsLoop, IsIf
<1>5. \E B : ValueDone(e, p, one, b, A, W, a, B)
  BY <1>4, ValueLowered
<1>6. two = CreateBlock(CreateBlock(a)) /\ m = LastBlock(two) /\ n = m - 1 /\ start = Terminate(two, CondBr(a.res.opd, n, m))
      /\ ty = e.info[p].ty /\ x = ArmsOf(c, e, p, ty, start, n, m) /\ one = e.body[p].sub[1]
  OBVIOUS
<1> HIDE DEF one, a, two, m, n, start, ty, x
<1>7. PICK B : ValueDone(e, p, one, b, A, W, a, B)
  BY <1>5
<1>8. CASE Halted(e, p, b, A, W, a, B)
  BY <1>3, <1>8 DEF LPost, Halted, Ended
<1>9. CASE Passed(e, p, b, A, W, a, B) /\ ~Ends(e.info, one) /\ IsValue(a, B) /\ IsTyped(e, one, a)
  <2>1. Live(e, a, B, W) /\ a.ok = TRUE
    BY <1>9 DEF Passed, Live
  <2>2. a.res.ty = Bool
    BY <1>2, <1>9 DEF IsTyped, Is
  <2>3. ValueIn(a.insts, a.res.opd, Have(a, B)) /\ a.res.opd \in Operand
    BY <1>9, <2>1, <2>2, BoolValue
  <2>4. Task(c, e, p, a, B, W)
    BY <1>9, TaskPassed
  <2>5. \E C : Forked(e, a, B, W, start, C, n, m)
    BY <1>6, <2>1, <2>3, Fork
  <2>6. PICK C : Forked(e, a, B, W, start, C, n, m)
    BY <2>5
  <2>7. PICK D : ArmsDone(e, p, a, B, W, Have(a, B), x, D, ty)
    BY <1>6, <1>9, <2>4, <2>6, ArmsLowered
  <2>8. t = EndIf(x, ty)
    BY <1>3, <2>1
  <2>9. LPost(e, p, a, B, W, t, D)
    BY <2>7, <2>8, EndIfLowered
  <2>10. LPost(e, p, b, A, W, t, D)
    BY <1>9, <2>9, PassedJoin DEF LPost
  <2> QED
    BY <2>10
<1> QED
  BY <1>7, <1>8, <1>9 DEF ValueDone

\* The state with another record for loop q.
LoopAs(f, s, u, q, x) ==
  /\ u \in Lowerers(f) /\ q \in DOMAIN s.loops /\ DOMAIN u.loops = DOMAIN s.loops /\ u.loops[q] = x
  /\ \A p \in DOMAIN s.loops : p # q => u.loops[p] = s.loops[p]
  /\ u.insts = s.insts /\ u.blocks = s.blocks /\ u.fault = s.fault /\ u.cur = s.cur /\ u.ok = s.ok /\ u.locals = s.locals /\ u.res = s.res

\* How it comes about.
LEMMA LoopReplaced ==
    ASSUME NEW f, NEW s \in Lowerers(f), NEW q \in DOMAIN s.loops, NEW x \in LoopInfo, NEW loops, loops = [s.loops EXCEPT ![q] = x],
           NEW u, u = [s EXCEPT !.loops = loops]
    PROVE  LoopAs(f, s, u, q, x)
<1>1. s.loops \in [0 .. Len(f) -> LoopInfo] /\ DOMAIN s.loops = 0 .. Len(f)
  BY LowererFields
<1>2. /\ loops \in [0 .. Len(f) -> LoopInfo] /\ loops[q] = x /\ DOMAIN loops = DOMAIN s.loops
      /\ \A p \in DOMAIN s.loops : p # q => loops[p] = s.loops[p]
  BY <1>1
<1>3. /\ u \in Lowerers(f) /\ u.loops = loops /\ u.insts = s.insts /\ u.blocks = s.blocks /\ u.fault = s.fault /\ u.cur = s.cur
      /\ u.ok = s.ok /\ u.locals = s.locals /\ u.res = s.res
  BY <1>2, Zenon DEF Lowerers
<1> QED
  BY <1>2, <1>3 DEF LoopAs

\* The code is as good as it was.
LEMMA CodeKept ==
    ASSUME NEW e, NEW s, NEW A, NEW u, NEW q, NEW x, LoopAs(e.body, s, u, q, x), CodeGood(e, s, A)
    PROVE  CodeGood(e, u, A)
BY DEF CodeGood, LoopAs

\* A loop gets its first blocks, or an exit: a block that waited, or none.
LoopSet(e, s, A, P, q, x) ==
  /\ Held(e, s, A, P) /\ q \in DOMAIN s.loops /\ (s.loops[q].open = TRUE => s.loops[q].exit = NoBlock)
  /\ x \in LoopInfo /\ x.open = TRUE /\ LoopGood(e, s.insts, A, q, x) /\ (x.exit = NoBlock \/ x.exit \in P)

\* The exit is no longer among the blocks that wait.
LEMMA LoopSetGood ==
    ASSUME NEW e, NEW s, NEW A, NEW P, NEW q, NEW x, LoopSet(e, s, A, P, q, x), NEW u, LoopAs(e.body, s, u, q, x)
    PROVE  Held(e, u, A, P \ {x.exit})
<1> DEFINE new == x.exit
<1>1. /\ CodeGood(e, s, A) /\ LoopsGood(e, s, A) /\ ExitsApart(s) /\ Holding(s, P) /\ q \in DOMAIN s.loops
      /\ (s.loops[q].open = TRUE => s.loops[q].exit = NoBlock)
      /\ x.open = TRUE /\ LoopGood(e, s.insts, A, q, x) /\ (new = NoBlock \/ new \in P)
  BY DEF LoopSet, Held
<1>2. /\ DOMAIN u.loops = DOMAIN s.loops /\ u.loops[q] = x /\ \A p \in DOMAIN s.loops : p # q => u.loops[p] = s.loops[p]
      /\ u.insts = s.insts /\ u.blocks = s.blocks /\ s \in Lowerers(e.body)
  BY <1>1 DEF LoopAs, CodeGood
<1>3. CodeGood(e, u, A)
  BY <1>1, CodeKept
<1>4. LoopsGood(e, u, A)
  BY <1>1, <1>2 DEF LoopsGood
<1>5. /\ P \subseteq DOMAIN s.blocks
      /\ \A j \in DOMAIN s.blocks : s.blocks[j].term = NoTerminator <=> j \in P \/ IsExit(s, j)
      /\ \A j \in P : ~IsExit(s, j)
  BY <1>1 DEF Holding
<1>6. NoBlock \notin DOMAIN s.blocks
  <2>1. s.blocks \in Seq(BasicBlock)
    BY <1>2, LowererFields
  <2> QED
    BY <2>1 DEF NoBlock
<1> HIDE DEF new
<1>7. new = x.exit
  BY DEF new
<1>8. \A j \in DOMAIN s.blocks : IsExit(u, j) <=> j = new \/ IsExit(s, j)
  BY <1>1, <1>2, <1>6, <1>7 DEF IsExit
<1>9. ExitsApart(u)
  <2> SUFFICES ASSUME NEW p \in DOMAIN s.loops, NEW o \in DOMAIN s.loops, p # o, u.loops[p].open = TRUE, u.loops[o].open = TRUE,
                      u.loops[p].exit # NoBlock
               PROVE  u.loops[p].exit # u.loops[o].exit
    BY <1>2, Zenon DEF ExitsApart
  <2>1. CASE p = q
    <3>1. new \in P /\ u.loops[p].exit = new /\ u.loops[o] = s.loops[o]
      BY <1>1, <1>2, <1>7, <2>1
    <3>2. ~IsExit(s, new)
      BY <1>5, <3>1
    <3> QED
      BY <3>1, <3>2 DEF IsExit
  <2>2. CASE o = q
    <3>1. u.loops[o].exit = new /\ u.loops[p] = s.loops[p]
      BY <1>2, <1>7, <2>2
    <3>2. new \in P => ~IsExit(s, new)
      BY <1>5
    <3> QED
      BY <1>1, <3>1, <3>2 DEF IsExit
  <2>3. CASE p # q /\ o # q
    BY <1>1, <1>2, <2>3 DEF ExitsApart
  <2> QED
    BY <2>1, <2>2, <2>3
<1>10. Holding(u, P \ {new})
  <2>1. new # NoBlock => new \in P
    BY <1>1
  <2>2. \A j \in DOMAIN u.blocks : u.blocks[j].term = NoTerminator <=> j \in P \ {new} \/ IsExit(u, j)
    BY <1>2, <1>5, <1>6, <1>8, <2>1
  <2>3. \A j \in P \ {new} : ~IsExit(u, j)
    BY <1>5, <1>8
  <2> QED
    BY <1>2, <1>5, <2>2, <2>3 DEF Holding
<1> QED
  BY <1>3, <1>4, <1>7, <1>9, <1>10 DEF Held

\* A loop is closed.
LoopEnds(e, s, A, P, q, x) == Held(e, s, A, P) /\ q \in DOMAIN s.loops /\ s.loops[q].open = TRUE /\ x.open = FALSE
ClosedAs(e, u, A, P, way) ==
  /\ way = NoBlock => Held(e, u, A, P)
  /\ way # NoBlock => Held(e, u, A, P \cup {way}) /\ way \notin P

\* Its exit, if it has one, is the next block to go on in.
LEMMA LoopClosedGood ==
    ASSUME NEW e, NEW s, NEW A, NEW P, NEW q, NEW x, LoopEnds(e, s, A, P, q, x), NEW u, LoopAs(e.body, s, u, q, x),
           NEW way, way = s.loops[q].exit
    PROVE  ClosedAs(e, u, A, P, way)
<1>1. /\ CodeGood(e, s, A) /\ LoopsGood(e, s, A) /\ ExitsApart(s) /\ Holding(s, P) /\ q \in DOMAIN s.loops /\ s.loops[q].open = TRUE
      /\ x.open = FALSE
  <2>1. Held(e, s, A, P) /\ q \in DOMAIN s.loops /\ s.loops[q].open = TRUE /\ x.open = FALSE
    BY DEF LoopEnds
  <2> QED
    BY <2>1 DEF Held
<1>2. /\ DOMAIN u.loops = DOMAIN s.loops /\ u.loops[q] = x /\ \A p \in DOMAIN s.loops : p # q => u.loops[p] = s.loops[p]
      /\ u.insts = s.insts /\ u.blocks = s.blocks /\ s \in Lowerers(e.body) /\ DOMAIN A = DOMAIN s.blocks
  BY <1>1 DEF LoopAs, CodeGood
<1>3. CodeGood(e, u, A)
  BY <1>1, CodeKept
<1>4. LoopsGood(e, u, A)
  BY <1>1, <1>2 DEF LoopsGood
<1>5. /\ P \subseteq DOMAIN s.blocks
      /\ \A j \in DOMAIN s.blocks : s.blocks[j].term = NoTerminator <=> j \in P \/ IsExit(s, j)
      /\ \A j \in P : ~IsExit(s, j)
  BY <1>1 DEF Holding
<1>6. NoBlock \notin DOMAIN s.blocks
  <2>1. s.blocks \in Seq(BasicBlock)
    BY <1>2, LowererFields
  <2> QED
    BY <2>1 DEF NoBlock
<1>7. ExitsApart(u)
  BY <1>1, <1>2 DEF ExitsApart
<1>8. \A j : IsExit(s, j) <=> j = way \/ IsExit(u, j)
  BY <1>1, <1>2 DEF IsExit
<1>9. way # NoBlock => ~IsExit(u, way)
  BY <1>1, <1>2 DEF IsExit, ExitsApart
<1>10. ASSUME way = NoBlock PROVE ClosedAs(e, u, A, P, way)
  <2>1. Holding(u, P)
    BY <1>2, <1>5, <1>6, <1>8, <1>10 DEF Holding
  <2> QED
    BY <1>3, <1>4, <1>7, <1>10, <2>1 DEF Held, ClosedAs
<1>11. ASSUME way # NoBlock PROVE ClosedAs(e, u, A, P, way)
  <2>1. way \notin P /\ way \in DOMAIN s.blocks
    <3>1. IsExit(s, way)
      BY <1>8
    <3>2. LoopGood(e, s.insts, A, q, s.loops[q])
      BY <1>1 DEF LoopsGood
    <3>3. way \in DOMAIN A
      BY <1>11, <3>2 DEF LoopGood
    <3> QED
      BY <1>2, <1>5, <3>1, <3>3
  <2>2. Holding(u, P \cup {way})
    BY <1>2, <1>5, <1>8, <1>9, <1>11, <2>1 DEF Holding
  <2> QED
    BY <1>3, <1>4, <1>7, <1>11, <2>1, <2>2 DEF Held, ClosedAs
<1> QED
  BY <1>10, <1>11

\* The current block ends in x, and lowering stops.
LEMMA CloseEnds ==
    ASSUME NEW e, NEW p, NEW b, NEW A, NEW W, NEW a, NEW B, Passed(e, p, b, A, W, a, B), NEW x, Closing(e, a, B, x),
           NEW t, t = Stop(Terminate(a, x))
    PROVE  LPost(e, p, b, A, W, t, B)
<1> DEFINE P == W \cup {a.cur}
           u == Terminate(a, x)
<1>1. Held(e, a, B, P) /\ a.cur \in P /\ a.cur \notin W /\ a \in Lowerers(e.body)
  BY LiveFields, Zenon DEF Passed
<1>2. P \ {a.cur} = W /\ u = Terminate(a, x) /\ t = Stop(u)
  BY <1>1
<1> HIDE DEF P, u
<1>3. Held(e, u, B, P \ {a.cur}) /\ TerminatedAs(a, B, u)
  BY <1>1, <1>2, TerminateGood
<1>4. Since(e, p, a, B, u, B)
  <2>1. Ext(a.insts, a.insts)
    BY <1>1, LowererFields DEF Ext
  <2>2. u.insts = a.insts /\ u.loops = a.loops /\ u.locals = a.locals
    BY <1>3 DEF TerminatedAs, Rest
  <2> QED
    BY <2>1, <2>2 DEF Since, Wider, SameLoops, SameLocals
<1>5. Since(e, p, b, A, u, B)
  <2>1. Since(e, p, b, A, a, B)
    BY DEF Passed
  <2> QED
    BY <1>4, <2>1, SinceJoin
<1>6. Held(e, u, B, W)
  BY <1>2, <1>3
<1> QED
  BY <1>2, <1>5, <1>6, StopEnds

IsReturn(e, p) == e.body[p].op \in {"return", "returnv"}

\* A ret fits the function.
LEMMA RetCloses ==
    ASSUME NEW e, NEW b, NEW A, NEW o \in Operand, (e.result = Unit /\ o = Void) \/ (e.result = Bool /\ ValueIn(b.insts, o, Have(b, A)))
    PROVE  Closing(e, b, A, Ret(o))
<1> DEFINE x == Ret(o)
<1>1. x \in Terminator /\ x # NoTerminator /\ x.k = "ret" /\ x.opd = o
  BY DEF Ret, Terminator, NoTerminator
<1> HIDE DEF x
<1>2. Closing(e, b, A, x)
  BY <1>1 DEF Closing, TermOK
<1> QED
  BY <1>2 DEF x

\* return and return a
LEMMA ReturnLowered ==
    ASSUME NEW c, NEW e, NEW p, NEW b, NEW A, NEW W, Task(c, e, p, b, A, W), IsReturn(e, p), NEW t, t = LowerReturn(c, p, b)
    PROVE  \E B : LPost(e, p, b, A, W, t, B)
<1>1. Rule(e.body, e.result, e.info, p) /\ Live(e, b, A, W) /\ c.info = e.info /\ c.body = e.body /\ IsBody(e.body) /\ p \in DOMAIN e.body
  BY TaskRules
<1>2. CASE e.body[p].op = "return"
  <2>1. e.result = Unit /\ Void \in Operand
    BY <1>1, <1>2 DEF Rule, JumpRule, Void, Operand
  <2>2. Closing(e, b, A, Ret(Void))
    BY <2>1, RetCloses
  <2>3. t = Stop(Terminate(b, Ret(Void)))
    BY <1>1, <1>2 DEF LowerReturn
  <2>4. Passed(e, p, b, A, W, b, A)
    BY <1>1, PassedSelf
  <2> QED
    BY <2>2, <2>3, <2>4, CloseEnds
<1>3. CASE e.body[p].op = "returnv"
  <2> DEFINE one == e.body[p].sub[1]
             a == LowerValue(c, one, b)
  <2>1. Is(e.info, one, e.result)
    BY <1>1, <1>3 DEF Rule, JumpRule
  <2>2. t = IF a.ok THEN Stop(Terminate(a, Ret(a.res.opd))) ELSE a
    BY <1>1, <1>3 DEF LowerReturn, Then, Child
  <2>3. Values(c, e, p, 1, b, a)
    BY <1>1, <1>3, OpArity DEF Values, Plain, IsLoop
  <2>4. \E B : ValueDone(e, p, one, b, A, W, a, B)
    BY <2>3, ValueLowered
  <2> HIDE DEF one, a
  <2>5. PICK B : ValueDone(e, p, one, b, A, W, a, B)
    BY <2>4
  <2>6. CASE Halted(e, p, b, A, W, a, B)
    BY <2>2, <2>6 DEF LPost, Halted, Ended
  <2>7. CASE Passed(e, p, b, A, W, a, B) /\ ~Ends(e.info, one) /\ IsValue(a, B) /\ IsTyped(e, one, a)
    <3> DEFINE o == a.res.opd
    <3>1. Live(e, a, B, W) /\ a.ok = TRUE /\ a.res.ty = e.result
      BY <2>1, <2>7 DEF Passed, Live, IsTyped, Is
    <3>2. o \in Operand
      <4>1. a \in Lowerers(e.body)
        BY <3>1, LiveFields, Zenon
      <4> QED
        BY <4>1, LowererFields
    <3>3. (e.result = Unit /\ o = Void) \/ (e.result = Bool /\ ValueIn(a.insts, o, Have(a, B)))
      BY <2>7, <3>1 DEF IsValue
    <3>4. t = Stop(Terminate(a, Ret(o)))
      BY <2>2, <3>1
    <3> HIDE DEF o
    <3>5. Closing(e, a, B, Ret(o))
      BY <3>2, <3>3, RetCloses, SMTT(60)
    <3> QED
      BY <2>7, <3>4, <3>5, CloseEnds
  <2> QED
    BY <2>5, <2>6, <2>7 DEF ValueDone
<1> QED
  BY <1>2, <1>3 DEF IsReturn

IsJump(e, p) == e.body[p].op \in {"break", "breakv", "continue"}

\* The loop a jump refers to is open.
JumpsTo(e, b, A, q) ==
  /\ q \in DOMAIN b.loops /\ q \in DOMAIN e.body /\ IsLoop(e.body, q) /\ b.loops[q].open = TRUE
  /\ LoopGood(e, b.insts, A, q, b.loops[q]) /\ A[b.loops[q].entry] \subseteq Have(b, A)

\* As the checker found it.
LEMMA JumpOpen ==
    ASSUME NEW c, NEW e, NEW p, NEW b, NEW A, NEW W, Task(c, e, p, b, A, W), IsJump(e, p), NEW q, q = e.info[p].jump
    PROVE  JumpsTo(e, b, A, q)
<1>1. Rule(e.body, e.result, e.info, p) /\ Live(e, b, A, W) /\ IsBody(e.body) /\ p \in DOMAIN e.body
  BY TaskRules, SMTT(60)
<1>2. q \in DOMAIN e.body /\ IsLoop(e.body, q) /\ Inside(e.body, q, p)
  BY <1>1 DEF Rule, JumpRule, IsJump, IsLoop
<1>3. q \in DOMAIN b.loops
  <2>1. b \in Lowerers(e.body)
    BY <1>1, LiveFields, Zenon
  <2>2. DOMAIN b.loops = 0 .. Len(e.body)
    BY <2>1, LowererFields
  <2>3. q \in 1 .. Len(e.body)
    BY <1>1, <1>2 DEF IsBody
  <2> QED
    BY <2>2, <2>3
<1>4. Ctx(e, p, b, A) /\ Held(e, b, A, W \cup {b.cur})
  BY <1>1, SMTT(60) DEF Task, Live
<1>5. b.loops[q].open = TRUE /\ A[b.loops[q].entry] \subseteq Have(b, A)
  BY <1>2, <1>3, <1>4 DEF Ctx
<1>6. LoopGood(e, b.insts, A, q, b.loops[q])
  BY <1>3, <1>4, <1>5 DEF Held, LoopsGood
<1> QED
  BY <1>2, <1>3, <1>5, <1>6 DEF JumpsTo

\* A jump to a block that needs no more than there is here, and the end.
LEMMA JumpEnds ==
    ASSUME NEW e, NEW p, NEW b, NEW A, NEW W, NEW a, NEW B, Passed(e, p, b, A, W, a, B), NEW x, x \in Nat, Target(B, Have(a, B), x),
           NEW t, t = Stop(Terminate(a, Br(x)))
    PROVE  LPost(e, p, b, A, W, t, B)
<1> DEFINE u == Terminate(a, Br(x))
<1>1. Live(e, a, B, W) /\ Since(e, p, b, A, a, B)
  BY DEF Passed
<1>2. u = Terminate(a, Br(x)) /\ t = Stop(u)
  OBVIOUS
<1> HIDE DEF u
<1>3. Held(e, u, B, W) /\ Grown(e, a, B, u, B)
  BY <1>1, <1>2, JumpGood
<1>4. Since(e, p, a, B, u, B)
  BY <1>3 DEF Grown
<1>5. Since(e, p, b, A, u, B)
  BY <1>1, <1>4, SinceJoin
<1> QED
  BY <1>2, <1>3, <1>5, StopEnds

\* continue
LEMMA ContinueLowered ==
    ASSUME NEW c, NEW e, NEW p, NEW b, NEW A, NEW W, Task(c, e, p, b, A, W), e.body[p].op = "continue", NEW t, t = LowerContinue(c, p, b)
    PROVE  \E B : LPost(e, p, b, A, W, t, B)
<1> DEFINE q == e.info[p].jump
           x == b.loops[q].entry
<1>1. Live(e, b, A, W) /\ c.info = e.info
  BY TaskRules
<1>2. IsJump(e, p) /\ q = e.info[p].jump /\ x = b.loops[q].entry
  BY DEF IsJump
<1>3. t = IF b.loops[q].open THEN Stop(Terminate(b, Br(x))) ELSE Stop(Require(b, FALSE))
  BY <1>1 DEF LowerContinue
<1> HIDE DEF q, x
<1>4. JumpsTo(e, b, A, q)
  BY <1>2, JumpOpen, SMTT(60)
<1>5. q \in DOMAIN b.loops /\ b.loops[q].open = TRUE /\ LoopGood(e, b.insts, A, q, b.loops[q]) /\ A[x] \subseteq Have(b, A)
  BY <1>2, <1>4 DEF JumpsTo
<1>6. x \in DOMAIN A /\ x # 1 /\ x \in Nat
  <2>1. b \in Lowerers(e.body)
    BY <1>1, LiveFields, ZenonT(60)
  <2>2. x \in Nat
    BY <1>2, <1>5, <2>1, LoopFields
  <2> QED
    BY <1>2, <1>5, <2>2, Zenon DEF LoopGood
<1>7. Target(A, Have(b, A), x)
  BY <1>5, <1>6 DEF Target
<1>8. t = Stop(Terminate(b, Br(x)))
  BY <1>3, <1>5, Zenon
<1>9. Passed(e, p, b, A, W, b, A)
  BY <1>1, PassedSelf
<1> QED
  BY <1>6, <1>7, <1>8, <1>9, JumpEnds

\* A state with other loops.
WithLoops(b, loops, u) == u = [b EXCEPT !.loops = loops]

\* A slot and the loops do not touch each other.
LEMMA AllocaLoops ==
    ASSUME NEW f, NEW n, n \in Lowerers(f), 1 \in DOMAIN n.blocks, NEW loops, loops \in [0 .. Len(f) -> LoopInfo],
           NEW u, WithLoops(n, loops, u), NEW v, v = AllocaInEntry(n), NEW w, w = AllocaInEntry(u)
    PROVE  WithLoops(v, loops, w)
<1> DEFINE insts == Append(n.insts, Instruction("alloca", Void, Void))
           old == n.blocks[1]
           blk == [old EXCEPT !.insts = <<Len(n.insts) + 1>> \o old.insts]
           blocks == [n.blocks EXCEPT ![1] = blk]
           m == [n EXCEPT !.insts = insts, !.blocks = blocks]
<1>1. u \in Lowerers(f) /\ u.insts = n.insts /\ u.blocks = n.blocks
  BY Zenon DEF Lowerers, WithLoops
<1>2. AllocaInEntry(n) = m
  BY DEF AllocaInEntry, Lowerers
<1>3. AllocaInEntry(u) = [u EXCEPT !.insts = insts, !.blocks = blocks]
  <2>1. AllocaInEntry(u) = [u EXCEPT !.insts = Append(u.insts, Instruction("alloca", Void, Void)),
                                     !.blocks = [u.blocks EXCEPT ![1] = [u.blocks[1] EXCEPT !.insts = <<Len(u.insts) + 1>> \o u.blocks[1].insts]]]
    BY <1>1, Zenon DEF AllocaInEntry, Lowerers
  <2> QED
    BY <1>1, <2>1
<1> HIDE DEF insts, old, blk, blocks
<1>4. [u EXCEPT !.insts = insts, !.blocks = blocks] = [m EXCEPT !.loops = loops]
  BY Zenon DEF Lowerers, WithLoops
<1> QED
  BY <1>2, <1>3, <1>4 DEF WithLoops

\* WithSlot, when there is no slot yet.
LEMMA SlotSet ==
    ASSUME NEW u, NEW q, u.loops[q].result = Void, NEW slots, slots = AllocaInEntry(u),
           NEW x, x = [slots.loops[q] EXCEPT !.result = LastInst(slots)], NEW loops, loops = [slots.loops EXCEPT ![q] = x]
    PROVE  WithLoops(slots, loops, WithSlot(u, q))
BY DEF WithSlot, WithLoops

\* Only the last loops count.
LEMMA LoopsTwice ==
    ASSUME NEW f, NEW m, m \in Lowerers(f), NEW old, NEW u, WithLoops(m, old, u), NEW loops, NEW v, WithLoops(u, loops, v),
           NEW w, WithLoops(m, loops, w)
    PROVE  v = w
BY Zenon DEF Lowerers, WithLoops

\* As in any function.
LEMMA ExceptTwice ==
    ASSUME NEW S, NEW T, NEW g, g \in [S -> T], NEW q, q \in S, NEW y, NEW x, NEW h, h = [g EXCEPT ![q] = y]
    PROVE  [h EXCEPT ![q] = x] = [g EXCEPT ![q] = x]
BY Zenon

\* A result stays while lowering goes on.
LEMMA ResultKept ==
    ASSUME NEW e, NEW p, NEW b, NEW A, NEW W, NEW t, NEW B, Passed(e, p, b, A, W, t, B), t.res = b.res, HasResult(b, A)
    PROVE  HasResult(t, B)
<1>1. /\ ValueIn(b.insts, b.res.opd, Have(b, A)) => ValueIn(t.insts, b.res.opd, Have(t, B))
      /\ SlotIn(b.insts, b.res.opd, Have(b, A)) => SlotIn(t.insts, b.res.opd, Have(t, B))
  BY ValuePassed
<1> QED
  BY <1>1 DEF HasResult, IsValue, IsPlace

\* A break out of loop q, whose type is ty.
Leaves(e, b, A, q, ty) ==
  /\ JumpsTo(e, b, A, q) /\ ty = e.info[q].ty /\ (e.body[q].op = "loop" => ~Ends(e.info, q))
  /\ ty = Unit \/ (ty = Bool /\ HasResult(b, A) /\ b.res.ty = Bool)

\* The loop has an exit, and a result slot if it has a result.
ExitMade(e, p, b, A, W, s, B, q) ==
  /\ Passed(e, p, b, A, W, s, B) /\ s.res = b.res /\ JumpsTo(e, s, B, q) /\ s.loops[q].exit # NoBlock

ExitOf(b, q, ty) == IF ty = Unit THEN WithExit(b, q) ELSE WithSlot(WithExit(b, q), q)

\* It has them already.
LEMMA ExitThere ==
    ASSUME NEW e, NEW p, NEW b, NEW A, NEW W, Live(e, b, A, W), NEW q, NEW ty, Leaves(e, b, A, q, ty), b.loops[q].exit # NoBlock
    PROVE  ExitMade(e, p, b, A, W, ExitOf(b, q, ty), A, q)
<1>1. JumpsTo(e, b, A, q) /\ LoopGood(e, b.insts, A, q, b.loops[q]) /\ ty = e.info[q].ty
  BY DEF Leaves, JumpsTo
<1>2. b.loops[q].result = Void => ty = Unit
  BY <1>1 DEF LoopGood
<1>3. ExitOf(b, q, ty) = b
  BY <1>2 DEF ExitOf, WithExit, WithSlot
<1>4. Passed(e, p, b, A, W, b, A)
  BY PassedSelf
<1> QED
  BY <1>1, <1>3, <1>4 DEF ExitMade

\* Setting the exit and the result of a loop.
LEMMA ExitSet ==
    ASSUME NEW e, NEW p, NEW m, NEW B, NEW W, NEW new, Live(e, m, B, W \cup {new}), new \notin W, new \in DOMAIN B, new # 1, new # NoBlock, new \in Nat,
           NEW q, JumpsTo(e, m, B, q), m.loops[q].exit = NoBlock,
           NEW x, x \in LoopInfo, x.open = TRUE, x.entry = m.loops[q].entry, x.exit = new, LoopGood(e, m.insts, B, q, x),
           NEW s, LoopAs(e.body, m, s, q, x)
    PROVE  ExitMade(e, p, m, B, W, s, B, q)
<1> DEFINE P == (W \cup {new}) \cup {m.cur}
<1>1. Held(e, m, B, P) /\ m.cur \notin W \cup {new} /\ m.ok = TRUE /\ m \in Lowerers(e.body)
  BY LiveFields, Zenon
<1>2. P \ {new} = W \cup {m.cur}
  BY <1>1
<1>20. new \in P
  OBVIOUS
<1> HIDE DEF P
<1>3. q \in DOMAIN m.loops /\ q \in DOMAIN e.body /\ IsLoop(e.body, q) /\ m.loops[q].open = TRUE /\ B[m.loops[q].entry] \subseteq Have(m, B)
  BY DEF JumpsTo
<1>4. LoopSet(e, m, B, P, q, x)
  BY <1>1, <1>20, <1>3 DEF LoopSet
<1>5. Held(e, s, B, P \ {new})
  BY <1>4, LoopSetGood
<1>6. /\ s.loops[q] = x /\ DOMAIN s.loops = DOMAIN m.loops /\ \A o \in DOMAIN m.loops : o # q => s.loops[o] = m.loops[o]
      /\ s.insts = m.insts /\ s.blocks = m.blocks /\ s.cur = m.cur /\ s.ok = m.ok /\ s.locals = m.locals /\ s.res = m.res
  BY DEF LoopAs
<1>7. Live(e, s, B, W) /\ Have(s, B) = Have(m, B)
  BY <1>1, <1>2, <1>5, <1>6 DEF Live, Have
<1>8. Since(e, p, m, B, s, B)
  <2>1. Ext(m.insts, s.insts)
    BY <1>1, <1>6, LowererFields DEF Ext
  <2>2. SameLoops(m, s)
    BY <1>3, <1>6, Zenon DEF SameLoops
  <2> QED
    BY <1>6, <2>1, <2>2 DEF Since, Wider, SameLocals
<1>9. Passed(e, p, m, B, W, s, B)
  BY <1>7, <1>8 DEF Passed
<1>10. JumpsTo(e, s, B, q)
  BY <1>3, <1>6, <1>7 DEF JumpsTo
<1> QED
  BY <1>6, <1>9, <1>10 DEF ExitMade

\* A loop stays open.
LEMMA JumpsKept ==
    ASSUME NEW e, NEW p, NEW b, NEW A, NEW W, NEW t, NEW B, Passed(e, p, b, A, W, t, B), NEW q, JumpsTo(e, b, A, q), t.loops = b.loops
    PROVE  JumpsTo(e, t, B, q) /\ B[b.loops[q].entry] = A[b.loops[q].entry]
<1>1. Ext(b.insts, t.insts) /\ Wider(A, B) /\ Have(b, A) \subseteq Have(t, B)
  BY DEF Passed, Since
<1>2. /\ q \in DOMAIN b.loops /\ q \in DOMAIN e.body /\ IsLoop(e.body, q) /\ b.loops[q].open = TRUE
      /\ LoopGood(e, b.insts, A, q, b.loops[q]) /\ A[b.loops[q].entry] \subseteq Have(b, A)
  BY DEF JumpsTo
<1>3. LoopGood(e, t.insts, B, q, b.loops[q])
  BY <1>1, <1>2, LoopStays
<1>4. b.loops[q].entry \in DOMAIN A
  BY <1>2 DEF LoopGood
<1>5. B[b.loops[q].entry] = A[b.loops[q].entry]
  BY <1>1, <1>4 DEF Wider
<1> QED
  BY <1>1, <1>2, <1>3, <1>5 DEF JumpsTo

\* The first break out of a loop without a result.
LEMMA ExitNewUnit ==
    ASSUME NEW e, NEW p, NEW b, NEW A, NEW W, Live(e, b, A, W), NEW q, NEW ty, Leaves(e, b, A, q, ty), b.loops[q].exit = NoBlock, ty = Unit
    PROVE  \E B : ExitMade(e, p, b, A, W, ExitOf(b, q, ty), B, q)
<1> DEFINE entry == b.loops[q].entry
           G == A[entry]
           n == CreateBlock(b)
           new == LastBlock(n)
           x == [n.loops[q] EXCEPT !.exit = new]
           loops == [n.loops EXCEPT ![q] = x]
           s == [n EXCEPT !.loops = loops]
<1>1. /\ JumpsTo(e, b, A, q) /\ LoopGood(e, b.insts, A, q, b.loops[q]) /\ e.info[q].ty = Unit /\ q \in DOMAIN b.loops
      /\ b.loops[q].open = TRUE /\ (e.body[q].op = "loop" => ~Ends(e.info, q))
  BY DEF Leaves, JumpsTo
<1>2. b.loops[q].result = Void /\ entry \in DOMAIN A /\ entry # 1 /\ q \in DOMAIN e.body /\ IsLoop(e.body, q)
  BY <1>1 DEF LoopGood
<1>3. G \subseteq Nat
  <2>1. \E P : Held(e, b, A, P)
    BY DEF Live
  <2>2. A \in [DOMAIN b.blocks -> SUBSET Nat]
    BY <2>1, HeldFields, Zenon
  <2> QED
    BY <1>2, <2>2
<1>4. ExitOf(b, q, ty) = s
  BY DEF ExitOf, WithExit
<1>5. n = CreateBlock(b) /\ new = LastBlock(n) /\ s = [n EXCEPT !.loops = loops] /\ loops = [n.loops EXCEPT ![q] = x]
      /\ x = [n.loops[q] EXCEPT !.exit = new] /\ G = A[entry] /\ entry = b.loops[q].entry
  OBVIOUS
<1> HIDE DEF entry, G, n, new, x, loops, s
<1>6. PICK B : NewBlock(e, b, A, W, n, B, G, new)
  BY <1>3, <1>5, BlockMade, Zenon
<1>7. /\ Live(e, n, B, W \cup {new}) /\ Grown(e, b, A, n, B) /\ Have(n, B) = Have(b, A) /\ B[new] = G
      /\ new \in DOMAIN B /\ new \notin W /\ new # 1 /\ new # NoBlock /\ new \in Nat
      /\ n.res = b.res /\ n.loops = b.loops
  BY <1>6 DEF NewBlock
<1>8. Passed(e, p, b, A, W \cup {new}, n, B)
  BY <1>7 DEF Passed, Grown
<1>9. JumpsTo(e, n, B, q) /\ B[entry] = A[entry]
  BY <1>1, <1>5, <1>7, <1>8, JumpsKept
<1>10. entry \in DOMAIN B
  BY <1>2, <1>8 DEF Passed, Since, Wider
<1>11. n \in Lowerers(e.body) /\ q \in DOMAIN n.loops
  BY <1>1, <1>7, LiveFields, Zenon
<1>12. n.loops[q] \in LoopInfo
  BY <1>11, LoopFields
<1>13. x \in LoopInfo /\ x.open = TRUE /\ x.entry = entry /\ x.exit = new /\ x.result = Void
  BY <1>1, <1>2, <1>5, <1>7, <1>12 DEF LoopInfo
<1>14. LoopGood(e, n.insts, B, q, x)
  BY <1>1, <1>2, <1>5, <1>7, <1>9, <1>10, <1>13 DEF LoopGood
<1>15. LoopAs(e.body, n, s, q, x)
  BY <1>5, <1>11, <1>13, LoopReplaced
<1>16. n.loops[q].exit = NoBlock /\ x.entry = n.loops[q].entry
  BY <1>5, <1>7, <1>13
<1>17. ExitMade(e, p, n, B, W, s, B, q)
  BY <1>7, <1>9, <1>13, <1>14, <1>15, <1>16, ExitSet, Zenon
<1>18. Passed(e, p, n, B, W, s, B) /\ s.res = n.res /\ JumpsTo(e, s, B, q) /\ s.loops[q].exit # NoBlock
  BY <1>17 DEF ExitMade
<1>19. Passed(e, p, b, A, W, s, B)
  BY <1>8, <1>18, PassedOn
<1>20. ExitMade(e, p, b, A, W, s, B, q)
  BY <1>7, <1>18, <1>19 DEF ExitMade
<1> QED
  BY <1>4, <1>20

\* The first break out of a loop with a result.
LEMMA ExitNewBool ==
    ASSUME NEW e, NEW p, NEW b, NEW A, NEW W, Live(e, b, A, W), NEW q, NEW ty, Leaves(e, b, A, q, ty), b.loops[q].exit = NoBlock, ty = Bool
    PROVE  \E B : ExitMade(e, p, b, A, W, ExitOf(b, q, ty), B, q)
<1> DEFINE entry == b.loops[q].entry
           id == Len(b.insts) + 1
           G == A[entry] \cup {id}
           n == CreateBlock(b)
           new == LastBlock(n)
           y == [n.loops[q] EXCEPT !.exit = new]
           waits == [n.loops EXCEPT ![q] = y]
           u == [n EXCEPT !.loops = waits]
           slots == AllocaInEntry(u)
           m == AllocaInEntry(n)
           slot == LastInst(m)
           x == [y EXCEPT !.result = slot]
           loops == [m.loops EXCEPT ![q] = x]
           s == [m EXCEPT !.loops = loops]
<1>1. /\ JumpsTo(e, b, A, q) /\ LoopGood(e, b.insts, A, q, b.loops[q]) /\ e.info[q].ty = Bool /\ q \in DOMAIN b.loops
      /\ b.loops[q].open = TRUE /\ (e.body[q].op = "loop" => ~Ends(e.info, q))
  BY DEF Leaves, JumpsTo
<1>2. b.loops[q].result = Void /\ entry \in DOMAIN A /\ entry # 1 /\ q \in DOMAIN e.body /\ IsLoop(e.body, q)
  BY <1>1 DEF LoopGood
<1>3. G \subseteq Nat /\ id \in Nat
  <2>1. b \in Lowerers(e.body) /\ A[entry] \subseteq Nat
    <3>1. \E P : Held(e, b, A, P)
      BY DEF Live
    <3>2. b \in Lowerers(e.body) /\ A \in [DOMAIN b.blocks -> SUBSET Nat]
      BY <3>1, HeldFields, Zenon
    <3> QED
      BY <1>2, <3>2
  <2>2. Len(b.insts) \in Nat
    BY <2>1, LowererFields
  <2> QED
    BY <2>1, <2>2
<1>4. ExitOf(b, q, ty) = WithSlot(u, q)
  BY DEF ExitOf, WithExit, Unit, Bool
<1>5. n = CreateBlock(b) /\ new = LastBlock(n) /\ G = A[entry] \cup {id} /\ entry = b.loops[q].entry /\ id = Len(b.insts) + 1
      /\ y = [n.loops[q] EXCEPT !.exit = new] /\ waits = [n.loops EXCEPT ![q] = y] /\ u = [n EXCEPT !.loops = waits]
      /\ slots = AllocaInEntry(u) /\ m = AllocaInEntry(n) /\ slot = LastInst(m) /\ x = [y EXCEPT !.result = slot]
      /\ loops = [m.loops EXCEPT ![q] = x] /\ s = [m EXCEPT !.loops = loops]
  OBVIOUS
<1> HIDE DEF entry, id, G, n, new, y, waits, u, slots, m, slot, x, loops, s
<1>6. PICK B : NewBlock(e, b, A, W, n, B, G, new)
  BY <1>3, <1>5, BlockMade, Zenon
<1>7. /\ Live(e, n, B, W \cup {new}) /\ Grown(e, b, A, n, B) /\ Have(n, B) = Have(b, A) /\ B[new] = G
      /\ new \in DOMAIN B /\ new \notin W /\ new # 1 /\ new # NoBlock /\ new \in Nat
      /\ n.res = b.res /\ n.loops = b.loops /\ n.insts = b.insts
  BY <1>6 DEF NewBlock
<1>8. Passed(e, p, b, A, W \cup {new}, n, B)
  BY <1>7 DEF Passed, Grown
<1>9. Stepped(e, n, B, W \cup {new}, m) /\ SlotAs(n, B, m)
  BY <1>5, <1>7, AllocaStepped
<1>10. m.loops = n.loops /\ m.res = n.res /\ IsSlot(m.insts, slot) /\ slot \in Operand /\ slot # Void /\ slot = Inst(id) /\ slot.v = id
  <2>1. m.loops = n.loops /\ m.res = n.res /\ IsSlot(m.insts, slot) /\ slot \in Operand /\ slot # Void /\ slot = Inst(id)
    BY <1>5, <1>7, <1>9 DEF SlotAs, Rest
  <2> QED
    BY <2>1 DEF Inst
<1>11. Passed(e, p, n, B, W \cup {new}, m, B) /\ Live(e, m, B, W \cup {new})
  BY <1>7, <1>9, SteppedPassed DEF Stepped
<1>12. Passed(e, p, b, A, W \cup {new}, m, B)
  BY <1>8, <1>11, PassedJoin
<1>13. JumpsTo(e, m, B, q) /\ B[entry] = A[entry]
  BY <1>1, <1>5, <1>7, <1>10, <1>12, JumpsKept
<1>14. entry \in DOMAIN B
  BY <1>2, <1>8 DEF Passed, Since, Wider
<1>15. n \in Lowerers(e.body) /\ q \in DOMAIN n.loops /\ m \in Lowerers(e.body) /\ q \in DOMAIN m.loops /\ 1 \in DOMAIN n.blocks
  <2>1. \E P : Held(e, n, B, P)
    BY <1>7 DEF Live
  <2>2. n \in Lowerers(e.body) /\ 1 \in DOMAIN n.blocks
    BY <2>1, HeldFields, Zenon
  <2>3. m \in Lowerers(e.body)
    BY <1>11, LiveFields, Zenon
  <2> QED
    BY <1>1, <1>7, <1>10, <2>2, <2>3
<1>16. n.loops[q] \in LoopInfo
  BY <1>15, LoopFields
<1>17. y \in LoopInfo /\ y.open = TRUE /\ y.entry = entry /\ y.exit = new /\ y.result = Void
  BY <1>1, <1>2, <1>5, <1>7, <1>16 DEF LoopInfo
<1>18. x \in LoopInfo /\ x.open = TRUE /\ x.entry = entry /\ x.exit = new /\ x.result = slot
  BY <1>5, <1>10, <1>17, Zenon DEF LoopInfo
<1>19. WithSlot(u, q) = s
  <2>1. waits \in [0 .. Len(e.body) -> LoopInfo] /\ waits[q] = y
    BY <1>5, <1>15, <1>17, LowererFields
  <2>2. u.loops = waits /\ WithLoops(n, waits, u)
    BY <1>5, <1>15 DEF Lowerers, WithLoops
  <2>3. WithLoops(m, waits, slots)
    BY <1>5, <1>15, <2>1, <2>2, AllocaLoops, Zenon
  <2>4. slots.loops = waits /\ slots.insts = m.insts
    BY <1>15, <2>3 DEF Lowerers, WithLoops
  <2>5. LastInst(slots) = slot
    BY <1>5, <2>4 DEF LastInst
  <2>6. x = [slots.loops[q] EXCEPT !.result = LastInst(slots)]
    BY <1>5, <2>1, <2>4, <2>5, ZenonT(60)
  <2>7. loops = [slots.loops EXCEPT ![q] = x]
    <3>1. n.loops \in [0 .. Len(e.body) -> LoopInfo] /\ q \in 0 .. Len(e.body)
      BY <1>15, LowererFields
    <3>2. waits = [n.loops EXCEPT ![q] = y] /\ loops = [n.loops EXCEPT ![q] = x]
      BY <1>5, <1>10
    <3>3. [waits EXCEPT ![q] = x] = [n.loops EXCEPT ![q] = x]
      BY <3>1, <3>2, ExceptTwice
    <3> QED
      BY <2>4, <3>2, <3>3
  <2>8. u.loops[q].result = Void
    BY <1>17, <2>1, <2>2
  <2>9. slots = AllocaInEntry(u)
    BY <1>5
  <2>10. WithLoops(slots, loops, WithSlot(u, q))
    BY <2>6, <2>7, <2>8, <2>9, SlotSet
  <2>11. WithLoops(m, loops, s)
    BY <1>5 DEF WithLoops
  <2> QED
    BY <1>15, <2>3, <2>10, <2>11, LoopsTwice
<1>20. LoopGood(e, m.insts, B, q, x)
  <2>1. SlotIn(m.insts, slot, B[new])
    BY <1>5, <1>7, <1>10 DEF SlotIn
  <2> QED
    BY <1>1, <1>2, <1>5, <1>7, <1>10, <1>13, <1>14, <1>18, <2>1, ZenonT(60) DEF LoopGood
<1>21. LoopAs(e.body, m, s, q, x)
  BY <1>5, <1>15, <1>18, LoopReplaced
<1>22. m.loops[q].exit = NoBlock /\ x.entry = m.loops[q].entry
  BY <1>5, <1>7, <1>10, <1>18
<1>23. ExitMade(e, p, m, B, W, s, B, q)
  BY <1>7, <1>11, <1>13, <1>18, <1>20, <1>21, <1>22, ExitSet, Zenon
<1>24. Passed(e, p, m, B, W, s, B) /\ s.res = m.res /\ JumpsTo(e, s, B, q) /\ s.loops[q].exit # NoBlock
  BY <1>23 DEF ExitMade
<1>25. Passed(e, p, b, A, W, s, B)
  BY <1>12, <1>24, PassedOn
<1>26. ExitMade(e, p, b, A, W, s, B, q)
  BY <1>7, <1>10, <1>24, <1>25 DEF ExitMade
<1> QED
  BY <1>4, <1>19, <1>26

\* A loop that is left has an exit, and a result slot if it has a result.
LEMMA ExitReady ==
    ASSUME NEW e, NEW p, NEW b, NEW A, NEW W, Live(e, b, A, W), NEW q, NEW ty, Leaves(e, b, A, q, ty)
    PROVE  \E B : ExitMade(e, p, b, A, W, ExitOf(b, q, ty), B, q)
<1>1. ty = Unit \/ ty = Bool
  BY DEF Leaves
<1> QED
  BY <1>1, ExitThere, ExitNewUnit, ExitNewBool, Zenon

\* The value is stored and control goes to the exit.
LEMMA LeaveLowered ==
    ASSUME NEW e, NEW p, NEW b, NEW A, NEW W, NEW v, NEW B, Passed(e, p, b, A, W, v, B), NEW q, NEW ty, Leaves(e, v, B, q, ty),
           NEW t, t = LeaveLoop(v, q, ty)
    PROVE  \E C : LPost(e, p, b, A, W, t, C)
<1> DEFINE s == ExitOf(v, q, ty)
           slot == s.loops[q].result
           stored == IF ty = Unit THEN s ELSE StoreResult(s, slot)
           x == stored.loops[q].exit
<1>1. t = Stop(Terminate(stored, Br(x)))
  BY DEF LeaveLoop, ExitOf
<1>2. \E C : ExitMade(e, p, v, B, W, s, C, q)
  BY ExitReady, Zenon DEF Passed
<1>3. ty = e.info[q].ty /\ (ty = Unit \/ (ty = Bool /\ HasResult(v, B) /\ v.res.ty = Bool))
  BY DEF Leaves
<1>4. slot = s.loops[q].result /\ (ty = Unit => stored = s) /\ (ty = Bool => stored = StoreResult(s, slot)) /\ x = stored.loops[q].exit
  BY DEF Unit, Bool
<1> HIDE DEF s, slot, stored, x
<1>5. PICK C : ExitMade(e, p, v, B, W, s, C, q)
  BY <1>2
<1>6. Passed(e, p, v, B, W, s, C) /\ s.res = v.res /\ JumpsTo(e, s, C, q) /\ s.loops[q].exit # NoBlock
  BY <1>5 DEF ExitMade
<1>7. q \in DOMAIN s.loops /\ LoopGood(e, s.insts, C, q, s.loops[q]) /\ C[s.loops[q].entry] \subseteq Have(s, C) /\ Live(e, s, C, W)
  BY <1>6 DEF JumpsTo, Passed
<1>8. s.loops[q].exit \in Nat /\ slot \in Operand
  <2>1. s \in Lowerers(e.body)
    BY <1>7, LiveFields, Zenon
  <2> QED
    BY <1>4, <1>7, <2>1, LoopFields
<1>9. /\ s.loops[q].exit \in DOMAIN C /\ s.loops[q].exit # 1
      /\ slot = Void => C[s.loops[q].exit] \subseteq C[s.loops[q].entry] /\ ty = Unit
      /\ slot # Void => /\ SlotIn(s.insts, slot, C[s.loops[q].exit]) /\ ty = Bool
                        /\ C[s.loops[q].exit] \subseteq C[s.loops[q].entry] \cup {slot.v}
  BY <1>3, <1>4, <1>6, <1>7 DEF LoopGood
<1>10. Passed(e, p, s, C, W, stored, C) /\ stored.loops = s.loops /\ C[s.loops[q].exit] \subseteq Have(stored, C)
  <2>1. CASE ty = Unit
    <3>1. slot = Void /\ stored = s
      BY <1>4, <1>9, <2>1 DEF Unit, Bool
    <3>2. Passed(e, p, s, C, W, s, C)
      BY <1>7, PassedSelf
    <3> QED
      BY <1>7, <1>9, <3>1, <3>2
  <2>2. CASE ty = Bool
    <3>1. slot # Void /\ stored = StoreResult(s, slot)
      BY <1>4, <1>9, <2>2 DEF Unit, Bool
    <3>2. HasResult(v, B) /\ v.res.ty = Bool
      BY <1>3, <2>2 DEF Unit, Bool
    <3>3. HasResult(s, C) /\ s.res.ty = Bool
      BY <1>6, <3>2, ResultKept
    <3>4. IsSlot(s.insts, slot)
      BY <1>9, <3>1 DEF SlotIn
    <3>5. Stepped(e, s, C, W, stored) /\ slot.v \in Have(stored, C)
      BY <1>7, <1>8, <3>1, <3>3, <3>4, StoreResultStepped DEF HasResult
    <3>6. Passed(e, p, s, C, W, stored, C)
      BY <1>7, <3>5, SteppedPassed
    <3>7. stored.loops = s.loops /\ Have(s, C) \subseteq Have(stored, C)
      BY <3>5 DEF Stepped, Quiet
    <3> QED
      BY <1>7, <1>9, <3>1, <3>5, <3>6, <3>7
  <2> QED
    BY <1>3, <2>1, <2>2
<1>11. x \in Nat /\ Target(C, Have(stored, C), x)
  BY <1>4, <1>8, <1>9, <1>10 DEF Target
<1>12. Passed(e, p, b, A, W, stored, C)
  <2>1. Passed(e, p, v, B, W, stored, C)
    BY <1>6, <1>10, PassedJoin
  <2> QED
    BY <2>1, PassedJoin
<1> QED
  BY <1>1, <1>11, <1>12, JumpEnds

\* break and break a, once the value is there.
LEMMA BreakEnds ==
    ASSUME NEW c, NEW e, NEW p, NEW b, NEW A, NEW W, Task(c, e, p, b, A, W), NEW v, NEW B, Passed(e, p, b, A, W, v, B), NEW q, NEW ty,
           Leaves(e, v, B, q, ty), NEW t, t = IF v.loops[q].open THEN LeaveLoop(v, q, ty) ELSE Stop(Require(v, FALSE))
    PROVE  \E C : LPost(e, p, b, A, W, t, C)
<1>1. v.loops[q].open = TRUE
  BY DEF Leaves, JumpsTo
<1>2. t = LeaveLoop(v, q, ty)
  BY <1>1, Zenon
<1> QED
  BY <1>2, LeaveLowered, Zenon

IsBreak(e, p) == e.body[p].op \in {"break", "breakv"}

\* break and break a
LEMMA BreakLowered ==
    ASSUME NEW c, NEW e, NEW p, NEW b, NEW A, NEW W, Task(c, e, p, b, A, W), IsBreak(e, p), NEW t, t = LowerBreak(c, p, b)
    PROVE  \E B : LPost(e, p, b, A, W, t, B)
<1> DEFINE q == e.info[p].jump
           ty == e.info[q].ty
<1>1. Rule(e.body, e.result, e.info, p) /\ Live(e, b, A, W) /\ c.info = e.info /\ c.body = e.body /\ IsBody(e.body) /\ p \in DOMAIN e.body
  BY TaskRules
<1>2. IsJump(e, p) /\ q = e.info[p].jump /\ ty = e.info[q].ty
  BY DEF IsJump, IsBreak
<1>3. \A B, v : Task(c, e, p, v, B, W) => JumpsTo(e, v, B, q)
  BY <1>2, JumpOpen
<1>4. JumpsTo(e, b, A, q)
  BY <1>3, SMTT(60)
<1>5. q \in DOMAIN e.body /\ IsLoop(e.body, q)
  BY <1>4 DEF JumpsTo
<1>6. Rule(e.body, e.result, e.info, q)
  BY <1>5 DEF Task, Env, WellTyped
<1>7. CASE e.body[p].op = "break"
  <2> DEFINE v == Value(b, Unit, Void)
  <2>1. t = IF v.ok THEN IF v.loops[q].open THEN LeaveLoop(v, q, ty) ELSE Stop(Require(v, FALSE)) ELSE v
    BY <1>1, <1>7 DEF LowerBreak, Then
  <2>2. v = Value(b, Unit, Void)
    OBVIOUS
  <2> HIDE DEF v
  <2>3. Stepped(e, b, A, W, v)
    BY <1>1, <2>2, ValueResult DEF Types, Void, Operand
  <2>4. Passed(e, p, b, A, W, v, A)
    BY <1>1, <2>3, SteppedPassed
  <2>5. v.ok = TRUE
    BY <2>4 DEF Passed, Live
  <2>6. JumpsTo(e, v, A, q)
    <3>1. Task(c, e, p, v, A, W)
      BY <2>4, TaskPassed
    <3> QED
      BY <1>3, <3>1
  <2>7. ty = Unit /\ (e.body[q].op = "loop" => ~Ends(e.info, q))
    <3>1. e.body[q].op = "loop" => ty = Unit /\ ~Ends(e.info, q)
      BY <1>1, <1>7, SMTT(60) DEF Rule, JumpRule
    <3>2. e.body[q].op = "while" => ty = Unit
      BY <1>6 DEF Rule, BranchRule
    <3> QED
      BY <1>5, <3>1, <3>2 DEF IsLoop
  <2>8. Leaves(e, v, A, q, ty)
    BY <1>2, <2>6, <2>7 DEF Leaves
  <2>9. t = IF v.loops[q].open THEN LeaveLoop(v, q, ty) ELSE Stop(Require(v, FALSE))
    BY <2>1, <2>5, ZenonT(60)
  <2> HIDE DEF q, ty
  <2> QED
    BY <2>4, <2>8, <2>9, BreakEnds, Zenon
<1>8. CASE e.body[p].op = "breakv"
  <2> DEFINE one == e.body[p].sub[1]
             v == LowerValue(c, one, b)
  <2>1. t = IF v.ok THEN IF v.loops[q].open THEN LeaveLoop(v, q, ty) ELSE Stop(Require(v, FALSE)) ELSE v
    BY <1>1, <1>8 DEF LowerBreak, Then, Child
  <2>2. Values(c, e, p, 1, b, v)
    BY <1>1, <1>8, OpArity, SMTT(60) DEF Values, Plain, IsLoop
  <2>3. \E B : ValueDone(e, p, one, b, A, W, v, B)
    BY <2>2, ValueLowered
  <2>4. ~Ends(e.info, one) => e.info[one].ty = ty /\ ~Ends(e.info, q)
    BY <1>1, <1>8 DEF Rule, JumpRule
  <2> HIDE DEF one, v
  <2>5. PICK B : ValueDone(e, p, one, b, A, W, v, B)
    BY <2>3
  <2>6. CASE Halted(e, p, b, A, W, v, B)
    <3>1. t = v
      BY <2>1, <2>6, Zenon DEF Halted, Ended
    <3> QED
      BY <2>6, <3>1 DEF LPost
  <2>7. CASE Passed(e, p, b, A, W, v, B) /\ ~Ends(e.info, one) /\ IsValue(v, B) /\ IsTyped(e, one, v)
    <3>1. Live(e, v, B, W) /\ v.ok = TRUE /\ v.res.ty = ty /\ ~Ends(e.info, q)
      BY <2>4, <2>7 DEF Passed, Live, IsTyped
    <3>2. ty = Unit \/ (ty = Bool /\ HasResult(v, B) /\ v.res.ty = Bool)
      BY <2>7, <3>1 DEF IsValue, HasResult
    <3>3. JumpsTo(e, v, B, q)
      <4>1. Task(c, e, p, v, B, W)
        BY <2>7, TaskPassed
      <4> QED
        BY <1>3, <4>1
    <3>4. Leaves(e, v, B, q, ty)
      BY <1>2, <3>1, <3>2, <3>3 DEF Leaves
    <3>5. t = IF v.loops[q].open THEN LeaveLoop(v, q, ty) ELSE Stop(Require(v, FALSE))
      BY <2>1, <3>1, Zenon
    <3> HIDE DEF q, ty
    <3> QED
      BY <2>7, <3>4, <3>5, BreakEnds, Zenon
  <2> QED
    BY <2>5, <2>6, <2>7 DEF ValueDone
<1> QED
  BY <1>7, <1>8 DEF IsBreak

\* Two new blocks, of which the second may do with less than is available here, and a branch to them.
ForkedTo(e, b, A, W, t, B, n, m, H) ==
  /\ Held(e, t, B, (W \cup {n}) \cup {m}) /\ Grown(e, b, A, t, B) /\ t.ok = TRUE /\ t.insts = b.insts
  /\ n \in DOMAIN B /\ m \in DOMAIN B /\ B[n] = Have(b, A) /\ B[m] = H
  /\ n \notin W /\ m \notin W /\ n # m /\ n # 1 /\ m # 1 /\ n # NoBlock /\ m # NoBlock /\ n \in Nat /\ m \in Nat
  /\ n \in DOMAIN t.blocks /\ m \in DOMAIN t.blocks /\ t.locals = b.locals /\ t.loops = b.loops
  /\ LastBlock(t) = m

\* The branch of a lazy operator, a while or an if.
LEMMA ForkTo ==
    ASSUME NEW e, NEW b, NEW A, NEW W, Live(e, b, A, W), NEW o \in Operand, ValueIn(b.insts, o, Have(b, A)),
           NEW two, two = CreateBlock(CreateBlock(b)), NEW m, m = LastBlock(two), NEW n, n = m - 1,
           NEW x, NEW y, (x = n /\ y = m) \/ (x = m /\ y = n), NEW t, t = Terminate(two, CondBr(o, x, y)), NEW H, H \subseteq Have(b, A)
    PROVE  \E B : ForkedTo(e, b, A, W, t, B, n, m, H)
<1> DEFINE one == CreateBlock(b)
           k == LastBlock(one)
           P == W \cup {b.cur}
           G == Have(b, A)
           B == WithBlock(b, A, G)
           C == WithBlock(one, B, H)
           P1 == P \cup {k}
           P2 == P1 \cup {m}
           br == CondBr(o, x, y)
<1>1. Held(e, b, A, P) /\ b.cur \notin W /\ b.ok = TRUE /\ G \in SUBSET Nat /\ b.cur \in DOMAIN b.blocks /\ b \in Lowerers(e.body)
      /\ W \subseteq DOMAIN b.blocks
      /\ H \in SUBSET Nat
  BY LiveFields, Zenon
<1>2. P = W \cup {b.cur} /\ P1 = P \cup {k} /\ P2 = P1 \cup {m} /\ two = CreateBlock(one) /\ G = Have(b, A) /\ k = LastBlock(one)
      /\ one = CreateBlock(b) /\ B = WithBlock(b, A, G) /\ C = WithBlock(one, B, H) /\ br = CondBr(o, x, y)
  OBVIOUS
<1> HIDE DEF one, k, P, G, B, C, P1, P2, br
<1>3. Held(e, one, B, P1) /\ CreatedAs(b, A, one, B, G, k)
  BY <1>1, <1>2, CreateGood
<1>4. Held(e, two, C, P2) /\ CreatedAs(one, B, two, C, H, m)
  BY <1>1, <1>2, <1>3, CreateGood
<1>5. /\ Wider(A, B) /\ k \in DOMAIN one.blocks /\ k \notin DOMAIN b.blocks /\ k \in DOMAIN B /\ B[k] = G /\ k # 1 /\ k # NoBlock /\ k \in Nat
      /\ DOMAIN b.blocks \subseteq DOMAIN one.blocks /\ one.insts = b.insts /\ Rest(b, one) /\ Have(one, B) = Have(b, A)
  BY <1>1, <1>3 DEF CreatedAs
<1>6. /\ Wider(B, C) /\ m \in DOMAIN two.blocks /\ m \notin DOMAIN one.blocks /\ m \in DOMAIN C /\ C[m] = H /\ m # 1 /\ m # NoBlock /\ m \in Nat
      /\ DOMAIN one.blocks \subseteq DOMAIN two.blocks /\ two.insts = one.insts /\ Rest(one, two) /\ Have(two, C) = Have(one, B)
  <2>1. one.cur \in DOMAIN one.blocks
    BY <1>1, <1>5 DEF Rest
  <2> QED
    BY <1>4, <2>1 DEF CreatedAs
<1>7. n = k
  <2>1. one.blocks \in Seq(BasicBlock) /\ two.blocks = Append(one.blocks, [insts |-> <<>>, term |-> NoTerminator])
    <3>1. one \in Lowerers(e.body)
      BY <1>3, HeldFields, Zenon
    <3> QED
      BY <1>2, <3>1, LowererFields, Zenon DEF CreateBlock, Lowerers
  <2>2. Len(two.blocks) = Len(one.blocks) + 1 /\ Len(one.blocks) \in Nat
    BY <2>1
  <2>3. m = Len(two.blocks) /\ k = Len(one.blocks)
    BY <1>2 DEF LastBlock
  <2> QED
    BY <2>2, <2>3
<1>8. k \in DOMAIN C /\ C[k] = G
  BY <1>5, <1>6 DEF Wider
<1>9. two.cur = b.cur /\ two.locals = b.locals /\ two.loops = b.loops /\ two.ok = TRUE /\ two.insts = b.insts /\ Have(two, C) = G
  BY <1>1, <1>2, <1>5, <1>6 DEF Rest
<1>10. Closing(e, two, C, br)
  <2>1. x \in Nat /\ y \in Nat
    BY <1>5, <1>6, <1>7
  <2>2. <<x, y>> \in Seq(Nat) /\ <<x, y>>[1] = x /\ <<x, y>>[2] = y
    BY <2>1
  <2>3. br \in Terminator /\ br # NoTerminator /\ br.k = "condbr" /\ br.opd = o /\ br.to[1] = x /\ br.to[2] = y
    BY <1>2, <2>2 DEF CondBr, Terminator, NoTerminator
  <2>4. Target(C, G, x) /\ Target(C, G, y)
    BY <1>2, <1>5, <1>6, <1>7, <1>8 DEF Target
  <2>5. ValueIn(two.insts, o, G)
    BY <1>2, <1>9
  <2> QED
    BY <1>9, <2>3, <2>4, <2>5 DEF Closing, TermOK
<1>11. Held(e, t, C, P2 \ {two.cur}) /\ TerminatedAs(two, C, t)
  <2>1. two.cur \in P2
    BY <1>2, <1>9
  <2>2. t = Terminate(two, br)
    BY <1>2
  <2> QED
    BY <1>4, <1>10, <2>1, <2>2, TerminateGood
<1>12. P2 \ {two.cur} = (W \cup {n}) \cup {m}
  BY <1>1, <1>2, <1>5, <1>6, <1>7, <1>9
<1>13. t.insts = b.insts /\ t.loops = b.loops /\ t.locals = b.locals /\ t.ok = TRUE /\ DOMAIN t.blocks = DOMAIN two.blocks
  BY <1>9, <1>11 DEF TerminatedAs, Rest
<1>14. Grown(e, b, A, t, C)
  <2>1. Ext(b.insts, t.insts)
    BY <1>1, <1>13, LowererFields DEF Ext
  <2>2. Wider(A, C)
    BY <1>5, <1>6 DEF Wider
  <2> QED
    BY <1>13, <2>1, <2>2 DEF Grown, Since, SameLoops, SameLocals
<1>15. n \notin W /\ m \notin W /\ n # m
  BY <1>1, <1>5, <1>6, <1>7
<1>16. LastBlock(t) = m
  <2>1. two \in Lowerers(e.body) /\ t \in Lowerers(e.body) /\ two.blocks # <<>> /\ t.blocks # <<>>
    BY <1>4, <1>11, HeldFields, Zenon
  <2>2. /\ two.blocks \in Seq(BasicBlock) /\ t.blocks \in Seq(BasicBlock)
        /\ Len(two.blocks) \in Nat /\ Len(t.blocks) \in Nat /\ DOMAIN two.blocks = 1 .. Len(two.blocks) /\ DOMAIN t.blocks = 1 .. Len(t.blocks)
    BY <2>1, LowererFields
  <2>3. Len(two.blocks) # 0 /\ Len(t.blocks) # 0
    BY <2>1, <2>2
  <2>4. Len(two.blocks) \in DOMAIN two.blocks /\ Len(t.blocks) \in DOMAIN t.blocks
    BY <2>2, <2>3
  <2>5. Len(two.blocks) <= Len(t.blocks) /\ Len(t.blocks) <= Len(two.blocks)
    BY <1>13, <2>2, <2>4
  <2> QED
    BY <2>2, <2>5 DEF LastBlock
<1> QED
  BY <1>2, <1>5, <1>6, <1>7, <1>8, <1>11, <1>12, <1>13, <1>14, <1>15, <1>16, ZenonT(60) DEF ForkedTo


\* The block a loop comes back to is the current one.
EntryAt(e, b, A, W, t, B) ==
  /\ Live(e, t, B, W) /\ Grown(e, b, A, t, B) /\ t.cur \in DOMAIN B /\ t.cur # 1 /\ t.cur \in Nat /\ t.cur # NoBlock
  /\ B[t.cur] = Have(b, A) /\ B[t.cur] \subseteq Have(t, B) /\ t.loops = b.loops

\* LowerLoopEntry
LEMMA EntryMade ==
    ASSUME NEW e, NEW b, NEW A, NEW W, Live(e, b, A, W), NEW t, t = LowerLoopEntry(b)
    PROVE  \E B : EntryAt(e, b, A, W, t, B)
<1> DEFINE made == CreateBlock(b)
           new == LastBlock(made)
           left == Terminate(made, Br(new))
           V == W \cup {new}
           G == Have(b, A)
<1>1. t = PositionAtEnd(left, new)
  BY DEF LowerLoopEntry
<1>2. made = CreateBlock(b) /\ new = LastBlock(made) /\ left = Terminate(made, Br(new)) /\ V = W \cup {new} /\ G = Have(b, A)
  OBVIOUS
<1> HIDE DEF made, new, left, V, G
<1>3. G \subseteq Nat
  BY <1>2, LiveFields, Zenon
<1>4. PICK B : NewBlock(e, b, A, W, made, B, G, new)
  BY <1>2, <1>3, BlockMade
<1>5. /\ Live(e, made, B, V) /\ Grown(e, b, A, made, B) /\ Have(made, B) = G /\ B[new] = G /\ new \in DOMAIN B /\ new \notin W /\ new # 1
      /\ new # NoBlock /\ new \in Nat /\ made.loops = b.loops
  BY <1>2, <1>4 DEF NewBlock
<1>6. Target(B, Have(made, B), new)
  BY <1>5 DEF Target
<1>7. Held(e, left, B, V) /\ TerminatedAs(made, B, left) /\ Grown(e, made, B, left, B)
  BY <1>2, <1>5, <1>6, JumpGood
<1>8. left.ok = TRUE /\ left.loops = b.loops
  BY <1>5, <1>7 DEF TerminatedAs, Rest, Live
<1>9. Entered(e, left, B, W, new, t)
  BY <1>1, <1>2, <1>5, <1>7, <1>8, EnterBlock, Zenon
<1>10. Live(e, t, B, W) /\ B[new] \subseteq Have(t, B) /\ t.loops = left.loops /\ t.cur = new /\ Grown(e, left, B, t, B)
  BY <1>9 DEF Entered
<1>11. Grown(e, b, A, t, B)
  <2> SUFFICES ASSUME NEW i PROVE Since(e, i, b, A, t, B)
    BY DEF Grown
  <2>1. Since(e, i, b, A, made, B) /\ Since(e, i, made, B, left, B) /\ Since(e, i, left, B, t, B)
    BY <1>5, <1>7, <1>10 DEF Grown
  <2>2. Since(e, i, b, A, left, B)
    BY <2>1, SinceJoin
  <2> QED
    BY <2>1, <2>2, SinceJoin
<1>12. EntryAt(e, b, A, W, t, B)
  BY <1>2, <1>5, <1>8, <1>10, <1>11 DEF EntryAt
<1> QED
  BY <1>12

\* The record of an open loop without a result.
OpenedAt(entry, way) == [open |-> TRUE, entry |-> entry, exit |-> way, result |-> Void]

OpensAs(f, s, u, p, x, entry, way) ==
  LoopAs(f, s, u, p, x) /\ x \in LoopInfo /\ x.open = TRUE /\ x.entry = entry /\ x.exit = way /\ x.result = Void

\* OpenLoop
LEMMA OpenLoopAs ==
    ASSUME NEW f, NEW s, s \in Lowerers(f), NEW p, p \in DOMAIN s.loops, NEW entry, entry \in Nat, NEW way, way \in Nat,
           NEW u, u = OpenLoop(s, p, entry, way), NEW x, x = OpenedAt(entry, way)
    PROVE  OpensAs(f, s, u, p, x, entry, way)
<1>1. x \in LoopInfo /\ x.open = TRUE /\ x.entry = entry /\ x.exit = way /\ x.result = Void
  BY DEF OpenedAt, LoopInfo, Operand, Void, NoBlock
<1> DEFINE loops == [s.loops EXCEPT ![p] = x]
<1>2. u = [s EXCEPT !.loops = loops]
  BY DEF OpenLoop, OpenedAt, Lowerers
<1>3. loops = [s.loops EXCEPT ![p] = x]
  OBVIOUS
<1> HIDE DEF loops
<1>4. LoopAs(f, s, u, p, x)
  BY <1>1, <1>2, <1>3, LoopReplaced
<1> QED
  BY <1>1, <1>4 DEF OpensAs

\* No node is inside itself.
LEMMA NotInsideItself ==
    ASSUME NEW f, IsBody(f), NEW p \in DOMAIN f
    PROVE  ~Inside(f, p, p)
<1> SUFFICES ASSUME Inside(f, p, p) PROVE FALSE
  OBVIOUS
<1>1. f[p].sub # <<>> /\ Last(f[p].sub) <= p
  BY DEF Inside
<1> DEFINE k == Len(f[p].sub)
<1>2. k \in 1 .. Len(f[p].sub)
  BY <1>1, NodeFacts, EmptySeq
<1>3. k = Len(f[p].sub)
  OBVIOUS
<1> HIDE DEF k
<1>4. p \in Nat /\ f[p].sub[k] \in Nat /\ p < f[p].sub[k] /\ f[p].sub[k] = Last(f[p].sub)
  BY <1>2, <1>3, ChildrenBetween
<1> QED
  BY <1>1, <1>4

\* The loop of a node is not open when its lowering starts.
LEMMA NotYetOpen ==
    ASSUME NEW c, NEW e, NEW p, NEW b, NEW A, NEW W, Task(c, e, p, b, A, W)
    PROVE  p \in DOMAIN b.loops /\ b.loops[p].open = FALSE
<1>1. Live(e, b, A, W) /\ IsBody(e.body) /\ p \in DOMAIN e.body /\ Ctx(e, p, b, A)
  BY TaskRules DEF Task
<1>2. b \in Lowerers(e.body)
  BY <1>1, LiveFields, Zenon
<1>3. p \in DOMAIN b.loops
  <2>1. DOMAIN b.loops = 0 .. Len(e.body)
    BY <1>2, LowererFields
  <2>2. p \in 1 .. Len(e.body)
    BY <1>1 DEF IsBody
  <2> QED
    BY <2>1, <2>2
<1>4. ~Inside(e.body, p, p)
  BY <1>1, NotInsideItself
<1>5. b.loops[p].open # TRUE
  BY <1>1, <1>3, <1>4, Zenon DEF Ctx
<1>6. b.loops[p].open \in BOOLEAN
  BY <1>2, <1>3, LoopFields
<1> QED
  BY <1>3, <1>5, <1>6, Zenon

\* In the body block of loop p, before the body; in g the loop was not open yet.
LoopStart(e, p, b, A, W, g, h, B, x) ==
  /\ Since(e, p, b, A, g, B) /\ g.loops[p].open = FALSE /\ LoopAs(e.body, g, h, p, x) /\ Live(e, h, B, W)
  /\ x.open = TRUE /\ x.entry \in Nat /\ x.entry \in DOMAIN B /\ x.entry # 1
  /\ Have(b, A) \subseteq B[x.entry] /\ B[x.entry] \subseteq Have(h, B)
  /\ e.body[p].op = "while" => ~Ends(e.info, e.body[p].sub[1])

\* Without the exit of the loop, the blocks that wait are W, and lowering goes on in the current one.
Frees(P, x, W, g) == P \ {x.exit} = W \cup {g.cur} /\ g.cur \notin W /\ g.ok = TRUE
GoesOn(e, g, h, B, W) == Live(e, h, B, W) /\ Have(h, B) = Have(g, B)

\* The current block becomes the body block of the loop.
LEMMA LoopSetLive ==
    ASSUME NEW e, NEW g, NEW B, NEW P, NEW p, NEW x, LoopSet(e, g, B, P, p, x), NEW h, LoopAs(e.body, g, h, p, x),
           NEW W, Frees(P, x, W, g)
    PROVE  GoesOn(e, g, h, B, W)
<1>0. P \ {x.exit} = W \cup {g.cur} /\ g.cur \notin W /\ g.ok = TRUE
  BY DEF Frees
<1>1. Held(e, h, B, P \ {x.exit})
  BY LoopSetGood
<1>2. h.cur = g.cur /\ h.ok = TRUE /\ h.insts = g.insts /\ h.blocks = g.blocks
  BY <1>0 DEF LoopAs
<1>3. Have(h, B) = Have(g, B)
  BY <1>2 DEF Have
<1>4. Live(e, h, B, W)
  BY <1>0, <1>1, <1>2 DEF Live
<1> QED
  BY <1>3, <1>4 DEF GoesOn

\* The entry block is not among the exits.
LEMMA EntryStart ==
    ASSUME NEW c, NEW e, NEW p, NEW b, NEW A, NEW W, Task(c, e, p, b, A, W), e.body[p].op = "loop",
           NEW g, NEW B, EntryAt(e, b, A, W, g, B), NEW entry, entry = g.cur, NEW h, h = OpenLoop(g, p, entry, NoBlock),
           NEW x, x = OpenedAt(entry, NoBlock)
    PROVE  LoopStart(e, p, b, A, W, g, h, B, x)
<1> DEFINE P == W \cup {g.cur}
<1>1. p \in DOMAIN b.loops /\ b.loops[p].open = FALSE /\ p \in DOMAIN e.body
  BY NotYetOpen, TaskRules, Zenon
<1>2. /\ Live(e, g, B, W) /\ Grown(e, b, A, g, B) /\ g.cur \in DOMAIN B /\ g.cur # 1 /\ g.cur \in Nat /\ g.cur # NoBlock
      /\ B[g.cur] = Have(b, A) /\ B[g.cur] \subseteq Have(g, B) /\ g.loops = b.loops
  BY DEF EntryAt
<1>3. g \in Lowerers(e.body) /\ Held(e, g, B, P) /\ g.cur \notin W /\ g.ok = TRUE /\ W \subseteq DOMAIN g.blocks
  BY <1>2, LiveFields, Zenon
<1>4. P = W \cup {g.cur}
  OBVIOUS
<1> HIDE DEF P
<1>5. LoopAs(e.body, g, h, p, x) /\ x \in LoopInfo /\ x.open = TRUE /\ x.entry = entry /\ x.exit = NoBlock /\ x.result = Void
  <2>1. NoBlock \in Nat /\ entry \in Nat /\ p \in DOMAIN g.loops
    BY <1>1, <1>2 DEF NoBlock
  <2>2. OpensAs(e.body, g, h, p, x, entry, NoBlock)
    BY <1>3, <2>1, OpenLoopAs
  <2> QED
    BY <2>2 DEF OpensAs
<1>6. LoopGood(e, g.insts, B, p, x)
  BY <1>1, <1>2, <1>5 DEF LoopGood, IsLoop
<1>7. LoopSet(e, g, B, P, p, x)
  BY <1>1, <1>2, <1>3, <1>5, <1>6 DEF LoopSet
<1>8. P \ {x.exit} = W \cup {g.cur}
  <2>1. NoBlock \notin P
    <3>1. NoBlock \notin DOMAIN g.blocks
      BY <1>3, LowererFields DEF NoBlock
    <3> QED
      BY <1>2, <1>3, <1>4, <3>1
  <2> QED
    BY <1>4, <1>5, <2>1
<1>9. Live(e, h, B, W) /\ Have(h, B) = Have(g, B)
  <2>1. Frees(P, x, W, g)
    BY <1>3, <1>8 DEF Frees
  <2>2. GoesOn(e, g, h, B, W)
    BY <1>5, <1>7, <2>1, LoopSetLive
  <2> QED
    BY <2>2 DEF GoesOn
<1>10. Since(e, p, b, A, g, B)
  BY <1>2 DEF Grown
<1> QED
  BY <1>1, <1>2, <1>5, <1>9, <1>10 DEF LoopStart

\* After the condition of a while.
LEMMA ConditionStart ==
    ASSUME NEW c, NEW e, NEW p, NEW b, NEW A, NEW W, Task(c, e, p, b, A, W), e.body[p].op = "while", ~Ends(e.info, e.body[p].sub[1]),
           NEW head, NEW B0, EntryAt(e, b, A, W, head, B0), NEW entry, entry = head.cur,
           NEW a, NEW B, Passed(e, p, head, B0, W, a, B), IsValue(a, B), a.res.ty = Bool,
           NEW two, two = CreateBlock(CreateBlock(a)), NEW m, m = LastBlock(two), NEW n, n = m - 1,
           NEW start, start = Terminate(two, CondBr(a.res.opd, n, m)), NEW g, g = PositionAtEnd(start, n),
           NEW h, h = OpenLoop(g, p, entry, m), NEW x, x = OpenedAt(entry, m)
    PROVE  \E C : LoopStart(e, p, b, A, W, g, h, C, x)
<1> DEFINE H == B[entry]
           P == (W \cup {m}) \cup {n}
           o == a.res.opd
<1>1. p \in DOMAIN b.loops /\ b.loops[p].open = FALSE /\ p \in DOMAIN e.body /\ Rule(e.body, e.result, e.info, p)
  BY NotYetOpen, TaskRules, Zenon
<1>2. /\ Live(e, head, B0, W) /\ Grown(e, b, A, head, B0) /\ entry \in DOMAIN B0 /\ entry # 1 /\ entry \in Nat
      /\ B0[entry] = Have(b, A) /\ B0[entry] \subseteq Have(head, B0) /\ head.loops = b.loops
  BY DEF EntryAt
<1>3. Live(e, a, B, W) /\ Since(e, p, head, B0, a, B) /\ Have(head, B0) \subseteq Have(a, B)
  BY DEF Passed
<1>4. entry \in DOMAIN B /\ H = Have(b, A) /\ H \subseteq Have(a, B)
  BY <1>2, <1>3 DEF Since, Wider
<1>5. ValueIn(a.insts, o, Have(a, B)) /\ o \in Operand
  BY <1>3, BoolValue
<1>6. H = B[entry] /\ P = (W \cup {m}) \cup {n} /\ start = Terminate(two, CondBr(o, n, m))
  OBVIOUS
<1> HIDE DEF H, P, o
<1>7. PICK C : ForkedTo(e, a, B, W, start, C, n, m, H)
  BY <1>3, <1>4, <1>5, <1>6, ForkTo
<1>8. /\ Held(e, start, C, (W \cup {n}) \cup {m}) /\ Grown(e, a, B, start, C) /\ start.ok = TRUE
      /\ n \in DOMAIN C /\ m \in DOMAIN C /\ C[n] = Have(a, B) /\ C[m] = H
      /\ n \notin W /\ m \notin W /\ n # m /\ m # 1 /\ m # NoBlock /\ n \in Nat /\ m \in Nat /\ start.loops = a.loops
  BY <1>7 DEF ForkedTo
<1>9. Entered(e, start, C, W \cup {m}, n, g)
  <2>1. (W \cup {n}) \cup {m} = (W \cup {m}) \cup {n} /\ n \notin W \cup {m}
    BY <1>8
  <2> QED
    BY <1>8, <2>1, EnterBlock, Zenon
<1>10. /\ Live(e, g, C, W \cup {m}) /\ C[n] \subseteq Have(g, C) /\ g.loops = a.loops /\ g.cur = n /\ Grown(e, start, C, g, C)
  BY <1>8, <1>9 DEF Entered
<1>11. g \in Lowerers(e.body) /\ Held(e, g, C, P) /\ g.ok = TRUE
  <2>1. g.ok = TRUE /\ Held(e, g, C, (W \cup {m}) \cup {g.cur})
    BY <1>10 DEF Live
  <2>2. g \in Lowerers(e.body)
    BY <2>1, HeldFields, Zenon
  <2> QED
    BY <1>6, <1>10, <2>1, <2>2, Zenon
<1>12. Since(e, p, b, A, g, C)
  <2>1. Since(e, p, b, A, head, B0) /\ Since(e, p, a, B, start, C) /\ Since(e, p, start, C, g, C)
    BY <1>2, <1>8, <1>10 DEF Grown
  <2>2. Since(e, p, b, A, a, B)
    BY <1>3, <2>1, SinceJoin
  <2>3. Since(e, p, b, A, start, C)
    BY <2>1, <2>2, SinceJoin
  <2> QED
    BY <2>1, <2>3, SinceJoin
<1>13. p \in DOMAIN g.loops /\ g.loops[p].open = FALSE
  BY <1>1, <1>12 DEF Since, SameLoops
<1>14. LoopAs(e.body, g, h, p, x) /\ x \in LoopInfo /\ x.open = TRUE /\ x.entry = entry /\ x.exit = m /\ x.result = Void
  <2>1. OpensAs(e.body, g, h, p, x, entry, m)
    BY <1>2, <1>8, <1>11, <1>13, OpenLoopAs
  <2> QED
    BY <2>1 DEF OpensAs
<1>15. entry \in DOMAIN C /\ C[entry] = H
  BY <1>4, <1>6, <1>8 DEF Grown, Since, Wider
<1>16. LoopGood(e, g.insts, C, p, x)
  <2>1. e.info[p].ty = Unit
    BY <1>1 DEF Rule, BranchRule
  <2>2. IsLoop(e.body, p)
    BY DEF IsLoop
  <2> QED
    BY <1>1, <1>2, <1>8, <1>14, <1>15, <2>1, <2>2 DEF LoopGood
<1>17. LoopSet(e, g, C, P, p, x)
  BY <1>6, <1>8, <1>11, <1>13, <1>14, <1>16 DEF LoopSet
<1>18. P \ {x.exit} = W \cup {g.cur} /\ g.cur \notin W
  BY <1>6, <1>8, <1>10, <1>14
<1>19. Live(e, h, C, W) /\ Have(h, C) = Have(g, C)
  <2>1. Frees(P, x, W, g)
    BY <1>11, <1>18 DEF Frees
  <2>2. GoesOn(e, g, h, C, W)
    BY <1>14, <1>17, <2>1, LoopSetLive
  <2> QED
    BY <2>2 DEF GoesOn
<1>20. Have(b, A) \subseteq C[entry] /\ C[entry] \subseteq Have(h, C)
  BY <1>4, <1>8, <1>10, <1>15, <1>19
<1>21. LoopStart(e, p, b, A, W, g, h, C, x)
  BY <1>2, <1>12, <1>13, <1>14, <1>15, <1>19, <1>20 DEF LoopStart
<1> QED
  BY <1>21

\* What the head of a loop leaves.
HeadDone(e, p, b, A, W, h, B) ==
  (\E g, x : LoopStart(e, p, b, A, W, g, h, B, x)) \/ Halted(e, p, b, A, W, h, B)

\* LowerLoopHead
LEMMA HeadLowered ==
    ASSUME NEW c, NEW e, NEW p, NEW b, NEW A, NEW W, Task(c, e, p, b, A, W), IsLoop(e.body, p), NEW h, h = LowerLoopHead(c, p, b)
    PROVE  \E B : HeadDone(e, p, b, A, W, h, B)
<1> DEFINE head == LowerLoopEntry(b)
           entry == head.cur
<1>1. Live(e, b, A, W) /\ c.body = e.body /\ c.info = e.info /\ IsBody(e.body) /\ p \in DOMAIN e.body /\ Rule(e.body, e.result, e.info, p)
  BY TaskRules
<1>2. \E B : EntryAt(e, b, A, W, head, B)
  BY <1>1, EntryMade
<1>3. CASE e.body[p].op = "loop"
  <2>1. h = OpenLoop(head, p, entry, NoBlock)
    BY <1>1, <1>3 DEF LowerLoopHead
  <2>2. entry = head.cur
    OBVIOUS
  <2> HIDE DEF head, entry
  <2>3. PICK B : EntryAt(e, b, A, W, head, B)
    BY <1>2
  <2> DEFINE x == OpenedAt(entry, NoBlock)
  <2>4. x = OpenedAt(entry, NoBlock)
    OBVIOUS
  <2> HIDE DEF x
  <2>5. LoopStart(e, p, b, A, W, head, h, B, x)
    BY <1>3, <2>1, <2>2, <2>3, <2>4, EntryStart
  <2> QED
    BY <2>5 DEF HeadDone
<1>4. CASE e.body[p].op = "while"
  <2> DEFINE one == e.body[p].sub[1]
             a == LowerValue(c, one, head)
             two == CreateBlock(CreateBlock(a))
             m == LastBlock(two)
             n == m - 1
             start == Terminate(two, CondBr(a.res.opd, n, m))
             g == PositionAtEnd(start, n)
             x == OpenedAt(entry, m)
  <2>1. h = IF a.ok THEN OpenLoop(g, p, entry, m) ELSE a
    BY <1>1, <1>4 DEF LowerLoopHead, Then, Child
  <2>2. /\ one = e.body[p].sub[1] /\ two = CreateBlock(CreateBlock(a)) /\ m = LastBlock(two) /\ n = m - 1
        /\ start = Terminate(two, CondBr(a.res.opd, n, m)) /\ g = PositionAtEnd(start, n) /\ x = OpenedAt(entry, m) /\ entry = head.cur
    OBVIOUS
  <2>3. Values(c, e, p, 1, head, a)
    <3>1. 1 \in 1 .. Len(e.body[p].sub) /\ Len(e.body[p].sub) = 2
      BY <1>1, <1>4, OpArity
    <3>2. Plain(e.body, p, 1)
      BY <3>1 DEF Plain
    <3> QED
      BY <3>2 DEF Values
  <2>4. \A B : Task(c, e, p, head, B, W) => \E C : ValueDone(e, p, one, head, B, W, a, C)
    BY <2>3, ValueLowered
  <2> HIDE DEF one, a, two, m, n, start, g, x, head, entry
  <2>5. Is(e.info, one, Bool)
    BY <1>1, <1>4, <2>2 DEF Rule, BranchRule
  <2>6. PICK B0 : EntryAt(e, b, A, W, head, B0)
    BY <1>2
  <2>7. Since(e, p, b, A, head, B0) /\ Passed(e, p, b, A, W, head, B0)
    <3>1. /\ Live(e, head, B0, W) /\ Grown(e, b, A, head, B0) /\ B0[head.cur] = Have(b, A) /\ B0[head.cur] \subseteq Have(head, B0)
      BY <2>6 DEF EntryAt
    <3> QED
      BY <3>1 DEF Passed, Grown
  <2>8. PICK B : ValueDone(e, p, one, head, B0, W, a, B)
    BY <2>4, <2>7, TaskPassed
  <2>9. CASE Halted(e, p, head, B0, W, a, B)
    <3>1. h = a
      BY <2>1, <2>9 DEF Halted, Ended
    <3>2. Halted(e, p, b, A, W, h, B)
      BY <2>7, <2>9, <3>1, PassedJoin
    <3> QED
      BY <3>2 DEF HeadDone
  <2>10. CASE Passed(e, p, head, B0, W, a, B) /\ ~Ends(e.info, one) /\ IsValue(a, B) /\ IsTyped(e, one, a)
    <3>1. a.ok = TRUE /\ a.res.ty = Bool
      BY <2>5, <2>10 DEF Passed, Live, IsTyped, Is
    <3>2. h = OpenLoop(g, p, entry, m)
      BY <2>1, <3>1
    <3>3. \E C : LoopStart(e, p, b, A, W, g, h, C, x)
      BY <1>4, <2>2, <2>6, <2>10, <3>1, <3>2, ConditionStart
    <3> QED
      BY <3>3 DEF HeadDone
  <2> QED
    BY <2>8, <2>9, <2>10 DEF ValueDone
<1> QED
  BY <1>3, <1>4 DEF IsLoop

\* Where it is.
BodyFacts(f, p, j) ==
  /\ j \in DOMAIN f /\ p \in DOMAIN f /\ j \in Nat /\ p \in Nat /\ p < j /\ f[j].last \in Nat /\ f[j].last <= f[p].last /\ f[p].last \in Nat
  /\ j = Last(f[p].sub) /\ f[j].op \in BlockOps
  /\ \A q \in DOMAIN f : Inside(f, q, j) <=> Inside(f, q, p) \/ q = p
  /\ \A l \in Ids(f) : Visible(f, j, l) => Visible(f, p, l)

\* The last child of a loop is its body.
LEMMA BodyThere ==
    ASSUME NEW f, IsBody(f), NEW p, p \in DOMAIN f, IsLoop(f, p), NEW j, j = Last(f[p].sub)
    PROVE  BodyFacts(f, p, j)
<1> DEFINE k == Len(f[p].sub)
<1>1. k \in 1 .. Len(f[p].sub) /\ (f[p].op = "while" => k = 2)
  BY OpArity DEF IsLoop
<1>2. k = Len(f[p].sub)
  OBVIOUS
<1> HIDE DEF k
<1>3. /\ p \in Nat /\ f[p].last \in Nat /\ f[p].sub[k] \in DOMAIN f /\ f[p].sub[k] \in Nat /\ f[f[p].sub[k]].last \in Nat
      /\ p < f[p].sub[k] /\ f[f[p].sub[k]].last <= f[p].last /\ f[p].sub[k] = Last(f[p].sub)
  BY <1>1, <1>2, ChildrenBetween
<1>4. f[j].op \in BlockOps
  <2>1. f[f[p].sub[k]].op \in Allowed(f[p].op, k)
    BY <1>1, NodeFacts
  <2>2. Allowed(f[p].op, k) = BlockOps
    BY <1>1 DEF Allowed, IsLoop
  <2> QED
    BY <1>3, <2>1, <2>2
<1>5. \A q \in DOMAIN f : Inside(f, q, j) <=> Inside(f, q, p) \/ q = p
  <2> SUFFICES ASSUME NEW q, q \in DOMAIN f PROVE Inside(f, q, j) <=> Inside(f, q, p) \/ q = p
    OBVIOUS
  <2>1. Inside(f, q, f[p].sub[k]) <=> Inside(f, q, p) \/ (q = p /\ k = Len(f[p].sub))
    BY <1>1, InsideChild
  <2> QED
    BY <1>2, <1>3, <2>1
<1>6. \A l \in Ids(f) : Visible(f, j, l) => Visible(f, p, l)
  <2> SUFFICES ASSUME NEW l, l \in Ids(f), Visible(f, j, l) PROVE Visible(f, p, l)
    OBVIOUS
  <2>1. CASE l = ParamId
    BY <2>1 DEF Visible
  <2>2. CASE \E q \in DOMAIN f : f[q].op = "let" /\ Inside(f, q, j) /\ l = LetId(q)
    <3>1. PICK q \in DOMAIN f : f[q].op = "let" /\ Inside(f, q, j) /\ l = LetId(q)
      BY <2>2
    <3>2. q # p
      BY <3>1 DEF IsLoop
    <3>3. Inside(f, q, p)
      BY <1>5, <3>1, <3>2
    <3> QED
      BY <3>1, <3>3 DEF Visible
  <2> QED
    BY <2>1, <2>2 DEF Visible
<1> QED
  BY <1>3, <1>4, <1>5, <1>6 DEF BodyFacts

\* The context of the body of a loop.
LEMMA CtxBody ==
    ASSUME NEW c, NEW e, NEW p, NEW b, NEW A, NEW W, Task(c, e, p, b, A, W), IsLoop(e.body, p), NEW j, BodyFacts(e.body, p, j),
           NEW g, NEW h, NEW B, NEW x, LoopStart(e, p, b, A, W, g, h, B, x)
    PROVE  Ctx(e, j, h, B)
<1>1. Live(e, b, A, W) /\ IsBody(e.body) /\ p \in DOMAIN e.body /\ Ctx(e, p, b, A)
  BY TaskRules DEF Task
<1>2. /\ Since(e, p, b, A, g, B) /\ LoopAs(e.body, g, h, p, x) /\ x.open = TRUE
      /\ Have(b, A) \subseteq B[x.entry] /\ B[x.entry] \subseteq Have(h, B)
  BY DEF LoopStart
<1>3. h.insts = g.insts /\ h.blocks = g.blocks /\ h.cur = g.cur /\ h.locals = g.locals /\ DOMAIN h.loops = DOMAIN g.loops
      /\ h.loops[p] = x /\ \A q \in DOMAIN g.loops : q # p => h.loops[q] = g.loops[q]
  BY <1>2 DEF LoopAs
<1>4. Have(h, B) = Have(g, B)
  BY <1>3 DEF Have
<1>5. Ctx(e, p, g, B)
  <2>1. Held(e, b, A, W \cup {b.cur}) /\ Have(b, A) \subseteq Have(g, B)
    BY <1>1, <1>2, <1>4 DEF Live
  <2> QED
    BY <1>1, <1>2, <2>1, CtxKept
<1>6. /\ \A q \in DOMAIN g.loops : g.loops[q].open = TRUE <=> q \in DOMAIN e.body /\ IsLoop(e.body, q) /\ Inside(e.body, q, p)
      /\ \A q \in DOMAIN g.loops : g.loops[q].open = TRUE => B[g.loops[q].entry] \subseteq Have(g, B)
      /\ \A l \in Ids(e.body) : Visible(e.body, p, l) => LocalGood(e, g, B, l)
  BY <1>5 DEF Ctx
<1>7. /\ \A q \in DOMAIN e.body : Inside(e.body, q, j) <=> Inside(e.body, q, p) \/ q = p
      /\ \A l \in Ids(e.body) : Visible(e.body, j, l) => Visible(e.body, p, l)
  BY DEF BodyFacts
<1>8. \A q \in DOMAIN h.loops : h.loops[q].open = TRUE <=> q \in DOMAIN e.body /\ IsLoop(e.body, q) /\ Inside(e.body, q, j)
  <2> SUFFICES ASSUME NEW q, q \in DOMAIN h.loops
               PROVE  h.loops[q].open = TRUE <=> q \in DOMAIN e.body /\ IsLoop(e.body, q) /\ Inside(e.body, q, j)
    BY Zenon
  <2>1. CASE q = p
    BY <1>1, <1>2, <1>3, <1>7, <2>1
  <2>2. CASE q # p
    <3>1. h.loops[q] = g.loops[q] /\ q \in DOMAIN g.loops
      BY <1>3, <2>2
    <3> QED
      BY <1>6, <1>7, <2>2, <3>1
  <2> QED
    BY <2>1, <2>2, Zenon
<1>9. \A q \in DOMAIN h.loops : h.loops[q].open = TRUE => B[h.loops[q].entry] \subseteq Have(h, B)
  <2> SUFFICES ASSUME NEW q, q \in DOMAIN h.loops, h.loops[q].open = TRUE PROVE B[h.loops[q].entry] \subseteq Have(h, B)
    BY Zenon
  <2>1. CASE q = p
    BY <1>2, <1>3, <2>1
  <2>2. CASE q # p
    <3>1. h.loops[q] = g.loops[q] /\ q \in DOMAIN g.loops
      BY <1>3, <2>2
    <3> QED
      BY <1>4, <1>6, <3>1
  <2> QED
    BY <2>1, <2>2
<1>10. \A l \in Ids(e.body) : Visible(e.body, j, l) => LocalGood(e, h, B, l)
  <2> SUFFICES ASSUME NEW l, l \in Ids(e.body), Visible(e.body, j, l) PROVE LocalGood(e, h, B, l)
    OBVIOUS
  <2>1. LocalGood(e, g, B, l)
    BY <1>6, <1>7
  <2> QED
    BY <1>3, <1>4, <2>1 DEF LocalGood
<1> QED
  BY <1>8, <1>9, <1>10 DEF Ctx

\* The body is a task of its own.
LEMMA BodyTask ==
    ASSUME NEW c, NEW e, NEW p, NEW b, NEW A, NEW W, Task(c, e, p, b, A, W), IsLoop(e.body, p), NEW j, BodyFacts(e.body, p, j),
           NEW g, NEW h, NEW B, NEW x, LoopStart(e, p, b, A, W, g, h, B, x)
    PROVE  Task(c, e, j, h, B, W) /\ IsBlock(e, j)
<1>1. Env(e) /\ c.body = e.body /\ c.info = e.info /\ LGood(c, e, p) /\ p \in DOMAIN e.body /\ IsBody(e.body)
  BY TaskRules DEF Task
<1>2. j \in DOMAIN e.body /\ j \in Nat /\ p \in Nat /\ p < j /\ e.body[j].last \in Nat /\ e.body[j].last <= e.body[p].last
      /\ e.body[p].last \in Nat /\ e.body[j].op \in BlockOps
  BY DEF BodyFacts
<1>3. \A i \in DOMAIN e.body : j < i /\ i <= e.body[j].last => p < i /\ i <= e.body[p].last
  <2> SUFFICES ASSUME NEW i, i \in DOMAIN e.body, j < i, i <= e.body[j].last PROVE p < i /\ i <= e.body[p].last
    OBVIOUS
  <2>1. i \in Nat
    BY <1>1, NodeFacts
  <2> QED
    BY <1>2, <2>1
<1>4. LGood(c, e, j)
  <2> SUFFICES ASSUME NEW i, i \in DOMAIN e.body, j < i, i <= e.body[j].last
               PROVE  \A s, G, V : Live(e, s, G, V) /\ Ctx(e, i, s, G) => \E H : LPost(e, i, s, G, V, LowerSub(c, i, s), H)
    BY DEF LGood
  <2>1. p < i /\ i <= e.body[p].last
    BY <1>3
  <2> QED
    BY <1>1, <2>1 DEF LGood
<1>5. Ctx(e, j, h, B) /\ Live(e, h, B, W)
  BY CtxBody, Zenon DEF LoopStart
<1> QED
  BY <1>1, <1>2, <1>4, <1>5 DEF Task, IsBlock

\* The body has gone back to the entry of the loop, or ended before.
BodyClosed(e, p, h, B, W, back, C) == Since(e, p, h, B, back, C) /\ Held(e, back, C, W) /\ back.ok = TRUE

\* CloseBody
LEMMA BodyLowered ==
    ASSUME NEW c, NEW e, NEW p, NEW b, NEW A, NEW W, Task(c, e, p, b, A, W), IsLoop(e.body, p),
           NEW g, NEW h, NEW B, NEW x, LoopStart(e, p, b, A, W, g, h, B, x), NEW j, j = Last(e.body[p].sub),
           NEW back, back = CloseBody(LowerBlock(c, j, h), p)
    PROVE  \E C : BodyClosed(e, p, h, B, W, back, C)
<1> DEFINE s == LowerBlock(c, j, h)
<1>1. IsBody(e.body) /\ p \in DOMAIN e.body
  BY TaskRules
<1>2. BodyFacts(e.body, p, j)
  BY <1>1, BodyThere
<1>3. j \in DOMAIN e.body /\ p < j
  BY <1>2 DEF BodyFacts
<1>4. Task(c, e, j, h, B, W) /\ IsBlock(e, j)
  BY <1>2, BodyTask
<1>5. s = LowerBlock(c, j, h)
  OBVIOUS
<1>6. back = IF s.ok THEN Terminate(s, Br(s.loops[p].entry)) ELSE [s EXCEPT !.ok = TRUE]
  BY DEF CloseBody
<1> HIDE DEF s
<1>7. PICK C : LPost(e, j, h, B, W, s, C)
  BY <1>4, <1>5, BlockLowered
<1>8. Since(e, j, h, B, s, C)
  BY <1>7 DEF LPost, Passed, Halted
<1>9. Since(e, p, h, B, s, C)
  BY <1>1, <1>3, <1>8, SinceChild
<1>10. CASE Passed(e, j, h, B, W, s, C)
  <2> DEFINE m == s.loops[p].entry
  <2>1. Live(e, s, C, W) /\ s.ok = TRUE /\ Have(h, B) \subseteq Have(s, C)
    BY <1>10 DEF Passed, Live
  <2>2. /\ p \in DOMAIN h.loops /\ h.loops[p] = x /\ x.open = TRUE /\ x.entry \in Nat /\ x.entry \in DOMAIN B /\ x.entry # 1
        /\ B[x.entry] \subseteq Have(h, B)
    BY DEF LoopStart, LoopAs
  <2>3. m = x.entry
    BY <1>9, <2>2 DEF Since, SameLoops
  <2>4. back = Terminate(s, Br(m))
    BY <1>6, <2>1
  <2> HIDE DEF m
  <2>5. m \in DOMAIN C /\ C[m] = B[x.entry]
    BY <1>9, <2>2, <2>3 DEF Since, Wider
  <2>6. Target(C, Have(s, C), m) /\ m \in Nat
    BY <2>1, <2>2, <2>3, <2>5 DEF Target
  <2>7. Held(e, back, C, W) /\ TerminatedAs(s, C, back) /\ Grown(e, s, C, back, C)
    BY <2>1, <2>4, <2>6, JumpGood
  <2>8. back.ok = TRUE
    BY <2>1, <2>7 DEF TerminatedAs, Rest
  <2>9. Since(e, p, s, C, back, C)
    BY <2>7 DEF Grown
  <2>10. Since(e, p, h, B, back, C)
    BY <1>9, <2>9, SinceJoin
  <2>11. BodyClosed(e, p, h, B, W, back, C)
    BY <2>7, <2>8, <2>10 DEF BodyClosed
  <2> QED
    BY <2>11
<1>11. CASE Halted(e, j, h, B, W, s, C)
  <2> DEFINE yes == TRUE
  <2>1. Held(e, s, C, W) /\ s.ok = FALSE
    BY <1>11 DEF Halted, Ended
  <2>2. back = [s EXCEPT !.ok = yes]
    BY <1>6, <2>1
  <2>3. yes = TRUE /\ yes \in BOOLEAN
    OBVIOUS
  <2> HIDE DEF yes
  <2>4. Held(e, back, C, W) /\ back.ok = yes /\ Grown(e, s, C, back, C)
    BY <2>1, <2>2, <2>3, Resume, ZenonT(60)
  <2>5. Since(e, p, s, C, back, C)
    BY <2>4 DEF Grown
  <2>6. Since(e, p, h, B, back, C)
    BY <1>9, <2>5, SinceJoin
  <2>7. BodyClosed(e, p, h, B, W, back, C)
    BY <2>3, <2>4, <2>6 DEF BodyClosed
  <2> QED
    BY <2>7
<1> QED
  BY <1>7, <1>10, <1>11 DEF LPost

\* The loop p is closed; its record was y.
LoopOver(e, p, b, A, W, closed, C, y) ==
  /\ Since(e, p, b, A, closed, C) /\ ClosedAs(e, closed, C, W, y.exit) /\ closed.ok = TRUE
  /\ LoopGood(e, closed.insts, C, p, y) /\ Have(b, A) \subseteq C[y.entry] /\ y \in LoopInfo

\* Its record is taken out.
LEMMA LoopTakenOut ==
    ASSUME NEW e, NEW p, NEW b, NEW A, NEW W, NEW g, NEW h, NEW B, NEW x, LoopStart(e, p, b, A, W, g, h, B, x),
           NEW back, NEW C, BodyClosed(e, p, h, B, W, back, C), NEW y, y = back.loops[p],
           NEW closed, LoopAs(e.body, back, closed, p, NotALoop)
    PROVE  LoopOver(e, p, b, A, W, closed, C, y)
<1>1. /\ Since(e, p, b, A, g, B) /\ g.loops[p].open = FALSE /\ LoopAs(e.body, g, h, p, x) /\ x.open = TRUE
      /\ x.entry \in DOMAIN B /\ Have(b, A) \subseteq B[x.entry]
  BY DEF LoopStart
<1>2. /\ h.insts = g.insts /\ h.locals = g.locals /\ p \in DOMAIN g.loops /\ DOMAIN h.loops = DOMAIN g.loops
      /\ h.loops[p] = x /\ \A q \in DOMAIN g.loops : q # p => h.loops[q] = g.loops[q]
  BY <1>1 DEF LoopAs
<1>3. Since(e, p, h, B, back, C) /\ Held(e, back, C, W) /\ back.ok = TRUE
  BY DEF BodyClosed
<1>4. /\ Ext(h.insts, back.insts) /\ Wider(B, C) /\ SameLocals(e.body, p, h, back) /\ DOMAIN back.loops = DOMAIN h.loops
      /\ \A q \in DOMAIN h.loops : back.loops[q].open = h.loops[q].open /\ (h.loops[q].open = TRUE => back.loops[q].entry = h.loops[q].entry)
  BY <1>3 DEF Since, SameLoops
<1>5. /\ closed.insts = back.insts /\ closed.locals = back.locals /\ closed.ok = back.ok /\ DOMAIN closed.loops = DOMAIN back.loops
      /\ closed.loops[p] = NotALoop /\ \A q \in DOMAIN back.loops : q # p => closed.loops[q] = back.loops[q]
  BY DEF LoopAs
<1>6. p \in DOMAIN back.loops /\ y.open = TRUE /\ y.entry = x.entry
  BY <1>1, <1>2, <1>4
<1>7. back \in Lowerers(e.body)
  BY <1>3, HeldFields, Zenon
<1>8. y \in LoopInfo
  BY <1>6, <1>7, LoopFields
<1>9. LoopEnds(e, back, C, W, p, NotALoop)
  BY <1>3, <1>6 DEF LoopEnds, NotALoop
<1>10. ClosedAs(e, closed, C, W, y.exit)
  <2> DEFINE way == y.exit
  <2>1. way = back.loops[p].exit
    OBVIOUS
  <2> HIDE DEF way
  <2>2. ClosedAs(e, closed, C, W, way)
    BY <1>9, <2>1, LoopClosedGood
  <2> QED
    BY <2>2 DEF way
<1>11. LoopGood(e, closed.insts, C, p, y)
  BY <1>3, <1>5, <1>6 DEF Held, LoopsGood
<1>12. Have(b, A) \subseteq C[y.entry]
  BY <1>1, <1>4, <1>6 DEF Wider
<1>13. Since(e, p, g, B, closed, C)
  <2>1. SameLoops(g, closed)
    <3>1. \A q \in DOMAIN g.loops : /\ closed.loops[q].open = g.loops[q].open
                                    /\ g.loops[q].open = TRUE => closed.loops[q].entry = g.loops[q].entry
      <4> SUFFICES ASSUME NEW q, q \in DOMAIN g.loops
                   PROVE  /\ closed.loops[q].open = g.loops[q].open
                          /\ g.loops[q].open = TRUE => closed.loops[q].entry = g.loops[q].entry
        BY Zenon
      <4>1. CASE q = p
        <5>1. NotALoop.open = FALSE
          BY DEF NotALoop
        <5>2. closed.loops[q].open = FALSE /\ g.loops[q].open = FALSE
          BY <1>1, <1>5, <4>1, <5>1
        <5> QED
          BY <5>2, Zenon
      <4>2. CASE q # p
        <5>1. h.loops[q] = g.loops[q] /\ closed.loops[q] = back.loops[q]
          BY <1>2, <1>4, <1>5, <4>2
        <5> QED
          BY <1>2, <1>4, <5>1
      <4> QED
        BY <4>1, <4>2, Zenon
    <3> QED
      BY <1>2, <1>4, <1>5, <3>1 DEF SameLoops
  <2>2. SameLocals(e.body, p, g, closed)
    BY <1>2, <1>4, <1>5 DEF SameLocals
  <2> QED
    BY <1>2, <1>4, <1>5, <2>1, <2>2 DEF Since
<1>14. Since(e, p, b, A, closed, C)
  BY <1>1, <1>13, SinceJoin
<1> QED
  BY <1>3, <1>5, <1>8, <1>10, <1>11, <1>12, <1>14 DEF LoopOver

\* What a loop leaves, once it is closed.
LoopResult(closed, ty, y) ==
  LET out == PositionAtEnd(closed, y.exit) IN
  IF y.exit = NoBlock THEN Stop(closed) ELSE IF y.result # Void THEN Place(out, ty, y.result) ELSE Value(out, ty, Void)

\* What the checker has found of a loop whose condition has been lowered.
LoopFound(e, p, ty) ==
  /\ ty = e.info[p].ty /\ Rule(e.body, e.result, e.info, p) /\ IsLoop(e.body, p)
  /\ e.body[p].op = "while" => ~Ends(e.info, e.body[p].sub[1])

\* The end of a loop.
LEMMA LoopResultLowered ==
    ASSUME NEW e, NEW p, NEW b, NEW A, NEW W, NEW closed, NEW C, NEW y, LoopOver(e, p, b, A, W, closed, C, y),
           NEW ty, LoopFound(e, p, ty), NEW t, t = LoopResult(closed, ty, y)
    PROVE  LPost(e, p, b, A, W, t, C)
<1>0. /\ ty = e.info[p].ty /\ Rule(e.body, e.result, e.info, p) /\ IsLoop(e.body, p)
      /\ e.body[p].op = "while" => ~Ends(e.info, e.body[p].sub[1])
  BY DEF LoopFound
<1>1. /\ Since(e, p, b, A, closed, C) /\ ClosedAs(e, closed, C, W, y.exit) /\ closed.ok = TRUE
      /\ LoopGood(e, closed.insts, C, p, y) /\ Have(b, A) \subseteq C[y.entry] /\ y \in LoopInfo
  BY DEF LoopOver
<1>2. CASE y.exit = NoBlock
  <2>1. Held(e, closed, C, W)
    BY <1>1, <1>2 DEF ClosedAs
  <2>2. t = Stop(closed)
    BY <1>2 DEF LoopResult
  <2> QED
    BY <1>1, <2>1, <2>2, StopEnds
<1>3. CASE y.exit # NoBlock
  <2> DEFINE way == y.exit
             out == PositionAtEnd(closed, way)
             slot == y.result
  <2>1. Held(e, closed, C, W \cup {way}) /\ way \notin W
    BY <1>1, <1>3 DEF ClosedAs
  <2>2. t = IF slot # Void THEN Place(out, ty, slot) ELSE Value(out, ty, Void)
    BY <1>3 DEF LoopResult
  <2>3. /\ C[y.entry] \subseteq C[way]
        /\ e.body[p].op = "loop" => ~Ends(e.info, p)
        /\ slot = Void => e.info[p].ty = Unit
        /\ slot # Void => SlotIn(closed.insts, slot, C[way]) /\ e.info[p].ty = Bool
    BY <1>1, <1>3 DEF LoopGood
  <2>4. out = PositionAtEnd(closed, way) /\ slot \in Operand
    BY <1>1 DEF LoopInfo
  <2> HIDE DEF way, out, slot
  <2>5. Entered(e, closed, C, W, way, out)
    BY <1>1, <2>1, <2>4, EnterBlock, Zenon
  <2>6. Live(e, out, C, W) /\ C[way] \subseteq Have(out, C) /\ out.insts = closed.insts /\ Grown(e, closed, C, out, C)
    BY <2>5 DEF Entered
  <2>7. Since(e, p, closed, C, out, C)
    BY <2>6 DEF Grown
  <2>8. Since(e, p, b, A, out, C)
    BY <1>1, <2>7, SinceJoin
  <2>9. Passed(e, p, b, A, W, out, C)
    BY <1>1, <2>3, <2>6, <2>8 DEF Passed
  <2>10. ~Ends(e.info, p)
    BY <1>0, <2>3 DEF Rule, BranchRule, IsLoop
  <2>11. CASE slot = Void
    <3>1. t = Value(out, Unit, Void) /\ e.info[p].ty = Unit
      BY <1>0, <2>2, <2>3, <2>11
    <3>2. e.body[p].op # "x"
      BY <1>0 DEF IsLoop
    <3> QED
      BY <2>9, <2>10, <3>1, <3>2, UnitEnds
  <2>12. CASE slot # Void
    <3>1. t = Place(out, Bool, slot) /\ e.info[p].ty = Bool /\ SlotIn(out.insts, slot, Have(out, C))
      BY <1>0, <2>2, <2>3, <2>6, <2>12 DEF SlotIn
    <3>2. ~IsBlock(e, p)
      BY <1>0 DEF IsLoop, IsBlock, BlockOps
    <3> QED
      BY <2>4, <2>9, <2>10, <3>1, <3>2, PlaceEnds
  <2> QED
    BY <2>11, <2>12
<1> QED
  BY <1>2, <1>3

\* loop { a } and while a { b }
LEMMA LoopLowered ==
    ASSUME NEW c, NEW e, NEW p, NEW b, NEW A, NEW W, Task(c, e, p, b, A, W), IsLoop(e.body, p), NEW t, t = LowerLoop(c, p, b)
    PROVE  \E B : LPost(e, p, b, A, W, t, B)
<1> DEFINE h == LowerLoopHead(c, p, b)
           j == Last(e.body[p].sub)
           back == CloseBody(LowerBlock(c, j, h), p)
           y == back.loops[p]
           closed == [back EXCEPT !.loops[p] = NotALoop]
           ty == e.info[p].ty
<1>1. Rule(e.body, e.result, e.info, p) /\ c.info = e.info /\ c.body = e.body /\ IsBody(e.body) /\ p \in DOMAIN e.body
  BY TaskRules, SMTT(60)
<1>2. t = IF h.ok THEN LoopResult(closed, ty, y) ELSE h
  BY <1>1 DEF LowerLoop, Then, LoopResult
<1>3. /\ h = LowerLoopHead(c, p, b) /\ j = Last(e.body[p].sub) /\ back = CloseBody(LowerBlock(c, j, h), p) /\ y = back.loops[p]
      /\ closed = [back EXCEPT !.loops[p] = NotALoop] /\ ty = e.info[p].ty
  OBVIOUS
<1> HIDE DEF h, j, back, y, closed, ty
<1>4. PICK B : HeadDone(e, p, b, A, W, h, B)
  BY <1>3, HeadLowered
<1>5. CASE Halted(e, p, b, A, W, h, B)
  BY <1>2, <1>5 DEF LPost, Halted, Ended
<1>6. CASE \E g, x : LoopStart(e, p, b, A, W, g, h, B, x)
  <2>1. PICK g, x : LoopStart(e, p, b, A, W, g, h, B, x)
    BY <1>6
  <2>2. h.ok = TRUE /\ p \in DOMAIN h.loops /\ (e.body[p].op = "while" => ~Ends(e.info, e.body[p].sub[1]))
    BY <2>1 DEF LoopStart, LoopAs, Live
  <2>3. PICK C : BodyClosed(e, p, h, B, W, back, C)
    BY <1>3, <2>1, BodyLowered
  <2>4. back \in Lowerers(e.body) /\ p \in DOMAIN back.loops
    <3>1. back \in Lowerers(e.body)
      BY <2>3, HeldFields, Zenon DEF BodyClosed
    <3> QED
      BY <2>2, <2>3, <3>1 DEF BodyClosed, Since, SameLoops
  <2>5. LoopAs(e.body, back, closed, p, NotALoop)
    <3> DEFINE loops == [back.loops EXCEPT ![p] = NotALoop]
    <3>1. NotALoop \in LoopInfo
      BY DEF NotALoop, LoopInfo, Operand, Void, NoBlock
    <3>2. closed = [back EXCEPT !.loops = loops] /\ loops = [back.loops EXCEPT ![p] = NotALoop]
      BY <1>3, <2>4 DEF Lowerers
    <3> HIDE DEF loops
    <3> QED
      BY <2>4, <3>1, <3>2, LoopReplaced
  <2>6. LoopOver(e, p, b, A, W, closed, C, y)
    BY <1>3, <2>1, <2>3, <2>5, LoopTakenOut
  <2>7. t = LoopResult(closed, ty, y)
    BY <1>2, <2>2, SMTT(60)
  <2>8. LoopFound(e, p, ty)
    BY <1>1, <1>3, <2>2, Zenon DEF LoopFound
  <2>9. LPost(e, p, b, A, W, t, C)
    BY <2>6, <2>7, <2>8, LoopResultLowered, Zenon
  <2> QED
    BY <2>9
<1> QED
  BY <1>4, <1>5, <1>6 DEF HeadDone

\* Whatever the node, its lowering keeps the promise.
LEMMA ExprLowered ==
    ASSUME NEW c, NEW e, NEW p, NEW b, NEW A, NEW W, Task(c, e, p, b, A, W), NEW t, t = LowerExpr(c, p, b)
    PROVE  \E B : LPost(e, p, b, A, W, t, B)
<1> DEFINE op == e.body[p].op
<1>1. IsBody(e.body) /\ p \in DOMAIN e.body /\ c.body = e.body
  BY TaskRules
<1>2. op \in Ops
  BY <1>1, NodeFacts
<1>3. CASE op \in {"unit", "true", "read"}
  BY <1>3, AtomLowered
<1>4. CASE op = "x"
  BY <1>1, <1>4, PathLowered, SMTT(60) DEF LowerExpr, BlockOps
<1>5. CASE op \in BlockOps
  BY <1>1, <1>5, BlockLowered DEF LowerExpr, BlockOps, IsBlock
<1>6. CASE op = "not"
  BY <1>1, <1>6, NotLowered DEF LowerExpr, BlockOps
<1>7. CASE op = "xor"
  BY <1>1, <1>7, ArithmeticLowered DEF LowerExpr, BlockOps
<1>8. CASE op = "eq"
  BY <1>1, <1>8, EqualityLowered DEF LowerExpr, BlockOps
<1>9. CASE op \in {"and", "or"}
  BY <1>1, <1>9, ShortCircuitLowered DEF LowerExpr, BlockOps, IsLazy
<1>10. CASE op = "set"
  BY <1>1, <1>10, AssignLowered DEF LowerExpr, BlockOps
<1>11. CASE op \in {"loop", "while"}
  BY <1>1, <1>11, LoopLowered DEF LowerExpr, BlockOps, IsLoop
<1>12. CASE op \in {"break", "breakv"}
  BY <1>1, <1>12, BreakLowered DEF LowerExpr, BlockOps, IsBreak
<1>13. CASE op = "continue"
  BY <1>1, <1>13, ContinueLowered DEF LowerExpr, BlockOps
<1>14. CASE op \in {"if", "ifelse"}
  BY <1>1, <1>14, IfLowered DEF LowerExpr, BlockOps, IsIf
<1>15. CASE op \in {"return", "returnv"}
  BY <1>1, <1>15, ReturnLowered DEF LowerExpr, BlockOps, IsReturn
<1>16. op \in {"unit", "true", "read"} \cup {"x"} \cup BlockOps \cup {"not"} \cup {"xor"} \cup {"eq"} \cup {"and", "or"} \cup {"set"}
            \cup {"loop", "while"} \cup {"break", "breakv"} \cup {"continue"} \cup {"if", "ifelse"} \cup {"return", "returnv"}
  BY <1>2 DEF Ops, Atoms, Unary, Binary, BlockOps
<1> HIDE DEF op
<1> QED
  BY <1>3, <1>4, <1>5, <1>6, <1>7, <1>8, <1>9, <1>10, <1>11, <1>12, <1>13, <1>14, <1>15, <1>16

\* A table of lowerings keeps the promise for node j.
Delivers(e, table, j) ==
  \A b, A, W : Live(e, b, A, W) /\ Ctx(e, j, b, A) => \E B : LPost(e, j, b, A, W, table[<<j, b>>], B)

\* One more level keeps it, if the level below does.
LEMMA LevelLowered ==
    ASSUME NEW e, Env(e), NEW table, NEW j, j \in DOMAIN e.body,
           \A i \in DOMAIN e.body : j < i /\ i <= e.body[j].last => Delivers(e, table, i)
    PROVE  Delivers(e, LowerLevel(e.body, e.info, table), j)
<1> SUFFICES ASSUME NEW b, NEW A, NEW W, Live(e, b, A, W), Ctx(e, j, b, A)
             PROVE  \E B : LPost(e, j, b, A, W, LowerLevel(e.body, e.info, table)[<<j, b>>], B)
  BY DEF Delivers
<1> DEFINE c == [body |-> e.body, info |-> e.info, expr |-> table]
           t == LowerExpr(c, j, b)
<1>1. b \in Lowerers(e.body)
  BY LiveFields, Zenon
<1>2. t = LowerLevel(e.body, e.info, table)[<<j, b>>]
  BY <1>1 DEF LowerLevel
<1>3. c.body = e.body /\ c.info = e.info /\ c.expr = table /\ t = LowerExpr(c, j, b)
  OBVIOUS
<1> HIDE DEF c, t
<1>4. LGood(c, e, j)
  <2> SUFFICES ASSUME NEW i, i \in DOMAIN e.body, j < i, i <= e.body[j].last
               PROVE  \A s, G, V : Live(e, s, G, V) /\ Ctx(e, i, s, G) => \E H : LPost(e, i, s, G, V, LowerSub(c, i, s), H)
    BY DEF LGood
  <2>1. Delivers(e, table, i)
    OBVIOUS
  <2>2. \A s : LowerSub(c, i, s) = table[<<i, s>>]
    BY <1>3 DEF LowerSub
  <2> QED
    BY <2>1, <2>2, Zenon DEF Delivers
<1>5. Task(c, e, j, b, A, W)
  BY <1>3, <1>4 DEF Task
<1>6. \E B : LPost(e, j, b, A, W, t, B)
  BY <1>3, <1>5, ExprLowered
<1> QED
  BY <1>2, <1>6

\* The lowering of the nodes with at most n nodes below them keeps it.
LEMMA DepthLowered ==
    ASSUME NEW e, Env(e)
    PROVE  \A n \in Nat : \A j \in DOMAIN e.body : e.body[j].last - j <= n => Delivers(e, LowerTree(e.body, e.info)[n], j)
<1> DEFINE f == e.body
           T(n) == LowerTree(f, e.info)[n]
           S == {n \in Nat : \A j \in DOMAIN f : f[j].last - j <= n => Delivers(e, T(n), j)}
<1>0. IsBody(f)
  BY DEF Env
<1>1. ASSUME NEW n \in Nat, NEW table, T(n) = LowerLevel(f, e.info, table),
             \A i \in DOMAIN f, j \in DOMAIN f : f[i].last - i <= n /\ i < j /\ j <= f[i].last => Delivers(e, table, j)
      PROVE  n \in S
  <2> SUFFICES ASSUME NEW j \in DOMAIN f, f[j].last - j <= n PROVE Delivers(e, T(n), j)
    OBVIOUS
  <2>1. \A i \in DOMAIN f : j < i /\ i <= f[j].last => Delivers(e, table, i)
    BY <1>1
  <2>2. Delivers(e, LowerLevel(f, e.info, table), j)
    BY <2>1, LevelLowered
  <2> QED
    BY <1>1, <2>2
<1>2. 0 \in S
  <2>1. T(0) = LowerLevel(f, e.info, <<>>)
    BY LowerTreeLevels
  <2>2. \A i \in DOMAIN f, j \in DOMAIN f : f[i].last - i <= 0 /\ i < j /\ j <= f[i].last => Delivers(e, <<>>, j)
    <3> SUFFICES ASSUME NEW i \in DOMAIN f, NEW j \in DOMAIN f, f[i].last - i <= 0, i < j, j <= f[i].last PROVE FALSE
      OBVIOUS
    <3>1. i \in Nat /\ j \in Nat /\ f[i].last \in Nat
      BY <1>0, NodeFacts
    <3> QED
      BY <3>1
  <2> QED
    BY <1>1, <2>1, <2>2
<1>3. ASSUME NEW n \in Nat, n \in S PROVE n + 1 \in S
  <2> DEFINE table == T(n)
             m == n + 1
  <2>1. m \in Nat /\ m # 0 /\ m - 1 = n
    OBVIOUS
  <2>2. T(m) = LowerLevel(f, e.info, table)
    BY <2>1, LowerTreeLevels
  <2>3. \A i \in DOMAIN f, j \in DOMAIN f : f[i].last - i <= m /\ i < j /\ j <= f[i].last => Delivers(e, table, j)
    <3> SUFFICES ASSUME NEW i \in DOMAIN f, NEW j \in DOMAIN f, f[i].last - i <= m, i < j, j <= f[i].last PROVE Delivers(e, table, j)
      OBVIOUS
    <3>1. i \in Nat /\ j \in Nat /\ f[i].last \in Nat /\ f[j].last \in Nat
      BY <1>0, NodeFacts
    <3>2. f[j].last - j < f[i].last - i
      BY <1>0, Deeper
    <3>3. f[j].last - j <= n
      BY <3>1, <3>2
    <3> QED
      BY <1>3, <3>3
  <2> HIDE DEF table, m
  <2>4. m \in S
    BY <1>1, <2>1, <2>2, <2>3
  <2> QED
    BY <2>4 DEF m
<1> HIDE DEF S
<1>4. Nat \subseteq S
  BY <1>2, <1>3, SetInduction
<1> QED
  BY <1>4, SMTT(60) DEF S

\* One empty block, and nothing else.
FirstBlock(f, s) ==
  /\ s \in Lowerers(f) /\ s.ok = TRUE /\ s.fault = FALSE /\ s.insts = <<>> /\ s.cur = 1
  /\ DOMAIN s.blocks = {1} /\ s.blocks # <<>> /\ s.blocks[1].insts = <<>> /\ s.blocks[1].term = NoTerminator
  /\ DOMAIN s.loops = 0 .. Len(f) /\ \A q \in DOMAIN s.loops : s.loops[q].open = FALSE

\* A state, field by field.
LEMMA LowererMade ==
    ASSUME NEW f, NEW yes \in BOOLEAN, NEW no \in BOOLEAN, NEW insts \in Seq(Instructions), NEW blocks \in Seq(BasicBlock), NEW cur \in Nat,
           NEW locals \in [Ids(f) -> LoweredExpr], NEW loops \in [0 .. Len(f) -> LoopInfo], NEW res \in LoweredExpr, NEW s,
           s = [ok |-> yes, fault |-> no, insts |-> insts, blocks |-> blocks, cur |-> cur, locals |-> locals, loops |-> loops, res |-> res]
    PROVE  s \in Lowerers(f)
BY DEF Lowerers

\* Where lowering starts.
LEMMA FirstBlockThere ==
    ASSUME NEW f, IsBody(f), NEW s,
           s = CreateBlock([ok |-> TRUE, fault |-> FALSE, insts |-> <<>>, blocks |-> <<>>, cur |-> 1,
                            locals |-> [q \in Ids(f) |-> Unbound], loops |-> [q \in 0 .. Len(f) |-> NotALoop],
                            res |-> [kind |-> "value", ty |-> Unit, opd |-> Void]])
    PROVE  FirstBlock(f, s)
<1> DEFINE x == [insts |-> <<>>, term |-> NoTerminator]
           locals == [q \in Ids(f) |-> Unbound]
           loops == [q \in 0 .. Len(f) |-> NotALoop]
           res == [kind |-> "value", ty |-> Unit, opd |-> Void]
<1>1. s = [ok |-> TRUE, fault |-> FALSE, insts |-> <<>>, blocks |-> Append(<<>>, x), cur |-> 1, locals |-> locals, loops |-> loops, res |-> res]
  BY Zenon DEF CreateBlock
<1>2. Void \in Operand
  BY DEF Void, Operand
<1>3. x \in BasicBlock /\ x.insts = <<>> /\ x.term = NoTerminator
  <2>1. NoTerminator \in Terminator
    BY <1>2 DEF NoTerminator, Terminator
  <2> QED
    BY <2>1 DEF BasicBlock
<1>4. locals \in [Ids(f) -> LoweredExpr]
  BY <1>2 DEF Unbound, LoweredExpr
<1>5. loops \in [0 .. Len(f) -> LoopInfo] /\ DOMAIN loops = 0 .. Len(f) /\ \A q \in DOMAIN loops : loops[q].open = FALSE
  BY <1>2 DEF NotALoop, LoopInfo, NoBlock
<1>6. res \in LoweredExpr
  BY <1>2 DEF LoweredExpr, Types
<1> HIDE DEF x, locals, loops, res
<1> DEFINE blocks == Append(<<>>, x)
<1>7. blocks \in Seq(BasicBlock) /\ DOMAIN blocks = {1} /\ blocks # <<>> /\ blocks[1] = x
  <2>1. <<>> \in Seq(BasicBlock) /\ Len(<<>>) = 0
    OBVIOUS
  <2>2. blocks \in Seq(BasicBlock) /\ Len(blocks) = 1 /\ blocks[1] = x
    BY <1>3, <2>1, AppendProperties
  <2> QED
    BY <2>2
<1>8. s = [ok |-> TRUE, fault |-> FALSE, insts |-> <<>>, blocks |-> blocks, cur |-> 1, locals |-> locals, loops |-> loops, res |-> res]
  BY <1>1, Zenon
<1> HIDE DEF blocks
<1> DEFINE none == <<>>
           yes == TRUE
           no == FALSE
<1>9. none \in Seq(Instructions) /\ none = <<>> /\ yes \in BOOLEAN /\ yes = TRUE /\ no \in BOOLEAN /\ no = FALSE /\ 1 \in Nat
  OBVIOUS
<1>10. s = [ok |-> yes, fault |-> no, insts |-> none, blocks |-> blocks, cur |-> 1, locals |-> locals, loops |-> loops, res |-> res]
  BY <1>8, Zenon
<1> HIDE DEF none, yes, no
<1>11. s \in Lowerers(f)
  BY <1>4, <1>5, <1>6, <1>7, <1>9, <1>10, LowererMade, Zenon
<1>12. s.ok = yes /\ s.fault = no /\ s.insts = none /\ s.cur = 1 /\ s.blocks = blocks /\ s.loops = loops
  BY <1>10
<1> QED
  BY <1>3, <1>5, <1>7, <1>9, <1>11, <1>12, Zenon DEF FirstBlock

\* It is good.
LEMMA FirstBlockGood ==
    ASSUME NEW e, NEW s, FirstBlock(e.body, s), NEW A, A = [j \in {1} |-> {}]
    PROVE  Live(e, s, A, {}) /\ Have(s, A) = {}
<1>1. /\ s \in Lowerers(e.body) /\ s.ok = TRUE /\ s.fault = FALSE /\ s.insts = <<>> /\ s.cur = 1
      /\ DOMAIN s.blocks = {1} /\ s.blocks # <<>> /\ s.blocks[1].insts = <<>> /\ s.blocks[1].term = NoTerminator
      /\ \A q \in DOMAIN s.loops : s.loops[q].open = FALSE
  BY DEF FirstBlock
<1>2. A \in [DOMAIN s.blocks -> SUBSET Nat] /\ A[1] = {}
  BY <1>1
<1>3. BlockGood(e.result, s.insts, s.blocks[1], A, A[1])
  <2>1. InstsOK(s.insts, s.blocks[1].insts, A[1])
    BY <1>1 DEF InstsOK
  <2> QED
    BY <1>1, <2>1, OpenBlock
<1>4. CodeGood(e, s, A)
  BY <1>1, <1>2, <1>3 DEF CodeGood, SlotsFirst, Alloca
<1>5. LoopsGood(e, s, A) /\ ExitsApart(s) /\ \A j : ~IsExit(s, j)
  BY <1>1 DEF LoopsGood, ExitsApart, IsExit
<1>6. Holding(s, {1})
  BY <1>1, <1>5 DEF Holding
<1>7. Live(e, s, A, {})
  <2>1. {} \cup {s.cur} = {1}
    BY <1>1
  <2> QED
    BY <1>1, <1>4, <1>5, <1>6, <2>1 DEF Live, Held
<1>8. Have(s, A) = {}
  BY <1>1, <1>2 DEF Have, All
<1> QED
  BY <1>7, <1>8

\* Nothing around the root.
RootReady(e, b, A) == Live(e, b, A, {}) /\ Ctx(e, 1, b, A)

\* The entry block, with the parameter in its slot.
LEMMA EntryLowered ==
    ASSUME NEW e, Env(e), NEW b, b = LowerEntry(e.body)
    PROVE  \E A : RootReady(e, b, A)
<1> DEFINE f == e.body
           one == CreateBlock([ok |-> TRUE, fault |-> FALSE, insts |-> <<>>, blocks |-> <<>>, cur |-> 1,
                               locals |-> [q \in Ids(f) |-> Unbound], loops |-> [q \in 0 .. Len(f) |-> NotALoop],
                               res |-> [kind |-> "value", ty |-> Unit, opd |-> Void]])
           slot == AllocaInEntry(one)
           o == LastInst(slot)
           a == Emit(slot, "store", Parameter(0), o)
           A == [j \in {1} |-> {}]
           here == [kind |-> "place", ty |-> Bool, opd |-> o]
<1>1. IsBody(f) /\ e.info[ParamId].ty = Bool
  BY DEF Env
<1>2. b = [a EXCEPT !.locals[ParamId] = here]
  BY DEF LowerEntry
<1>3. FirstBlock(f, one)
  BY <1>1, FirstBlockThere
<1>4. slot = AllocaInEntry(one) /\ o = LastInst(slot) /\ a = Emit(slot, "store", Parameter(0), o) /\ A = [j \in {1} |-> {}]
      /\ here = [kind |-> "place", ty |-> Bool, opd |-> o]
  OBVIOUS
<1> HIDE DEF one, slot, o, a, A, here
<1>5. Live(e, one, A, {})
  BY <1>3, <1>4, FirstBlockGood
<1>6. Stepped(e, one, A, {}, slot) /\ SlotAs(one, A, slot)
  BY <1>4, <1>5, AllocaStepped
<1>7. Live(e, slot, A, {}) /\ slot.loops = one.loops /\ slot.locals = one.locals /\ IsSlot(slot.insts, o) /\ o \in Operand
  BY <1>4, <1>6 DEF Stepped, Quiet, SlotAs
<1>8. Parameter(0) \in Operand /\ ValueIn(slot.insts, Parameter(0), Have(slot, A))
  BY DEF Parameter, Operand, ValueIn
<1>9. Stepped(e, slot, A, {}, a) /\ o.v \in Have(a, A)
  BY <1>4, <1>7, <1>8, StoreStepped
<1>10. Live(e, a, A, {}) /\ a.loops = one.loops /\ a.locals = one.locals /\ IsSlot(a.insts, o) /\ SlotIn(a.insts, o, Have(a, A))
  <2>1. Live(e, a, A, {}) /\ a.loops = one.loops /\ a.locals = one.locals /\ Ext(slot.insts, a.insts)
    BY <1>7, <1>9 DEF Stepped, Quiet
  <2>2. IsSlot(a.insts, o)
    BY <1>7, <2>1, ValueStays
  <2> QED
    BY <1>9, <2>1, <2>2 DEF SlotIn
<1>11. a \in Lowerers(f) /\ Held(e, a, A, {} \cup {a.cur}) /\ a.ok = TRUE
  BY <1>10, LiveFields, Zenon
<1>12. here \in LoweredExpr
  BY <1>4, <1>7 DEF LoweredExpr, Types
<1> DEFINE locals == [a.locals EXCEPT ![ParamId] = here]
<1>13. ParamId \in Ids(f)
  BY <1>1, IdFacts
<1>14. locals \in [Ids(f) -> LoweredExpr] /\ locals[ParamId] = here
  <2>1. a.locals \in [Ids(f) -> LoweredExpr]
    BY <1>11, LowererFields
  <2> QED
    BY <1>12, <1>13, <2>1
<1>15. b = [a EXCEPT !.locals = locals]
  BY <1>2, <1>11 DEF Lowerers
<1> HIDE DEF locals
<1>16. b \in Lowerers(f) /\ b.locals = locals /\ SameCode(a, b) /\ b.cur = a.cur /\ b.ok = a.ok
  BY <1>11, <1>14, <1>15, Zenon DEF Lowerers, SameCode
<1>17. Live(e, b, A, {}) /\ Have(b, A) = Have(a, A)
  <2>1. Held(e, b, A, {} \cup {b.cur})
    BY <1>11, <1>16, HeldAlike
  <2> QED
    BY <1>11, <1>16, <2>1 DEF Live, Have, SameCode
<1>18. \A q \in DOMAIN b.loops : b.loops[q].open = FALSE
  BY <1>3, <1>10, <1>16 DEF FirstBlock, SameCode
<1>19. \A q \in DOMAIN f : ~Inside(f, q, 1)
  BY <1>1, RootInside
<1>20. \A l \in Ids(f) : Visible(f, 1, l) => LocalGood(e, b, A, l)
  <2> SUFFICES ASSUME NEW l, l \in Ids(f), Visible(f, 1, l) PROVE LocalGood(e, b, A, l)
    OBVIOUS
  <2>1. l = ParamId
    BY <1>19 DEF Visible
  <2>2. b.locals[l] = here /\ here.kind = "place" /\ here.ty = Bool /\ here.opd = o
    BY <1>4, <1>14, <1>16, <2>1
  <2>3. SlotIn(b.insts, o, Have(b, A))
    BY <1>10, <1>16, <1>17 DEF SameCode
  <2> QED
    BY <1>1, <2>1, <2>2, <2>3 DEF LocalGood
<1>21. Ctx(e, 1, b, A)
  <2>1. \A q \in DOMAIN b.loops : b.loops[q].open = TRUE <=> q \in DOMAIN e.body /\ IsLoop(e.body, q) /\ Inside(e.body, q, 1)
    BY <1>18, <1>19
  <2>2. \A q \in DOMAIN b.loops : b.loops[q].open = TRUE => A[b.loops[q].entry] \subseteq Have(b, A)
    BY <1>18
  <2> QED
    BY <1>20, <2>1, <2>2 DEF Ctx
<1> QED
  BY <1>17, <1>21 DEF RootReady

\* The code of a function: all blocks end, and it ends in a ret of the body's value unless the body does not come back.
Finished(e, t, A) ==
  /\ CodeGood(e, t, A) /\ (\A j \in DOMAIN t.blocks : t.blocks[j].term # NoTerminator)
  /\ t.ok = TRUE => ~Ends(e.info, 1)

\* Without open loops and blocks that wait, all blocks end.
LEMMA NothingWaits ==
    ASSUME NEW e, NEW t, NEW A, Held(e, t, A, {}), \A q \in DOMAIN t.loops : t.loops[q].open = FALSE
    PROVE  CodeGood(e, t, A) /\ \A j \in DOMAIN t.blocks : t.blocks[j].term # NoTerminator
<1>1. CodeGood(e, t, A) /\ Holding(t, {})
  BY DEF Held
<1>2. \A j : ~IsExit(t, j)
  BY DEF IsExit
<1> QED
  BY <1>1, <1>2 DEF Holding

\* The lowering of a well typed function.
LEMMA FunctionLowered ==
    ASSUME NEW e, Env(e), e.info[1].val = e.result, NEW t, t = LowerFunction(e.body, e.info)
    PROVE  \E A : Finished(e, t, A)
<1> DEFINE f == e.body
           c == [body |-> f, info |-> e.info, expr |-> LowerTree(f, e.info)[Len(f)]]
           entry == LowerEntry(f)
           b == LowerBlock(c, 1, entry)
<1>1. t = IF b.ok THEN Terminate(b, Ret(b.res.opd)) ELSE b
  BY SMTT(60) DEF LowerFunction, Then
<1>2. IsBody(f) /\ e.result \in {Unit, Bool} /\ Settled(e.info, 1)
  <2>1. 1 \in DOMAIN f
    BY DEF Env, IsBody
  <2> QED
    BY <2>1, SMTT(60) DEF Env, WellTyped
<1>3. c.body = f /\ c.info = e.info /\ c.expr = LowerTree(f, e.info)[Len(f)] /\ entry = LowerEntry(f) /\ b = LowerBlock(c, 1, entry)
  OBVIOUS
<1> HIDE DEF c, entry, b
<1>4. PICK A : RootReady(e, entry, A)
  BY <1>3, EntryLowered
<1>5. Live(e, entry, A, {}) /\ Ctx(e, 1, entry, A)
  BY <1>4 DEF RootReady
<1>6. 1 \in DOMAIN f /\ f[1].op \in BlockOps /\ f[1].last = Len(f) /\ Len(f) \in Nat /\ DOMAIN f = 1 .. Len(f)
  BY <1>2 DEF IsBody
<1>7. LGood(c, e, 1)
  <2> SUFFICES ASSUME NEW i, i \in DOMAIN f
               PROVE  \A s, G, V : Live(e, s, G, V) /\ Ctx(e, i, s, G) => \E H : LPost(e, i, s, G, V, LowerSub(c, i, s), H)
    BY DEF LGood
  <2>1. i \in Nat /\ f[i].last \in Nat /\ f[i].last <= Len(f)
    BY <1>2, NodeFacts
  <2>2. f[i].last - i <= Len(f)
    BY <1>6, <2>1
  <2>3. Delivers(e, LowerTree(f, e.info)[Len(f)], i)
    BY <1>6, <2>2, DepthLowered
  <2> QED
    BY <1>3, <2>3 DEF Delivers, LowerSub
<1>8. Task(c, e, 1, entry, A, {}) /\ IsBlock(e, 1)
  BY <1>3, <1>5, <1>6, <1>7 DEF Task, IsBlock
<1>9. PICK B : LPost(e, 1, entry, A, {}, b, B)
  BY <1>3, <1>8, BlockLowered
<1>10. \A q \in DOMAIN b.loops : b.loops[q].open = FALSE
  <2>1. SameLoops(entry, b)
    BY <1>9 DEF LPost, Passed, Halted, Since
  <2>2. \A q \in DOMAIN f : ~Inside(f, q, 1)
    BY <1>2, RootInside
  <2>3. entry \in Lowerers(f)
    BY <1>5, LiveFields, Zenon
  <2>4. \A q \in DOMAIN entry.loops : entry.loops[q].open = FALSE
    <3> SUFFICES ASSUME NEW q, q \in DOMAIN entry.loops PROVE entry.loops[q].open = FALSE
      BY Zenon
    <3>1. entry.loops[q].open # TRUE
      BY <1>5, <2>2, Zenon DEF Ctx
    <3>2. entry.loops[q].open \in BOOLEAN
      BY <2>3, LoopFields
    <3> QED
      BY <3>1, <3>2, Zenon
  <2> QED
    BY <2>1, <2>4 DEF SameLoops
<1>11. CASE Halted(e, 1, entry, A, {}, b, B)
  <2>1. Held(e, b, B, {}) /\ b.ok = FALSE
    BY <1>11 DEF Halted, Ended
  <2>2. t = b /\ t.ok # TRUE
    BY <1>1, <2>1, Zenon
  <2>3. Finished(e, t, B)
    BY <1>10, <2>1, <2>2, NothingWaits, Zenon DEF Finished
  <2> QED
    BY <2>3
<1>12. CASE Passed(e, 1, entry, A, {}, b, B) /\ Yields(e, 1, b, B)
  <2> DEFINE o == b.res.opd
  <2>1. Live(e, b, B, {}) /\ b.ok = TRUE
    BY <1>12 DEF Passed, Live
  <2>2. ~Ends(e.info, 1) /\ b.res.ty = e.info[1].ty /\ IsValue(b, B)
    BY <1>6, <1>12 DEF Yields
  <2>3. e.info[1].ty = e.result
    BY <1>2, <2>2 DEF Settled, Coerces
  <2>4. o \in Operand
    <3>1. b \in Lowerers(f)
      BY <2>1, LiveFields, Zenon
    <3> QED
      BY <3>1, LowererFields
  <2>5. (e.result = Unit /\ o = Void) \/ (e.result = Bool /\ ValueIn(b.insts, o, Have(b, B)))
    BY <2>2, <2>3 DEF IsValue
  <2>6. t = Terminate(b, Ret(o))
    BY <1>1, <2>1
  <2> HIDE DEF o
  <2>7. Closing(e, b, B, Ret(o))
    BY <2>4, <2>5, RetCloses
  <2>8. Held(e, t, B, {})
    <3> DEFINE P == {} \cup {b.cur}
               x == Ret(o)
    <3>1. Held(e, b, B, P) /\ b.cur \in P
      BY <2>1 DEF Live
    <3>2. P \ {b.cur} = {} /\ t = Terminate(b, x) /\ Closing(e, b, B, x)
      BY <2>6, <2>7
    <3> HIDE DEF P, x
    <3>3. Held(e, t, B, P \ {b.cur})
      BY <3>1, <3>2, TerminateGood
    <3> QED
      BY <3>2, <3>3
  <2>9. t.loops = b.loops
    BY <2>6 DEF Terminate
  <2>10. Finished(e, t, B)
    BY <1>10, <2>2, <2>8, <2>9, NothingWaits, Zenon DEF Finished
  <2> QED
    BY <2>10
<1> QED
  BY <1>9, <1>11, <1>12 DEF LPost

\* Finished code gets past the printer.
LEMMA FinishedPrints ==
    ASSUME NEW e, NEW t, NEW A, Finished(e, t, A)
    PROVE  Printable(t) /\ t.fault = FALSE
<1>1. CodeGood(e, t, A) /\ \A j \in DOMAIN t.blocks : t.blocks[j].term # NoTerminator
  BY DEF Finished
<1>2. \A j \in DOMAIN t.blocks : t.blocks[j].term.k = "condbr" => t.blocks[j].term.opd # Void
  <2> SUFFICES ASSUME NEW j, j \in DOMAIN t.blocks, t.blocks[j].term.k = "condbr" PROVE t.blocks[j].term.opd # Void
    OBVIOUS
  <2>1. BlockGood(e.result, t.insts, t.blocks[j], A, A[j])
    BY <1>1 DEF CodeGood
  <2>2. ValueIn(t.insts, t.blocks[j].term.opd, A[j] \cup All(t.insts, t.blocks[j].insts))
    BY <2>1 DEF BlockGood, TermOK
  <2> QED
    BY <2>2 DEF ValueIn, Void
<1>3. \A v \in DOMAIN t.insts : Printed(t.insts[v])
  BY <1>1 DEF CodeGood
<1> QED
  BY <1>1, <1>2, <1>3 DEF Printable, Printed, CodeGood

(***************************************************************************)
(* The emitted code, running.                                              *)
(***************************************************************************)
\* A function with one more value.
LEMMA SetFacts ==
    ASSUME NEW f, NEW x, NEW v
    PROVE  DOMAIN Set(f, x, v) = DOMAIN f \cup {x}
BY DEF Set

\* Code that ends everywhere, with what is available at the starts of its blocks.
CodeReady(r, c, A) ==
  /\ c.insts \in Seq(Instructions) /\ c.blocks \in Seq(BasicBlock) /\ 1 \in DOMAIN c.blocks
  /\ A \in [DOMAIN c.blocks -> SUBSET Nat] /\ A[1] = {}
  /\ \A j \in DOMAIN c.blocks : BlockGood(r, c.insts, c.blocks[j], A, A[j]) /\ c.blocks[j].term # NoTerminator
  /\ SlotsFirst(c.insts, c.blocks[1].insts)

\* What the instructions of the block before the next one, and the blocks before it, have made available.
Available(c, A, at) == A[at.block] \cup Given(c.insts, c.blocks[at.block].insts, at.inst)
\* The slot of an alloca has been made.
Made(c, at, v) == at.block # 1 \/ \E n \in DOMAIN c.blocks[1].insts : n < at.inst /\ c.blocks[1].insts[n] = v
\* The registers and slots that are available are there.
Supplied(c, A, at, values, slots) ==
  /\ \A v \in Available(c, A, at) : /\ Alloca(c.insts, v) => v \in DOMAIN slots
                                    /\ Computed(c.insts, v) => v \in DOMAIN values
  /\ \A v \in DOMAIN c.insts : Alloca(c.insts, v) /\ Made(c, at, v) => v \in DOMAIN values
PlaceOf(c, at) ==
  at \in [block : DOMAIN c.blocks, inst : Nat] /\ at.inst >= 1 /\ at.inst <= Len(c.blocks[at.block].insts) + 1
Running(r, c, A, at, values, slots) == CodeReady(r, c, A) /\ PlaceOf(c, at) /\ Supplied(c, A, at, values, slots)

\* Finished code is ready.
LEMMA FinishedReady ==
    ASSUME NEW e, NEW t, NEW A, Finished(e, t, A), NEW r, r = e.result
    PROVE  CodeReady(r, t, A)
<1>1. CodeGood(e, t, A) /\ \A j \in DOMAIN t.blocks : t.blocks[j].term # NoTerminator
  BY DEF Finished
<1>2. t \in Lowerers(e.body) /\ t.blocks # <<>>
  BY <1>1 DEF CodeGood
<1>3. t.insts \in Seq(Instructions) /\ t.blocks \in Seq(BasicBlock) /\ 1 \in DOMAIN t.blocks
  <2>1. t.insts \in Seq(Instructions) /\ t.blocks \in Seq(BasicBlock)
    BY <1>2, LowererFields
  <2>2. 1 \in DOMAIN t.blocks
    BY <1>2, <2>1
  <2> QED
    BY <2>1, <2>2
<1> QED
  BY <1>1, <1>3 DEF CodeGood, CodeReady

\* The parts of code that runs.
Parts(c, A, at, x) ==
  /\ x = c.blocks[at.block] /\ x \in BasicBlock /\ x.insts \in Seq(Nat) /\ at.block \in DOMAIN c.blocks /\ at.inst \in Nat
  /\ at.inst >= 1 /\ at.inst <= Len(x.insts) + 1 /\ Len(x.insts) \in Nat /\ DOMAIN x.insts = 1 .. Len(x.insts)
  /\ DOMAIN A = DOMAIN c.blocks /\ at.block \in Nat

\* They are what they are.
LEMMA RunningParts ==
    ASSUME NEW r, NEW c, NEW A, NEW at, NEW values, NEW slots, Running(r, c, A, at, values, slots), NEW x, x = c.blocks[at.block]
    PROVE  Parts(c, A, at, x) /\ BlockGood(r, c.insts, x, A, A[at.block]) /\ x.term # NoTerminator
<1>1. CodeReady(r, c, A) /\ PlaceOf(c, at)
  BY DEF Running
<1>2. at.block \in DOMAIN c.blocks /\ at.inst \in Nat /\ at.inst >= 1 /\ at.inst <= Len(x.insts) + 1
  BY <1>1 DEF PlaceOf
<1>3. c.blocks \in Seq(BasicBlock) /\ DOMAIN A = DOMAIN c.blocks
  BY <1>1 DEF CodeReady
<1>4. x \in BasicBlock /\ x.insts \in Seq(Nat)
  BY <1>2, <1>3, BlockFields
<1>5. Len(x.insts) \in Nat /\ DOMAIN x.insts = 1 .. Len(x.insts)
  BY <1>4
<1>6. at.block \in Nat
  BY <1>2, <1>3
<1>7. BlockGood(r, c.insts, x, A, A[at.block]) /\ x.term # NoTerminator
  BY <1>1, <1>2 DEF CodeReady
<1> QED
  BY <1>2, <1>3, <1>4, <1>5, <1>6, <1>7 DEF Parts

\* At the start of the code nothing is needed.
LEMMA StartRunning ==
    ASSUME NEW r, NEW c, NEW A, CodeReady(r, c, A), NEW at, at = [block |-> 1, inst |-> 1], NEW values, NEW slots
    PROVE  Running(r, c, A, at, values, slots)
<1>1. at.block = 1 /\ at.inst = 1 /\ 1 \in DOMAIN c.blocks /\ c.blocks \in Seq(BasicBlock) /\ A[1] = {}
  BY DEF CodeReady
<1>2. c.blocks[1].insts \in Seq(Nat)
  BY <1>1, BlockFields
<1>3. DOMAIN c.blocks[1].insts = 1 .. Len(c.blocks[1].insts) /\ Len(c.blocks[1].insts) \in Nat
  BY <1>2
<1>4. PlaceOf(c, at)
  BY <1>1, <1>3 DEF PlaceOf
<1>5. \A n \in DOMAIN c.blocks[1].insts : ~(n < 1)
  BY <1>3
<1>6. Available(c, A, at) = {}
  BY <1>1, <1>5 DEF Available, Given
<1>7. \A v : ~Made(c, at, v)
  BY <1>1, <1>5 DEF Made
<1>8. Supplied(c, A, at, values, slots)
  BY <1>6, <1>7 DEF Supplied
<1> QED
  BY <1>4, <1>8 DEF Running

\* The next instruction.
NextInst(c, A, at, id) ==
  at.inst <= Len(c.blocks[at.block].insts) /\ id = c.blocks[at.block].insts[at.inst]

\* What is known of it.
InstFacts(c, A, at, id) ==
  /\ id \in DOMAIN c.insts /\ id \in Nat /\ c.insts[id].op \in InstructionOps /\ InstOK(c.insts, c.insts[id], Available(c, A, at))
  /\ Available(c, A, at) \subseteq Nat /\ c.insts[id].b.v \in Nat

\* The next instruction has its operands.
LEMMA NextInstOK ==
    ASSUME NEW r, NEW c, NEW A, NEW at, NEW values, NEW slots, Running(r, c, A, at, values, slots), NEW id, NextInst(c, A, at, id)
    PROVE  InstFacts(c, A, at, id)
<1> DEFINE x == c.blocks[at.block]
           n == at.inst
<1>1. x = c.blocks[at.block] /\ n = at.inst
  OBVIOUS
<1> HIDE DEF x, n
<1>2. Parts(c, A, at, x) /\ BlockGood(r, c.insts, x, A, A[at.block])
  BY <1>1, RunningParts
<1>3. n \in DOMAIN x.insts /\ at.block \in DOMAIN c.blocks
  BY <1>1, <1>2 DEF Parts, NextInst
<1>4. x.insts[n] \in DOMAIN c.insts /\ InstOK(c.insts, c.insts[x.insts[n]], A[at.block] \cup Given(c.insts, x.insts, n))
  BY <1>2, <1>3, Zenon DEF BlockGood, InstsOK
<1>5. id = x.insts[n] /\ Available(c, A, at) = A[at.block] \cup Given(c.insts, x.insts, n)
  BY <1>1 DEF NextInst, Available
<1>6. CodeReady(r, c, A)
  BY DEF Running
<1>7. c.insts \in Seq(Instructions) /\ A \in [DOMAIN c.blocks -> SUBSET Nat]
  BY <1>6 DEF CodeReady
<1>8. c.insts[id].op \in InstructionOps /\ c.insts[id].b.v \in Nat /\ id \in Nat
  BY <1>4, <1>5, <1>7, InstFields
<1>9. Available(c, A, at) \subseteq Nat
  BY <1>3, <1>5, <1>7 DEF Given
<1> QED
  BY <1>4, <1>5, <1>8, <1>9 DEF InstFacts

\* A slot that an instruction after the allocas uses has been made.
LEMMA SlotMade ==
    ASSUME NEW r, NEW c, NEW A, NEW at, NEW values, NEW slots, Running(r, c, A, at, values, slots), NEW id, NextInst(c, A, at, id),
           c.insts[id].op # "alloca", NEW v, Alloca(c.insts, v)
    PROVE  v \in DOMAIN values
<1>1. CodeReady(r, c, A) /\ Supplied(c, A, at, values, slots)
  BY DEF Running
<1>2. v \in DOMAIN c.insts
  BY DEF Alloca
<1>3. Made(c, at, v)
  <2> SUFFICES ASSUME at.block = 1 PROVE \E n \in DOMAIN c.blocks[1].insts : n < at.inst /\ c.blocks[1].insts[n] = v
    BY DEF Made
  <2> DEFINE x == c.blocks[at.block]
             m == at.inst
  <2>1. x = c.blocks[at.block] /\ m = at.inst /\ x = c.blocks[1]
    OBVIOUS
  <2> HIDE DEF x, m
  <2>2. Parts(c, A, at, x)
    BY <2>1, RunningParts
  <2>3. m \in DOMAIN x.insts /\ x.insts[m] = id /\ DOMAIN x.insts = 1 .. Len(x.insts) /\ Len(x.insts) \in Nat
    BY <2>1, <2>2 DEF Parts, NextInst
  <2>4. SlotsFirst(c.insts, x.insts)
    BY <1>1, <2>1 DEF CodeReady
  <2>5. PICK n \in DOMAIN x.insts : x.insts[n] = v
    BY <1>2, <2>4 DEF SlotsFirst
  <2>6. ~Alloca(c.insts, x.insts[m])
    BY <2>3 DEF Alloca
  <2>7. ~(m < n)
    BY <2>3, <2>4, <2>5, <2>6 DEF SlotsFirst
  <2>8. m # n
    BY <2>5, <2>6
  <2>9. n < m
    BY <2>3, <2>5, <2>7, <2>8
  <2> QED
    BY <2>1, <2>5, <2>9
<1> QED
  BY <1>1, <1>2, <1>3 DEF Supplied

\* The operand o is there.
Here(c, values, o) == o.k # "void" /\ (o.k = "inst" => o.v \in DOMAIN values)

\* Of the next instruction all are.
LEMMA OperandsHere ==
    ASSUME NEW r, NEW c, NEW A, NEW at, NEW values, NEW slots, Running(r, c, A, at, values, slots), NEW id, NextInst(c, A, at, id),
           NEW i, i = c.insts[id]
    PROVE  /\ \A o \in Operands(i) : Here(c, values, o)
           /\ i.op = "load" => i.a.v \in DOMAIN slots
<1> DEFINE H == Available(c, A, at)
<1>1. InstOK(c.insts, i, H) /\ i.op \in InstructionOps
  BY NextInstOK DEF InstFacts
<1>2. Supplied(c, A, at, values, slots)
  BY DEF Running
<1> HIDE DEF H
<1>3. ASSUME NEW o, ValueIn(c.insts, o, H) PROVE Here(c, values, o)
  <2>1. CASE o.k = "const" \/ o.k = "param"
    BY <2>1 DEF Here
  <2>2. CASE o.k = "inst" /\ o.v \in H /\ Computed(c.insts, o.v)
    BY <1>2, <2>2 DEF Here, Supplied, H
  <2> QED
    BY <1>3, <2>1, <2>2 DEF ValueIn
<1>4. ASSUME NEW o, IsSlot(c.insts, o), i.op # "alloca" PROVE Here(c, values, o)
  <2>1. o.k = "inst" /\ Alloca(c.insts, o.v)
    BY <1>4 DEF IsSlot
  <2>2. o.v \in DOMAIN values
    BY <1>4, <2>1, SlotMade
  <2> QED
    BY <2>1, <2>2 DEF Here
<1>5. CASE i.op = "alloca" \/ i.op = "call"
  BY <1>5 DEF Operands
<1>6. CASE i.op = "load"
  <2>1. SlotIn(c.insts, i.a, H)
    BY <1>1, <1>6 DEF InstOK
  <2>2. IsSlot(c.insts, i.a) /\ i.a.v \in H /\ Alloca(c.insts, i.a.v)
    BY <2>1 DEF SlotIn, IsSlot
  <2>3. i.a.v \in DOMAIN slots
    BY <1>2, <2>2 DEF Supplied, H
  <2>4. Here(c, values, i.a)
    BY <1>4, <1>6, <2>2
  <2>5. Operands(i) = {i.a}
    BY <1>6 DEF Operands
  <2> QED
    BY <2>3, <2>4, <2>5
<1>7. CASE i.op = "store"
  <2>1. ValueIn(c.insts, i.a, H) /\ IsSlot(c.insts, i.b)
    BY <1>1, <1>7 DEF InstOK
  <2>2. Here(c, values, i.a) /\ Here(c, values, i.b)
    BY <1>3, <1>4, <1>7, <2>1
  <2>3. Operands(i) = {i.a, i.b}
    BY <1>7 DEF Operands
  <2> QED
    BY <1>7, <2>2, <2>3
<1>8. CASE i.op = "xor" \/ i.op = "icmp"
  <2>1. ValueIn(c.insts, i.a, H) /\ ValueIn(c.insts, i.b, H)
    BY <1>1, <1>8 DEF InstOK
  <2>2. Here(c, values, i.a) /\ Here(c, values, i.b)
    BY <1>3, <2>1
  <2>3. Operands(i) = {i.a, i.b}
    BY <1>8 DEF Operands
  <2> QED
    BY <1>8, <2>2, <2>3
<1> QED
  BY <1>1, <1>5, <1>6, <1>7, <1>8 DEF InstructionOps

\* What an instruction leaves: the register or the slot it gives.
Executed(c, id, values, slots, regs2, mem2) ==
  /\ DOMAIN values \subseteq DOMAIN regs2 /\ DOMAIN slots \subseteq DOMAIN mem2
  /\ c.insts[id].op # "store" => id \in DOMAIN regs2
  /\ c.insts[id].op = "store" => c.insts[id].b.v \in DOMAIN mem2

\* The code goes on after it.
LEMMA InstRuns ==
    ASSUME NEW r, NEW c, NEW A, NEW at, NEW values, NEW slots, Running(r, c, A, at, values, slots), NEW id, NextInst(c, A, at, id),
           NEW regs2, NEW mem2, Executed(c, id, values, slots, regs2, mem2), NEW to, to = [at EXCEPT !.inst = @ + 1]
    PROVE  Running(r, c, A, to, regs2, mem2)
<1> DEFINE x == c.blocks[at.block]
           n == at.inst
<1>1. x = c.blocks[at.block] /\ n = at.inst
  OBVIOUS
<1> HIDE DEF x, n
<1>2. Parts(c, A, at, x) /\ InstFacts(c, A, at, id) /\ CodeReady(r, c, A) /\ PlaceOf(c, at) /\ Supplied(c, A, at, values, slots)
  BY <1>1, RunningParts, NextInstOK, SMTT(60) DEF Running
<1>3. n \in DOMAIN x.insts /\ x.insts[n] = id /\ DOMAIN x.insts = 1 .. Len(x.insts) /\ Len(x.insts) \in Nat /\ n \in Nat
  BY <1>1, <1>2 DEF Parts, NextInst
<1>4. to.block = at.block /\ to.inst = n + 1 /\ to \in [block : DOMAIN c.blocks, inst : Nat]
  BY <1>1, <1>2, <1>3 DEF PlaceOf
<1>5. PlaceOf(c, to)
  BY <1>1, <1>3, <1>4 DEF PlaceOf
<1>6. Available(c, A, to) \subseteq Available(c, A, at) \cup Gives(c.insts, id)
  <2> SUFFICES ASSUME NEW v, v \in Available(c, A, to), v \notin A[at.block] PROVE v \in Available(c, A, at) \cup Gives(c.insts, id)
    BY DEF Available
  <2>1. v \in Given(c.insts, x.insts, n + 1)
    BY <1>1, <1>4 DEF Available
  <2>2. v \in Nat
    BY <2>1 DEF Given
  <2>3. PICK m \in DOMAIN x.insts : m < n + 1 /\ v \in Gives(c.insts, x.insts[m])
    BY <2>1 DEF Given
  <2>4. CASE m = n
    BY <1>3, <2>3, <2>4
  <2>5. CASE m < n
    <3>1. v \in Given(c.insts, x.insts, n)
      BY <2>2, <2>3, <2>5 DEF Given
    <3> QED
      BY <1>1, <3>1 DEF Available
  <2> QED
    BY <1>3, <2>3, <2>4, <2>5
<1>7. \A v \in Gives(c.insts, id) : /\ Alloca(c.insts, v) => v \in DOMAIN mem2
                                    /\ Computed(c.insts, v) => v \in DOMAIN regs2
  <2>1. InstOK(c.insts, c.insts[id], Available(c, A, at))
    BY <1>2 DEF InstFacts
  <2>2. CASE c.insts[id].op = "alloca"
    BY <2>2 DEF Gives
  <2>3. CASE c.insts[id].op = "store"
    <3>1. Gives(c.insts, id) = {c.insts[id].b.v} /\ Alloca(c.insts, c.insts[id].b.v)
      BY <2>1, <2>3 DEF Gives, InstOK, IsSlot
    <3>2. c.insts[id].b.v \in DOMAIN mem2
      BY <2>3 DEF Executed
    <3>3. ~Computed(c.insts, c.insts[id].b.v)
      BY <3>1 DEF Alloca, Computed
    <3> QED
      BY <3>1, <3>2, <3>3
  <2>4. CASE c.insts[id].op # "alloca" /\ c.insts[id].op # "store"
    <3>1. Gives(c.insts, id) = {id} /\ ~Alloca(c.insts, id) /\ id \in DOMAIN regs2
      BY <2>4 DEF Gives, Alloca, Executed
    <3> QED
      BY <3>1
  <2> QED
    BY <2>2, <2>3, <2>4
<1>8. \A v \in Available(c, A, to) : /\ Alloca(c.insts, v) => v \in DOMAIN mem2
                                     /\ Computed(c.insts, v) => v \in DOMAIN regs2
  BY <1>2, <1>6, <1>7 DEF Supplied, Executed
<1>9. \A v \in DOMAIN c.insts : Alloca(c.insts, v) /\ Made(c, to, v) => v \in DOMAIN regs2
  <2> SUFFICES ASSUME NEW v, v \in DOMAIN c.insts, Alloca(c.insts, v), Made(c, to, v) PROVE v \in DOMAIN regs2
    OBVIOUS
  <2>1. CASE Made(c, at, v)
    BY <1>2, <2>1 DEF Supplied, Executed
  <2>2. CASE ~Made(c, at, v)
    <3>1. at.block = 1
      BY <2>2 DEF Made
    <3>2. PICK m \in DOMAIN x.insts : m < n + 1 /\ x.insts[m] = v
      BY <1>1, <1>4, <3>1 DEF Made
    <3>3. ~(m < n)
      BY <1>1, <2>2, <3>1, <3>2 DEF Made
    <3>4. m = n
      BY <1>3, <3>2, <3>3
    <3>5. v = id /\ c.insts[id].op # "store"
      BY <1>3, <3>2, <3>4 DEF Alloca
    <3> QED
      BY <3>5 DEF Executed
  <2> QED
    BY <2>1, <2>2
<1> QED
  BY <1>2, <1>5, <1>8, <1>9 DEF Running, Supplied

\* The end of the current block.
AtBlockEnd(c, at) == at.inst > Len(c.blocks[at.block].insts)

\* What is known there of the terminator t.
EndFacts(r, c, A, at, values, slots, t) ==
  /\ t.k = "br" => Running(r, c, A, [block |-> t.to[1], inst |-> 1], values, slots)
  /\ t.k = "condbr" => /\ Here(c, values, t.opd)
                       /\ Running(r, c, A, [block |-> t.to[1], inst |-> 1], values, slots)
                       /\ Running(r, c, A, [block |-> t.to[2], inst |-> 1], values, slots)
  /\ t.k = "ret" => (r = Unit /\ t.opd = Void) \/ (r = Bool /\ t.opd # Void /\ Here(c, values, t.opd))

\* A jump to a block that needs no more than is available.
LEMMA JumpRuns ==
    ASSUME NEW r, NEW c, NEW A, NEW at, NEW values, NEW slots, Running(r, c, A, at, values, slots), AtBlockEnd(c, at),
           NEW m, Target(A, Available(c, A, at), m), NEW to, to = [block |-> m, inst |-> 1]
    PROVE  Running(r, c, A, to, values, slots)
<1>1. CodeReady(r, c, A) /\ Supplied(c, A, at, values, slots)
  BY DEF Running
<1>2. m \in DOMAIN A /\ m # 1 /\ A[m] \subseteq Available(c, A, at)
  BY DEF Target
<1>3. to.block = m /\ to.inst = 1 /\ m \in DOMAIN c.blocks /\ c.blocks \in Seq(BasicBlock)
  BY <1>1, <1>2 DEF CodeReady
<1>4. c.blocks[m].insts \in Seq(Nat)
  BY <1>3, BlockFields
<1>5. DOMAIN c.blocks[m].insts = 1 .. Len(c.blocks[m].insts) /\ Len(c.blocks[m].insts) \in Nat
  BY <1>4
<1>6. PlaceOf(c, to)
  BY <1>3, <1>5 DEF PlaceOf
<1>7. Available(c, A, to) = A[m]
  <2>1. \A n \in DOMAIN c.blocks[m].insts : ~(n < 1)
    BY <1>5
  <2> QED
    BY <1>3, <2>1 DEF Available, Given
<1>8. \A v \in DOMAIN c.insts : Alloca(c.insts, v) => v \in DOMAIN values
  <2> SUFFICES ASSUME NEW v, v \in DOMAIN c.insts, Alloca(c.insts, v) PROVE v \in DOMAIN values
    OBVIOUS
  <2>1. Made(c, at, v)
    <3> SUFFICES ASSUME at.block = 1 PROVE \E n \in DOMAIN c.blocks[1].insts : n < at.inst /\ c.blocks[1].insts[n] = v
      BY DEF Made
    <3> DEFINE x == c.blocks[at.block]
    <3>1. x = c.blocks[at.block] /\ x = c.blocks[1]
      OBVIOUS
    <3> HIDE DEF x
    <3>2. Parts(c, A, at, x)
      BY <3>1, RunningParts
    <3>3. DOMAIN x.insts = 1 .. Len(x.insts) /\ Len(x.insts) \in Nat /\ at.inst > Len(x.insts) /\ at.inst \in Nat
      BY <3>1, <3>2 DEF Parts, AtBlockEnd
    <3>4. PICK n \in DOMAIN x.insts : x.insts[n] = v
      BY <1>1, <3>1 DEF CodeReady, SlotsFirst
    <3>5. n < at.inst
      BY <3>3, <3>4
    <3> QED
      BY <3>1, <3>4, <3>5
  <2> QED
    BY <1>1, <2>1 DEF Supplied
<1>9. Supplied(c, A, to, values, slots)
  BY <1>1, <1>2, <1>7, <1>8 DEF Supplied
<1> QED
  BY <1>1, <1>6, <1>9 DEF Running

\* A value that is available is there.
LEMMA ValueHere ==
    ASSUME NEW c, NEW A, NEW at, NEW values, NEW slots, Supplied(c, A, at, values, slots), NEW o, ValueIn(c.insts, o, Available(c, A, at))
    PROVE  Here(c, values, o)
<1>1. CASE o.k = "const" \/ o.k = "param"
  BY <1>1 DEF Here
<1>2. CASE o.k = "inst" /\ o.v \in Available(c, A, at) /\ Computed(c.insts, o.v)
  BY <1>2 DEF Here, Supplied
<1> QED
  BY <1>1, <1>2 DEF ValueIn

\* At the end of a block its terminator has what it needs.
LEMMA EndRuns ==
    ASSUME NEW r, NEW c, NEW A, NEW at, NEW values, NEW slots, Running(r, c, A, at, values, slots), AtBlockEnd(c, at),
           NEW t, t = c.blocks[at.block].term
    PROVE  EndFacts(r, c, A, at, values, slots, t)
<1> DEFINE x == c.blocks[at.block]
           G == A[at.block] \cup All(c.insts, x.insts)
           H == Available(c, A, at)
<1>1. x = c.blocks[at.block] /\ G = A[at.block] \cup All(c.insts, x.insts) /\ H = Available(c, A, at) /\ t = x.term
  OBVIOUS
<1> HIDE DEF x, G, H
<1>2. Parts(c, A, at, x) /\ BlockGood(r, c.insts, x, A, A[at.block]) /\ Supplied(c, A, at, values, slots)
  BY <1>1, RunningParts DEF Running
<1>3. TermOK(r, c.insts, t, A, G)
  BY <1>1, <1>2 DEF BlockGood
<1>4. G \subseteq H
  <2>1. \A n \in DOMAIN x.insts : n < at.inst
    BY <1>1, <1>2 DEF Parts, AtBlockEnd
  <2>2. All(c.insts, x.insts) \subseteq Given(c.insts, x.insts, at.inst)
    BY <2>1 DEF All, Given
  <2> QED
    BY <1>1, <2>2 DEF Available
<1>5. ASSUME NEW m, Target(A, G, m) PROVE Running(r, c, A, [block |-> m, inst |-> 1], values, slots)
  <2> DEFINE to == [block |-> m, inst |-> 1]
  <2>1. Target(A, Available(c, A, at), m)
    BY <1>1, <1>4, <1>5 DEF Target
  <2>2. to = [block |-> m, inst |-> 1]
    OBVIOUS
  <2> HIDE DEF to
  <2>3. Running(r, c, A, to, values, slots)
    BY <2>1, <2>2, JumpRuns
  <2> QED
    BY <2>3 DEF to
<1>6. ASSUME NEW o, ValueIn(c.insts, o, G) PROVE Here(c, values, o)
  <2>1. ValueIn(c.insts, o, Available(c, A, at))
    BY <1>1, <1>4, <1>6 DEF ValueIn
  <2> QED
    BY <1>2, <2>1, ValueHere
<1>7. t.k = "br" => Running(r, c, A, [block |-> t.to[1], inst |-> 1], values, slots)
  BY <1>3, <1>5, SMTT(60) DEF TermOK
<1>8. t.k = "condbr" => /\ Here(c, values, t.opd)
                        /\ Running(r, c, A, [block |-> t.to[1], inst |-> 1], values, slots)
                        /\ Running(r, c, A, [block |-> t.to[2], inst |-> 1], values, slots)
  BY <1>3, <1>5, <1>6, SMTT(60) DEF TermOK
<1>9. t.k = "ret" => (r = Unit /\ t.opd = Void) \/ (r = Bool /\ t.opd # Void /\ Here(c, values, t.opd))
  BY <1>3, <1>6 DEF TermOK, ValueIn, Void
<1> QED
  BY <1>7, <1>8, <1>9 DEF EndFacts

\* The function, its result type and what the checker found of it.
EnvOf(f, r, info) == [body |-> f, result |-> r, info |-> info]

\* An accepted function that the known defects do not touch.
LEMMA EnvThere ==
    ASSUME NEW f, IsBody(f), NEW r, r \in {Unit, Bool}, NEW info, Accepted(f, r, info), ~Touches("lazy", f, info), ~Touches("unit", f, info),
           NEW e, e = EnvOf(f, r, info)
    PROVE  Env(e) /\ e.info[1].val = e.result /\ e.body = f /\ e.info = info /\ e.result = r
<1>1. e.body = f /\ e.info = info /\ e.result = r
  BY DEF EnvOf
<1>2. WellTyped(f, r, info) /\ info[1].val = r /\ info[ParamId].ty = Bool
  BY DEF Accepted
<1>3. \A p \in DOMAIN f : f[p].op \in {"and", "or"} => ~Ends(info, f[p].sub[2])
  BY DEF Touches, Ends
<1>4. \A p \in DOMAIN f : f[p].op = "let" => info[LetId(p)].ty # Unit
  BY DEF Touches
<1>5. \A p \in DOMAIN f : f[p].op = "eq" => \A k \in 1 .. 2 : info[f[p].sub[k]].val # Unit
  BY DEF Touches
<1>6. Env(e)
  BY <1>1, <1>2, <1>3, <1>4, <1>5 DEF Env
<1> QED
  BY <1>1, <1>2, <1>6

(***************************************************************************)
(* The specification.                                                      *)
(***************************************************************************)
\* The function the compiler is given.
SourceIs == IsBody(body) /\ result \in {Unit, Bool}
\* What the checker has found, of a function it accepts and that is not set aside.
CheckedIs ==
  phase \in {"lower", "print"} => /\ checked = CheckFunction(body, result) /\ Okay(checked)
                                  /\ \A d \in SetAside : ~Touches(d, body, checked.info)
\* Code starts at its first instruction.
StartIs == phase \in {"check", "lower", "print"} => pc = [block |-> 1, inst |-> 1]
\* What the lowerer makes of it.
CodeIs == phase = "print" => code = LowerFunction(body, checked.info)
\* Code that runs has all it needs.
RunIs == phase = "run" => \E A : Running(result, code, A, pc, regs, mem)
AnswerIs == phase = "done" => (answer = <<>> <=> result = Unit)
FlowInv == SourceIs /\ CheckedIs /\ StartIs /\ CodeIs /\ RunIs /\ AnswerIs /\ NeverPanics

\* What is known of a function that is to be lowered.
Accept(e, s) == Env(e) /\ e.info[1].val = e.result /\ e.body = body /\ e.info = s.info /\ e.result = result
\* The checker has established what the lowerer relies on.
LEMMA ReadyToLower ==
    ASSUME {"lazy", "unit"} \subseteq SetAside, SourceIs, CheckedIs, phase \in {"lower", "print"}, NEW e, e = EnvOf(body, result, checked.info)
    PROVE  Accept(e, checked) /\ checked.div = checked.info[1].div
<1>1. IsBody(body) /\ result \in {Unit, Bool} /\ checked = CheckFunction(body, result) /\ Okay(checked)
  BY DEF SourceIs, CheckedIs
<1>2. ~Touches("lazy", body, checked.info) /\ ~Touches("unit", body, checked.info)
  BY DEF CheckedIs
<1>3. Accepted(body, result, checked.info) /\ checked.div = checked.info[1].div
  BY <1>1, AcceptedIsWellTyped
<1>4. Env(e) /\ e.info[1].val = e.result /\ e.body = body /\ e.info = checked.info /\ e.result = result
  BY <1>1, <1>2, <1>3, EnvThere
<1> QED
  BY <1>3, <1>4 DEF Accept

\* What it makes is finished.
LEMMA WhatIsLowered ==
    ASSUME {"lazy", "unit"} \subseteq SetAside, SourceIs, CheckedIs, phase \in {"lower", "print"}, NEW t, t = LowerFunction(body, checked.info),
           NEW e, e = EnvOf(body, result, checked.info)
    PROVE  Accept(e, checked) /\ \E A : Finished(e, t, A)
<1>1. Accept(e, checked)
  BY ReadyToLower
<1>2. Env(e) /\ e.info[1].val = e.result /\ t = LowerFunction(e.body, e.info)
  BY <1>1 DEF Accept
<1>3. \E A : Finished(e, t, A)
  BY <1>2, FunctionLowered
<1> QED
  BY <1>1, <1>3

\* Nothing has happened yet.
LEMMA FlowStart == Init => FlowInv
<1> SUFFICES ASSUME Init PROVE FlowInv
  OBVIOUS
<1>1. IsBody(body)
  BY ControlFlowAssumption DEF Init
<1>2. phase = "check" /\ result \in {Unit, Bool}
  BY DEF Init
<1> QED
  BY <1>1, <1>2 DEF Init, FlowInv, SourceIs, CheckedIs, StartIs, CodeIs, RunIs, AnswerIs, NeverPanics

\* The checker lets through what CheckedIs says.
LEMMA CheckKeeps ==
    ASSUME FlowInv, Check
    PROVE  FlowInv'
<1> DEFINE s == CheckFunction(body, result)
<1>1. phase = "check" /\ body' = body /\ result' = result /\ checked' = s /\ pc' = pc /\ SetAside' = SetAside
  BY DEF Check
<1>2. phase' = IF ~s.ok THEN "rejected" ELSE IF \E d \in SetAside : Touches(d, body, s.info) THEN "aside" ELSE "lower"
  BY DEF Check
<1>3. s = CheckFunction(body, result)
  OBVIOUS
<1> HIDE DEF s
<1>4. SourceIs' /\ StartIs'
  BY <1>1 DEF FlowInv, SourceIs, StartIs
<1>5. CheckedIs'
  <2> SUFFICES ASSUME phase' \in {"lower", "print"} PROVE CheckedIs'
    BY DEF CheckedIs
  <2>1. Okay(s) /\ ~(\E d \in SetAside : Touches(d, body, s.info))
    BY <1>2 DEF Okay
  <2> QED
    BY <1>1, <1>3, <2>1 DEF CheckedIs
<1>6. phase' \notin {"print", "run", "done", "panicked"}
  BY <1>2
<1> QED
  BY <1>4, <1>5, <1>6 DEF FlowInv, CodeIs, RunIs, AnswerIs, NeverPanics

\* The lowerer does not panic.
LEMMA LowerKeeps ==
    ASSUME {"lazy", "unit"} \subseteq SetAside, FlowInv, Lower
    PROVE  FlowInv'
<1> DEFINE t == LowerFunction(body, checked.info)
           e == EnvOf(body, result, checked.info)
<1>1. phase = "lower" /\ UNCHANGED <<body, result, checked, pc>> /\ code' = t /\ phase' = IF t.fault THEN "panicked" ELSE "print"
  BY DEF Lower
<1>2. t = LowerFunction(body, checked.info) /\ e = EnvOf(body, result, checked.info)
  OBVIOUS
<1> HIDE DEF t, e
<1>3. \E A : Finished(e, t, A)
  BY <1>1, <1>2, WhatIsLowered DEF FlowInv
<1>4. t.fault = FALSE
  BY <1>3, FinishedPrints, Zenon
<1>5. phase' = "print"
  BY <1>1, <1>4
<1> QED
  BY <1>1, <1>2, <1>5 DEF FlowInv, SourceIs, CheckedIs, StartIs, CodeIs, RunIs, AnswerIs, NeverPanics

\* Nor does the printer, and what it prints can run.
LEMMA EmitKeeps ==
    ASSUME {"lazy", "unit"} \subseteq SetAside, FlowInv, EmitModule
    PROVE  FlowInv'
<1> DEFINE e == EnvOf(body, result, checked.info)
<1>1. phase = "print" /\ UNCHANGED <<body, result, code, pc, regs, mem>> /\ phase' = IF Printable(code) THEN "run" ELSE "panicked"
  BY DEF EmitModule
<1>2. e = EnvOf(body, result, checked.info) /\ code = LowerFunction(body, checked.info)
  BY <1>1 DEF FlowInv, CodeIs
<1> HIDE DEF e
<1>3. Accept(e, checked) /\ \E A : Finished(e, code, A)
  BY <1>1, <1>2, WhatIsLowered DEF FlowInv
<1>4. PICK A : Finished(e, code, A)
  BY <1>3
<1>5. phase' = "run"
  BY <1>1, <1>4, FinishedPrints, Zenon
<1>6. result = e.result
  BY <1>3 DEF Accept
<1>7. CodeReady(result, code, A)
  BY <1>4, <1>6, FinishedReady
<1>8. pc = [block |-> 1, inst |-> 1]
  BY <1>1 DEF FlowInv, StartIs
<1>9. Running(result, code, A, pc, regs, mem)
  BY <1>7, <1>8, StartRunning
<1>10. \E B : Running(result', code', B, pc', regs', mem')
  BY <1>1, <1>9
<1> QED
  BY <1>1, <1>5, <1>10 DEF FlowInv, SourceIs, CheckedIs, StartIs, CodeIs, RunIs, AnswerIs, NeverPanics

\* A step of the code that leaves it running.
LEMMA StillRunning ==
    ASSUME FlowInv, phase = "run", UNCHANGED <<body, result, phase, checked, code, answer>>,
           NEW A, Running(result, code, A, pc', regs', mem')
    PROVE  FlowInv'
<1>1. \E B : Running(result', code', B, pc', regs', mem')
  OBVIOUS
<1> QED
  BY <1>1 DEF FlowInv, SourceIs, CheckedIs, StartIs, CodeIs, RunIs, AnswerIs, NeverPanics

\* An instruction leaves what it defines.
LEMMA ExecuteKeeps ==
    ASSUME FlowInv, Execute
    PROVE  FlowInv'
<1>1. phase = "run" /\ UNCHANGED <<body, result, phase, checked, code, answer>>
  BY DEF Execute, AtInst
<1>2. PICK A : Running(result, code, A, pc, regs, mem)
  BY <1>1 DEF FlowInv, RunIs
<1> DEFINE id == InstId
<1>3. NextInst(code, A, pc, id)
  BY DEF Execute, AtInst, NextInst, InstId, Block
<1>4. id = InstId /\ Current = code.insts[id]
  BY DEF Current
<1> HIDE DEF id
<1>5. code.insts[id].op \in InstructionOps
  BY <1>2, <1>3, NextInstOK DEF InstFacts
<1>6. code.insts[id].op \in {"alloca", "load", "store", "xor", "icmp"}
  BY <1>4, <1>5 DEF InstructionOps, Execute
<1>7. Executed(code, id, regs, mem, regs', mem')
  <2>1. CASE code.insts[id].op = "store"
    <3>1. regs' = regs /\ mem' = Set(mem, code.insts[id].b.v, ValueOf(code.insts[id].a))
      BY <1>4, <2>1 DEF Execute
    <3>2. DOMAIN mem' = DOMAIN mem \cup {code.insts[id].b.v} /\ DOMAIN regs' = DOMAIN regs
      BY <3>1, SetFacts, Zenon
    <3> QED
      BY <2>1, <3>2 DEF Executed
  <2>2. CASE code.insts[id].op # "store"
    <3>1. PICK v : regs' = Set(regs, id, v)
      BY <1>4, <1>6, <2>2 DEF Execute
    <3>2. mem' = mem
      BY <1>4, <2>2 DEF Execute
    <3>3. DOMAIN regs' = DOMAIN regs \cup {id} /\ DOMAIN mem' = DOMAIN mem
      BY <3>1, <3>2, SetFacts, Zenon
    <3> QED
      BY <2>2, <3>3 DEF Executed
  <2> QED
    BY <2>1, <2>2
<1>8. pc' = [pc EXCEPT !.inst = @ + 1]
  BY DEF Execute, Advance
<1>9. Running(result, code, A, pc', regs', mem')
  BY <1>2, <1>3, <1>7, <1>8, InstRuns
<1> QED
  BY <1>1, <1>9, StillRunning

\* An answer is the value of the call.
LEMMA ReadKeeps ==
    ASSUME FlowInv, Read
    PROVE  FlowInv'
<1>1. phase = "run" /\ UNCHANGED <<body, result, phase, checked, code, answer, mem>>
  BY DEF Read, AtInst
<1>2. PICK A : Running(result, code, A, pc, regs, mem)
  BY <1>1 DEF FlowInv, RunIs
<1> DEFINE id == InstId
<1>3. NextInst(code, A, pc, id)
  BY DEF Read, AtInst, NextInst, InstId, Block
<1>4. id = InstId /\ Current = code.insts[id]
  BY DEF Current
<1> HIDE DEF id
<1>5. code.insts[id].op = "call"
  BY <1>4 DEF Read
<1>6. PICK v : regs' = Set(regs, id, v)
  BY <1>4 DEF Read
<1>7. Executed(code, id, regs, mem, regs', mem')
  <2>1. DOMAIN regs' = DOMAIN regs \cup {id} /\ DOMAIN mem' = DOMAIN mem
    BY <1>1, <1>6, SetFacts, Zenon
  <2> QED
    BY <1>5, <2>1 DEF Executed
<1>8. pc' = [pc EXCEPT !.inst = @ + 1]
  BY DEF Read, Advance
<1>9. Running(result, code, A, pc', regs', mem')
  BY <1>2, <1>3, <1>7, <1>8, InstRuns
<1> QED
  BY <1>1, <1>9, StillRunning

\* What is known at the end of a block that is run.
LEMMA AtTheEnd ==
    ASSUME FlowInv, AtEnd
    PROVE  \E A : EndFacts(result, code, A, pc, regs, mem, Block.term)
<1>1. PICK A : Running(result, code, A, pc, regs, mem)
  BY DEF FlowInv, RunIs, AtEnd
<1>2. AtBlockEnd(code, pc)
  BY DEF AtEnd, AtBlockEnd, Block
<1>3. Block.term = code.blocks[pc.block].term
  BY DEF Block
<1> QED
  BY <1>1, <1>2, <1>3, EndRuns

\* A jump goes to a block that can run.
LEMMA JumpKeeps ==
    ASSUME FlowInv, Jump
    PROVE  FlowInv'
<1> DEFINE t == Block.term
           first == t.k = "br" \/ ValueOf(t.opd) = 1
<1>1. AtEnd /\ phase = "run" /\ UNCHANGED <<body, result, phase, checked, code, regs, mem, answer>> /\ t.k \in {"br", "condbr"}
  BY DEF Jump, AtEnd
<1>2. PICK A : EndFacts(result, code, A, pc, regs, mem, t)
  BY <1>1, AtTheEnd
<1>3. pc' = [block |-> t.to[IF first THEN 1 ELSE 2], inst |-> 1]
  BY DEF Jump
<1>4. t.k = "br" => first
  OBVIOUS
<1> HIDE DEF t, first
<1>5. Running(result, code, A, pc', regs, mem)
  <2>1. CASE first
    BY <1>1, <1>2, <1>3, <2>1 DEF EndFacts
  <2>2. CASE ~first
    BY <1>1, <1>2, <1>3, <1>4, <2>2 DEF EndFacts
  <2> QED
    BY <2>1, <2>2
<1>6. Running(result, code, A, pc', regs', mem')
  BY <1>1, <1>5
<1> QED
  BY <1>1, <1>6, StillRunning

\* A ret answers as the function declares.
LEMMA ReturnKeeps ==
    ASSUME FlowInv, Return
    PROVE  FlowInv'
<1>1. AtEnd /\ UNCHANGED <<body, result, checked, code>> /\ phase' = "done" /\ Block.term.k = "ret"
  BY DEF Return
<1>2. answer' = IF Block.term.opd = Void THEN <<>> ELSE <<ValueOf(Block.term.opd)>>
  BY DEF Return
<1>3. (result = Unit /\ Block.term.opd = Void) \/ (result = Bool /\ Block.term.opd # Void)
  BY <1>1, AtTheEnd DEF EndFacts
<1>4. Bool # Unit
  BY DEF Bool, Unit
<1>5. answer' = <<>> <=> result = Unit
  BY <1>2, <1>3, <1>4
<1> QED
  BY <1>1, <1>5 DEF FlowInv, SourceIs, CheckedIs, StartIs, CodeIs, RunIs, AnswerIs, NeverPanics

\* Every step keeps the invariant.
LEMMA FlowStep ==
    ASSUME {"lazy", "unit"} \subseteq SetAside
    PROVE  FlowInv /\ [Next]_vars => FlowInv'
<1> SUFFICES ASSUME FlowInv, [Next]_vars PROVE FlowInv'
  OBVIOUS
<1>1. CASE Check
  BY <1>1, CheckKeeps
<1>2. CASE Lower
  BY <1>2, LowerKeeps
<1>3. CASE EmitModule
  BY <1>3, EmitKeeps
<1>4. CASE Execute
  BY <1>4, ExecuteKeeps
<1>5. CASE Read
  BY <1>5, ReadKeeps
<1>6. CASE Jump
  BY <1>6, JumpKeeps
<1>7. CASE Return
  BY <1>7, ReturnKeeps
<1>8. CASE UNCHANGED vars
  BY <1>8 DEF vars, FlowInv, SourceIs, CheckedIs, StartIs, CodeIs, RunIs, AnswerIs, NeverPanics
<1> QED
  BY <1>1, <1>2, <1>3, <1>4, <1>5, <1>6, <1>7, <1>8 DEF Next, Run

\* What is used is there.
LEMMA NothingUndefined == FlowInv => NoUndefinedRead
<1> SUFFICES ASSUME FlowInv, UndefinedUse PROVE FALSE
  BY DEF NoUndefinedRead
<1>1. \A o : Here(code, regs, o) => Known(o)
  BY DEF Here, Known
<1>2. CASE AtInst /\ ~Ready(Current)
  <2>1. PICK A : Running(result, code, A, pc, regs, mem)
    BY <1>2 DEF FlowInv, RunIs, AtInst
  <2>2. NextInst(code, A, pc, InstId) /\ Current = code.insts[InstId]
    BY <1>2 DEF AtInst, NextInst, InstId, Block, Current
  <2>3. /\ \A o \in Operands(Current) : Here(code, regs, o)
        /\ Current.op = "load" => Current.a.v \in DOMAIN mem
    BY <2>1, <2>2, OperandsHere
  <2> QED
    BY <1>1, <1>2, <2>3 DEF Ready
<1>3. CASE AtEnd /\ Block.term.k = "condbr" /\ ~Known(Block.term.opd)
  BY <1>1, <1>3, AtTheEnd DEF EndFacts
<1>4. CASE AtEnd /\ Block.term.k = "ret" /\ Block.term.opd # Void /\ ~Known(Block.term.opd)
  BY <1>1, <1>4, AtTheEnd DEF EndFacts
<1> QED
  BY <1>2, <1>3, <1>4 DEF UndefinedUse

\* A body that does not come back leaves the lowerer with Err(()).
LEMMA DivergenceEnds ==
    ASSUME {"lazy", "unit"} \subseteq SetAside
    PROVE  FlowInv => DivergenceEndsTheCode
<1> SUFFICES ASSUME FlowInv, phase = "print", checked.div \/ checked.info[1].ty = Never PROVE ~code.ok
  BY DEF DivergenceEndsTheCode
<1> DEFINE e == EnvOf(body, result, checked.info)
<1>1. e = EnvOf(body, result, checked.info) /\ code = LowerFunction(body, checked.info)
  BY DEF FlowInv, CodeIs
<1> HIDE DEF e
<1>2. Accept(e, checked) /\ checked.div = checked.info[1].div /\ \E A : Finished(e, code, A)
  BY <1>1, ReadyToLower, WhatIsLowered DEF FlowInv
<1>3. e.info = checked.info /\ e.body = body /\ Env(e) /\ IsBody(body)
  BY <1>2 DEF Accept, FlowInv, SourceIs
<1>4. 1 \in DOMAIN body /\ 1 \in Ids(body)
  BY <1>3 DEF IsBody, Ids
<1>5. e.info \in [Ids(body) -> Info] /\ Settled(e.info, 1)
  BY <1>3, <1>4 DEF Env, WellTyped
<1>6. e.info[1].div \in BOOLEAN
  BY <1>4, <1>5 DEF Info
<1>7. Ends(e.info, 1)
  BY <1>2, <1>3, <1>5, <1>6 DEF Ends, Settled
<1>8. code.ok \in BOOLEAN /\ code.ok # TRUE
  BY <1>2, <1>7, Zenon DEF Finished, CodeGood, Lowerers
<1> QED
  BY <1>8, Zenon

\* No function the known defects leave alone makes the lowerer, the builder or the printer panic: what the checker accepts can be lowered.
THEOREM NoPanic ==
    ASSUME {"lazy", "unit"} \subseteq SetAside
    PROVE  Spec => []NeverPanics
<1>1. FlowInv => NeverPanics
  BY DEF FlowInv
<1> QED
  BY <1>1, FlowStart, FlowStep, PTL DEF Spec

\* Where the checker says that a body diverges, the lowering ends without a value.
THEOREM DivergenceAgrees ==
    ASSUME {"lazy", "unit"} \subseteq SetAside
    PROVE  Spec => []DivergenceEndsTheCode
  BY DivergenceEnds, FlowStart, FlowStep, PTL DEF Spec

\* The code of a function answers as the function declares.
THEOREM AnswersAsDeclared ==
    ASSUME {"lazy", "unit"} \subseteq SetAside
    PROVE  Spec => []ReturnsWhatItDeclares
<1>1. FlowInv => ReturnsWhatItDeclares
  BY DEF FlowInv, AnswerIs, ReturnsWhatItDeclares
<1> QED
  BY <1>1, FlowStart, FlowStep, PTL DEF Spec

\* The code uses no register and no slot before it is written, on whatever path it is run.
THEOREM NothingReadUndefined ==
    ASSUME {"lazy", "unit"} \subseteq SetAside
    PROVE  Spec => []NoUndefinedRead
  BY NothingUndefined, FlowStart, FlowStep, PTL DEF Spec
=============================================================================
