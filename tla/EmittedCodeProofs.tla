-------------------------- MODULE EmittedCodeProofs --------------------------
(* What the code of a body may call: the generated comparison and clone        *)
(* functions, and the vectors of the runtime.                                  *)
EXTENDS GeneratedHelpers, RuntimeVec, InductionLemmas, SequenceTheorems, TLAPS

(***************************************************************************)
(* GeneratedHelpers.  For every crate and every sequence of uses: two      *)
(* functions have one name only where mangle_ty spells their types alike,  *)
(* none is printed without a body, no clone copies a mutable reference,    *)
(* and only () has no arm in the match of the lowering.                    *)
(***************************************************************************)

\* The module's functions, the memo and the stacks belong together.
Tables ==
  /\ \A e \in memo : /\ e.id \in DOMAIN functions /\ Called(e.helper)
                     /\ functions[e.id].name = FunctionName(crate, e.helper)
  /\ \A d, e \in memo : d.helper = e.helper => d = e
  /\ \A k \in Kinds : \A j \in DOMAIN pending[k] : pending[k][j] \in memo /\ pending[k][j].helper.kind = k
  /\ \A i \in DOMAIN functions :
       ~functions[i].body => \E k \in Kinds : \E j \in DOMAIN pending[k] : pending[k][j].id = i

\* A phase defines helpers of its own kind, and leaves none pending.
Phases ==
  /\ phase \in {"bodies", "emitted"} => current = None
  /\ phase = "equalities" => current = None \/ current.kind = "eq"
  /\ phase = "clones" => current = None \/ current.kind = "clone"
  /\ phase \in {"clones", "emitted"} => pending["eq"] = <<>>
  /\ phase = "emitted" => pending["clone"] = <<>>

IInv == TypeOK /\ Tables /\ Phases

\* All that has been asked for: what bodies and helpers have still to lower, and
\* the helpers that were declared.
Outstanding ==
  {uses[i] : i \in DOMAIN uses} \cup {e.helper : e \in memo}
  \cup {[kind |-> current.kind, ty |-> current.parts[i]] : i \in DOMAIN current.parts}

\* What is compared or cloned has the trait.
Justified ==
  /\ Derived(crate)
  /\ \A h \in Outstanding : Implements(crate, h.ty, h.kind)

\* Nothing that is compared or cloned arrives at a ().
UnitFree ==
  /\ \A h \in Outstanding : ~ArrivesAtUnit(h)
  /\ \A s \in Struct, k \in Kinds :
       <<s, k>> \in crate.traits =>
         \A i \in DOMAIN crate.fields[s] : ~ArrivesAtUnit([kind |-> k, ty |-> crate.fields[s][i]])
  /\ ~panicked

-----------------------------------------------------------------------------
(* Types and sequences.                                                        *)
Constructor == Derefs \cup {"Array", "Vec"}

LEMMA TyTyped ==
  ASSUME NEW ty \in Ty
  PROVE  /\ ty.chain \in Seq(Constructor)
         /\ ty.leaf \in Struct \cup {Scalar, Unit}
         /\ ty = [chain |-> ty.chain, leaf |-> ty.leaf]
BY DEF Ty, Constructor

LEMMA HelperTyped ==
  ASSUME NEW h \in Helper
  PROVE  h.kind \in Kinds /\ h.ty \in Ty /\ h = [kind |-> h.kind, ty |-> h.ty]
BY DEF Helper

LEMMA ChainIs ==
  ASSUME NEW q \in Seq(Constructor)
  PROVE  /\ Len(q) \in Nat /\ DOMAIN q = 1..Len(q)
         /\ \A i \in 1..Len(q) : q[i] \in Constructor
         /\ q = <<>> <=> Len(q) = 0
         /\ q # <<>> => /\ Head(q) = q[1] /\ Tail(q) \in Seq(Constructor)
                        /\ Len(Tail(q)) = Len(q) - 1
                        /\ \A i \in 1..(Len(q) - 1) : Tail(q)[i] = q[i + 1]
<1> DEFINE D == Constructor
<1> HIDE DEF D
<1>1. q \in Seq(D)
  BY DEF D
<1>2. /\ Len(q) \in Nat /\ DOMAIN q = 1..Len(q)
      /\ \A i \in 1..Len(q) : q[i] \in D
      /\ q = <<>> <=> Len(q) = 0
      /\ q # <<>> => /\ Head(q) = q[1] /\ Tail(q) \in Seq(D)
                     /\ Len(Tail(q)) = Len(q) - 1
                     /\ \A i \in 1..(Len(q) - 1) : Tail(q)[i] = q[i + 1]
  BY <1>1
<1> QED
  BY <1>2 DEF D

LEMMA AppendIs ==
  ASSUME NEW S, NEW q \in Seq(S), NEW x \in S
  PROVE  /\ Append(q, x) \in Seq(S) /\ Len(q) \in Nat
         /\ DOMAIN q = 1..Len(q) /\ DOMAIN Append(q, x) = 1..(Len(q) + 1)
         /\ Append(q, x)[Len(q) + 1] = x
         /\ \A i \in 1..Len(q) : Append(q, x)[i] = q[i]
OBVIOUS

LEMMA InnerIs ==
  ASSUME NEW ty \in Ty
  PROVE  Inner(ty) = [chain |-> Tail(ty.chain), leaf |-> ty.leaf]
<1>1. ASSUME NEW S, NEW L, NEW r \in [chain : S, leaf : L], NEW x
      PROVE  [r EXCEPT !.chain = x] = [chain |-> x, leaf |-> r.leaf]
  OBVIOUS
<1>2. ty \in [chain : Seq(Derefs \cup {"Array", "Vec"}), leaf : Struct \cup {Scalar, Unit}]
  BY DEF Ty
<1> QED
  <2> DEFINE x == Tail(ty.chain)
  <2>1. Inner(ty) = [ty EXCEPT !.chain = x]
    BY DEF Inner
  <2> HIDE DEF x
  <2>2. [ty EXCEPT !.chain = x] = [chain |-> x, leaf |-> ty.leaf]
    BY <1>1, <1>2
  <2> QED
    BY <2>1, <2>2 DEF x

\* What is compared after following every leading reference and box: no more of them.
LEMMA DerefAllIs ==
  ASSUME NEW ty \in Ty
  PROVE  /\ DerefAll(ty) \in Ty /\ DerefAll(ty).leaf = ty.leaf
         /\ DerefAll(ty).chain # <<>> => Head(DerefAll(ty).chain) \in {"Array", "Vec"}
<1> DEFINE q == ty.chain
           P(n) == /\ \A i \in 1..n : q[i] \in Derefs
                   /\ n < Len(q) => q[n + 1] \notin Derefs
           n == CHOOSE n \in 0..Len(q) : P(n)
           x == SubSeq(q, n + 1, Len(q))
<1>1. q \in Seq(Constructor) /\ ty.leaf \in Struct \cup {Scalar, Unit}
  BY TyTyped
<1>2. Len(q) \in Nat /\ \A i \in 1..Len(q) : q[i] \in Constructor
  BY <1>1, ChainIs
<1>3. \E m \in 0..Len(q) : P(m)
  <2> DEFINE M == {m \in 0..Len(q) : m < Len(q) => q[m + 1] \notin Derefs}
  <2>1. Len(q) \in M /\ M \subseteq Nat
    BY <1>2
  <2>2. PICK m \in M : \A j \in M : m <= j
    BY <2>1, Smallest
  <2>3. ASSUME NEW i \in 1..m PROVE q[i] \in Derefs
    <3>1. i - 1 \in 0..Len(q) /\ i - 1 < m /\ i - 1 \in Nat
      BY <1>2, <2>2, <2>3
    <3>2. i - 1 \notin M
      <4>1. ASSUME i - 1 \in M PROVE m <= i - 1
        BY <2>2, <4>1
      <4> HIDE DEF M
      <4> QED
        BY <2>1, <2>2, <3>1, <4>1
    <3> QED
      BY <3>1, <3>2
  <2> QED
    BY <2>2, <2>3
<1> HIDE DEF P
<1>4. n \in 0..Len(q) /\ P(n)
  BY <1>3
<1> HIDE DEF n
<1>5. x \in Seq(Constructor) /\ Len(x) = Len(q) - n /\ \A i \in 1..(Len(q) - n) : x[i] = q[n + i]
  <2> DEFINE D == Constructor
  <2>1. q \in Seq(D) /\ n \in 0..Len(q)
    BY <1>1, <1>4
  <2> HIDE DEF D, q
  <2>2. x \in Seq(D) /\ Len(x) = Len(q) - n /\ \A i \in 1..(Len(q) - n) : x[i] = q[n + i]
    BY <2>1
  <2> QED
    BY <2>2 DEF D
<1>6. DerefAll(ty) = [chain |-> x, leaf |-> ty.leaf]
  <2>1. DerefAll(ty) = [ty EXCEPT !.chain = x]
    BY DEF DerefAll, n, P
  <2>2. ASSUME NEW S, NEW L, NEW r \in [chain : S, leaf : L], NEW y
        PROVE  [r EXCEPT !.chain = y] = [chain |-> y, leaf |-> r.leaf]
    OBVIOUS
  <2> HIDE DEF x
  <2> QED
    BY <2>1, <2>2 DEF Ty
<1> HIDE DEF x
<1>7. DerefAll(ty) \in Ty /\ DerefAll(ty).leaf = ty.leaf /\ DerefAll(ty).chain = x
  BY <1>1, <1>5, <1>6 DEF Ty, Constructor
<1>8. ASSUME x # <<>> PROVE Head(x) \in {"Array", "Vec"}
  <2>1. Len(x) # 0 /\ Head(x) = x[1]
    BY <1>5, <1>8, ChainIs
  <2>2. n < Len(q) /\ 1 \in 1..(Len(q) - n) /\ n + 1 \in 1..Len(q)
    BY <1>2, <1>4, <1>5, <2>1
  <2>3. x[1] = q[n + 1] /\ q[n + 1] \in Constructor
    BY <1>2, <1>5, <2>2
  <2>4. q[n + 1] \notin Derefs
    BY <1>4, <2>2 DEF P
  <2> QED
    BY <2>1, <2>3, <2>4 DEF Constructor
<1> QED
  BY <1>7, <1>8

LEMMA OperandIs ==
  ASSUME NEW h \in Helper
  PROVE  /\ Operand(h) \in Helper /\ Operand(h).kind = h.kind /\ Operand(h).ty.leaf = h.ty.leaf
         /\ h.kind = "clone" => Operand(h) = h
         /\ h.kind = "eq" /\ Operand(h).ty.chain # <<>> => Head(Operand(h).ty.chain) \in {"Array", "Vec"}
<1>1. h.kind \in Kinds /\ h.ty \in Ty
  BY HelperTyped
<1>2. CASE h.kind = "eq"
  <2> DEFINE d == DerefAll(h.ty)
  <2>1. Operand(h) = [h EXCEPT !.ty = d]
    BY <1>2 DEF Operand
  <2>2. /\ d \in Ty /\ d.leaf = h.ty.leaf
        /\ d.chain # <<>> => Head(d.chain) \in {"Array", "Vec"}
    BY <1>1, DerefAllIs
  <2> HIDE DEF d
  <2>3. Operand(h) = [kind |-> h.kind, ty |-> d]
    BY <2>1 DEF Helper
  <2> QED
    BY <1>1, <1>2, <2>2, <2>3 DEF Helper
<1>3. CASE h.kind # "eq"
  BY <1>3 DEF Operand
<1> QED
  BY <1>2, <1>3

\* What a helper lowers is typed, and has the trait if the helper's type has it.
LEMMA PartsTyped ==
  ASSUME crate \in Crate, NEW h \in Helper, Called(h)
  PROVE  Parts(crate, h) \in Seq(Ty)
<1>1. h.ty \in Ty /\ h.ty.chain \in Seq(Constructor) /\ h.ty.leaf \in Struct \cup {Scalar, Unit}
  BY HelperTyped, TyTyped
<1>2. CASE h.ty.chain = <<>>
  BY <1>1, <1>2 DEF Parts, Called, Crate
<1>3. CASE h.ty.chain # <<>>
  <2>1. Inner(h.ty) \in Ty
    <3>1. Tail(h.ty.chain) \in Seq(Constructor)
      BY <1>1, <1>3, ChainIs
    <3>2. Inner(h.ty) = [chain |-> Tail(h.ty.chain), leaf |-> h.ty.leaf]
      BY <1>1, InnerIs
    <3>3. Tail(h.ty.chain) \in Seq(Derefs \cup {"Array", "Vec"})
      BY <3>1 DEF Constructor
    <3> QED
      BY <1>1, <3>2, <3>3 DEF Ty
  <2>2. Parts(crate, h) = <<Inner(h.ty)>>
    BY <1>3 DEF Parts
  <2> QED
    BY <2>1, <2>2
<1> QED
  BY <1>2, <1>3

\* A container with a helper is no reference; its references are those of its element.
LEMMA InnerRefs ==
  ASSUME NEW h \in Helper, Called(h), h.ty.chain # <<>>
  PROVE  /\ Inner(h.ty).leaf = h.ty.leaf /\ Inner(h.ty).chain = Tail(h.ty.chain)
         /\ Len(h.ty.chain) \in Nat \ {0} /\ DOMAIN h.ty.chain = 1..Len(h.ty.chain)
         /\ DOMAIN Inner(h.ty).chain = 1..(Len(h.ty.chain) - 1)
         /\ ~IsRef(h.ty, 1)
         /\ \A i \in 1..(Len(h.ty.chain) - 1) : Inner(h.ty).chain[i] = h.ty.chain[i + 1]
         /\ \A i \in 1..(Len(h.ty.chain) - 1) : IsRef(Inner(h.ty), i) <=> IsRef(h.ty, i + 1)
<1> DEFINE q == h.ty.chain
           in == Inner(h.ty)
<1>1. h.ty \in Ty /\ q \in Seq(Constructor)
  BY HelperTyped, TyTyped
<1>2. /\ Len(q) \in Nat /\ DOMAIN q = 1..Len(q) /\ (q = <<>> <=> Len(q) = 0)
      /\ Head(q) = q[1] /\ Tail(q) \in Seq(Constructor) /\ Len(Tail(q)) = Len(q) - 1
      /\ \A i \in 1..(Len(q) - 1) : Tail(q)[i] = q[i + 1]
  BY <1>1, ChainIs
<1>3. in.leaf = h.ty.leaf /\ in.chain = Tail(q)
  <2>1. in = [chain |-> Tail(q), leaf |-> h.ty.leaf]
    BY <1>1, InnerIs
  <2> HIDE DEF in
  <2> QED
    BY <2>1
<1>4. DOMAIN Tail(q) = 1..(Len(q) - 1)
  BY <1>2, ChainIs
<1>5. q[1] \in {"Array", "Vec", "Box"}
  BY <1>2 DEF Called
<1> HIDE DEF in
<1>6. ~IsRef(h.ty, 1)
  BY <1>5 DEF IsRef
<1>7. \A i \in 1..(Len(q) - 1) : IsRef(in, i) <=> IsRef(h.ty, i + 1)
  BY <1>2, <1>3 DEF IsRef
<1> QED
  BY <1>2, <1>3, <1>4, <1>6, <1>7 DEF in

LEMMA PartsImplement ==
  ASSUME crate \in Crate, Derived(crate), NEW h \in Helper, Called(h),
         Implements(crate, h.ty, h.kind)
  PROVE  \A i \in DOMAIN Parts(crate, h) : Implements(crate, Parts(crate, h)[i], h.kind)
<1>1. h.ty \in Ty /\ h.kind \in Kinds /\ h.ty.chain \in Seq(Constructor)
  BY HelperTyped, TyTyped
<1>2. CASE h.ty.chain = <<>>
  <2>1. h.ty.leaf \in Struct /\ Parts(crate, h) = crate.fields[h.ty.leaf]
    BY <1>2 DEF Called, Parts
  <2>2. DOMAIN h.ty.chain = {}
    BY <1>1, <1>2, ChainIs
  <2>3. <<h.ty.leaf, h.kind>> \in crate.traits
    BY <2>1, <2>2 DEF Implements, LeafHas
  <2> QED
    BY <1>1, <2>1, <2>3 DEF Derived
<1>3. CASE h.ty.chain # <<>>
  <2> DEFINE q == h.ty.chain
             in == Inner(h.ty)
  <2>1. /\ in.leaf = h.ty.leaf /\ in.chain = Tail(q)
        /\ Len(q) \in Nat \ {0} /\ DOMAIN q = 1..Len(q) /\ DOMAIN in.chain = 1..(Len(q) - 1)
        /\ ~IsRef(h.ty, 1)
        /\ \A i \in 1..(Len(q) - 1) : in.chain[i] = q[i + 1]
        /\ \A i \in 1..(Len(q) - 1) : IsRef(in, i) <=> IsRef(h.ty, i + 1)
    BY <1>3, InnerRefs
  <2> HIDE DEF in
  <2>2. LeafHas(crate, h.ty, h.kind) => LeafHas(crate, in, h.kind)
    BY <2>1 DEF LeafHas
  <2>3. Implements(crate, in, h.kind)
    <3>1. CASE LeafHas(crate, h.ty, h.kind) /\ (h.kind = "eq" \/ ~\E i \in DOMAIN q : IsRef(h.ty, i))
      <4>1. h.kind = "eq" \/ ~\E i \in DOMAIN in.chain : IsRef(in, i)
        <5> SUFFICES ASSUME ~\E i \in DOMAIN q : IsRef(h.ty, i), NEW i \in 1..(Len(q) - 1), IsRef(in, i)
                     PROVE  FALSE
          BY <2>1, <3>1
        <5>1. IsRef(h.ty, i + 1) /\ i + 1 \in DOMAIN q
          BY <2>1
        <5> QED
          BY <5>1
      <4> QED
        BY <2>2, <3>1, <4>1 DEF Implements
    <3>2. CASE h.kind = "clone" /\ \E i \in DOMAIN q : q[i] = "Ref" /\ \A j \in 1..(i - 1) : ~IsRef(h.ty, j)
      <4>1. PICK i \in 1..Len(q) : q[i] = "Ref" /\ \A j \in 1..(i - 1) : ~IsRef(h.ty, j)
        BY <2>1, <3>2
      <4>2. i # 1
        BY <2>1, <4>1 DEF IsRef
      <4>3. i - 1 \in 1..(Len(q) - 1) /\ in.chain[i - 1] = "Ref"
        BY <2>1, <4>1, <4>2
      <4>4. \A j \in 1..((i - 1) - 1) : ~IsRef(in, j)
        BY <2>1, <4>1, <4>2
      <4> QED
        BY <2>1, <3>2, <4>3, <4>4 DEF Implements
    <3> QED
      BY <3>1, <3>2 DEF Implements
  <2>4. Parts(crate, h) = <<in>>
    BY <1>3 DEF Parts, in
  <2> QED
    BY <2>3, <2>4
<1> QED
  BY <1>2, <1>3

\* A struct with a derive has no field that arrives at a (): then neither has a helper.
LEMMA PartsUnitFree ==
  ASSUME UnitFree, NEW h \in Helper, Called(h), Implements(crate, h.ty, h.kind), ~ArrivesAtUnit(h)
  PROVE  \A i \in DOMAIN Parts(crate, h) : ~ArrivesAtUnit([kind |-> h.kind, ty |-> Parts(crate, h)[i]])
<1>1. h.ty \in Ty /\ h.kind \in Kinds /\ h.ty.chain \in Seq(Constructor)
  BY HelperTyped, TyTyped
<1>2. CASE h.ty.chain = <<>>
  <2>1. h.ty.leaf \in Struct /\ Parts(crate, h) = crate.fields[h.ty.leaf]
    BY <1>2 DEF Called, Parts
  <2>2. DOMAIN h.ty.chain = {}
    BY <1>1, <1>2, ChainIs
  <2>3. <<h.ty.leaf, h.kind>> \in crate.traits
    BY <2>1, <2>2 DEF Implements, LeafHas
  <2> QED
    BY <1>1, <2>1, <2>3 DEF UnitFree
<1>3. CASE h.ty.chain # <<>>
  <2> DEFINE in == Inner(h.ty)
             part == [kind |-> h.kind, ty |-> in]
  <2>1. SUFFICES ASSUME ArrivesAtUnit(part) PROVE FALSE
    <3>1. Parts(crate, h) = <<in>>
      BY <1>3 DEF Parts
    <3> QED
      BY <2>1, <3>1
  <2>2. part.kind = h.kind /\ part.ty = in
    OBVIOUS
  <2> HIDE DEF part
  <2>3. in.leaf = h.ty.leaf
    BY <1>3, InnerRefs
  <2>4. ASSUME NEW i \in DOMAIN h.ty.chain, IsRef(h.ty, i)
        PROVE  \E j \in DOMAIN in.chain : IsRef(in, j)
    <3>1. i # 1 /\ i \in 1..Len(h.ty.chain) /\ Len(h.ty.chain) \in Nat
      BY <1>3, <2>4, InnerRefs
    <3>2. i - 1 \in 1..(Len(h.ty.chain) - 1) /\ (i - 1) + 1 = i
      BY <3>1
    <3> QED
      BY <1>3, <2>4, <3>2, InnerRefs
  <2> QED
    BY <2>1, <2>2, <2>3, <2>4 DEF ArrivesAtUnit
<1> QED
  BY <1>2, <1>3


-----------------------------------------------------------------------------
(* The tables.                                                                 *)
LEMMA NameTyped ==
  ASSUME crate \in Crate, NEW h \in Helper
  PROVE  FunctionName(crate, h) \in FnName
<1> DEFINE S == Derefs \cup {"Array", "Vec", Scalar, Unit} \cup Name
           x == IF h.ty.leaf \in Struct THEN crate.name[h.ty.leaf] ELSE h.ty.leaf
<1>1. h.kind \in Kinds /\ h.ty.chain \in Seq(Constructor) /\ h.ty.leaf \in Struct \cup {Scalar, Unit}
  BY HelperTyped, TyTyped
<1>2. x \in S
  BY <1>1 DEF Crate
<1>3. Constructor \subseteq S
  BY DEF Constructor
<1> HIDE DEF x, S
<1>4. h.ty.chain \in Seq(S)
  BY <1>1, <1>3
<1>5. Append(h.ty.chain, x) \in Seq(S)
  BY <1>2, <1>4
<1> QED
  BY <1>1, <1>5 DEF FunctionName, MangleTy, FnName, S, x

LEMMA DeclareKeeps ==
  ASSUME TypeOK, Tables, NEW h \in Helper, Called(h), Declare(h), crate' = crate
  PROVE  /\ functions' \in Seq(Fn) /\ memo' \in SUBSET Entry /\ pending' \in [Kinds -> Seq(Entry)]
         /\ Tables'
         /\ \A k \in Kinds : k # h.kind => pending'[k] = pending[k]
         /\ \A e \in memo' : e \in memo \/ e.helper = h
<1>1. CASE \E e \in memo : e.helper = h
  <2>1. functions' = functions /\ memo' = memo /\ pending' = pending
    BY <1>1 DEF Declare
  <2> QED
    BY <2>1 DEF TypeOK, Tables
<1>2. CASE ~\E e \in memo : e.helper = h
  <2> DEFINE n == Len(functions)
             f == [name |-> FunctionName(crate, h), body |-> FALSE]
             new == [helper |-> h, id |-> n + 1]
             q == pending[h.kind]
  <2>1. /\ functions' = Append(functions, f) /\ memo' = memo \cup {new}
        /\ pending' = [pending EXCEPT ![h.kind] = Append(q, new)]
    BY <1>2 DEF Declare, Declared, NewEntry
  <2>2. h.kind \in Kinds /\ crate \in Crate
    BY HelperTyped, CratesAssumption DEF TypeOK
  <2>3. f \in Fn /\ f.name = FunctionName(crate, h) /\ f.body = FALSE
    BY <2>2, NameTyped DEF Fn
  <2>4. n \in Nat /\ new \in Entry /\ new.helper = h /\ new.id = n + 1
    BY DEF TypeOK, Entry
  <2>5. q \in Seq(Entry) /\ functions \in Seq(Fn)
    BY <2>2 DEF TypeOK
  <2> HIDE DEF f, new
  <2>6. /\ functions' \in Seq(Fn)
        /\ DOMAIN functions = 1..n /\ DOMAIN functions' = 1..(n + 1)
        /\ functions'[n + 1] = f /\ \A i \in 1..n : functions'[i] = functions[i]
    BY <2>1, <2>3, <2>5, AppendIs
  <2>7. /\ Append(q, new) \in Seq(Entry) /\ Len(q) \in Nat
        /\ DOMAIN q = 1..Len(q) /\ DOMAIN Append(q, new) = 1..(Len(q) + 1)
        /\ Append(q, new)[Len(q) + 1] = new /\ \A j \in 1..Len(q) : Append(q, new)[j] = q[j]
    BY <2>4, <2>5, AppendIs
  <2>8. memo' \in SUBSET Entry
    BY <2>1, <2>4 DEF TypeOK
  <2>9. /\ pending' \in [Kinds -> Seq(Entry)] /\ pending'[h.kind] = Append(q, new)
        /\ \A k \in Kinds : k # h.kind => pending'[k] = pending[k]
    BY <2>1, <2>2, <2>7 DEF TypeOK
  <2>10. ASSUME NEW e \in memo'
         PROVE  /\ e.id \in DOMAIN functions' /\ Called(e.helper)
                /\ functions'[e.id].name = FunctionName(crate, e.helper)
    <3>1. CASE e = new
      BY <2>3, <2>4, <2>6, <3>1
    <3>2. CASE e \in memo
      <4>1. /\ e.id \in 1..n /\ Called(e.helper)
            /\ functions[e.id].name = FunctionName(crate, e.helper)
        BY <2>6, <3>2 DEF Tables
      <4> QED
        BY <2>4, <2>6, <4>1
    <3> QED
      BY <2>1, <2>10, <3>1, <3>2
  <2>11. \A d, e \in memo' : d.helper = e.helper => d = e
    BY <1>2, <2>1, <2>4 DEF Tables
  <2>12. ASSUME NEW k \in Kinds, NEW j \in DOMAIN pending'[k]
         PROVE  pending'[k][j] \in memo' /\ pending'[k][j].helper.kind = k
    <3>1. CASE k # h.kind
      BY <2>1, <2>9, <2>12, <3>1 DEF Tables
    <3>2. CASE k = h.kind /\ j = Len(q) + 1
      BY <2>1, <2>4, <2>7, <2>9, <3>2
    <3>3. CASE k = h.kind /\ j \in 1..Len(q)
      <4>1. pending'[k][j] = pending[k][j] /\ j \in DOMAIN pending[k]
        BY <2>7, <2>9, <3>3
      <4> QED
        BY <2>1, <4>1 DEF Tables
    <3> QED
      BY <2>7, <2>9, <2>12, <3>1, <3>2, <3>3
  <2>13. ASSUME NEW i \in DOMAIN functions', ~functions'[i].body
         PROVE  \E k \in Kinds : \E j \in DOMAIN pending'[k] : pending'[k][j].id = i
    <3>1. CASE i = n + 1
      <4>1. Len(q) + 1 \in DOMAIN pending'[h.kind] /\ pending'[h.kind][Len(q) + 1].id = i
        BY <2>4, <2>7, <2>9, <3>1
      <4> QED
        BY <2>2, <4>1
    <3>2. CASE i \in 1..n
      <4>1. PICK k \in Kinds : \E j \in DOMAIN pending[k] : pending[k][j].id = i
        BY <2>6, <2>13, <3>2 DEF Tables
      <4>2. PICK j \in DOMAIN pending[k] : pending[k][j].id = i
        BY <4>1
      <4>3. j \in DOMAIN pending'[k] /\ pending'[k][j] = pending[k][j]
        <5>1. CASE k = h.kind
          <6>1. j \in 1..Len(q)
            BY <2>7, <4>2, <5>1
          <6>2. pending'[k] = Append(q, new) /\ pending[k] = q
            BY <2>9, <5>1
          <6> HIDE DEF q
          <6> QED
            BY <2>7, <6>1, <6>2
        <5> QED
          BY <2>9, <5>1
      <4> QED
        BY <4>2, <4>3
    <3> QED
      BY <2>4, <2>6, <2>13, <3>1, <3>2
  <2>14. Tables'
    BY <2>10, <2>11, <2>12, <2>13 DEF Tables
  <2> QED
    BY <2>1, <2>4, <2>6, <2>8, <2>9, <2>14
<1> QED
  BY <1>1, <1>2

\* Whatever is lowered, the tables stay in order, and what is new in them is the
\* operand of the match.
LEMMA LowerKeeps ==
  ASSUME TypeOK, Tables, NEW h \in Helper, Lower(h), crate' = crate
  PROVE  /\ functions' \in Seq(Fn) /\ memo' \in SUBSET Entry /\ pending' \in [Kinds -> Seq(Entry)]
         /\ panicked' \in BOOLEAN
         /\ Tables'
         /\ \A k \in Kinds : k # h.kind => pending'[k] = pending[k]
         /\ \A e \in memo' : e \in memo \/ e.helper = Operand(h)
         /\ panicked' = panicked \/ (~Inline(Operand(h)) /\ ~Called(Operand(h)))
<1> DEFINE op == Operand(h)
<1>1. op \in Helper /\ op.kind = h.kind
  BY OperandIs
<1> HIDE DEF op
<1>2. CASE Called(op) /\ Declare(op) /\ UNCHANGED panicked
  BY <1>1, <1>2, DeclareKeeps DEF TypeOK, op
<1>3. CASE UNCHANGED <<functions, memo, pending>> /\ panicked' \in BOOLEAN
           /\ (panicked' = panicked \/ (~Inline(op) /\ ~Called(op)))
  BY <1>3 DEF TypeOK, Tables, op
<1> QED
  BY <1>2, <1>3 DEF Lower, TypeOK, op

\* The function on top of the stack gets its body.
LEMMA PopKeeps ==
  ASSUME TypeOK, Tables, NEW kind \in Kinds, Pop(kind)
  PROVE  /\ functions' \in Seq(Fn) /\ pending' \in [Kinds -> Seq(Entry)]
         /\ current' \in [parts : Seq(Ty), kind : Kinds] /\ current'.kind = kind
         /\ Tables'
         /\ \A k \in Kinds : k # kind => pending'[k] = pending[k]
         /\ \E e \in memo : e.helper.kind = kind /\ current'.parts = Parts(crate, e.helper)
<1> DEFINE q == pending[kind]
           n == Len(q)
           e == q[n]
           p == SubSeq(q, 1, n - 1)
<1>1. /\ q # <<>> /\ functions' = [functions EXCEPT ![e.id].body = TRUE]
      /\ current' = [parts |-> Parts(crate, e.helper), kind |-> kind]
      /\ pending' = [pending EXCEPT ![kind] = p]
      /\ crate' = crate /\ memo' = memo
  BY DEF Pop, Popped
<1>2. q \in Seq(Entry) /\ functions \in Seq(Fn) /\ crate \in Crate
  BY CratesAssumption DEF TypeOK
<1>3. /\ n \in Nat \ {0} /\ DOMAIN q = 1..n /\ n \in DOMAIN q
      /\ p \in Seq(Entry) /\ DOMAIN p = 1..(n - 1) /\ \A j \in 1..(n - 1) : p[j] = q[j]
  BY <1>1, <1>2
<1>4. /\ e \in memo /\ e.helper.kind = kind /\ e \in Entry
      /\ e.id \in DOMAIN functions /\ Called(e.helper)
  BY <1>3 DEF Tables, TypeOK
<1> HIDE DEF p, e
<1>5. /\ pending' \in [Kinds -> Seq(Entry)] /\ pending'[kind] = p
      /\ \A k \in Kinds : k # kind => pending'[k] = pending[k]
  BY <1>1, <1>3 DEF TypeOK
<1>6. /\ functions' \in Seq(Fn) /\ DOMAIN functions' = DOMAIN functions
      /\ \A i \in DOMAIN functions : functions'[i].name = functions[i].name
      /\ \A i \in DOMAIN functions : ~functions'[i].body => i # e.id /\ ~functions[i].body
  <2>1. \A i \in DOMAIN functions : functions[i] \in Fn
    BY <1>2
  <2>2. DOMAIN functions' = DOMAIN functions
    BY <1>1
  <2>3. ASSUME NEW i \in DOMAIN functions
        PROVE  /\ functions'[i] \in Fn /\ functions'[i].name = functions[i].name
               /\ ~functions'[i].body => i # e.id /\ ~functions[i].body
    BY <1>1, <1>4, <2>1 DEF Fn
  <2>4. functions' \in Seq(Fn)
    <3>1. DOMAIN functions = 1..Len(functions) /\ Len(functions) \in Nat
      BY <1>2
    <3>2. functions' \in [1..Len(functions) -> Fn]
      BY <1>1, <2>2, <2>3, <3>1
    <3> QED
      BY <3>1, <3>2
  <2> QED
    BY <2>2, <2>3, <2>4
<1>7. e.helper \in Helper /\ Parts(crate, e.helper) \in Seq(Ty)
  <2>1. e.helper \in Helper
    BY <1>4 DEF Entry
  <2> QED
    BY <1>2, <1>4, <2>1, PartsTyped
<1>8. Tables'
  <2>1. ASSUME NEW d \in memo'
        PROVE  /\ d.id \in DOMAIN functions' /\ Called(d.helper)
               /\ functions'[d.id].name = FunctionName(crate, d.helper)
    BY <1>1, <1>6, <2>1 DEF Tables
  <2>2. \A d, g \in memo' : d.helper = g.helper => d = g
    BY <1>1 DEF Tables
  <2>3. ASSUME NEW k \in Kinds, NEW j \in DOMAIN pending'[k]
        PROVE  /\ pending'[k][j] \in memo' /\ pending'[k][j].helper.kind = k
    <3>1. j \in DOMAIN pending[k] /\ pending'[k][j] = pending[k][j]
      <4>1. CASE k = kind
        <5>1. j \in 1..(n - 1) /\ pending'[k][j] = p[j]
          BY <1>3, <1>5, <2>3, <4>1
        <5>2. j \in DOMAIN q /\ p[j] = q[j]
          BY <1>3, <5>1
        <5> QED
          BY <4>1, <5>1, <5>2
      <4> QED
        BY <1>5, <2>3, <4>1
    <3> QED
      BY <1>1, <3>1 DEF Tables
  <2>4. ASSUME NEW i \in DOMAIN functions', ~functions'[i].body
        PROVE  \E k \in Kinds : \E j \in DOMAIN pending'[k] : pending'[k][j].id = i
    <3>1. i \in DOMAIN functions /\ i # e.id /\ ~functions[i].body
      BY <1>6, <2>4
    <3>2. PICK k \in Kinds : \E j \in DOMAIN pending[k] : pending[k][j].id = i
      BY <3>1 DEF Tables
    <3>3. PICK j \in DOMAIN pending[k] : pending[k][j].id = i
      BY <3>2
    <3>4. k = kind => j # n
      BY <3>1, <3>3 DEF e
    <3>5. j \in DOMAIN pending'[k] /\ pending'[k][j] = pending[k][j]
      BY <1>3, <1>5, <3>4
    <3> QED
      BY <3>3, <3>5
  <2> QED
    BY <1>1, <2>1, <2>2, <2>3, <2>4 DEF Tables
<1> QED
  BY <1>1, <1>4, <1>5, <1>6, <1>7, <1>8

LEMMA InitInvariant == Init => IInv
<1> SUFFICES ASSUME Init PROVE IInv
  OBVIOUS
<1>1. TypeOK
  <2>1. uses \in Seq(Helper) /\ crate \in Crates
    BY LoweredAssumption DEF Init
  <2>2. pending \in [Kinds -> Seq(Entry)] /\ functions \in Seq(Fn)
    BY DEF Init
  <2> QED
    BY <2>1, <2>2 DEF Init, TypeOK
<1>2. Tables
  <2>1. functions = <<>> /\ DOMAIN functions = {} /\ memo = {}
    BY DEF Init
  <2>2. \A k \in Kinds : pending[k] = <<>> /\ DOMAIN pending[k] = {}
    BY DEF Init
  <2> QED
    BY <2>1, <2>2 DEF Tables
<1>3. Phases
  BY DEF Init, Phases
<1> QED
  BY <1>1, <1>2, <1>3 DEF IInv

\* What the two steps that lower something ask for.
LEMMA Asked ==
  ASSUME TypeOK
  PROVE  /\ uses # <<>> => /\ Head(uses) \in Helper /\ Head(uses) \in {uses[i] : i \in DOMAIN uses}
                           /\ Tail(uses) \in Seq(Helper)
                           /\ \A i \in DOMAIN Tail(uses) : i + 1 \in DOMAIN uses /\ Tail(uses)[i] = uses[i + 1]
         /\ current # None => current \in [parts : Seq(Ty), kind : Kinds]
         /\ current # None /\ current.parts # <<>> =>
              /\ [kind |-> current.kind, ty |-> Head(current.parts)] \in Helper
              /\ 1 \in DOMAIN current.parts /\ Head(current.parts) = current.parts[1]
              /\ [current EXCEPT !.parts = Tail(@)] = [parts |-> Tail(current.parts), kind |-> current.kind]
              /\ Tail(current.parts) \in Seq(Ty)
              /\ \A i \in DOMAIN Tail(current.parts) :
                   i + 1 \in DOMAIN current.parts /\ Tail(current.parts)[i] = current.parts[i + 1]
<1>1. ASSUME NEW S, NEW q \in Seq(S), q # <<>>
      PROVE  /\ Head(q) = q[1] /\ 1 \in DOMAIN q /\ Head(q) \in S /\ Tail(q) \in Seq(S)
             /\ \A i \in DOMAIN Tail(q) : i + 1 \in DOMAIN q /\ Tail(q)[i] = q[i + 1]
  <2>1. /\ Len(q) \in Nat \ {0} /\ DOMAIN q = 1..Len(q) /\ DOMAIN Tail(q) = 1..(Len(q) - 1)
        /\ \A i \in 1..(Len(q) - 1) : Tail(q)[i] = q[i + 1]
    BY <1>1
  <2> QED
    BY <1>1, <2>1
<1>2. uses \in Seq(Helper)
  BY DEF TypeOK
<1>3. uses # <<>> => /\ Head(uses) \in Helper /\ Head(uses) \in {uses[i] : i \in DOMAIN uses}
                     /\ Tail(uses) \in Seq(Helper)
                     /\ \A i \in DOMAIN Tail(uses) : i + 1 \in DOMAIN uses /\ Tail(uses)[i] = uses[i + 1]
  BY <1>1, <1>2
<1>4. ASSUME current # None
      PROVE  current \in [parts : Seq(Ty), kind : Kinds]
  BY <1>4 DEF TypeOK
<1>5. ASSUME current # None, current.parts # <<>>
      PROVE  /\ [kind |-> current.kind, ty |-> Head(current.parts)] \in Helper
             /\ 1 \in DOMAIN current.parts /\ Head(current.parts) = current.parts[1]
             /\ [current EXCEPT !.parts = Tail(@)] = [parts |-> Tail(current.parts), kind |-> current.kind]
             /\ Tail(current.parts) \in Seq(Ty)
             /\ \A i \in DOMAIN Tail(current.parts) :
                  i + 1 \in DOMAIN current.parts /\ Tail(current.parts)[i] = current.parts[i + 1]
  <2>1. current.parts \in Seq(Ty) /\ current.kind \in Kinds
    BY <1>4, <1>5
  <2>2. [current EXCEPT !.parts = Tail(@)] = [parts |-> Tail(current.parts), kind |-> current.kind]
    BY <1>4, <1>5
  <2>3. /\ Head(current.parts) = current.parts[1] /\ 1 \in DOMAIN current.parts
        /\ Head(current.parts) \in Ty /\ Tail(current.parts) \in Seq(Ty)
        /\ \A i \in DOMAIN Tail(current.parts) :
             i + 1 \in DOMAIN current.parts /\ Tail(current.parts)[i] = current.parts[i + 1]
    BY <1>1, <1>5, <2>1
  <2> QED
    BY <2>1, <2>2, <2>3 DEF Helper
<1> QED
  BY <1>3, <1>4, <1>5

\* Every step keeps the types, the tables and the order of the phases.
LEMMA StepInvariant == IInv /\ [Next]_vars => IInv'
<1> SUFFICES ASSUME TypeOK, Tables, Phases, [Next]_vars PROVE IInv'
  BY DEF IInv
<1>k. Kinds = {"eq", "clone"} /\ "eq" \in Kinds /\ "clone" \in Kinds /\ None.kind = "none"
  BY DEF Kinds, None
<1>1. CASE LowerUse
  <2>1. /\ uses # <<>> /\ Lower(Head(uses)) /\ uses' = Tail(uses) /\ phase = "bodies"
        /\ UNCHANGED <<crate, phase, current>>
    BY <1>1 DEF LowerUse
  <2>2. Head(uses) \in Helper /\ uses' \in Seq(Helper)
    BY <2>1, Asked
  <2>3. /\ functions' \in Seq(Fn) /\ memo' \in SUBSET Entry /\ pending' \in [Kinds -> Seq(Entry)]
        /\ panicked' \in BOOLEAN /\ Tables'
    BY <2>1, <2>2, LowerKeeps
  <2>4. TypeOK'
    BY <2>1, <2>2, <2>3 DEF TypeOK
  <2>5. Phases'
    BY <2>1 DEF Phases
  <2> QED
    BY <2>3, <2>4, <2>5 DEF IInv
<1>2. CASE EndBodies
  BY <1>2 DEF EndBodies, IInv, TypeOK, Tables, Phases
<1>3. CASE DefineEquality
  <2>1. Pop("eq") /\ phase = "equalities" /\ UNCHANGED <<crate, uses, phase, memo, panicked>>
    BY <1>3 DEF DefineEquality, Pop
  <2>2. /\ functions' \in Seq(Fn) /\ pending' \in [Kinds -> Seq(Entry)]
        /\ current' \in [parts : Seq(Ty), kind : Kinds] /\ current'.kind = "eq" /\ Tables'
    BY <1>k, <2>1, PopKeeps
  <2>3. TypeOK'
    BY <2>1, <2>2 DEF TypeOK
  <2> QED
    BY <2>1, <2>2, <2>3 DEF IInv, Phases
<1>4. CASE DefineClone
  <2>1. Pop("clone") /\ phase = "clones" /\ UNCHANGED <<crate, uses, phase, memo, panicked>>
    BY <1>4 DEF DefineClone, Pop
  <2>2. /\ functions' \in Seq(Fn) /\ pending' \in [Kinds -> Seq(Entry)]
        /\ current' \in [parts : Seq(Ty), kind : Kinds] /\ current'.kind = "clone" /\ Tables'
        /\ pending'["eq"] = pending["eq"]
    BY <1>k, <2>1, PopKeeps
  <2>3. TypeOK'
    BY <2>1, <2>2 DEF TypeOK
  <2> QED
    BY <2>1, <2>2, <2>3 DEF IInv, Phases
<1>5. CASE LowerPart
  <2> DEFINE h == [kind |-> current.kind, ty |-> Head(current.parts)]
  <2>1. /\ current # None /\ current.parts # <<>> /\ Lower(h)
        /\ current' = [current EXCEPT !.parts = Tail(@)]
        /\ UNCHANGED <<crate, uses, phase>>
    BY <1>5 DEF LowerPart
  <2>2. /\ h \in Helper /\ h.kind = current.kind /\ current.kind \in Kinds
        /\ current' = [parts |-> Tail(current.parts), kind |-> current.kind]
        /\ Tail(current.parts) \in Seq(Ty)
    BY <2>1, Asked
  <2>3. current' \in [parts : Seq(Ty), kind : Kinds] /\ current'.kind = current.kind
    BY <2>2
  <2> HIDE DEF h
  <2>4. /\ functions' \in Seq(Fn) /\ memo' \in SUBSET Entry /\ pending' \in [Kinds -> Seq(Entry)]
        /\ panicked' \in BOOLEAN /\ Tables'
        /\ \A k \in Kinds : k # h.kind => pending'[k] = pending[k]
    BY <2>1, <2>2, LowerKeeps
  <2>5. TypeOK'
    BY <2>1, <2>3, <2>4 DEF TypeOK
  <2>6. phase \in {"equalities", "clones"}
    BY <2>1 DEF TypeOK, Phases
  <2>7. Phases'
    <3>1. CASE phase = "equalities"
      BY <1>k, <2>1, <2>3, <3>1 DEF Phases
    <3>2. CASE phase = "clones"
      BY <1>k, <2>1, <2>2, <2>3, <2>4, <3>2 DEF Phases
    <3> QED
      BY <2>6, <3>1, <3>2
  <2> QED
    BY <2>4, <2>5, <2>7 DEF IInv
<1>6. CASE FinishHelper
  BY <1>6 DEF FinishHelper, IInv, TypeOK, Tables, Phases
<1>7. CASE EndEqualities
  BY <1>7 DEF EndEqualities, Emptied, IInv, TypeOK, Tables, Phases
<1>8. CASE EndClones
  BY <1>8 DEF EndClones, Emptied, IInv, TypeOK, Tables, Phases
<1>9. CASE UNCHANGED vars
  BY <1>9 DEF vars, IInv, TypeOK, Tables, Phases
<1> QED
  BY <1>1, <1>2, <1>3, <1>4, <1>5, <1>6, <1>7, <1>8, <1>9 DEF Next

\* The types of the tables and stacks, how they belong together, and that a phase
\* leaves nothing of its kind pending.
THEOREM InductiveInvariant == Spec => []IInv
BY InitInvariant, StepInvariant, PTL DEF Spec

\* Two functions with one name are for types that differ in () and a struct called unit.
THEOREM NamesClashAsSpelled == Spec => []NamesClashOnlyAtUnit
<1>1. IInv => NamesClashOnlyAtUnit
  <2> SUFFICES ASSUME TypeOK, Tables, NEW d \in memo, NEW e \in memo,
                      functions[d.id].name = functions[e.id].name
               PROVE  d = e \/ (d.helper.kind = e.helper.kind /\ SpelledAlike(d.helper.ty, e.helper.ty))
    BY DEF IInv, NamesClashOnlyAtUnit
  <2> DEFINE t == d.helper.ty
             u == e.helper.ty
             Text(ty) == IF ty.leaf \in Struct THEN crate.name[ty.leaf] ELSE ty.leaf
  <2>1. /\ d.helper \in Helper /\ e.helper \in Helper /\ crate \in Crates
        /\ d.helper = e.helper => d = e
        /\ FunctionName(crate, d.helper) = FunctionName(crate, e.helper)
    BY DEF TypeOK, Entry, Tables
  <2>2. /\ t.chain \in Seq(Constructor) /\ t.leaf \in Struct \cup {Scalar, Unit}
        /\ u.chain \in Seq(Constructor) /\ u.leaf \in Struct \cup {Scalar, Unit}
        /\ t = [chain |-> t.chain, leaf |-> t.leaf] /\ u = [chain |-> u.chain, leaf |-> u.leaf]
        /\ d.helper = [kind |-> d.helper.kind, ty |-> t] /\ e.helper = [kind |-> e.helper.kind, ty |-> u]
    BY <2>1, HelperTyped, TyTyped
  <2>3. d.helper.kind = e.helper.kind /\ Append(t.chain, Text(t)) = Append(u.chain, Text(u))
    BY <2>1 DEF FunctionName, MangleTy
  <2>4. t.chain = u.chain /\ Text(t) = Text(u)
    <3> DEFINE p == t.chain
               q == u.chain
               x == Text(t)
               y == Text(u)
               S == Constructor \cup {x, y}
    <3>1. x \in S /\ y \in S /\ Constructor \subseteq S
      OBVIOUS
    <3>2. p \in Seq(Constructor) /\ q \in Seq(Constructor) /\ Append(p, x) = Append(q, y)
      BY <2>2, <2>3
    <3> HIDE DEF S, p, q, x, y
    <3>3. p \in Seq(S) /\ q \in Seq(S)
      BY <3>1, <3>2
    <3>4. p = q /\ x = y
      BY <3>1, <3>2, <3>3, AppendInjective
    <3> QED
      BY <3>4 DEF p, q, x, y
  <2>5. CASE t.leaf = u.leaf
    BY <2>1, <2>2, <2>3, <2>4, <2>5
  <2>6. CASE t.leaf # u.leaf
    <3>1. \A s, r \in Struct : crate.name[s] # Scalar /\ (crate.name[s] = crate.name[r] => s = r)
      BY <2>1, NameAssumption
    <3>2. CASE t.leaf \in Struct
      <4>1. u.leaf = Unit /\ crate.name[t.leaf] = Unit
        BY <2>2, <2>4, <2>6, <3>1, <3>2
      <4> QED
        BY <2>3, <2>4, <3>2, <4>1 DEF SpelledAlike
    <3>3. CASE t.leaf \notin Struct
      <4>1. u.leaf \in Struct /\ t.leaf = Unit /\ crate.name[u.leaf] = Unit
        BY <2>2, <2>4, <2>6, <3>1, <3>3
      <4> QED
        BY <2>3, <2>4, <4>1 DEF SpelledAlike
    <3> QED
      BY <3>2, <3>3
  <2> QED
    BY <2>5, <2>6
<1> QED
  BY InductiveInvariant, <1>1, PTL

\* Every helper of the module that is printed has a body.
THEOREM HelpersAreDefined == Spec => []AllDefined
<1>1. IInv => AllDefined
  <2> SUFFICES ASSUME TypeOK, Tables, Phases, phase = "emitted", NEW i \in DOMAIN functions,
                      ~functions[i].body
               PROVE  FALSE
    BY DEF AllDefined, IInv
  <2>1. PICK k \in Kinds : \E j \in DOMAIN pending[k] : pending[k][j].id = i
    BY DEF Tables
  <2>2. pending[k] = <<>>
    BY DEF Phases, Kinds
  <2> QED
    BY <2>1, <2>2
<1> QED
  BY InductiveInvariant, <1>1, PTL

-----------------------------------------------------------------------------
(* What is asked for.                                                          *)
LEMMA OutstandingTyped ==
  ASSUME TypeOK, NEW h \in Outstanding
  PROVE  h \in Helper
<1>1. CASE \E i \in DOMAIN uses : h = uses[i]
  BY <1>1 DEF TypeOK
<1>2. CASE \E e \in memo : h = e.helper
  BY <1>2 DEF TypeOK, Entry
<1>3. CASE \E i \in DOMAIN current.parts : h = [kind |-> current.kind, ty |-> current.parts[i]]
  <2>1. PICK i \in DOMAIN current.parts : h = [kind |-> current.kind, ty |-> current.parts[i]]
    BY <1>3
  <2>2. current # None
    BY <2>1 DEF None
  <2>3. current \in [parts : Seq(Ty), kind : Kinds]
    BY <2>2 DEF TypeOK
  <2>4. current.parts[i] \in Ty /\ current.kind \in Kinds
    BY <2>1, <2>3
  <2> QED
    BY <2>1, <2>4 DEF Helper
<1> QED
  BY <1>1, <1>2, <1>3 DEF Outstanding

\* A step asks for what was asked for before, for its operand, or for the parts of a
\* declared helper; it panics only at an operand without an arm.
LEMMA NewlyAsked ==
  ASSUME IInv, [Next]_vars
  PROVE  /\ crate' = crate
         /\ \A g \in Outstanding' :
              \/ g \in Outstanding
              \/ \E h \in Outstanding : g = Operand(h) /\ Called(g)
              \/ \E e \in memo : \E i \in DOMAIN Parts(crate, e.helper) :
                   g = [kind |-> e.helper.kind, ty |-> Parts(crate, e.helper)[i]]
         /\ panicked' = panicked \/ \E h \in Outstanding : ~Inline(Operand(h)) /\ ~Called(Operand(h))
<1> DEFINE New(g) == \/ g \in Outstanding
                     \/ \E h \in Outstanding : g = Operand(h) /\ Called(g)
                     \/ \E e \in memo : \E i \in DOMAIN Parts(crate, e.helper) :
                          g = [kind |-> e.helper.kind, ty |-> Parts(crate, e.helper)[i]]
           Ask(h) == panicked' = panicked \/ (~Inline(Operand(h)) /\ ~Called(Operand(h)))
<1>i. TypeOK /\ Tables /\ TypeOK' /\ Tables'
  BY StepInvariant DEF IInv
<1>k. "eq" \in Kinds /\ "clone" \in Kinds /\ None.parts = <<>>
  BY DEF Kinds, None
<1>g. ASSUME NEW g \in Outstanding'
      PROVE  \/ \E i \in DOMAIN uses' : g = uses'[i]
             \/ \E e \in memo' : g = e.helper
             \/ \E i \in DOMAIN current'.parts : g = [kind |-> current'.kind, ty |-> current'.parts[i]]
  BY <1>g DEF Outstanding
<1>o. /\ \A i \in DOMAIN uses : uses[i] \in Outstanding
      /\ \A e \in memo : e.helper \in Outstanding
      /\ \A i \in DOMAIN current.parts : [kind |-> current.kind, ty |-> current.parts[i]] \in Outstanding
  BY DEF Outstanding
<1>m. ASSUME NEW h \in Outstanding, NEW e \in memo', \A d \in memo' : d \in memo \/ d.helper = Operand(h)
      PROVE  New(e.helper)
  <2>1. CASE e \in memo
    BY <1>o, <2>1
  <2>2. CASE e.helper = Operand(h)
    BY <1>i, <2>2 DEF Tables
  <2> QED
    BY <1>m, <2>1, <2>2
<1> SUFFICES crate' = crate /\ (\A g \in Outstanding' : New(g)) /\ (panicked' = panicked \/ \E h \in Outstanding : Ask(h) /\ panicked' # panicked)
  OBVIOUS
<1> HIDE DEF New
<1>n. \A g \in Outstanding : New(g)
  BY DEF New
<1>1. CASE LowerUse
  <2> DEFINE h == Head(uses)
  <2>1. /\ uses # <<>> /\ Lower(h) /\ uses' = Tail(uses) /\ crate' = crate /\ current' = current
    BY <1>1 DEF LowerUse
  <2>2. /\ h \in Helper /\ h \in Outstanding
        /\ \A i \in DOMAIN uses' : i + 1 \in DOMAIN uses /\ uses'[i] = uses[i + 1]
    BY <1>i, <2>1, Asked DEF Outstanding
  <2> HIDE DEF h
  <2>3. (\A d \in memo' : d \in memo \/ d.helper = Operand(h)) /\ Ask(h)
    BY <1>i, <2>1, <2>2, LowerKeeps
  <2> HIDE DEF Ask
  <2>4. ASSUME NEW g \in Outstanding' PROVE New(g)
    <3>1. CASE \E i \in DOMAIN uses' : g = uses'[i]
      BY <1>n, <1>o, <2>2, <3>1
    <3>2. CASE \E e \in memo' : g = e.helper
      BY <1>m, <2>2, <2>3, <3>2
    <3>3. CASE \E i \in DOMAIN current'.parts : g = [kind |-> current'.kind, ty |-> current'.parts[i]]
      BY <1>n, <1>o, <2>1, <3>3
    <3> QED
      BY <1>g, <2>4, <3>1, <3>2, <3>3
  <2> QED
    BY <2>1, <2>2, <2>3, <2>4
<1>2. CASE LowerPart
  <2> DEFINE h == [kind |-> current.kind, ty |-> Head(current.parts)]
  <2>1. /\ current # None /\ current.parts # <<>> /\ Lower(h)
        /\ current' = [current EXCEPT !.parts = Tail(@)]
        /\ crate' = crate /\ uses' = uses
    BY <1>2 DEF LowerPart
  <2>2. /\ h \in Helper /\ 1 \in DOMAIN current.parts /\ Head(current.parts) = current.parts[1]
        /\ current' = [parts |-> Tail(current.parts), kind |-> current.kind]
        /\ \A i \in DOMAIN Tail(current.parts) :
             i + 1 \in DOMAIN current.parts /\ Tail(current.parts)[i] = current.parts[i + 1]
    BY <1>i, <2>1, Asked
  <2>3. h \in Outstanding
    BY <1>o, <2>2
  <2> HIDE DEF h
  <2>4. (\A d \in memo' : d \in memo \/ d.helper = Operand(h)) /\ Ask(h)
    BY <1>i, <2>1, <2>2, LowerKeeps
  <2> HIDE DEF Ask
  <2>5. ASSUME NEW g \in Outstanding' PROVE New(g)
    <3>1. CASE \E i \in DOMAIN uses' : g = uses'[i]
      BY <1>n, <1>o, <2>1, <3>1
    <3>2. CASE \E e \in memo' : g = e.helper
      BY <1>m, <2>3, <2>4, <3>2
    <3>3. CASE \E i \in DOMAIN current'.parts : g = [kind |-> current'.kind, ty |-> current'.parts[i]]
      <4>1. current'.parts = Tail(current.parts) /\ current'.kind = current.kind
        BY <2>2
      <4>2. PICK i \in DOMAIN Tail(current.parts) : g = [kind |-> current.kind, ty |-> Tail(current.parts)[i]]
        BY <3>3, <4>1
      <4> QED
        BY <1>n, <1>o, <2>2, <4>2
    <3> QED
      BY <1>g, <2>5, <3>1, <3>2, <3>3
  <2> QED
    BY <2>1, <2>3, <2>4, <2>5
<1>3. CASE DefineEquality \/ DefineClone
  <2>1. PICK k \in Kinds : Pop(k)
    BY <1>k, <1>3 DEF DefineEquality, DefineClone
  <2>2. crate' = crate /\ uses' = uses /\ memo' = memo /\ panicked' = panicked
    BY <2>1 DEF Pop
  <2>3. PICK e \in memo : e.helper.kind = k /\ current'.parts = Parts(crate, e.helper)
    BY <1>i, <2>1, PopKeeps
  <2>4. current'.kind = k
    BY <1>i, <2>1, PopKeeps
  <2>5. ASSUME NEW g \in Outstanding' PROVE New(g)
    <3>1. CASE \E i \in DOMAIN uses' : g = uses'[i]
      BY <1>n, <1>o, <2>2, <3>1
    <3>2. CASE \E d \in memo' : g = d.helper
      BY <1>n, <1>o, <2>2, <3>2
    <3>3. CASE \E i \in DOMAIN current'.parts : g = [kind |-> current'.kind, ty |-> current'.parts[i]]
      BY <2>3, <2>4, <3>3 DEF New
    <3> QED
      BY <1>g, <2>5, <3>1, <3>2, <3>3
  <2> QED
    BY <2>2, <2>5
<1>4. CASE FinishHelper
  <2>1. /\ crate' = crate /\ uses' = uses /\ memo' = memo /\ panicked' = panicked /\ current' = None
    BY <1>4 DEF FinishHelper
  <2>2. DOMAIN current'.parts = {}
    BY <1>k, <2>1
  <2>3. \A g \in Outstanding' : New(g)
    BY <1>g, <1>n, <1>o, <2>1, <2>2
  <2> QED
    BY <2>1, <2>3
<1>5. CASE EndBodies \/ EndEqualities \/ EndClones \/ UNCHANGED vars
  <2>1. UNCHANGED <<crate, uses, memo, current, panicked>>
    BY <1>5 DEF EndBodies, EndEqualities, EndClones, vars
  <2>2. Outstanding' = Outstanding
    BY <2>1 DEF Outstanding
  <2> QED
    BY <1>n, <2>1, <2>2
<1> QED
  BY <1>1, <1>2, <1>3, <1>4, <1>5 DEF Next

\* What has a trait passes it on to the operand of the match.
LEMMA OperandImplements ==
  ASSUME NEW h \in Helper, Implements(crate, h.ty, h.kind)
  PROVE  Implements(crate, Operand(h).ty, Operand(h).kind)
<1>1. /\ h.kind \in Kinds /\ Operand(h).kind = h.kind /\ Operand(h).ty.leaf = h.ty.leaf
      /\ h.kind = "clone" => Operand(h) = h
  BY HelperTyped, OperandIs
<1>2. CASE h.kind = "clone"
  BY <1>1, <1>2
<1>3. CASE h.kind = "eq"
  <2>1. LeafHas(crate, Operand(h).ty, "eq")
    BY <1>1, <1>3 DEF Implements, LeafHas
  <2> QED
    BY <1>1, <1>3, <2>1 DEF Implements
<1> QED
  BY <1>1, <1>2, <1>3 DEF Kinds

LEMMA JustifiedInvariant == Spec => []Justified
<1>1. Init => Justified
  <2> SUFFICES ASSUME Init PROVE Justified
    OBVIOUS
  <2>1. Derived(crate) /\ memo = {} /\ current.parts = <<>>
    BY DEF Init, None
  <2>2. DOMAIN current.parts = {}
    BY <2>1
  <2>3. \A i \in DOMAIN uses : Implements(crate, uses[i].ty, uses[i].kind)
    BY DEF Init
  <2> QED
    BY <2>1, <2>2, <2>3 DEF Justified, Outstanding
<1>2. IInv /\ Justified /\ [Next]_vars => Justified'
  <2> SUFFICES ASSUME IInv, Justified, [Next]_vars PROVE Justified'
    OBVIOUS
  <2>1. crate' = crate /\ crate \in Crate /\ Derived(crate)' /\ TypeOK /\ Tables
    <3>1. crate' = crate
      BY NewlyAsked
    <3>2. Derived(crate)'
      BY <3>1 DEF Justified, Derived
    <3> QED
      BY <3>1, <3>2, CratesAssumption DEF IInv, TypeOK
  <2>2. ASSUME NEW g \in Outstanding' PROVE Implements(crate, g.ty, g.kind)
    <3>1. CASE g \in Outstanding
      BY <3>1 DEF Justified
    <3>2. CASE \E h \in Outstanding : g = Operand(h)
      BY <2>1, <3>2, OutstandingTyped, OperandImplements DEF Justified
    <3>3. CASE \E e \in memo : \E i \in DOMAIN Parts(crate, e.helper) :
                 g = [kind |-> e.helper.kind, ty |-> Parts(crate, e.helper)[i]]
      <4>e. PICK e \in memo : \E i \in DOMAIN Parts(crate, e.helper) :
                   g = [kind |-> e.helper.kind, ty |-> Parts(crate, e.helper)[i]]
        BY <3>3
      <4>1. PICK i \in DOMAIN Parts(crate, e.helper) :
                   g = [kind |-> e.helper.kind, ty |-> Parts(crate, e.helper)[i]]
        BY <4>e
      <4>2. e.helper \in Helper /\ e.helper \in Outstanding /\ Called(e.helper)
        BY <2>1, <4>1 DEF TypeOK, Entry, Tables, Outstanding
      <4>3. Implements(crate, Parts(crate, e.helper)[i], e.helper.kind)
        BY <2>1, <4>1, <4>2, PartsImplement DEF Justified
      <4> QED
        BY <4>1, <4>3
    <3> QED
      BY <2>2, <3>1, <3>2, <3>3, NewlyAsked
  <2>3. \A g \in Outstanding' : Implements(crate', g.ty, g.kind)
    BY <2>1, <2>2
  <2> QED
    BY <2>1, <2>3 DEF Justified
<1> QED
  BY <1>1, <1>2, InductiveInvariant, PTL DEF Spec

\* A type that has Clone and is not inside a reference is no mutable reference.
LEMMA NotMutable ==
  ASSUME NEW ty \in Ty, Implements(crate, ty, "clone"), ty.chain # <<>>
  PROVE  Head(ty.chain) # "RefMut"
<1> SUFFICES ASSUME Head(ty.chain) = "RefMut" PROVE FALSE
  OBVIOUS
<1>1. 1 \in DOMAIN ty.chain /\ DOMAIN ty.chain = 1..Len(ty.chain) /\ ty.chain[1] = "RefMut"
      /\ Len(ty.chain) \in Nat
  BY TyTyped, ChainIs
<1>2. IsRef(ty, 1)
  BY <1>1 DEF IsRef
<1>3. PICK i \in DOMAIN ty.chain : ty.chain[i] = "Ref" /\ \A j \in 1..(i - 1) : ~IsRef(ty, j)
  BY <1>1, <1>2 DEF Implements
<1>4. i # 1
  BY <1>1, <1>3
<1>5. 1 \in 1..(i - 1)
  BY <1>1, <1>3, <1>4
<1> QED
  BY <1>2, <1>3, <1>5

\* A clone never copies a mutable reference, whatever the derives and the uses.
THEOREM ClonesCopyNoMutable == Spec => []NoMutableCopies
<1>1. IInv /\ Justified => NoMutableCopies
  <2> SUFFICES ASSUME TypeOK, Justified, current.kind = "clone", NEW i \in DOMAIN current.parts,
                      current.parts[i].chain # <<>>
               PROVE  Head(current.parts[i].chain) # "RefMut"
    BY DEF NoMutableCopies, IInv
  <2> DEFINE h == [kind |-> "clone", ty |-> current.parts[i]]
  <2>1. h \in Outstanding
    BY DEF Outstanding
  <2>2. h \in Helper
    BY <2>1, OutstandingTyped
  <2>3. h.ty \in Ty /\ Implements(crate, h.ty, h.kind)
    BY <2>1, <2>2, HelperTyped DEF Justified
  <2> QED
    BY <2>3, NotMutable
<1> QED
  BY InductiveInvariant, JustifiedInvariant, <1>1, PTL

\* The match has an arm for every type that does not lead to a (), and looks no
\* further than there.
LEMMA HasAnArm ==
  ASSUME NEW h \in Helper, ~ArrivesAtUnit(h)
  PROVE  (Inline(Operand(h)) \/ Called(Operand(h))) /\ ~ArrivesAtUnit(Operand(h))
<1> DEFINE op == Operand(h)
<1>1. /\ op \in Helper /\ op.kind = h.kind /\ op.ty.leaf = h.ty.leaf
      /\ h.kind = "clone" => op = h
      /\ h.kind = "eq" /\ op.ty.chain # <<>> => Head(op.ty.chain) \in {"Array", "Vec"}
  BY OperandIs
<1> HIDE DEF op
<1>2. op.kind \in Kinds /\ op.ty.chain \in Seq(Constructor) /\ op.ty.leaf \in Struct \cup {Scalar, Unit}
  BY <1>1, HelperTyped, TyTyped
<1>3. ~ArrivesAtUnit(op)
  BY <1>1, <1>2 DEF ArrivesAtUnit, Kinds
<1>4. CASE op.ty.chain = <<>>
  <2>1. op.ty.leaf # Unit
    BY <1>3, <1>4 DEF ArrivesAtUnit
  <2> QED
    BY <1>2, <1>3, <1>4, <2>1 DEF Inline, Called, op
<1>5. CASE op.ty.chain # <<>> /\ op.kind = "eq"
  BY <1>1, <1>3, <1>5 DEF Called, op
<1>6. CASE op.ty.chain # <<>> /\ op.kind = "clone"
  <2>1. Head(op.ty.chain) \in Constructor
    <3>1. /\ Len(op.ty.chain) \in Nat /\ Len(op.ty.chain) # 0 /\ Head(op.ty.chain) = op.ty.chain[1]
          /\ \A i \in 1..Len(op.ty.chain) : op.ty.chain[i] \in Constructor
      BY <1>2, <1>6, ChainIs
    <3> QED
      BY <3>1
  <2> QED
    BY <1>3, <1>6, <2>1 DEF Inline, Called, Constructor, Derefs, op
<1> QED
  BY <1>2, <1>4, <1>5, <1>6 DEF Kinds

\* Only () has no arm: a crate in which no use and no derive arrives at one is lowered
\* without a panic.
THEOREM TraitsAreSupported == Spec => SupportsWhatHasTheTrait
<1>1. Init /\ ~HasUnitOperand => UnitFree
  <2> SUFFICES ASSUME Init, ~HasUnitOperand PROVE UnitFree
    OBVIOUS
  <2>1. memo = {} /\ current.parts = <<>> /\ panicked = FALSE
    BY DEF Init, None
  <2>2. DOMAIN current.parts = {}
    BY <2>1
  <2> QED
    BY <2>1, <2>2 DEF HasUnitOperand, UnitFree, Outstanding
<1>2. IInv /\ Justified /\ UnitFree /\ [Next]_vars => UnitFree'
  <2> SUFFICES ASSUME IInv, Justified, UnitFree, [Next]_vars PROVE UnitFree'
    OBVIOUS
  <2>1. crate' = crate /\ TypeOK /\ Tables
    BY NewlyAsked DEF IInv
  <2>2. ASSUME NEW g \in Outstanding' PROVE ~ArrivesAtUnit(g)
    <3>1. CASE g \in Outstanding
      BY <3>1 DEF UnitFree
    <3>2. CASE \E h \in Outstanding : g = Operand(h)
      BY <2>1, <3>2, OutstandingTyped, HasAnArm DEF UnitFree
    <3>3. CASE \E e \in memo : \E i \in DOMAIN Parts(crate, e.helper) :
                 g = [kind |-> e.helper.kind, ty |-> Parts(crate, e.helper)[i]]
      <4>e. PICK e \in memo : \E i \in DOMAIN Parts(crate, e.helper) :
                   g = [kind |-> e.helper.kind, ty |-> Parts(crate, e.helper)[i]]
        BY <3>3
      <4>1. PICK i \in DOMAIN Parts(crate, e.helper) :
                   g = [kind |-> e.helper.kind, ty |-> Parts(crate, e.helper)[i]]
        BY <4>e
      <4>2. e.helper \in Helper /\ e.helper \in Outstanding /\ Called(e.helper)
        BY <2>1, <4>1 DEF TypeOK, Entry, Tables, Outstanding
      <4>3. Implements(crate, e.helper.ty, e.helper.kind) /\ ~ArrivesAtUnit(e.helper)
        BY <4>2 DEF Justified, UnitFree
      <4> QED
        BY <4>1, <4>2, <4>3, PartsUnitFree
    <3> QED
      BY <2>2, <3>1, <3>2, <3>3, NewlyAsked
  <2>3. ~panicked'
    <3>1. \A h \in Outstanding : Inline(Operand(h)) \/ Called(Operand(h))
      BY <2>1, OutstandingTyped, HasAnArm DEF UnitFree
    <3> QED
      BY <3>1, NewlyAsked DEF UnitFree
  <2>4. (\A s \in Struct, k \in Kinds :
           <<s, k>> \in crate.traits =>
             \A i \in DOMAIN crate.fields[s] : ~ArrivesAtUnit([kind |-> k, ty |-> crate.fields[s][i]]))'
    BY <2>1 DEF UnitFree
  <2> QED
    BY <2>2, <2>3, <2>4 DEF UnitFree
<1>3. UnitFree => ~panicked
  BY DEF UnitFree
<1> QED
  BY <1>1, <1>2, <1>3, InductiveInvariant, JustifiedInvariant, PTL DEF Spec, SupportsWhatHasTheTrait

-----------------------------------------------------------------------------
(***************************************************************************)
(* RuntimeVec.  For every set of variables, element size and heap: the     *)
(* vectors stay inside their buffers, share none, and do what VecSpec says.*)
(***************************************************************************)
Cell == Elem \cup {Junk}

\* The header of a living vector tells the truth about its buffer, and the bytes
\* of the buffer are among those malloc has handed out.
Sound(h) ==
  /\ h.len <= h.capacity
  /\ h.capacity * ElementSize <= used
  /\ h.capacity = 0 => h.data = Null
  /\ h.capacity # 0 => h.data \in 1..Len(heap) /\ Len(heap[h.data]) = h.capacity

Typed ==
  /\ heap \in Seq(Seq(Cell))
  /\ used \in Nat /\ used <= HeapLimit
  /\ vec \in [Var -> Header]
  /\ owned \subseteq Var

VecInv == /\ Typed
          /\ \A v \in owned : Sound(vec[v])
          /\ BuffersApart
          /\ NoStrayAccess

(******************************** arithmetic *********************************)
LEMMA Times ==
  ASSUME NEW c \in Nat, NEW e \in Nat \ {0}
  PROVE  c * e \in Nat /\ c <= c * e /\ (c # 0 => e <= c * e)
OBVIOUS

LEMMA Division ==
  ASSUME NEW c \in Nat, NEW e \in Nat \ {0}
  PROVE  (c * e) \div e = c
OBVIOUS

LEMMA NoWrap ==
  ASSUME NEW n \in Nat, n < WordSize
  PROVE  Word(n) = n
BY HeapAssumption DEF Word

\* As many elements as the heap could hold twice have a byte count below 2^32.
LEMMA Room ==
  ASSUME NEW c \in Nat, c * ElementSize < WordSize
  PROVE  /\ Word(c * ElementSize) = c * ElementSize
         /\ Cells(c * ElementSize) = c
         /\ Word(c) = c
<1>1. c * ElementSize \in Nat /\ c <= c * ElementSize
  BY Times, ElementAssumption
<1>2. c < WordSize
  BY <1>1, HeapAssumption
<1> QED
  BY <1>1, <1>2, NoWrap, Division, ElementAssumption DEF Cells

\* The buffer that replaces a full one has room and its size does not wrap.
LEMMA Doubling ==
  ASSUME VecInv, NEW v \in owned, IsFull(vec[v])
  PROVE  /\ Capacity(vec[v]) \in Nat /\ vec[v].len < Capacity(vec[v])
         /\ Word(Capacity(vec[v]) * ElementSize) = Capacity(vec[v]) * ElementSize
         /\ Cells(Capacity(vec[v]) * ElementSize) = Capacity(vec[v])
         /\ Word(vec[v].len + 1) = vec[v].len + 1
<1> DEFINE k == vec[v].capacity
           c == Capacity(vec[v])
<1>1. /\ k \in Nat /\ vec[v].len = k /\ k * ElementSize <= used
      /\ used \in Nat /\ used <= HeapLimit /\ k * ElementSize \in Nat /\ k <= k * ElementSize
  BY Times, ElementAssumption DEF VecInv, Typed, Sound, IsFull, Header
<1>2. CASE k = 0
  <2>1. c = 4 /\ 4 * ElementSize < WordSize
    BY <1>2, ElementAssumption DEF Capacity
  <2>2. 1 <= 4 * ElementSize
    BY ElementAssumption
  <2> HIDE DEF c, k
  <2>3. 1 < WordSize
    BY <2>1, <2>2, ElementAssumption, HeapAssumption
  <2>4. c \in Nat /\ k < c /\ Word(k + 1) = k + 1
    BY <1>2, <2>1, <2>3, NoWrap
  <2>5. Word(c * ElementSize) = c * ElementSize /\ Cells(c * ElementSize) = c
    BY <2>1, <2>4, Room
  <2> QED
    BY <1>1, <2>4, <2>5 DEF c, k
<1>3. CASE k # 0
  <2>1. (k * 2) * ElementSize = 2 * (k * ElementSize)
    BY <1>1, ElementAssumption
  <2>2. (k * 2) * ElementSize < WordSize /\ k * 2 < WordSize /\ k + 1 < WordSize
    BY <1>1, <1>3, <2>1, HeapAssumption
  <2>3. c = k * 2
    BY <1>1, <1>3, <2>2, NoWrap DEF Capacity
  <2> HIDE DEF c, k
  <2>4. c \in Nat /\ k < c /\ Word(k + 1) = k + 1
    BY <1>1, <1>3, <2>2, <2>3, NoWrap
  <2>5. Word(c * ElementSize) = c * ElementSize /\ Cells(c * ElementSize) = c
    BY <2>2, <2>3, <2>4, Room
  <2> QED
    BY <1>1, <2>4, <2>5 DEF c, k
<1> QED
  BY <1>2, <1>3

(******************************** the heap ***********************************)
LEMMA Owned ==
  ASSUME VecInv, NEW v \in owned
  PROVE  /\ v \in Var /\ vec[v] \in Header /\ Sound(vec[v])
         /\ vec[v].len \in Nat /\ vec[v].capacity \in Nat /\ vec[v].data \in Nat
         /\ Len(heap) \in Nat
         /\ vec[v].capacity # 0 =>
              /\ vec[v].data \in 1..Len(heap) /\ vec[v].data # Null
              /\ heap[vec[v].data] \in Seq(Cell)
              /\ Len(heap[vec[v].data]) = vec[v].capacity
         /\ vec[v].len # 0 => vec[v].capacity # 0
<1>1. v \in Var /\ vec[v] \in Header /\ Sound(vec[v])
  BY DEF VecInv, Typed
<1>2. vec[v].len \in Nat /\ vec[v].capacity \in Nat /\ vec[v].data \in Nat
  BY <1>1 DEF Header
<1>3. Len(heap) \in Nat /\ \A d \in 1..Len(heap) : heap[d] \in Seq(Cell)
  BY DEF VecInv, Typed
<1> QED
  BY <1>1, <1>2, <1>3 DEF Sound, Null

\* A store, a removal or a push into the buffer: one block and one length change,
\* and only one vector notices.
LEMMA InPlace ==
  ASSUME VecInv, NEW v \in owned, vec[v].capacity # 0,
         NEW block \in Seq(Cell), Len(block) = vec[v].capacity,
         NEW n \in 0..vec[v].capacity,
         heap' = [heap EXCEPT ![vec[v].data] = block],
         vec' = [vec EXCEPT ![v].len = n],
         used' = used, owned' = owned, ~stray'
  PROVE  /\ VecInv'
         /\ Contents(v)' = [i \in 1..n |-> block[i]]
         /\ \A u \in Var : u # v => Contents(u)' = Contents(u)
<1> DEFINE d == vec[v].data
<1>1. /\ d \in 1..Len(heap) /\ v \in Var /\ vec[v] \in Header
      /\ Len(heap[d]) = vec[v].capacity /\ Sound(vec[v]) /\ d # Null
  BY Owned
<1>2. /\ heap \in Seq(Seq(Cell)) /\ vec \in [Var -> Header] /\ owned \subseteq Var
      /\ Len(heap) \in Nat
  BY DEF VecInv, Typed
<1>3. /\ heap' \in Seq(Seq(Cell)) /\ Len(heap') = Len(heap) /\ heap'[d] = block
      /\ \A e \in 1..Len(heap) : e # d => heap'[e] = heap[e]
  <2> DEFINE B == Seq(Cell)
  <2> HIDE DEF d, B
  <2> QED
    BY <1>1, <1>2, ExceptSeq DEF d, B
<1>4. /\ vec' \in [Var -> Header]
      /\ vec'[v] = [data |-> d, len |-> n, capacity |-> vec[v].capacity]
      /\ \A u \in Var : u # v => vec'[u] = vec[u]
  <2>1. [vec[v] EXCEPT !.len = n] = [data |-> d, len |-> n, capacity |-> vec[v].capacity]
    BY <1>1 DEF Header
  <2>2. [data |-> d, len |-> n, capacity |-> vec[v].capacity] \in Header
    BY <1>1 DEF Header
  <2>3. vec' = [vec EXCEPT ![v] = [vec[v] EXCEPT !.len = n]]
    OBVIOUS
  <2> QED
    BY <1>1, <1>2, <2>1, <2>2, <2>3
<1>5. \A u \in owned : u # v /\ vec[u].capacity # 0 =>
        vec[u].data # d /\ heap'[vec[u].data] = heap[vec[u].data]
  BY <1>1, <1>3, Owned DEF VecInv, BuffersApart
<1>6. ASSUME NEW u \in owned PROVE Sound(vec[u])'
  <2>1. CASE u = v
    BY <1>1, <1>3, <1>4, <2>1 DEF Sound, Header
  <2>2. CASE u # v
    BY <1>2, <1>3, <1>4, <1>5, <2>2, Owned DEF Sound
  <2> QED
    BY <2>1, <2>2
<1>7. \A u \in Var : vec'[u].data = vec[u].data
  BY <1>4, ZenonT(60)
<1>8. BuffersApart'
  BY <1>2, <1>7 DEF VecInv, BuffersApart
<1>9. VecInv'
  BY <1>2, <1>3, <1>4, <1>6, <1>8 DEF VecInv, Typed, NoStrayAccess
<1>10. Contents(v)' = [i \in 1..n |-> block[i]]
  BY <1>3, <1>4 DEF Contents
<1>11. ASSUME NEW u \in Var, u # v PROVE Contents(u)' = Contents(u)
  <2>1. CASE u \notin owned
    BY <2>1 DEF Contents
  <2>2. CASE u \in owned /\ vec[u].capacity # 0
    BY <1>4, <1>5, <1>11, <2>2 DEF Contents
  <2>3. CASE u \in owned /\ vec[u].capacity = 0
    <3>1. vec[u].len = 0
      BY <2>3, Owned
    <3> QED
      BY <1>4, <1>11, <2>3, <3>1 DEF Contents
  <2> QED
    BY <2>1, <2>2, <2>3
<1> QED
  BY <1>9, <1>10, <1>11

\* A growing push or a clone: a new block, which only the variable w knows.
LEMMA Fresh ==
  ASSUME VecInv, NEW w \in Var, NEW block \in Seq(Cell), Len(block) # 0,
         NEW n \in 0..Len(block),
         heap' = Append(heap, block),
         vec' = [vec EXCEPT ![w] = [data |-> Len(heap) + 1, len |-> n, capacity |-> Len(block)]],
         used' = used + Len(block) * ElementSize, used' <= HeapLimit,
         owned' = owned \cup {w}, ~stray'
  PROVE  /\ VecInv'
         /\ Contents(w)' = [i \in 1..n |-> block[i]]
         /\ \A u \in Var : u # w => Contents(u)' = Contents(u)
<1>1. /\ heap \in Seq(Seq(Cell)) /\ vec \in [Var -> Header] /\ owned \subseteq Var
      /\ Len(heap) \in Nat /\ Len(block) \in Nat /\ used \in Nat
  BY DEF VecInv, Typed
<1>2. /\ heap' \in Seq(Seq(Cell)) /\ Len(heap') = Len(heap) + 1 /\ heap'[Len(heap) + 1] = block
      /\ \A e \in 1..Len(heap) : heap'[e] = heap[e]
  <2> DEFINE B == Seq(Cell)
  <2> HIDE DEF B
  <2> QED
    BY <1>1 DEF B
<1>3. /\ vec' \in [Var -> Header]
      /\ vec'[w] = [data |-> Len(heap) + 1, len |-> n, capacity |-> Len(block)]
      /\ \A u \in Var : u # w => vec'[u] = vec[u]
  BY <1>1 DEF Header
<1>4. used' \in Nat /\ used <= used' /\ Len(block) * ElementSize <= used'
  <2>1. Len(block) * ElementSize \in Nat
    BY <1>1, Times, ElementAssumption
  <2> QED
    BY <1>1, <2>1
<1>5. ASSUME NEW u \in owned' PROVE Sound(vec[u])'
  <2>1. CASE u = w
    BY <1>1, <1>2, <1>3, <1>4, <2>1 DEF Sound
  <2>2. CASE u # w
    <3>1. u \in owned /\ vec'[u] = vec[u] /\ vec[u] \in Header
      BY <1>1, <1>3, <2>2
    <3>2. vec[u].capacity * ElementSize <= used'
      <4>1. vec[u].capacity * ElementSize <= used /\ vec[u].capacity * ElementSize \in Nat
        BY <3>1, Owned, Times, ElementAssumption DEF Sound
      <4> QED
        BY <1>1, <1>4, <4>1
    <3> QED
      BY <1>1, <1>2, <3>1, <3>2, Owned DEF Sound
  <2> QED
    BY <2>1, <2>2
<1>6. \A u \in owned : vec[u].data # Len(heap) + 1
  <2> SUFFICES ASSUME NEW u \in owned PROVE vec[u].data # Len(heap) + 1
    OBVIOUS
  <2>1. CASE vec[u].capacity = 0
    BY <1>1, <2>1, Owned DEF Sound, Null
  <2>2. CASE vec[u].capacity # 0
    BY <1>1, <2>2, Owned
  <2> QED
    BY <2>1, <2>2
<1>7. BuffersApart'
  BY <1>1, <1>3, <1>6 DEF VecInv, BuffersApart
<1>8. VecInv'
  BY <1>1, <1>2, <1>3, <1>4, <1>5, <1>7 DEF VecInv, Typed, NoStrayAccess
<1>9. Contents(w)' = [i \in 1..n |-> block[i]]
  BY <1>2, <1>3 DEF Contents
<1>10. ASSUME NEW u \in Var, u # w PROVE Contents(u)' = Contents(u)
  <2>1. CASE u \notin owned
    BY <1>10, <2>1 DEF Contents
  <2>2. CASE u \in owned /\ vec[u].capacity # 0
    <3>1. heap'[vec[u].data] = heap[vec[u].data]
      BY <1>2, <2>2, Owned
    <3> QED
      BY <1>3, <1>10, <2>2, <3>1 DEF Contents
  <2>3. CASE u \in owned /\ vec[u].capacity = 0
    <3>1. vec[u].len = 0
      BY <2>3, Owned
    <3> QED
      BY <1>3, <1>10, <2>3, <3>1 DEF Contents
  <2> QED
    BY <2>1, <2>2, <2>3
<1> QED
  BY <1>8, <1>9, <1>10

\* A new vector, or the clone of an empty one, has no buffer.
LEMMA Bufferless ==
  ASSUME VecInv, NEW w \in Var, heap' = heap, used' = used,
         vec' = [vec EXCEPT ![w] = NewVec], owned' = owned \cup {w}, ~stray'
  PROVE  /\ VecInv'
         /\ Contents(w)' = <<>>
         /\ \A u \in Var : u # w => Contents(u)' = Contents(u)
<1>1. /\ vec \in [Var -> Header] /\ owned \subseteq Var
      /\ vec'[w] = [data |-> Null, len |-> 0, capacity |-> 0]
      /\ \A u \in Var : u # w => vec'[u] = vec[u]
  BY DEF VecInv, Typed, NewVec
<1>2. vec' \in [Var -> Header]
  BY <1>1 DEF Header, Null, NewVec
<1>3. ASSUME NEW u \in owned' PROVE Sound(vec[u])'
  <2>1. CASE u = w
    <3>1. 0 * ElementSize = 0 /\ used \in Nat
      BY ElementAssumption DEF VecInv, Typed
    <3> QED
      BY <1>1, <2>1, <3>1 DEF Sound
  <2>2. CASE u # w
    BY <1>1, <2>2 DEF VecInv, Sound
  <2> QED
    BY <2>1, <2>2
<1>4. BuffersApart'
  BY <1>1 DEF VecInv, BuffersApart
<1>5. VecInv'
  BY <1>1, <1>2, <1>3, <1>4 DEF VecInv, Typed, NoStrayAccess
<1>6. Contents(w)' = <<>>
  <2>1. Contents(w)' = [i \in 1..0 |-> heap'[vec'[w].data][i]]
    BY <1>1 DEF Contents
  <2> QED
    BY <2>1
<1>7. \A u \in Var : u # w => Contents(u)' = Contents(u)
  BY <1>1 DEF Contents
<1> QED
  BY <1>5, <1>6, <1>7

\* A vector changes its variable.
LEMMA Moved ==
  ASSUME VecInv, NEW v \in Var, NEW w \in Var, Move(v, w)
  PROVE  /\ VecInv'
         /\ Contents(w)' = Contents(v) /\ Contents(v)' = <<>>
         /\ \A u \in Var : u # v /\ u # w => Contents(u)' = Contents(u)
<1>1. /\ vec \in [Var -> Header] /\ owned \subseteq Var /\ v \in owned /\ v # w
      /\ vec' = [vec EXCEPT ![w] = vec[v]]
      /\ owned' = (owned \ {v}) \cup {w} /\ heap' = heap /\ used' = used /\ stray' = stray
  BY DEF VecInv, Typed, Move
<1>2. vec'[w] = vec[v] /\ (\A u \in Var : u # w => vec'[u] = vec[u]) /\ vec' \in [Var -> Header]
  BY <1>1
<1>3. ASSUME NEW u \in owned' PROVE Sound(vec[u])'
  BY <1>1, <1>2 DEF VecInv, Sound
<1>4. BuffersApart'
  BY <1>1, <1>2 DEF VecInv, BuffersApart
<1>5. VecInv'
  BY <1>1, <1>2, <1>3, <1>4 DEF VecInv, Typed, NoStrayAccess
<1> QED
  BY <1>1, <1>2, <1>5 DEF Contents

(******************************* operations **********************************)
LEMMA PrefixIsSeq ==
  ASSUME NEW block \in Seq(Cell), NEW n \in 0..Len(block)
  PROVE  /\ [i \in 1..n |-> block[i]] \in Seq(Cell)
         /\ Len([i \in 1..n |-> block[i]]) = n
<1> DEFINE B == Cell
<1>1. block \in Seq(B) /\ n \in Nat
  OBVIOUS
<1> HIDE DEF B
<1> QED
  BY <1>1 DEF B

LEMMA ContentsTyped ==
  ASSUME VecInv, NEW v \in owned
  PROVE  /\ Contents(v) \in Seq(Cell) /\ Len(Contents(v)) = vec[v].len
         /\ \A i \in 1..vec[v].len : Contents(v)[i] = heap[vec[v].data][i]
<1>1. Contents(v) = [i \in 1..vec[v].len |-> heap[vec[v].data][i]]
  BY DEF Contents
<1>2. CASE vec[v].capacity = 0
  <2>1. vec[v].len = 0
    BY <1>2, Owned
  <2>2. Contents(v) = <<>>
    BY <1>1, <2>1
  <2> QED
    BY <2>1, <2>2
<1>3. CASE vec[v].capacity # 0
  <2> DEFINE block == heap[vec[v].data]
  <2>1. block \in Seq(Cell) /\ vec[v].len \in 0..Len(block)
    BY <1>3, Owned DEF Sound
  <2> QED
    BY <1>1, <2>1, PrefixIsSeq
<1> QED
  BY <1>2, <1>3

LEMMA Becomes ==
  ASSUME NEW w \in Var, NEW s, Contents(w)' = s,
         \A u \in Var : u # w => Contents(u)' = Contents(u),
         owned' = owned \cup {w}, trapped' = trapped
  PROVE  Abstract!Become(w, s)
<1>1. [u \in Var |-> Contents(u)]' = [[u \in Var |-> Contents(u)] EXCEPT ![w] = s]
  OBVIOUS
<1> QED
  BY <1>1 DEF Abstract!Become

LEMMA PushExtends ==
  ASSUME NEW block \in Seq(Cell), NEW n \in Nat, n + 1 <= Len(block),
         NEW s \in Seq(Cell), Len(s) = n, \A i \in 1..n : s[i] = block[i]
  PROVE  [i \in 1..(n + 1) |-> block[i]] = Append(s, block[n + 1])
<1> DEFINE t == [i \in 1..(n + 1) |-> block[i]]
           r == Append(s, block[n + 1])
<1>1. block[n + 1] \in Cell
  BY ElementOfSeq
<1>2. t \in Seq(Cell) /\ Len(t) = n + 1
  <2>1. n + 1 \in 0 .. Len(block)
    OBVIOUS
  <2> HIDE DEF r
  <2> QED
    BY <2>1, PrefixIsSeq, SMTT(60)
<1> DEFINE B == Cell
<1>3. block[n + 1] \in B /\ s \in Seq(B)
  BY <1>1
<1> HIDE DEF B
<1>4. r \in Seq(B) /\ Len(r) = n + 1 /\ r[n + 1] = block[n + 1] /\ \A i \in 1..n : r[i] = s[i]
  BY <1>3
<1>5. \A i \in 1..(n + 1) : i \in 1..n \/ i = n + 1
  OBVIOUS
<1>6. \A i \in 1..(n + 1) : t[i] = r[i]
  BY <1>4, <1>5
<1> HIDE DEF t, r
<1>7. t = r
  BY <1>2, <1>4, <1>6, SeqEqual DEF B
<1> QED
  BY <1>7 DEF t, r

LEMMA PushInPlacePushes ==
  ASSUME VecInv, NEW v \in Var, NEW x \in Elem, PushInPlace(v, x)
  PROVE  VecInv' /\ Abstract!Push(v, x)
<1> DEFINE n == vec[v].len
           d == vec[v].data
           block == [heap[d] EXCEPT ![n + 1] = x]
<1>1. /\ v \in owned /\ n # vec[v].capacity
      /\ stray' = ~(d # Null /\ n + 1 <= Len(heap[d]))
      /\ heap' = IF stray' THEN heap ELSE [heap EXCEPT ![d][n + 1] = x]
      /\ vec' = [vec EXCEPT ![v].len = Word(n + 1)]
      /\ UNCHANGED <<used, owned, answer, trapped>>
  BY DEF PushInPlace, IsFull, Inside
<1>2. /\ n \in Nat /\ n + 1 <= vec[v].capacity /\ vec[v].capacity # 0 /\ vec[v].capacity \in Nat
      /\ d # Null /\ heap[d] \in Seq(Cell) /\ Len(heap[d]) = vec[v].capacity
      /\ vec[v].capacity * ElementSize <= used
  BY <1>1, Owned DEF Sound
<1>3. Word(n + 1) = n + 1
  <2>1. vec[v].capacity * ElementSize \in Nat /\ vec[v].capacity <= vec[v].capacity * ElementSize
    BY <1>2, Times, ElementAssumption
  <2>2. used \in Nat /\ used <= HeapLimit
    BY DEF VecInv, Typed
  <2>3. n + 1 < WordSize
    BY <1>2, <2>1, <2>2, HeapAssumption, SMTT(60)
  <2> QED
    BY <1>2, <2>3, NoWrap
<1>4. ~stray' /\ heap' = [heap EXCEPT ![d] = block]
  <2>1. ~stray'
    BY <1>1, <1>2
  <2> QED
    BY <1>1, <2>1
<1>5. /\ block \in Seq(Cell) /\ Len(block) = vec[v].capacity /\ block[n + 1] = x
      /\ \A i \in 1..n : block[i] = heap[d][i]
  <2>1. x \in Cell
    BY DEF Cell
  <2> QED
    BY <1>2, <2>1, ExceptSeq
<1>6. /\ n + 1 \in 0..vec[v].capacity
      /\ vec' = [vec EXCEPT ![v].len = n + 1]
  <2>1. n + 1 \in 0..vec[v].capacity
    BY <1>2
  <2>2. vec' = [vec EXCEPT ![v].len = n + 1]
    BY <1>1, <1>3
  <2> QED
    BY <2>1, <2>2
<1>7. /\ VecInv' /\ Contents(v)' = [i \in 1..(n + 1) |-> block[i]]
      /\ \A u \in Var : u # v => Contents(u)' = Contents(u)
  <2> DEFINE m == n + 1
  <2>1. /\ v \in owned /\ vec[v].capacity # 0 /\ block \in Seq(Cell)
        /\ Len(block) = vec[v].capacity /\ m \in 0..vec[v].capacity
        /\ heap' = [heap EXCEPT ![vec[v].data] = block]
        /\ used' = used /\ owned' = owned /\ ~stray'
    BY <1>1, <1>2, <1>4, <1>5, <1>6
  <2>2. vec' = [vec EXCEPT ![v].len = m]
    BY <1>6
  <2> HIDE DEF m, block
  <2>3. /\ VecInv' /\ Contents(v)' = [i \in 1..m |-> block[i]]
        /\ \A u \in Var : u # v => Contents(u)' = Contents(u)
    BY <2>1, <2>2, InPlace, ZenonT(60)
  <2> QED
    BY <2>3 DEF m
<1> HIDE DEF block
<1>8. Contents(v)' = Append(Contents(v), x)
  <2> DEFINE s == Contents(v)
  <2>1. /\ s \in Seq(Cell) /\ Len(s) = n /\ n \in Nat /\ n + 1 <= Len(block)
        /\ \A i \in 1..n : s[i] = block[i]
    BY <1>1, <1>2, <1>5, ContentsTyped
  <2> HIDE DEF s
  <2>2. [i \in 1..(n + 1) |-> block[i]] = Append(s, block[n + 1])
    BY <1>5, <2>1, PushExtends
  <2> QED
    BY <1>5, <1>7, <2>2 DEF s
<1>9. Abstract!Become(v, Append(Contents(v), x))
  <2>1. owned' = owned \cup {v}
    BY <1>1
  <2> QED
    BY <1>1, <1>7, <1>8, <2>1, Becomes
<1> QED
  BY <1>1, <1>7, <1>9 DEF Abstract!Push

\* What malloc returned, with the elements moved into it.
LEMMA FilledIs ==
  ASSUME VecInv, NEW v \in owned, NEW c \in Nat, vec[v].len <= c
  PROVE  /\ Filled(c * ElementSize, vec[v].data, vec[v].len) \in Seq(Cell)
         /\ Len(Filled(c * ElementSize, vec[v].data, vec[v].len)) = c
         /\ \A i \in 1..vec[v].len : Filled(c * ElementSize, vec[v].data, vec[v].len)[i]
                                      = heap[vec[v].data][i]
<1> DEFINE n == vec[v].len
           d == vec[v].data
           e(k) == IF k <= n THEN heap[d][k] ELSE Junk
           block == [k \in 1..c |-> e(k)]
<1>1. n \in Nat /\ Cells(c * ElementSize) = c
  BY Owned, Division, ElementAssumption DEF Cells
<1>2. Filled(c * ElementSize, d, n) = block
  BY <1>1 DEF Filled, Min2
<1>3. \A k \in 1..n : heap[d][k] \in Cell
  <2>1. CASE n = 0
    BY <2>1
  <2>2. CASE n # 0
    <3>1. heap[d] \in Seq(Cell) /\ n <= Len(heap[d])
      BY <2>2, Owned DEF Sound
    <3>2. \A k \in 1..n : k \in 1..Len(heap[d])
      BY <1>1, <3>1
    <3> QED
      BY <3>1, <3>2, ElementOfSeq
  <2> QED
    BY <2>1, <2>2
<1>4. \A k \in 1..c : e(k) \in Cell
  BY <1>1, <1>3 DEF Cell
<1>5. block \in Seq(Cell) /\ Len(block) = c /\ \A i \in 1..n : block[i] = heap[d][i]
  <2> DEFINE B == Cell
  <2>1. \A k \in 1..c : e(k) \in B
    BY <1>4
  <2>2. \A k \in 1..n : e(k) = heap[d][k] /\ k \in 1..c
    BY <1>1
  <2> HIDE DEF B, e
  <2>3. block \in Seq(B) /\ Len(block) = c
    BY <2>1
  <2> QED
    BY <2>2, <2>3 DEF B
<1> QED
  BY <1>2, <1>5

LEMMA OutOfMemoryStops ==
  ASSUME VecInv, OutOfMemory
  PROVE  VecInv' /\ Abstract!Stop
BY DEF OutOfMemory, VecInv, Typed, Sound, BuffersApart, NoStrayAccess, Abstract!Stop, Contents

LEMMA PushGrowingPushes ==
  ASSUME VecInv, NEW v \in Var, NEW x \in Elem, PushGrowing(v, x)
  PROVE  VecInv' /\ (Abstract!Push(v, x) \/ Abstract!Stop)
<1> DEFINE n == vec[v].len
           c == Capacity(vec[v])
           bytes == c * ElementSize
           grown == Filled(bytes, vec[v].data, n)
           block == [grown EXCEPT ![n + 1] = x]
           m == n + 1
<1>1. /\ v \in owned /\ IsFull(vec[v])
      /\ \/ OutOfMemory
         \/ /\ Fits(Word(bytes)) /\ used' = used + Word(bytes)
            /\ stray' = (n + 1 > Cells(Word(bytes)))
            /\ heap' = Append(heap, IF stray' THEN Grown(vec[v], Word(bytes))
                                    ELSE [Grown(vec[v], Word(bytes)) EXCEPT ![n + 1] = x])
            /\ vec' = [vec EXCEPT ![v] = [data |-> Len(heap) + 1, len |-> Word(n + 1), capacity |-> c]]
            /\ UNCHANGED <<owned, answer, trapped>>
  BY DEF PushGrowing
<1>2. CASE OutOfMemory
  BY <1>2, OutOfMemoryStops
<1>3. CASE ~OutOfMemory
  <2>1. /\ c \in Nat /\ n < c /\ Word(bytes) = bytes /\ Cells(bytes) = c /\ Word(n + 1) = n + 1
        /\ n \in Nat
    BY <1>1, Doubling, Owned
  <2>2. /\ grown \in Seq(Cell) /\ Len(grown) = c
        /\ \A i \in 1..n : grown[i] = heap[vec[v].data][i]
    <3> HIDE DEF c
    <3> QED
      BY <1>1, <2>1, FilledIs
  <2> HIDE DEF c
  <2>3. ~stray' /\ used' = used + bytes /\ used' <= HeapLimit
    <3> HIDE DEF bytes
    <3>1. stray' = (n + 1 > c)
      BY <1>1, <1>3, <2>1
    <3>2. used' = used + bytes /\ used + bytes <= HeapLimit
      BY <1>1, <1>3, <2>1 DEF Fits
    <3>3. ~(n + 1 > c)
      BY <2>1
    <3> QED
      BY <3>1, <3>2, <3>3
  <2>4. heap' = Append(heap, block)
    BY <1>1, <1>3, <2>1, <2>3 DEF Grown
  <2>5. /\ block \in Seq(Cell) /\ Len(block) = c /\ block[n + 1] = x
        /\ \A i \in 1..n : block[i] = heap[vec[v].data][i]
    <3>1. x \in Cell /\ n + 1 \in 1..Len(grown)
      BY <2>1, <2>2 DEF Cell
    <3> HIDE DEF grown
    <3> QED
      BY <2>1, <2>2, <3>1, ExceptSeq
  <2>6. vec' = [vec EXCEPT ![v] = [data |-> Len(heap) + 1, len |-> m, capacity |-> Len(block)]]
    <3> HIDE DEF block
    <3> QED
      BY <1>1, <1>3, <2>1, <2>5
  <2>7. /\ m \in 0..Len(block) /\ Len(block) # 0 /\ used' = used + Len(block) * ElementSize
        /\ owned' = owned \cup {v}
    <3> HIDE DEF block
    <3> QED
      BY <1>1, <1>3, <2>1, <2>3, <2>5
  <2>8. /\ VecInv' /\ Contents(v)' = [i \in 1..m |-> block[i]]
        /\ \A u \in Var : u # v => Contents(u)' = Contents(u)
    <3> HIDE DEF block, m
    <3> QED
      BY <2>3, <2>4, <2>5, <2>6, <2>7, Fresh
  <2>9. Contents(v)' = Append(Contents(v), x)
    <3> DEFINE s == Contents(v)
    <3>1. /\ s \in Seq(Cell) /\ Len(s) = n /\ n + 1 <= Len(block)
          /\ \A i \in 1..n : s[i] = block[i]
      <4> HIDE DEF block
      <4> QED
        BY <1>1, <2>1, <2>5, ContentsTyped
    <3> HIDE DEF s, block
    <3>2. [i \in 1..(n + 1) |-> block[i]] = Append(s, block[n + 1])
      BY <2>1, <2>5, <3>1, PushExtends
    <3> QED
      BY <2>5, <2>8, <3>2 DEF s, m
  <2>10. Abstract!Become(v, Append(Contents(v), x))
    <3>1. trapped' = trapped
      BY <1>1, <1>3
    <3> HIDE DEF block
    <3> QED
      BY <2>7, <2>8, <2>9, <3>1, Becomes
  <2>11. answer' = answer
    BY <1>1, <1>3
  <2> QED
    BY <1>1, <2>8, <2>10, <2>11 DEF Abstract!Push
<1> QED
  BY <1>2, <1>3

LEMMA RemovalCloses ==
  ASSUME NEW block \in Seq(Cell), NEW n \in 1..Len(block), NEW i \in 1..n,
         NEW s \in Seq(Cell), Len(s) = n, \A j \in 1..n : s[j] = block[j]
  PROVE  /\ Closed(block, i, n) \in Seq(Cell) /\ Len(Closed(block, i, n)) = Len(block)
         /\ [j \in 1..(n - 1) |-> Closed(block, i, n)[j]] = Abstract!Without(s, i)
<1> DEFINE e(k) == IF i <= k /\ k < n THEN block[k + 1] ELSE block[k]
           closed == Closed(block, i, n)
           B == Cell
<1>1. block \in Seq(B) /\ Len(block) \in Nat /\ DOMAIN block = 1..Len(block)
  OBVIOUS
<1>2. closed = [k \in 1..Len(block) |-> e(k)]
  BY <1>1 DEF Closed
<1>3. \A k \in 1..Len(block) : e(k) \in B
  <2> HIDE DEF B
  <2>1. \A k \in 1..Len(block) : block[k] \in B
    BY <1>1
  <2> QED
    BY <1>1, <2>1
<1>4. closed \in Seq(B) /\ Len(closed) = Len(block)
  <2> HIDE DEF B, e, closed
  <2> QED
    BY <1>1, <1>2, <1>3
<1> DEFINE t == [j \in 1..(n - 1) |-> closed[j]]
           a == SubSeq(s, 1, i - 1)
           b == SubSeq(s, i + 1, n)
<1>5. t \in Seq(B) /\ Len(t) = n - 1
  <2> HIDE DEF closed
  <2> QED
    BY <1>1, <1>4, PrefixIsSeq
<1>6. /\ a \in Seq(B) /\ Len(a) = i - 1 /\ \A j \in 1..(i - 1) : a[j] = s[j]
      /\ b \in Seq(B) /\ Len(b) = n - i /\ \A j \in 1..(n - i) : b[j] = s[i + j]
  <2> DEFINE S == B
  <2>1. \A j \in 1..n : s[j] \in S
    BY ElementOfSeq
  <2> HIDE DEF B, S
  <2>2. (\A j \in 1..(i - 1) : s[j] \in S) /\ (\A j \in (i + 1)..n : s[j] \in S)
    BY <2>1
  <2>3. i - 1 \in Int /\ i + 1 \in Int /\ n \in Int
    OBVIOUS
  <2>4. /\ a \in Seq(S) /\ Len(a) = i - 1
        /\ \A j \in 1..((i - 1) - 1 + 1) : a[j] = s[1 + j - 1]
    BY <2>2, <2>3, SubSeqProperties
  <2>5. /\ b \in Seq(S) /\ Len(b) = n - i
        /\ \A j \in 1..(n - (i + 1) + 1) : b[j] = s[(i + 1) + j - 1]
    BY <2>2, <2>3, SubSeqProperties
  <2> HIDE DEF a, b
  <2>6. \A j \in 1..(i - 1) : j \in 1..((i - 1) - 1 + 1) /\ 1 + j - 1 = j
    OBVIOUS
  <2>7. \A j \in 1..(n - i) : j \in 1..(n - (i + 1) + 1) /\ (i + 1) + j - 1 = i + j
    OBVIOUS
  <2> QED
    BY <2>4, <2>5, <2>6, <2>7 DEF S
<1>7. /\ a \o b \in Seq(B) /\ Len(a \o b) = n - 1
      /\ \A j \in 1..(n - 1) : (a \o b)[j] = IF j <= i - 1 THEN a[j] ELSE b[j - (i - 1)]
  <2> HIDE DEF a, b, B
  <2>1. Len(a) + Len(b) = n - 1 /\ a \in Seq(B) /\ b \in Seq(B) /\ Len(a) = i - 1
    BY <1>6
  <2>2. /\ a \o b \in Seq(B) /\ Len(a \o b) = Len(a) + Len(b)
        /\ \A j \in 1 .. Len(a) + Len(b) : (a \o b)[j] = IF j <= Len(a) THEN a[j] ELSE b[j - Len(a)]
    BY <2>1, ConcatProperties, Zenon
  <2> QED
    BY <2>1, <2>2, Zenon
<1>8. ASSUME NEW j \in 1..(n - 1) PROVE t[j] = (a \o b)[j]
  <2>1. t[j] = e(j)
    BY <1>1, <1>2
  <2> HIDE DEF a, b, B, t
  <2>2. CASE j <= i - 1
    BY <1>6, <1>7, <2>1, <2>2
  <2>3. CASE j > i - 1
    <3>1. b[j - (i - 1)] = s[j + 1]
      <4>1. j - (i - 1) \in 1..(n - i) /\ i + (j - (i - 1)) = j + 1
        BY <2>3
      <4> QED
        BY <1>6, <4>1
    <3>2. e(j) = s[j + 1]
      <4>1. i <= j /\ j < n /\ j + 1 \in 1..n
        BY <2>3
      <4> QED
        BY <4>1
    <3>3. (a \o b)[j] = b[j - (i - 1)]
      <4>1. ~(j <= i - 1)
        BY <2>3
      <4> QED
        BY <1>7, <4>1
    <3> QED
      BY <2>1, <3>1, <3>2, <3>3
  <2>4. j <= i - 1 \/ j > i - 1
    BY <1>1
  <2> QED
    BY <2>2, <2>3, <2>4
<1>9. t = a \o b
  <2> HIDE DEF t, a, b
  <2> QED
    BY <1>5, <1>7, <1>8, SeqEqual
<1> QED
  BY <1>4, <1>9 DEF Abstract!Without

LEMMA RemoveRemoves ==
  ASSUME VecInv, NEW v \in Var, NEW i \in 1..vec[v].len, Remove(v, i)
  PROVE  VecInv' /\ Abstract!Remove(v, i)
<1> DEFINE n == vec[v].len
           d == vec[v].data
           block == Closed(heap[d], i, n)
           s == Contents(v)
           m == n - 1
<1>1. /\ v \in owned /\ stray' = ~(n <= Len(heap[d])) /\ answer' = heap[d][i]
      /\ heap' = [heap EXCEPT ![d] = block]
      /\ vec' = [vec EXCEPT ![v].len = Word(n - 1)]
      /\ UNCHANGED <<used, owned, trapped>>
  BY DEF Remove, Inside
<1>2. /\ n \in Nat /\ n # 0 /\ n <= vec[v].capacity /\ vec[v].capacity # 0
      /\ vec[v].capacity \in Nat /\ heap[d] \in Seq(Cell) /\ Len(heap[d]) = vec[v].capacity
      /\ vec[v].capacity * ElementSize <= used
  BY <1>1, Owned DEF Sound
<1>3. Word(n - 1) = m
  <2>1. vec[v].capacity * ElementSize \in Nat /\ vec[v].capacity <= vec[v].capacity * ElementSize
    BY <1>2, Times, ElementAssumption
  <2>2. used \in Nat /\ used <= HeapLimit
    BY DEF VecInv, Typed
  <2> DEFINE bytes == vec[v].capacity * ElementSize
  <2>3. n - 1 \in Nat /\ n - 1 < WordSize
    <3>1. bytes \in Nat /\ n <= bytes /\ bytes <= HeapLimit
      <4> HIDE DEF n
      <4> QED
        BY <1>2, <2>1, <2>2, HeapAssumption, SMTT(60)
    <3> HIDE DEF bytes
    <3> QED
      BY <1>2, <3>1, HeapAssumption, SMTT(60)
  <2> QED
    BY <2>3, NoWrap
<1>4. s \in Seq(Cell) /\ Len(s) = n /\ \A j \in 1..n : s[j] = heap[d][j]
  BY <1>1, ContentsTyped
<1>5. /\ block \in Seq(Cell) /\ Len(block) = vec[v].capacity
      /\ [j \in 1..(n - 1) |-> block[j]] = Abstract!Without(s, i)
  <2>1. n \in 1..Len(heap[d])
    BY <1>2
  <2> HIDE DEF s
  <2> QED
    BY <1>2, <1>4, <2>1, RemovalCloses, ZenonT(60)
<1>6. m \in 0..vec[v].capacity /\ ~stray'
  <2>1. m \in 0..vec[v].capacity /\ n <= Len(heap[d])
    BY <1>2
  <2>2. stray' = ~(n <= Len(heap[d]))
    BY <1>1
  <2> QED
    BY <2>1, <2>2
<1>7. vec' = [vec EXCEPT ![v].len = m]
  BY <1>1, <1>3
<1>8. /\ VecInv' /\ Contents(v)' = [j \in 1..m |-> block[j]]
      /\ \A u \in Var : u # v => Contents(u)' = Contents(u)
  <2>1. used' = used /\ owned' = owned
    BY <1>1
  <2>2. /\ v \in owned /\ vec[v].capacity # 0 /\ ~stray' /\ m \in 0..vec[v].capacity
        /\ heap' = [heap EXCEPT ![vec[v].data] = block]
        /\ block \in Seq(Cell) /\ Len(block) = vec[v].capacity
    BY <1>1, <1>2, <1>5, <1>6
  <2> HIDE DEF m, block
  <2> QED
    BY <1>7, <2>1, <2>2, InPlace, ZenonT(60)
<1>9. Abstract!Become(v, Abstract!Without(s, i))
  <2>1. Contents(v)' = Abstract!Without(s, i)
    BY <1>5, <1>8
  <2>2. owned' = owned \cup {v} /\ trapped' = trapped
    BY <1>1
  <2> HIDE DEF s
  <2> QED
    BY <1>8, <2>1, <2>2, Becomes
<1>10. answer' = s[i]
  BY <1>1, <1>4
<1> QED
  BY <1>1, <1>8, <1>9, <1>10 DEF Abstract!Remove

LEMMA StoreStores ==
  ASSUME VecInv, NEW v \in Var, NEW i \in 1..vec[v].len, NEW x \in Elem, Store(v, i, x)
  PROVE  VecInv' /\ Abstract!Store(v, i, x)
<1> DEFINE n == vec[v].len
           d == vec[v].data
           block == [heap[d] EXCEPT ![i] = x]
           s == Contents(v)
<1>1. /\ v \in owned /\ stray' = ~(i <= Len(heap[d]))
      /\ heap' = [heap EXCEPT ![d] = block]
      /\ UNCHANGED <<used, vec, owned, answer, trapped>>
  BY DEF Store, Inside
<1>2. /\ n \in Nat /\ n <= vec[v].capacity /\ vec[v].capacity # 0
      /\ vec[v].capacity \in Nat /\ heap[d] \in Seq(Cell) /\ Len(heap[d]) = vec[v].capacity
      /\ vec \in [Var -> Header] /\ vec[v] \in Header
  BY <1>1, Owned DEF Sound, VecInv, Typed
<1>3. s \in Seq(Cell) /\ Len(s) = n /\ \A j \in 1..n : s[j] = heap[d][j]
  BY <1>1, ContentsTyped
<1>4. /\ block \in Seq(Cell) /\ Len(block) = vec[v].capacity
      /\ \A j \in 1..Len(heap[d]) : block[j] = IF j = i THEN x ELSE heap[d][j]
  <2>1. x \in Cell /\ i \in 1..Len(heap[d])
    BY <1>2 DEF Cell
  <2> QED
    BY <1>2, <2>1, ExceptSeq
<1>5. n \in 0..vec[v].capacity /\ ~stray'
  <2>1. n \in 0..vec[v].capacity /\ i <= Len(heap[d])
    BY <1>2
  <2>2. stray' = ~(i <= Len(heap[d]))
    BY <1>1
  <2> QED
    BY <2>1, <2>2
<1>6. vec' = [vec EXCEPT ![v].len = n]
  <2>1. [vec[v] EXCEPT !.len = vec[v].len] = vec[v]
    BY <1>2 DEF Header
  <2> QED
    BY <1>1, <1>2, <2>1
<1>7. /\ VecInv' /\ Contents(v)' = [j \in 1..n |-> block[j]]
      /\ \A u \in Var : u # v => Contents(u)' = Contents(u)
  <2>1. used' = used /\ owned' = owned
    BY <1>1
  <2>2. /\ v \in owned /\ vec[v].capacity # 0 /\ ~stray' /\ n \in 0..vec[v].capacity
        /\ heap' = [heap EXCEPT ![vec[v].data] = block]
        /\ block \in Seq(Cell) /\ Len(block) = vec[v].capacity
    BY <1>1, <1>2, <1>4, <1>5
  <2> HIDE DEF n, block
  <2> QED
    BY <1>6, <2>1, <2>2, InPlace, ZenonT(60)
<1>8. [j \in 1..n |-> block[j]] = [s EXCEPT ![i] = x]
  <2> DEFINE t == [j \in 1..n |-> block[j]]
             r == [s EXCEPT ![i] = x]
  <2>1. t \in Seq(Cell) /\ Len(t) = n
    <3> HIDE DEF block
    <3> QED
      BY <1>2, <1>4, <1>5, PrefixIsSeq
  <2>2. /\ r \in Seq(Cell) /\ Len(r) = n
        /\ \A j \in 1..n : r[j] = IF j = i THEN x ELSE s[j]
    <3>1. x \in Cell /\ i \in 1..Len(s)
      BY <1>3 DEF Cell
    <3> HIDE DEF s
    <3> QED
      BY <1>3, <3>1, ExceptSeq
  <2>3. \A j \in 1..n : t[j] = r[j]
    <3> HIDE DEF block, r, s
    <3> QED
      BY <1>2, <1>3, <1>4, <2>2
  <2> HIDE DEF t, r, n
  <2>4. t = r
    BY <2>1, <2>2, <2>3, SeqEqual
  <2> QED
    BY <2>4 DEF t, r
<1>9. Abstract!Become(v, [s EXCEPT ![i] = x])
  <2>1. Contents(v)' = [s EXCEPT ![i] = x]
    BY <1>7, <1>8
  <2>2. owned' = owned \cup {v} /\ trapped' = trapped
    BY <1>1
  <2> HIDE DEF s
  <2> QED
    BY <1>7, <2>1, <2>2, Becomes
<1> QED
  BY <1>1, <1>7, <1>9 DEF Abstract!Store

LEMMA ReadReads ==
  ASSUME VecInv, NEW v \in Var, NEW i \in 1..vec[v].len, Read(v, i)
  PROVE  VecInv' /\ Abstract!Read(v, i)
<1>1. /\ v \in owned /\ answer' = heap[vec[v].data][i]
      /\ stray' = ~(i <= Len(heap[vec[v].data]))
      /\ UNCHANGED <<heap, used, vec, owned, trapped>>
  BY DEF Read, Inside
<1>2. ~stray'
  <2>1. vec[v].len # 0 /\ i <= vec[v].len /\ vec[v].len <= vec[v].capacity
        /\ vec[v].len \in Nat /\ vec[v].capacity \in Nat
        /\ Len(heap[vec[v].data]) = vec[v].capacity
    BY <1>1, Owned DEF Sound
  <2>2. i <= Len(heap[vec[v].data])
    BY <2>1
  <2>3. stray' = ~(i <= Len(heap[vec[v].data]))
    BY <1>1
  <2> QED
    BY <2>2, <2>3
<1>3. VecInv'
  BY <1>1, <1>2 DEF VecInv, Typed, Sound, BuffersApart, NoStrayAccess
<1>4. answer' = Contents(v)[i]
  BY <1>1, ContentsTyped
<1>5. \A u \in Var : Contents(u)' = Contents(u)
  BY <1>1 DEF Contents
<1> QED
  BY <1>1, <1>3, <1>4, <1>5 DEF Abstract!Read, Abstract!Look

LEMMA MeasureMeasures ==
  ASSUME VecInv, NEW v \in Var, Measure(v)
  PROVE  VecInv' /\ Abstract!Measure(v)
<1>1. v \in owned /\ answer' = vec[v].len /\ UNCHANGED <<heap, used, vec, owned, trapped, stray>>
  BY DEF Measure
<1>2. VecInv'
  BY <1>1 DEF VecInv, Typed, Sound, BuffersApart, NoStrayAccess
<1>3. answer' = Len(Contents(v))
  BY <1>1, ContentsTyped
<1>4. \A u \in Var : Contents(u)' = Contents(u)
  BY <1>1 DEF Contents
<1> QED
  BY <1>1, <1>2, <1>3, <1>4 DEF Abstract!Measure, Abstract!Look

LEMMA VecNewIsNew ==
  ASSUME VecInv, NEW v \in Var, VecNew(v)
  PROVE  VecInv' /\ Abstract!New(v)
<1>1. /\ heap' = heap /\ used' = used /\ vec' = [vec EXCEPT ![v] = NewVec]
      /\ owned' = owned \cup {v} /\ ~stray' /\ UNCHANGED <<answer, trapped>>
  BY DEF VecNew, Step
<1>2. /\ VecInv' /\ Contents(v)' = <<>>
      /\ \A u \in Var : u # v => Contents(u)' = Contents(u)
  BY <1>1, Bufferless
<1>3. Abstract!Become(v, <<>>)
  BY <1>1, <1>2, Becomes
<1> QED
  BY <1>1, <1>2, <1>3 DEF Abstract!New

LEMMA CloneClones ==
  ASSUME VecInv, NEW v \in Var, NEW w \in Var, Clone(v, w)
  PROVE  VecInv' /\ (Abstract!Clone(v, w) \/ Abstract!Stop)
<1> DEFINE n == vec[v].len
           bytes == n * ElementSize
           block == Filled(bytes, vec[v].data, n)
           s == Contents(v)
<1>1. /\ v \in owned
      /\ \/ OutOfMemory
         \/ /\ n = 0 \/ Fits(Word(bytes))
            /\ used' = used + Word(bytes)
            /\ stray' = (n > Cells(Word(bytes)))
            /\ heap' = IF n = 0 THEN heap ELSE Append(heap, Filled(Word(bytes), vec[v].data, n))
            /\ vec' = [vec EXCEPT ![w] = [data |-> IF n = 0 THEN Null ELSE Len(heap) + 1,
                                          len |-> n, capacity |-> n]]
            /\ owned' = owned \cup {w}
            /\ UNCHANGED <<answer, trapped>>
  BY DEF Clone, Cloned
<1>2. CASE OutOfMemory
  BY <1>2, OutOfMemoryStops
<1>3. CASE ~OutOfMemory
  <2>1. n \in Nat /\ n <= vec[v].capacity /\ vec[v].capacity \in Nat
        /\ vec[v].capacity * ElementSize <= used /\ used \in Nat /\ used <= HeapLimit
    BY <1>1, Owned DEF Sound, VecInv, Typed
  <2>2. bytes \in Nat /\ bytes <= vec[v].capacity * ElementSize
        /\ vec[v].capacity * ElementSize \in Nat
    <3> DEFINE k == vec[v].capacity
    <3>1. \A p, q, e \in Nat : p <= q => p * e <= q * e /\ p * e \in Nat /\ q * e \in Nat
      OBVIOUS
    <3> QED
      BY <2>1, <3>1, ElementAssumption
  <2>3. Word(bytes) = bytes /\ Cells(bytes) = n
    <3>1. bytes < WordSize
      BY <2>1, <2>2, HeapAssumption
    <3> QED
      BY <2>1, <3>1, Room
  <2>4. ~stray'
    <3>1. stray' = (n > Cells(Word(bytes)))
      BY <1>1, <1>3
    <3>2. ~(n > Cells(Word(bytes)))
      BY <2>1, <2>3
    <3> QED
      BY <3>1, <3>2
  <2>5. s \in Seq(Cell) /\ Len(s) = n /\ \A i \in 1..n : s[i] = heap[vec[v].data][i]
    BY <1>1, ContentsTyped
  <2>6. owned' = owned \cup {w} /\ answer' = answer /\ trapped' = trapped
    BY <1>1, <1>3
  <2>7. /\ VecInv' /\ Contents(w)' = s
        /\ \A u \in Var : u # w => Contents(u)' = Contents(u)
    <3>1. CASE n = 0
      <4>1. heap' = heap /\ vec' = [vec EXCEPT ![w] = NewVec]
        BY <1>1, <1>3, <3>1 DEF NewVec
      <4>2. used' = used
        <5>1. bytes = 0
          BY <3>1, ElementAssumption
        <5> HIDE DEF bytes
        <5> QED
          BY <1>1, <1>3, <2>1, <2>3, <5>1
      <4>3. s = <<>>
        <5> HIDE DEF s
        <5> QED
          BY <2>5, <3>1
      <4> QED
        BY <2>4, <2>6, <4>1, <4>2, <4>3, Bufferless
    <3>2. CASE n # 0
      <4>1. block \in Seq(Cell) /\ Len(block) = n /\ \A i \in 1..n : block[i] = s[i]
        BY <1>1, <2>1, <2>5, FilledIs, SMTT(60)
      <4>2. heap' = Append(heap, block) /\ used' = used + bytes /\ used' <= HeapLimit
        <5> HIDE DEF bytes
        <5> QED
          BY <1>1, <1>3, <2>3, <3>2 DEF Fits
      <4>3. vec' = [vec EXCEPT ![w] = [data |-> Len(heap) + 1, len |-> n, capacity |-> n]]
        BY <1>1, <1>3, <3>2
      <4>4. /\ vec' = [vec EXCEPT ![w] = [data |-> Len(heap) + 1, len |-> n, capacity |-> Len(block)]]
            /\ used' = used + Len(block) * ElementSize /\ n \in 0..Len(block) /\ Len(block) # 0
        <5> HIDE DEF block
        <5> QED
          BY <2>1, <3>2, <4>1, <4>2, <4>3
      <4>5. /\ VecInv' /\ Contents(w)' = [i \in 1..n |-> block[i]]
            /\ \A u \in Var : u # w => Contents(u)' = Contents(u)
        <5> HIDE DEF block, n
        <5> QED
          BY <2>4, <2>6, <4>1, <4>2, <4>4, Fresh, ZenonT(60)
      <4>6. [i \in 1..n |-> block[i]] = s
        <5> DEFINE t == [i \in 1..n |-> block[i]]
        <5>1. t \in Seq(Cell) /\ Len(t) = n
          <6> HIDE DEF block
          <6> QED
            BY <4>1, <4>4, PrefixIsSeq
        <5>2. \A i \in 1..n : t[i] = s[i]
          BY <4>1
        <5> HIDE DEF t, s, n
        <5>3. t = s
          BY <2>5, <5>1, <5>2, SeqEqual
        <5> QED
          BY <5>3 DEF t
      <4> QED
        BY <4>5, <4>6
    <3> QED
      BY <3>1, <3>2
  <2>8. Abstract!Become(w, s)
    <3> HIDE DEF s
    <3> QED
      BY <2>6, <2>7, Becomes
  <2> QED
    BY <1>1, <2>6, <2>7, <2>8 DEF Abstract!Clone
<1> QED
  BY <1>2, <1>3

LEMMA MoveMoves ==
  ASSUME VecInv, NEW v \in Var, NEW w \in Var, Move(v, w)
  PROVE  VecInv' /\ Abstract!Move(v, w)
<1>1. /\ VecInv' /\ Contents(w)' = Contents(v) /\ Contents(v)' = <<>>
      /\ \A u \in Var : u # v /\ u # w => Contents(u)' = Contents(u)
  BY Moved
<1>2. v \in owned /\ v # w /\ owned' = (owned \ {v}) \cup {w} /\ UNCHANGED <<answer, trapped>>
  BY DEF Move
<1>3. [u \in Var |-> Contents(u)]'
        = [[u \in Var |-> Contents(u)] EXCEPT ![w] = Contents(v), ![v] = <<>>]
  BY <1>1, <1>2
<1> QED
  BY <1>1, <1>2, <1>3 DEF Abstract!Move

(********************************* theorems **********************************)
LEMMA Initially == VecInit => VecInv /\ Abstract!Init
<1> SUFFICES ASSUME VecInit PROVE VecInv /\ Abstract!Init
  OBVIOUS
<1>1. /\ heap = <<>> /\ used = 0 /\ vec = [v \in Var |-> NewVec] /\ owned = {}
      /\ answer = 0 /\ trapped = FALSE /\ stray = FALSE
  BY DEF VecInit
<1>2. heap \in Seq(Seq(Cell)) /\ vec \in [Var -> Header]
  BY <1>1 DEF Header, NewVec, Null
<1>3. VecInv
  BY <1>1, <1>2, HeapAssumption DEF VecInv, Typed, BuffersApart, NoStrayAccess
<1>4. [v \in Var |-> Contents(v)] = [v \in Var |-> <<>>]
  BY <1>1 DEF Contents
<1> QED
  BY <1>1, <1>3, <1>4 DEF Abstract!Init

\* Every step keeps the invariant and is a step of VecSpec, or invisible to it.
LEMMA StepRefines == VecInv /\ [VecNext]_vecVars => VecInv' /\ [Abstract!Next]_(Abstract!vars)
<1> SUFFICES ASSUME VecInv, [VecNext]_vecVars PROVE VecInv' /\ [Abstract!Next]_(Abstract!vars)
  OBVIOUS
<1>1. CASE UNCHANGED vecVars
  <2>1. VecInv'
    BY <1>1 DEF vecVars, VecInv, Typed, Sound, BuffersApart, NoStrayAccess
  <2>2. UNCHANGED Abstract!vars
    BY <1>1 DEF vecVars, Abstract!vars, Contents
  <2> QED
    BY <2>1, <2>2
<1>2. CASE VecNext
  <2>1. ~trapped
    BY <1>2, ZenonT(60) DEF VecNext, VecNew, Measure, PushInPlace, PushGrowing, Remove, Read, Store, Clone, Move, Step
  <2>l. ASSUME NEW v \in owned PROVE Len([u \in Var |-> Contents(u)][v]) = vec[v].len
    BY ContentsTyped, Owned
  <2>2. CASE \E v \in Var : VecNew(v) \/ Measure(v)
    BY <2>1, <2>2, VecNewIsNew, MeasureMeasures DEF Abstract!Next
  <2>3. CASE \E v \in Var, x \in Elem : PushInPlace(v, x) \/ PushGrowing(v, x)
    BY <2>1, <2>3, PushInPlacePushes, PushGrowingPushes DEF Abstract!Next
  <2>4. CASE \E v \in Var : \E i \in 1..vec[v].len :
               Remove(v, i) \/ Read(v, i) \/ \E x \in Elem : Store(v, i, x)
    <3>0. PICK v \in Var : \E i \in 1..vec[v].len :
                 Remove(v, i) \/ Read(v, i) \/ \E x \in Elem : Store(v, i, x)
      BY <2>4
    <3>1. PICK i \in 1..vec[v].len : Remove(v, i) \/ Read(v, i) \/ \E x \in Elem : Store(v, i, x)
      BY <3>0
    <3>2. v \in owned
      BY <3>1 DEF Remove, Read, Store
    <3>3. i \in 1..Len([u \in Var |-> Contents(u)][v])
      BY <2>l, <3>2
    <3>4. /\ VecInv'
          /\ Abstract!Remove(v, i) \/ Abstract!Read(v, i) \/ \E x \in Elem : Abstract!Store(v, i, x)
      BY <3>1, RemoveRemoves, ReadReads, StoreStores
    <3> QED
      BY <2>1, <3>3, <3>4 DEF Abstract!Next
  <2>5. CASE \E v, w \in Var : Clone(v, w) \/ Move(v, w)
    BY <2>1, <2>5, CloneClones, MoveMoves DEF Abstract!Next
  <2> QED
    BY <1>2, <2>2, <2>3, <2>4, <2>5, SMTT(60) DEF VecNext
<1> QED
  BY <1>1, <1>2

\* Headers, buffers and the bytes handed out stay consistent.
THEOREM VecInvariant == VecRuns => []VecInv
<1>1. VecInv /\ [VecNext]_vecVars => VecInv'
  BY StepRefines
<1> QED
  BY Initially, <1>1, PTL DEF VecRuns

\* No operation leaves a buffer, whatever the element size and the heap.
THEOREM AccessesStayInside == VecRuns => []NoStrayAccess
BY VecInvariant, PTL DEF VecInv

\* No two living vectors share a buffer.
THEOREM VectorsShareNothing == VecRuns => []BuffersApart
BY VecInvariant, PTL DEF VecInv

\* The vectors of the runtime are sequences with a variable of their own.
THEOREM RuntimeImplementsVecSpec == VecRuns => ImplementsVecSpec
<1>1. VecInit => Abstract!Init
  BY Initially
<1>2. VecInv /\ [VecNext]_vecVars => [Abstract!Next]_(Abstract!vars)
  BY StepRefines
<1> QED
  BY <1>1, <1>2, VecInvariant, PTL DEF VecRuns, ImplementsVecSpec, Abstract!Spec
=============================================================================
