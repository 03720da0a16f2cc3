---------------------------- MODULE TypeResProofs ----------------------------
(* The two walks of the type resolver that can go round in circles: over the   *)
(* constants that name each other, and over the structs that hold each other.  *)
EXTENDS ConstResolution, StructRecursion, InductionLemmas, FiniteSetTheorems, TLAPS

(***************************************************************************)
(* ConstResolution, proved for every crate: values are recorded once and   *)
(* are those of the source, lengths are natural, accepted crates are       *)
(* completely known, and exactly the nodes without a meaning are reported. *)
(***************************************************************************)
(***************************** nodes without value ***************************)
\* An expression that cannot have the type expected of it, whatever the constant it
\* names; its own literal included.
Unfit(e, x) ==
  IF Asks(e[x]) THEN e[x].kind = "array" \/ Expected(e[e[x].leaf.to]) # Expected(e[x])
                ELSE ~Resolved(e[x], Literal(e[x])).ok

\* From none of these nodes is there a way to a literal of the expected type.
Hopeless(e, S) == \A x \in S : Unfit(e, x) \/ (Asks(e[x]) /\ e[x].leaf.to \in S)
NoValue(e, x) == \E S \in SUBSET Node : x \in S /\ Hopeless(e, S)

(***************************** inductive invariant ***************************)
\* Who asked for what is being evaluated.
Asking(e, s) ==
  \A i \in 1..(Len(s) - 1) : Asks(e[s[i]]) /\ e[s[i]].leaf.to = s[i + 1]

StackInv ==
  /\ Asking(expr, stack)
  /\ stack # <<>> => stack[1] = root
  /\ at = "item" => IF stack = <<>> THEN item = root
                    ELSE Asks(expr[Top]) /\ expr[Top].leaf.to = item
  /\ at \in {"visit", "done"} => stack = <<>>
  /\ at \in {"item", "value"} => root \in Node
  /\ \A x \in resolving : \E i \in DOMAIN stack : stack[i] = x

\* What the leaf of x stands for, once it is known.
LeafKnown(e, m, x, r) ==
  IF Asks(e[x]) THEN e[x].leaf.to \in DOMAIN m /\ r = m[e[x].leaf.to] ELSE r = Literal(e[x])

\* A recorded value follows from the recorded value of the constant it names.
MemoLocal ==
  \A x \in DOMAIN memo :
    /\ memo[x].ok /\ memo[x].kind = Expected(expr[x])
    /\ \E r \in Result : LeafKnown(expr, memo, x, r) /\ memo[x] = Resolved(expr[x], r)
    /\ memo[x].kind \notin Signed => memo[x].value >= 0

MemoGrounded == \A S \in SUBSET Node : Hopeless(expr, S) => S \cap DOMAIN memo = {}

ResultInv ==
  at = "value" =>
    /\ result.ok => IF stack = <<>> THEN root \in DOMAIN memo ELSE LeafKnown(expr, memo, Top, result)
    /\ ~result.ok => NoValue(expr, IF stack = <<>> THEN root ELSE Top)

\* Every node is evaluated, reported, still to be visited, or being visited.
Visited ==
  \A x \in Node : \/ x \in DOMAIN memo \/ x \in ToSet(diagnostics) \/ x \in ToSet(todo)
                  \/ at \in {"item", "value"} /\ x = root

ReportedInv == \A x \in ToSet(diagnostics) : NoValue(expr, x)

CrateInv == \A x \in Length : expr[x].kind = "usize"

IInv == /\ TypeOK /\ CrateInv /\ StackInv /\ MemoLocal /\ MemoGrounded /\ ResultInv /\ Visited /\ ReportedInv
        /\ at = "done" => todo = <<>>

(******************************** operators *********************************)
LEMMA ExpectedTyped ==
  ASSUME NEW v \in ConstValue, v.kind # "other"
  PROVE  Expected(v) \in Kind
  BY DEF ConstValue, Expected, Kind, Signed

LEMMA NegatedTyped ==
  ASSUME NEW k \in Nat, NEW x \in (-MaxInt)..MaxInt
  PROVE  Negated(k, x) \in (-MaxInt)..MaxInt /\ (k = 0 => Negated(k, x) = x)
  BY MaxIntAssumption DEF Negated

LEMMA OkTyped ==
  ASSUME NEW k \in Kind, NEW x \in (-MaxInt)..MaxInt
  PROVE  Ok(k, x) \in Result /\ Ok(k, x).ok /\ Ok(k, x).kind = k /\ Ok(k, x).value = x
  BY DEF Ok, Result

LEMMA ErrTyped == Err \in Result /\ ~Err.ok
<1>1. "bool" \in Kind /\ 0 \in (-MaxInt)..MaxInt
  BY MaxIntAssumption DEF Kind
<1> QED
  BY <1>1 DEF Err, Result

\* The value of an expression has its expected type, and so had its leaf.
LEMMA ResolvedFacts ==
  ASSUME NEW v \in ConstValue, NEW r \in Result
  PROVE  /\ Resolved(v, r) \in Result
         /\ Resolved(v, r).ok => /\ r.ok /\ r.kind = Expected(v) /\ v.kind # "array"
                                 /\ Resolved(v, r).kind = Expected(v)
                                 /\ Resolved(v, r).value = Negated(v.neg, r.value)
<1>1. CASE r.ok /\ Matches(r, v) /\ v.kind # "array"
  <2>1. r.kind = Expected(v) /\ r.kind \in Kind /\ r.value \in (-MaxInt)..MaxInt /\ v.neg \in Nat
    BY <1>1 DEF Matches, Result, ConstValue
  <2>2. Resolved(v, r) = Ok(Expected(v), Negated(v.neg, r.value))
    BY <1>1 DEF Resolved
  <2> QED
    BY <1>1, <2>1, <2>2, NegatedTyped, OkTyped
<1>2. CASE ~(r.ok /\ Matches(r, v) /\ v.kind # "array")
  BY <1>2, ErrTyped DEF Resolved
<1> QED
  BY <1>1, <1>2

LEMMA LiteralFacts ==
  ASSUME NEW v \in ConstValue
  PROVE  /\ Literal(v) \in Result
         /\ Literal(v).ok => NegOk(v) /\ Literal(v).value >= 0
<1>1. v.leaf.value \in 0..MaxInt
  BY DEF ConstValue, Leaf
<1>2. v.leaf.value \in (-MaxInt)..MaxInt /\ v.leaf.value >= 0
  BY <1>1, MaxIntAssumption
<1>3. CASE /\ v.kind # "other"
           /\ NegOk(v)
           /\ \/ v.leaf.form = "int" /\ Expected(v) # "bool" /\ SuffixOk(v)
              \/ v.leaf.form = "bool" /\ Expected(v) = "bool"
  <2>1. Literal(v) = Ok(Expected(v), v.leaf.value)
    BY <1>3 DEF Literal
  <2> QED
    BY <1>2, <1>3, <2>1, ExpectedTyped, OkTyped
<1>4. CASE ~(/\ v.kind # "other"
             /\ NegOk(v)
             /\ \/ v.leaf.form = "int" /\ Expected(v) # "bool" /\ SuffixOk(v)
                \/ v.leaf.form = "bool" /\ Expected(v) = "bool")
  <2>1. Literal(v) = Err
    BY <1>4 DEF Literal
  <2> QED
    BY <2>1, ErrTyped
<1> QED
  BY <1>3, <1>4

LEMMA AsksItem ==
  ASSUME NEW v \in ConstValue, Asks(v)
  PROVE  v.leaf.to \in Item /\ NegOk(v)
  BY DEF Asks, ConstValue, Leaf

\* A node that can have no value by itself.
LEMMA UnfitHasNoValue ==
  ASSUME NEW x \in Node, Unfit(expr, x)
  PROVE  NoValue(expr, x)
<1>1. {x} \in SUBSET Node /\ x \in {x} /\ Hopeless(expr, {x})
  BY DEF Hopeless
<1> QED
  BY <1>1 DEF NoValue

\* One that asks for a constant without value has none either.
LEMMA AskerHasNoValue ==
  ASSUME NEW x \in Node, NEW y, Asks(expr[x]), expr[x].leaf.to = y, NoValue(expr, y)
  PROVE  NoValue(expr, x)
<1>1. PICK S \in SUBSET Node : y \in S /\ Hopeless(expr, S)
  BY DEF NoValue
<1>2. Hopeless(expr, S \cup {x})
  BY <1>1 DEF Hopeless
<1>3. S \cup {x} \in SUBSET Node /\ x \in S \cup {x}
  BY <1>1
<1> QED
  BY <1>2, <1>3 DEF NoValue

\* The indices below the last one, and the two ends of a longer stack.
LEMMA Indices ==
  ASSUME NEW k \in Nat
  PROVE  /\ \A i \in 1..k : i # k => i \in 1..(k - 1) /\ i + 1 \in 1..k
         /\ \A i \in 1..(k - 1) : i \in 1..k /\ i + 1 \in 1..k /\ i # k
         /\ \A i \in 1..k : i \in 1..(k + 1) /\ i # k + 1
         /\ \A i \in 1..(k + 1) : i # k + 1 => i \in 1..k
         /\ k + 1 \in 1..(k + 1)
  OBVIOUS

LEMMA StackTyped ==
  ASSUME TypeOK
  PROVE  /\ Len(stack) \in Nat
         /\ DOMAIN stack = 1..Len(stack)
         /\ \A k \in 1..Len(stack) : stack[k] \in Node
         /\ stack # <<>> => Len(stack) \in 1..Len(stack) /\ Top \in Node /\ Top = stack[Len(stack)]
<1>1. stack \in Seq(Node)
  BY DEF TypeOK
<1>2. Len(stack) \in Nat /\ DOMAIN stack = 1..Len(stack) /\ (stack # <<>> => Len(stack) > 0)
  BY <1>1
<1>3. \A k \in 1..Len(stack) : stack[k] \in Node
  BY <1>1, <1>2
<1>4. stack # <<>> => Len(stack) \in 1..Len(stack)
  BY <1>2
<1> QED
  BY <1>2, <1>3, <1>4 DEF Top

LEMMA ToSetHeadTail ==
  ASSUME NEW s \in Seq(Node), s # <<>>
  PROVE  Head(s) \in Node /\ Tail(s) \in Seq(Node) /\ ToSet(s) = ToSet(Tail(s)) \cup {Head(s)}
<1>1. Head(s) \in Node /\ Tail(s) \in Seq(Node) /\ Head(s) = s[1]
  OBVIOUS
<1>2. /\ Len(s) \in Nat \ {0} /\ DOMAIN s = 1..Len(s) /\ DOMAIN Tail(s) = 1..(Len(s) - 1)
      /\ \A k \in 1..(Len(s) - 1) : Tail(s)[k] = s[k + 1]
  OBVIOUS
<1>3. \A k \in 1..Len(s) : k = 1 \/ (k - 1 \in 1..(Len(s) - 1) /\ s[k] = Tail(s)[k - 1])
  BY <1>2
<1>4. \A k \in 1..(Len(s) - 1) : k + 1 \in 1..Len(s)
  BY <1>2
<1>5. \A x \in ToSet(s) : x \in ToSet(Tail(s)) \cup {Head(s)}
  <2> TAKE x \in ToSet(s)
  <2>1. PICK k \in 1..Len(s) : x = s[k]
    BY <1>2 DEF ToSet
  <2> QED
    BY <1>1, <1>2, <1>3, <2>1 DEF ToSet
<1>6. \A x \in ToSet(Tail(s)) : x \in ToSet(s)
  <2> TAKE x \in ToSet(Tail(s))
  <2>1. PICK k \in 1..(Len(s) - 1) : x = s[k + 1]
    BY <1>2 DEF ToSet
  <2> QED
    BY <1>2, <1>4, <2>1 DEF ToSet
<1>7. Head(s) \in ToSet(s)
  <2>1. 1 \in DOMAIN s
    BY <1>2
  <2> QED
    BY <1>1, <2>1 DEF ToSet
<1> QED
  BY <1>1, <1>5, <1>6, <1>7

LEMMA ToSetAppend ==
  ASSUME NEW s \in Seq(Node), NEW x \in Node
  PROVE  Append(s, x) \in Seq(Node) /\ ToSet(Append(s, x)) = ToSet(s) \cup {x}
<1>1. /\ Len(s) \in Nat /\ DOMAIN s = 1..Len(s) /\ DOMAIN Append(s, x) = 1..(Len(s) + 1)
      /\ \A k \in 1..Len(s) : Append(s, x)[k] = s[k]
      /\ Append(s, x)[Len(s) + 1] = x
  OBVIOUS
<1>2. \A k \in 1..(Len(s) + 1) : k = Len(s) + 1 \/ k \in 1..Len(s)
  BY <1>1
<1>3. \A k \in 1..Len(s) : k \in 1..(Len(s) + 1)
  BY <1>1
<1> QED
  BY <1>1, <1>2, <1>3 DEF ToSet

(******************************** the steps **********************************)
\* The part of the invariant about what is recorded does not change with the rest.
Recorded == CrateInv /\ MemoLocal /\ MemoGrounded

LEMMA RecordedUnchanged ==
  ASSUME Recorded, UNCHANGED <<expr, memo>>
  PROVE  Recorded'
<1>1. CrateInv'
  BY DEF Recorded, CrateInv
<1>2. MemoLocal'
  BY DEF Recorded, MemoLocal, LeafKnown
<1>3. MemoGrounded'
  BY DEF Recorded, MemoGrounded
<1> QED
  BY <1>1, <1>2, <1>3 DEF Recorded

\* Going on to the leaf of a node's expression.
LEMMA EvaluateStep ==
  ASSUME TypeOK, NEW x \in Node, Evaluate(x)
  PROVE  /\ at' \in {"item", "value"} /\ result' \in Result /\ item' \in Item \cup {NoItem}
         /\ at' = "item" => item' \in Item /\ Asks(expr[x]) /\ expr[x].leaf.to = item'
         /\ at' = "value" => /\ ~Asks(expr[x]) /\ result' = Literal(expr[x])
                             /\ ~result'.ok => NoValue(expr, x)
<1>1. expr[x] \in ConstValue /\ result \in Result /\ item \in Item \cup {NoItem}
  BY DEF TypeOK
<1>2. CASE Asks(expr[x])
  <2>1. at' = "item" /\ item' = expr[x].leaf.to /\ result' = result
    BY <1>2 DEF Evaluate
  <2> QED
    BY <1>1, <1>2, <2>1, AsksItem
<1>3. CASE ~Asks(expr[x])
  <2>1. at' = "value" /\ result' = Literal(expr[x]) /\ item' = item
    BY <1>3 DEF Evaluate
  <2>2. result' \in Result
    BY <1>1, <2>1, LiteralFacts
  <2>3. ~result'.ok => Unfit(expr, x)
    BY <1>1, <1>3, <2>1, <2>2, ResolvedFacts DEF Unfit
  <2> QED
    BY <1>1, <1>3, <2>1, <2>2, <2>3, UnfitHasNoValue
<1> QED
  BY <1>2, <1>3

LEMMA VisitItemInv == IInv /\ VisitItem => IInv'
<1> SUFFICES ASSUME IInv, VisitItem PROVE IInv'
  OBVIOUS
<1>1. /\ at = "visit" /\ todo # <<>> /\ Head(todo) \in Item
      /\ root' = Head(todo) /\ todo' = Tail(todo) /\ at' = "item" /\ item' = Head(todo)
      /\ UNCHANGED <<expr, result, stack, resolving, memo, diagnostics>>
  BY DEF VisitItem
<1>2. TypeOK /\ Recorded /\ StackInv /\ Visited /\ ReportedInv
  BY DEF IInv, Recorded
<1>3. Head(todo) \in Node /\ Tail(todo) \in Seq(Node) /\ ToSet(todo) = ToSet(todo') \cup {root'}
  BY <1>1, <1>2, ToSetHeadTail DEF TypeOK
<1>4. stack = <<>>
  BY <1>1, <1>2 DEF StackInv
<1>5. TypeOK'
  <2>1. item' \in Item /\ item' # NoItem
    BY <1>1, NodesAssumption
  <2>2. todo' \in Seq(Node) /\ root' \in Node
    BY <1>1, <1>3
  <2> QED
    BY <1>1, <1>2, <2>1, <2>2 DEF TypeOK
<1>6. StackInv'
  BY <1>1, <1>2, <1>3, <1>4 DEF StackInv, Asking
<1>7. Recorded'
  BY <1>1, <1>2, RecordedUnchanged
<1>8. ResultInv'
  BY <1>1 DEF ResultInv
<1>9. Visited' /\ ReportedInv'
  BY <1>1, <1>2, <1>3 DEF Visited, ReportedInv
<1> QED
  BY <1>1, <1>5, <1>6, <1>7, <1>8, <1>9 DEF IInv, Recorded

LEMMA VisitLengthInv == IInv /\ VisitLength => IInv'
<1> SUFFICES ASSUME IInv, VisitLength PROVE IInv'
  OBVIOUS
<1> DEFINE x == Head(todo)
<1>1. /\ at = "visit" /\ todo # <<>> /\ root' = x /\ todo' = Tail(todo) /\ stack' = <<x>>
      /\ Evaluate(x) /\ UNCHANGED <<expr, resolving, memo, diagnostics>>
  BY DEF VisitLength
<1>2. TypeOK /\ Recorded /\ StackInv /\ Visited /\ ReportedInv
  BY DEF IInv, Recorded
<1>3. x \in Node /\ Tail(todo) \in Seq(Node) /\ ToSet(todo) = ToSet(todo') \cup {root'}
  BY <1>1, <1>2, ToSetHeadTail DEF TypeOK
<1>4. resolving = {}
  <2>1. stack = <<>>
    BY <1>1, <1>2 DEF StackInv
  <2> QED
    BY <1>2, <2>1 DEF StackInv
<1>5. /\ stack' \in Seq(Node) /\ stack' # <<>> /\ Len(stack') = 1 /\ DOMAIN stack' = 1..1
      /\ stack'[1] = x /\ Top' = x
  BY <1>1, <1>3 DEF Top
<1>6. /\ at' \in {"item", "value"} /\ result' \in Result /\ item' \in Item \cup {NoItem}
      /\ at' = "item" => item' \in Item /\ Asks(expr[x]) /\ expr[x].leaf.to = item'
      /\ at' = "value" => /\ ~Asks(expr[x]) /\ result' = Literal(expr[x])
                          /\ ~result'.ok => NoValue(expr, x)
  BY <1>1, <1>2, <1>3, EvaluateStep
<1>7. TypeOK'
  BY <1>1, <1>2, <1>3, <1>5, <1>6, NodesAssumption DEF TypeOK
<1>8. StackInv'
  BY <1>1, <1>4, <1>5, <1>6 DEF StackInv, Asking
<1>9. Recorded'
  BY <1>1, <1>2, RecordedUnchanged
<1>10. ResultInv'
  BY <1>1, <1>5, <1>6 DEF ResultInv, LeafKnown
<1>11. Visited' /\ ReportedInv'
  BY <1>1, <1>2, <1>3, <1>6 DEF Visited, ReportedInv
<1> QED
  BY <1>6, <1>7, <1>8, <1>9, <1>10, <1>11 DEF IInv, Recorded

LEMMA RememberedInv == IInv /\ Remembered => IInv'
<1> SUFFICES ASSUME IInv, Remembered PROVE IInv'
  OBVIOUS
<1>1. /\ at = "item" /\ item \in DOMAIN memo /\ at' = "value" /\ result' = memo[item]
      /\ UNCHANGED <<expr, todo, root, item, stack, resolving, memo, diagnostics>>
  BY DEF Remembered
<1>2. TypeOK /\ Recorded /\ StackInv /\ Visited /\ ReportedInv
  BY DEF IInv, Recorded
<1>3. result' \in Result /\ result'.ok
  BY <1>1, <1>2 DEF TypeOK
<1>4. TypeOK'
  BY <1>1, <1>2, <1>3 DEF TypeOK
<1>5. StackInv'
  BY <1>1, <1>2 DEF StackInv, Top
<1>6. ResultInv'
  BY <1>1, <1>2, <1>3 DEF StackInv, ResultInv, LeafKnown, Top
<1>7. Visited' /\ ReportedInv'
  BY <1>1, <1>2 DEF Visited, ReportedInv
<1> QED
  BY <1>1, <1>2, <1>4, <1>5, <1>6, <1>7, RecordedUnchanged DEF IInv, Recorded

LEMMA CyclicInv == IInv /\ Cyclic => IInv'
<1> SUFFICES ASSUME IInv, Cyclic PROVE IInv'
  OBVIOUS
<1> DEFINE n == Len(stack)
           S == {stack[i] : i \in 1..n}
<1>1. /\ at = "item" /\ item \in resolving /\ at' = "value" /\ result' = Err
      /\ UNCHANGED <<expr, todo, root, item, stack, resolving, memo, diagnostics>>
  BY DEF Cyclic
<1>2. TypeOK /\ Recorded /\ StackInv /\ Visited /\ ReportedInv
  BY DEF IInv, Recorded
<1>3. /\ n \in Nat /\ DOMAIN stack = 1..n /\ \A k \in 1..n : stack[k] \in Node
      /\ stack # <<>> => n \in 1..n /\ Top \in Node /\ Top = stack[n]
  BY <1>2, StackTyped
<1>4. item \in S /\ stack # <<>>
  <2>1. PICK i \in DOMAIN stack : stack[i] = item
    BY <1>1, <1>2 DEF StackInv
  <2> QED
    BY <1>3, <2>1
<1>5. Hopeless(expr, S)
  <2> SUFFICES ASSUME NEW i \in 1..n
               PROVE  Asks(expr[stack[i]]) /\ expr[stack[i]].leaf.to \in S
    BY DEF Hopeless
  <2>1. CASE i = n
    BY <1>1, <1>2, <1>3, <1>4, <2>1 DEF StackInv
  <2>2. CASE i # n
    <3>1. i \in 1..(n - 1) /\ i + 1 \in 1..n
      <4>1. n \in Nat
        BY <1>3
      <4> QED
        BY <2>2, <4>1, Indices
    <3>2. Asks(expr[stack[i]]) /\ expr[stack[i]].leaf.to = stack[i + 1]
      BY <1>2, <3>1 DEF StackInv, Asking
    <3> QED
      BY <3>1, <3>2
  <2> QED
    BY <2>1, <2>2
<1>6. NoValue(expr, Top)
  <2>1. S \in SUBSET Node /\ Top \in S
    BY <1>3, <1>4
  <2> QED
    BY <1>5, <2>1 DEF NoValue
<1>7. TypeOK'
  BY <1>1, <1>2, ErrTyped DEF TypeOK
<1>8. StackInv'
  BY <1>1, <1>2 DEF StackInv, Top
<1>9. ResultInv'
  BY <1>1, <1>4, <1>6, ErrTyped DEF ResultInv, Top
<1>10. Visited' /\ ReportedInv'
  BY <1>1, <1>2 DEF Visited, ReportedInv
<1> QED
  BY <1>1, <1>2, <1>7, <1>8, <1>9, <1>10, RecordedUnchanged DEF IInv, Recorded

LEMMA EnterInv == IInv /\ Enter => IInv'
<1> SUFFICES ASSUME IInv, Enter PROVE IInv'
  OBVIOUS
<1> DEFINE n == Len(stack)
<1>1. /\ at = "item" /\ resolving' = resolving \cup {item} /\ stack' = Append(stack, item)
      /\ Evaluate(item) /\ UNCHANGED <<expr, todo, root, memo, diagnostics>>
  BY DEF Enter
<1>2. TypeOK /\ Recorded /\ StackInv /\ Visited /\ ReportedInv
  BY DEF IInv, Recorded
<1>3. /\ n \in Nat /\ DOMAIN stack = 1..n /\ \A k \in 1..n : stack[k] \in Node
      /\ stack # <<>> => n \in 1..n /\ Top = stack[n]
  BY <1>2, StackTyped
<1>4. item \in Item /\ item \in Node
  BY <1>1, <1>2 DEF TypeOK, Node
<1>5. /\ stack' \in Seq(Node) /\ stack' # <<>> /\ Len(stack') = n + 1 /\ DOMAIN stack' = 1..(n + 1)
      /\ stack'[n + 1] = item /\ \A k \in 1..n : stack'[k] = stack[k]
  <2>1. stack \in Seq(Node)
    BY <1>2 DEF TypeOK
  <2> QED
    BY <1>1, <1>3, <1>4, <2>1
<1>6. Top' = item
  BY <1>5 DEF Top
<1>7. /\ at' \in {"item", "value"} /\ result' \in Result /\ item' \in Item \cup {NoItem}
      /\ at' = "item" => item' \in Item /\ Asks(expr[item]) /\ expr[item].leaf.to = item'
      /\ at' = "value" => /\ ~Asks(expr[item]) /\ result' = Literal(expr[item])
                          /\ ~result'.ok => NoValue(expr, item)
  BY <1>1, <1>2, <1>4, EvaluateStep
<1>8. TypeOK'
  <2>1. item' # NoItem \/ at' # "item"
    BY <1>7, NodesAssumption
  <2>2. resolving' \subseteq Item
    BY <1>1, <1>2, <1>4 DEF TypeOK
  <2> QED
    BY <1>1, <1>2, <1>5, <1>7, <2>1, <2>2 DEF TypeOK
<1>9. StackInv'
  <2>1. Asking(expr', stack')
    <3> SUFFICES ASSUME NEW i \in 1..n
                 PROVE  Asks(expr[stack'[i]]) /\ expr[stack'[i]].leaf.to = stack'[i + 1]
      <4>1. Len(stack') - 1 = n
        BY <1>3, <1>5
      <4> QED
        BY <1>1, <4>1 DEF Asking
    <3>1. CASE i = n
      <4>1. stack # <<>> /\ Top = stack[n]
        BY <1>3, <3>1
      <4>2. Asks(expr[stack[n]]) /\ expr[stack[n]].leaf.to = item
        BY <1>1, <1>2, <4>1 DEF StackInv
      <4> QED
        BY <1>5, <3>1, <4>2
    <3>2. CASE i # n
      <4>1. i \in 1..(n - 1) /\ i + 1 \in 1..n
        <5>1. n \in Nat
          BY <1>3
        <5> QED
          BY <3>2, <5>1, Indices
      <4>2. Asks(expr[stack[i]]) /\ expr[stack[i]].leaf.to = stack[i + 1]
        BY <1>2, <4>1 DEF StackInv, Asking
      <4> QED
        BY <1>5, <4>1, <4>2
    <3> QED
      BY <3>1, <3>2
  <2>2. stack'[1] = root'
    <3>1. CASE stack = <<>>
      <4>1. n = 0
        BY <3>1
      <4> QED
        BY <1>1, <1>2, <1>5, <3>1, <4>1 DEF StackInv
    <3>2. CASE stack # <<>>
      <4>1. 1 \in 1..n
        BY <1>3, <3>2
      <4> QED
        BY <1>1, <1>2, <1>5, <3>2, <4>1 DEF StackInv
    <3> QED
      BY <3>1, <3>2
  <2>3. \A x \in resolving' : \E i \in DOMAIN stack' : stack'[i] = x
    <3> TAKE x \in resolving'
    <3>1. CASE x = item
      <4>1. n + 1 \in DOMAIN stack'
        BY <1>3, <1>5
      <4> QED
        BY <1>5, <3>1, <4>1
    <3>2. CASE x \in resolving
      <4>1. PICK i \in 1..n : stack[i] = x
        BY <1>2, <1>3, <3>2 DEF StackInv
      <4>2. i \in DOMAIN stack'
        <5>1. n \in Nat
          BY <1>3
        <5> QED
          BY <1>5, <5>1, Indices
      <4> QED
        BY <1>5, <4>1, <4>2
    <3> QED
      BY <1>1, <3>1, <3>2
  <2> QED
    BY <1>1, <1>5, <1>6, <1>7, <2>1, <2>2, <2>3 DEF StackInv
<1>10. ResultInv'
  BY <1>1, <1>5, <1>6, <1>7 DEF ResultInv, LeafKnown
<1>11. Visited' /\ ReportedInv'
  BY <1>1, <1>2, <1>7 DEF Visited, ReportedInv
<1> QED
  BY <1>1, <1>2, <1>7, <1>8, <1>9, <1>10, <1>11, RecordedUnchanged DEF IInv, Recorded

\* The value that Return records for the node on top of the stack.
LEMMA ReturnedValue ==
  ASSUME IInv, at = "value", stack # <<>>, NEW r, r = Resolved(expr[Top], result)
  PROVE  /\ Top \in Node /\ r \in Result
         /\ r.ok => /\ result.ok /\ LeafKnown(expr, memo, Top, result)
                    /\ r.kind = Expected(expr[Top])
                    /\ r.kind \notin Signed => r.value >= 0
         /\ ~r.ok => NoValue(expr, Top)
<1>1. TypeOK /\ MemoLocal /\ ResultInv
  BY DEF IInv
<1>2. Top \in Node /\ expr[Top] \in ConstValue /\ result \in Result
  BY <1>1, StackTyped DEF TypeOK
<1>3. r \in Result
  BY <1>2, ResolvedFacts
<1>4. /\ result.ok => LeafKnown(expr, memo, Top, result)
      /\ ~result.ok => NoValue(expr, Top)
  BY <1>1 DEF ResultInv
<1>5. ASSUME r.ok
      PROVE  /\ result.ok /\ r.kind = Expected(expr[Top])
             /\ r.kind \notin Signed => r.value >= 0
  <2>1. /\ result.ok /\ result.kind = Expected(expr[Top]) /\ r.kind = Expected(expr[Top])
        /\ r.value = Negated(expr[Top].neg, result.value)
    BY <1>2, <1>5, ResolvedFacts
  <2>2. ASSUME r.kind \notin Signed
        PROVE  expr[Top].neg = 0 /\ result.value >= 0
    <3>1. NegOk(expr[Top])
      BY <1>2, <1>4, <2>1, AsksItem, LiteralFacts DEF LeafKnown
    <3>2. expr[Top].neg = 0
      <4>1. expr[Top].neg \in Nat
        BY <1>2 DEF ConstValue
      <4> QED
        BY <2>1, <2>2, <3>1, <4>1 DEF NegOk
    <3>3. result.value >= 0
      BY <1>1, <1>2, <1>4, <2>1, <2>2, LiteralFacts DEF LeafKnown, MemoLocal
    <3> QED
      BY <3>2, <3>3
  <2>3. r.kind \notin Signed => r.value >= 0
    <3>1. expr[Top].neg \in Nat /\ result.value \in (-MaxInt)..MaxInt
      BY <1>2 DEF ConstValue, Result
    <3> QED
      BY <2>1, <2>2, <3>1, NegatedTyped
  <2> QED
    BY <2>1, <2>3
<1>6. ASSUME ~r.ok, result.ok
      PROVE  Unfit(expr, Top)
  <2>1. LeafKnown(expr, memo, Top, result)
    BY <1>4, <1>6
  <2>2. CASE ~Asks(expr[Top])
    BY <1>6, <2>1, <2>2 DEF Unfit, LeafKnown
  <2>3. CASE Asks(expr[Top])
    <3>1. result.kind = Expected(expr[expr[Top].leaf.to])
      BY <1>1, <2>1, <2>3 DEF LeafKnown, MemoLocal
    <3>2. expr[Top].kind = "array" \/ result.kind # Expected(expr[Top])
      <4> SUFFICES ASSUME expr[Top].kind # "array", result.kind = Expected(expr[Top])
                   PROVE  FALSE
        OBVIOUS
      <4>1. expr[Top].neg \in Nat /\ result.kind \in Kind /\ result.value \in (-MaxInt)..MaxInt
        BY <1>2 DEF ConstValue, Result
      <4>2. r = Ok(Expected(expr[Top]), Negated(expr[Top].neg, result.value))
        BY <1>6 DEF Resolved, Matches
      <4>3. Negated(expr[Top].neg, result.value) \in (-MaxInt)..MaxInt
        BY <4>1, NegatedTyped
      <4>4. r.ok
        BY <4>1, <4>2, <4>3, OkTyped
      <4> QED
        BY <1>6, <4>4
    <3> QED
      BY <2>3, <3>1, <3>2 DEF Unfit
  <2> QED
    BY <2>2, <2>3
<1>7. ~r.ok => NoValue(expr, Top)
  BY <1>2, <1>4, <1>6, UnfitHasNoValue
<1> QED
  BY <1>2, <1>3, <1>4, <1>5, <1>7

\* What Return leaves in the memo: the old values, and the new one.
LEMMA ReturnRecords ==
  ASSUME IInv, Return
  PROVE  /\ \A x \in DOMAIN memo : x \in DOMAIN memo' /\ memo'[x] = memo[x]
         /\ DOMAIN memo' \subseteq DOMAIN memo \cup {Top}
         /\ result'.ok => Top \in DOMAIN memo' /\ memo'[Top] = result'
         /\ ~result'.ok => memo' = memo
<1> DEFINE r == Resolved(expr[Top], result)
<1>1. at = "value" /\ stack # <<>> /\ result' = r /\ Record(Top, r)
  BY DEF Return
<1>2. r.ok => LeafKnown(expr, memo, Top, result)
  BY <1>1, ReturnedValue
<1>3. CASE r.ok
  <2>1. memo' = [y \in DOMAIN memo \cup {Top} |-> IF y = Top THEN r ELSE memo[y]]
    BY <1>1, <1>3 DEF Record, Remembers, Keyed
  <2>2. Top \in DOMAIN memo => memo[Top] = r
    <3> SUFFICES ASSUME Top \in DOMAIN memo PROVE memo[Top] = r
      OBVIOUS
    <3>1. PICK q \in Result : LeafKnown(expr, memo, Top, q) /\ memo[Top] = Resolved(expr[Top], q)
      BY DEF IInv, MemoLocal
    <3>2. q = result
      BY <1>2, <1>3, <3>1 DEF LeafKnown
    <3> QED
      BY <3>1, <3>2
  <2> QED
    BY <1>1, <1>3, <2>1, <2>2
<1>4. CASE ~r.ok
  BY <1>1, <1>4 DEF Record, Remembers
<1> QED
  BY <1>3, <1>4

LEMMA ReturnInv == IInv /\ Return => IInv'
<1> SUFFICES ASSUME IInv, Return PROVE IInv'
  OBVIOUS
<1> DEFINE n == Len(stack)
<1>1. /\ at = "value" /\ stack # <<>> /\ result' = Resolved(expr[Top], result)
      /\ stack' = SubSeq(stack, 1, n - 1) /\ resolving' = resolving \ {Top}
      /\ UNCHANGED <<expr, todo, root, at, item, diagnostics>>
  BY DEF Return, Popped
<1>2. TypeOK /\ CrateInv /\ StackInv /\ MemoLocal /\ MemoGrounded /\ Visited /\ ReportedInv
  BY DEF IInv
<1>3. /\ n \in Nat /\ DOMAIN stack = 1..n /\ n \in 1..n /\ Top \in Node /\ Top = stack[n]
      /\ stack[1] = root
  BY <1>1, <1>2, StackTyped DEF StackInv
<1>4. /\ result' \in Result
      /\ result'.ok => /\ result.ok /\ LeafKnown(expr, memo, Top, result)
                       /\ result'.kind = Expected(expr[Top])
                       /\ result'.kind \notin Signed => result'.value >= 0
      /\ ~result'.ok => NoValue(expr, Top)
  BY <1>1, ReturnedValue
<1>5. /\ \A x \in DOMAIN memo : x \in DOMAIN memo' /\ memo'[x] = memo[x]
      /\ DOMAIN memo' \subseteq DOMAIN memo \cup {Top}
      /\ result'.ok => Top \in DOMAIN memo' /\ memo'[Top] = result'
      /\ ~result'.ok => memo' = memo
  BY ReturnRecords
<1>6. /\ stack' \in Seq(Node) /\ Len(stack') = n - 1 /\ DOMAIN stack' = 1..(n - 1)
      /\ \A k \in 1..(n - 1) : stack'[k] = stack[k]
  <2>1. stack \in Seq(Node) /\ stack # <<>> /\ stack' = SubSeq(stack, 1, n - 1)
    BY <1>1, <1>2 DEF TypeOK
  <2>2. n \in Nat \ {0} /\ DOMAIN stack = 1..n
    BY <2>1
  <2>3. stack' \in Seq(Node) /\ Len(stack') = n - 1 /\ \A k \in 1..(n - 1) : stack'[k] = stack[k]
    BY <2>1, <2>2
  <2>4. DOMAIN stack' = 1..(n - 1)
    BY <2>2, <2>3
  <2> QED
    BY <2>3, <2>4
<1>n. n \in Nat
  BY <1>3
<1>7. TypeOK'
  <2>1. \A x \in DOMAIN memo' : x \in Node /\ memo'[x] \in Result /\ memo'[x].ok
    BY <1>2, <1>3, <1>4, <1>5 DEF TypeOK
  <2> QED
    BY <1>1, <1>2, <1>4, <1>6, <2>1 DEF TypeOK
<1>8. StackInv'
  <2>1. Asking(expr', stack')
    <3> SUFFICES ASSUME NEW i \in 1..(n - 2)
                 PROVE  Asks(expr[stack'[i]]) /\ expr[stack'[i]].leaf.to = stack'[i + 1]
      <4>1. Len(stack') - 1 = n - 2
        BY <1>n, <1>6
      <4> QED
        BY <1>1, <4>1 DEF Asking
    <3>1. i \in 1..(n - 1) /\ i + 1 \in 1..(n - 1)
      BY <1>n
    <3> QED
      BY <1>2, <1>6, <3>1 DEF StackInv, Asking
  <2>2. stack' # <<>> => stack'[1] = root'
    <3> SUFFICES ASSUME stack' # <<>> PROVE stack'[1] = root'
      OBVIOUS
    <3>1. 1 \in 1..(n - 1)
      BY <1>n, <1>6
    <3> QED
      BY <1>1, <1>3, <1>6, <3>1
  <2>3. \A x \in resolving' : \E i \in DOMAIN stack' : stack'[i] = x
    <3> TAKE x \in resolving'
    <3>1. PICK i \in 1..n : stack[i] = x
      BY <1>1, <1>2, <1>3, SMTT(60) DEF StackInv
    <3>2. i # n
      BY <1>1, <1>3, <3>1, ZenonT(60)
    <3>3. i \in 1..(n - 1)
      BY <1>n, <3>2, Indices
    <3> QED
      BY <1>6, <3>1, <3>3
  <2> QED
    BY <1>1, <1>2, <2>1, <2>2, <2>3 DEF StackInv
<1>9. CrateInv'
  BY <1>1, <1>2 DEF CrateInv
<1>10. MemoLocal'
  <2> SUFFICES ASSUME NEW x \in DOMAIN memo'
               PROVE  /\ memo'[x].ok /\ memo'[x].kind = Expected(expr[x])
                      /\ \E q \in Result : LeafKnown(expr, memo', x, q) /\ memo'[x] = Resolved(expr[x], q)
                      /\ memo'[x].kind \notin Signed => memo'[x].value >= 0
    BY <1>1 DEF MemoLocal
  <2>1. CASE x \in DOMAIN memo
    <3>1. PICK q \in Result : LeafKnown(expr, memo, x, q) /\ memo[x] = Resolved(expr[x], q)
      BY <1>2, <2>1 DEF MemoLocal
    <3>2. LeafKnown(expr, memo', x, q)
      BY <1>5, <3>1 DEF LeafKnown
    <3> QED
      BY <1>2, <1>5, <2>1, <3>1, <3>2 DEF MemoLocal
  <2>2. CASE x \notin DOMAIN memo
    <3>1. x = Top /\ result'.ok /\ memo'[x] = result'
      BY <1>5, <2>2
    <3>2. LeafKnown(expr, memo', x, result)
      BY <1>4, <1>5, <3>1 DEF LeafKnown
    <3>3. result \in Result
      BY <1>2 DEF TypeOK
    <3> QED
      BY <1>1, <1>4, <3>1, <3>2, <3>3
  <2> QED
    BY <2>1, <2>2
<1>11. MemoGrounded'
  <2> SUFFICES ASSUME NEW S \in SUBSET Node, Hopeless(expr, S), NEW x \in S, x \in DOMAIN memo'
               PROVE  FALSE
    BY <1>1 DEF MemoGrounded
  <2>1. x \notin DOMAIN memo
    BY <1>2 DEF MemoGrounded
  <2>2. x = Top /\ result'.ok
    BY <1>5, <2>1
  <2>3. LeafKnown(expr, memo, Top, result) /\ result'.kind = Expected(expr[Top])
    BY <1>4, <2>2
  <2>4. ~Unfit(expr, Top)
    <3>1. expr[Top] \in ConstValue /\ result \in Result
      BY <1>2, <1>3 DEF TypeOK
    <3>2. result.kind = Expected(expr[Top]) /\ expr[Top].kind # "array"
      BY <1>1, <2>2, <3>1, ResolvedFacts
    <3>3. CASE Asks(expr[Top])
      <4>1. result.kind = Expected(expr[expr[Top].leaf.to])
        BY <1>2, <2>3, <3>3 DEF LeafKnown, MemoLocal
      <4> QED
        BY <3>2, <3>3, <4>1 DEF Unfit
    <3>4. CASE ~Asks(expr[Top])
      BY <1>1, <2>2, <2>3, <3>4 DEF Unfit, LeafKnown
    <3> QED
      BY <3>3, <3>4
  <2>5. Asks(expr[Top]) /\ expr[Top].leaf.to \in S
    BY <2>2, <2>4 DEF Hopeless
  <2>6. expr[Top].leaf.to \in DOMAIN memo
    BY <2>3, <2>5 DEF LeafKnown
  <2> QED
    BY <1>2, <2>5, <2>6 DEF MemoGrounded
<1>12. ResultInv'
  <2>1. CASE stack' = <<>>
    <3>1. n = 1
      <4>1. Len(stack') = 0 /\ Len(stack') = n - 1
        BY <1>6, <2>1
      <4> QED
        BY <1>n, <4>1
    <3>2. Top = root
      BY <1>3, <3>1
    <3> QED
      BY <1>1, <1>4, <1>5, <2>1, <3>2 DEF ResultInv
  <2>2. CASE stack' # <<>>
    <3>1. n - 1 \in 1..(n - 1) /\ n - 1 + 1 = n
      BY <1>n, <1>6, <2>2
    <3>2. n - 1 \in 1..n
      BY <1>n, <3>1
    <3>3. Top' = stack[n - 1]
      BY <1>6, <3>1 DEF Top
    <3>4. Asks(expr[Top']) /\ expr[Top'].leaf.to = Top
      BY <1>2, <1>3, <3>1, <3>3 DEF StackInv, Asking
    <3>5. Top' \in Node
      BY <1>2, <3>2, <3>3, StackTyped
    <3>6. ~result'.ok => NoValue(expr, Top')
      BY <1>4, <3>4, <3>5, AskerHasNoValue
    <3>7. result'.ok => LeafKnown(expr, memo', Top', result')
      BY <1>5, <3>4 DEF LeafKnown
    <3> QED
      BY <1>1, <2>2, <3>6, <3>7 DEF ResultInv
  <2> QED
    BY <2>1, <2>2
<1>13. Visited' /\ ReportedInv'
  BY <1>1, <1>2, <1>5 DEF Visited, ReportedInv
<1> QED
  BY <1>1, <1>7, <1>8, <1>9, <1>10, <1>11, <1>12, <1>13 DEF IInv

LEMMA ReportInv == IInv /\ Report => IInv'
<1> SUFFICES ASSUME IInv, Report PROVE IInv'
  OBVIOUS
<1>1. /\ at = "value" /\ stack = <<>> /\ at' = "visit"
      /\ diagnostics' = IF result.ok THEN diagnostics ELSE Append(diagnostics, root)
      /\ UNCHANGED <<expr, todo, root, item, result, stack, resolving, memo>>
  BY DEF Report
<1>2. TypeOK /\ Recorded /\ StackInv /\ ResultInv /\ Visited /\ ReportedInv
  BY DEF IInv, Recorded
<1>3. root \in Node /\ diagnostics \in Seq(Node)
  BY <1>1, <1>2 DEF TypeOK, StackInv
<1>4. /\ diagnostics' \in Seq(Node)
      /\ ToSet(diagnostics') = IF result.ok THEN ToSet(diagnostics) ELSE ToSet(diagnostics) \cup {root}
  BY <1>1, <1>3, ToSetAppend
<1>5. /\ result.ok => root \in DOMAIN memo
      /\ ~result.ok => NoValue(expr, root)
  BY <1>1, <1>2 DEF ResultInv
<1>6. TypeOK'
  BY <1>1, <1>2, <1>4 DEF TypeOK
<1>7. StackInv'
  BY <1>1, <1>2 DEF StackInv, Asking
<1>8. ResultInv'
  BY <1>1 DEF ResultInv
<1>9. Visited' /\ ReportedInv'
  BY <1>1, <1>2, <1>4, <1>5 DEF Visited, ReportedInv
<1> QED
  BY <1>1, <1>2, <1>6, <1>7, <1>8, <1>9, RecordedUnchanged DEF IInv, Recorded

LEMMA FinishInv == IInv /\ Finish => IInv'
<1> SUFFICES ASSUME IInv, Finish PROVE IInv'
  OBVIOUS
<1>1. /\ at = "visit" /\ todo = <<>> /\ at' = "done"
      /\ UNCHANGED <<expr, todo, root, item, result, stack, resolving, memo, diagnostics>>
  BY DEF Finish
<1>2. TypeOK /\ Recorded /\ StackInv /\ Visited /\ ReportedInv
  BY DEF IInv, Recorded
<1>3. TypeOK' /\ StackInv' /\ ResultInv'
  BY <1>1, <1>2 DEF TypeOK, StackInv, ResultInv, Asking, Top
<1>4. Visited' /\ ReportedInv'
  BY <1>1, <1>2 DEF Visited, ReportedInv
<1> QED
  BY <1>1, <1>2, <1>3, <1>4, RecordedUnchanged DEF IInv, Recorded

LEMMA InitInv == Init => IInv
<1> SUFFICES ASSUME Init PROVE IInv
  OBVIOUS
<1>1. PICK p \in Programs : expr = p.expr /\ todo = p.order
  BY DEF Init
<1>2. /\ root = NoItem /\ at = "visit" /\ item = NoItem /\ result = Err /\ stack = <<>> /\ resolving = {}
      /\ DOMAIN memo = {} /\ diagnostics = <<>>
  BY DEF Init
<1>3. Program(p)
  BY ProgramsAssumption
<1>5. TypeOK
  BY <1>1, <1>2, <1>3, ErrTyped DEF TypeOK, Program
<1>6. CrateInv
  BY <1>1, <1>3 DEF CrateInv, Program
<1>7. StackInv /\ MemoLocal /\ MemoGrounded /\ ResultInv
  BY <1>2 DEF StackInv, Asking, MemoLocal, MemoGrounded, ResultInv
<1>8. \A x \in Node : x \in ToSet(todo)
  BY <1>1, <1>3 DEF Program, ToSet
<1>9. ReportedInv
  <2>1. ToSet(diagnostics) = {}
    BY <1>2 DEF ToSet
  <2> QED
    BY <2>1 DEF ReportedInv
<1> QED
  BY <1>2, <1>5, <1>6, <1>7, <1>8, <1>9 DEF IInv, Visited

LEMMA NextInv == IInv /\ [Next]_vars => IInv'
<1> SUFFICES ASSUME IInv, [Next]_vars PROVE IInv'
  OBVIOUS
<1>1. CASE UNCHANGED vars
  <2>1. UNCHANGED <<expr, todo, root, at, item, result, stack, resolving, memo, diagnostics>>
    BY <1>1 DEF vars
  <2>2. TypeOK' /\ StackInv'
    BY <2>1 DEF IInv, TypeOK, StackInv, Asking, Top
  <2>3. ResultInv'
    BY <2>1 DEF IInv, ResultInv, LeafKnown, Top
  <2>4. Visited' /\ ReportedInv'
    BY <2>1 DEF IInv, Visited, ReportedInv
  <2> QED
    BY <2>1, <2>2, <2>3, <2>4, RecordedUnchanged DEF IInv, Recorded
<1>2. CASE Next
  BY <1>2, VisitItemInv, VisitLengthInv, RememberedInv, CyclicInv, EnterInv, ReturnInv, ReportInv, FinishInv
     DEF Next
<1> QED
  BY <1>1, <1>2

(******************************** theorems **********************************)
\* The memo, the stack of askers and the result at hand stay consistent through every
\* step of resolve_const_item and resolve_const_value.
THEOREM InductiveInvariant == Spec => []IInv
<1>1. Init => IInv
  BY InitInv
<1>2. IInv /\ [Next]_vars => IInv'
  BY NextInv
<1> QED
  BY <1>1, <1>2, PTL DEF Spec

\* The variables keep their types; in particular no negation leaves the range of i64.
THEOREM TypeCorrect == Spec => []TypeOK
<1>1. IInv => TypeOK
  BY DEF IInv
<1> QED
  BY <1>1, InductiveInvariant, PTL

\* node_const never changes its mind about a node.
THEOREM ValuesAreStable == Spec => MemoIsStable
<1>1. IInv /\ [Next]_vars => [\A x \in DOMAIN memo : x \in DOMAIN memo' /\ memo'[x] = memo[x]]_vars
  <2> SUFFICES ASSUME IInv, Next
               PROVE  \A x \in DOMAIN memo : x \in DOMAIN memo' /\ memo'[x] = memo[x]
    OBVIOUS
  <2>1. CASE Return
    BY <2>1, ReturnRecords
  <2>2. CASE UNCHANGED memo
    BY <2>2
  <2> QED
    BY <2>1, <2>2 DEF Next, VisitItem, VisitLength, Remembered, Cyclic, Enter, Report, Finish
<1> QED
  BY <1>1, InductiveInvariant, PTL DEF Spec, MemoIsStable

\* Every item and every length of a crate without diagnostics has a value.
THEOREM AcceptedKnown == Spec => []AcceptedAreKnown
<1>1. IInv => AcceptedAreKnown
  <2> SUFFICES ASSUME IInv, at = "done", diagnostics = <<>>
               PROVE  DOMAIN memo = Node
    BY DEF AcceptedAreKnown
  <2>1. todo = <<>>
    BY DEF IInv
  <2>2. ToSet(diagnostics) = {} /\ ToSet(todo) = {}
    BY <2>1 DEF ToSet
  <2>3. DOMAIN memo \subseteq Node
    BY DEF IInv, TypeOK
  <2> QED
    BY <2>2, <2>3 DEF IInv, Visited
<1> QED
  BY <1>1, InductiveInvariant, PTL

\* The cast of a length to usize never meets a negative value.
THEOREM NaturalLengths == Spec => []LengthsAreNatural
<1>1. IInv => LengthsAreNatural
  <2> SUFFICES ASSUME IInv, NEW x \in Length, x \in DOMAIN memo
               PROVE  memo[x].value >= 0
    BY DEF LengthsAreNatural
  <2>1. expr[x].kind = "usize" /\ memo[x].kind = Expected(expr[x])
    BY DEF IInv, CrateInv, MemoLocal
  <2>2. memo[x].kind \notin Signed
    BY <2>1 DEF Expected, Signed
  <2> QED
    BY <2>2 DEF IInv, MemoLocal
<1> QED
  BY <1>1, InductiveInvariant, PTL

\* What is reported has no value: every way from it ends in a cycle or in an expression
\* that does not have the type expected of it.  What is recorded is on no such way.
Justified == /\ \A x \in ToSet(diagnostics) : NoValue(expr, x)
             /\ \A x \in DOMAIN memo : ~NoValue(expr, x)

THEOREM ReportsJustified == Spec => []Justified
<1>1. IInv => Justified
  <2> SUFFICES ASSUME IInv PROVE Justified
    OBVIOUS
  <2>1. \A x \in ToSet(diagnostics) : NoValue(expr, x)
    BY DEF IInv, ReportedInv
  <2>2. \A x \in DOMAIN memo : ~NoValue(expr, x)
    BY DEF IInv, MemoGrounded, NoValue
  <2> QED
    BY <2>1, <2>2 DEF Justified
<1> QED
  BY <1>1, InductiveInvariant, PTL
----------------------------------------------------------------------------

(********************************* meaning **********************************)
SignRec == [k \in Nat |-> IF k = 0 THEN 1 ELSE -Sign[k - 1]]

LEMMA SignUnfolds == Sign = SignRec
<1> DEFINE step == [x \in (Nat \ {0}) \X Int |-> -x[2]]
<1>1. step \in [(Nat \ {0}) \X Int -> Int] /\ 1 \in Int
  OBVIOUS
<1>2. PICK g \in [Nat -> Int] : g[0] = 1 /\ \A k \in Nat \ {0} : g[k] = step[<<k, g[k - 1]>>]
  <2> HIDE DEF step
  <2>1. \E g \in [Nat -> Int] : Iterates(g, 1, step)
    BY <1>1, RecursionOnNat
  <2> QED
    BY <2>1 DEF Iterates
<1>3. \A k \in Nat \ {0} : <<k, g[k - 1]>> \in (Nat \ {0}) \X Int
  OBVIOUS
<1>4. \A k \in Nat \ {0} : g[k] = -g[k - 1]
  BY <1>2, <1>3
<1>5. g = [k \in Nat |-> IF k = 0 THEN 1 ELSE -g[k - 1]]
  BY <1>2, <1>4
<1> QED
  BY <1>5 DEF Sign, SignRec

\* The parity of the negations decides.
LEMMA SignParity ==
  ASSUME NEW k \in Nat
  PROVE  Sign[k] = IF k % 2 = 0 THEN 1 ELSE -1
<1> DEFINE S == {j \in Nat : Sign[j] = IF j % 2 = 0 THEN 1 ELSE -1}
<1>1. Sign[0] = 1 /\ \A j \in Nat : Sign[j + 1] = -Sign[j]
  BY SignUnfolds DEF SignRec
<1>2. 0 \in S
  BY <1>1
<1>3. \A j \in Nat : j \in S => j + 1 \in S
  BY <1>1
<1> HIDE DEF S
<1>4. Nat \subseteq S
  BY <1>2, <1>3, SetInduction
<1> QED
  BY <1>4 DEF S

LEMMA SignNegates ==
  ASSUME NEW k \in Nat, NEW x \in Int
  PROVE  x * Sign[k] = Negated(k, x)
BY SignParity DEF Negated

\* The values a meaning may have.
Meant == [ok : BOOLEAN, kind : Kind, value : Int]

\* The parts of one level of Meaning: whose value the leaf of v is, the leaf's own
\* value, and what the expression makes of its leaf.
Names(v) == v.leaf.form = "path" /\ v.leaf.to # NoItem
OwnLeaf(v) == [ok |-> v.leaf.form # "path", value |-> v.leaf.value,
               kind |-> IF v.leaf.form = "bool" THEN "bool"
                        ELSE IF v.leaf.suffix = "none" /\ v.kind # "bool" THEN v.kind ELSE v.leaf.suffix]
FromLeaf(v, leaf) ==
  IF leaf.ok /\ v.kind \in Kind /\ leaf.kind = v.kind /\ (v.neg > 0 => v.kind \in {"i32", "isize"})
  THEN [ok |-> TRUE, kind |-> v.kind, value |-> leaf.value * Sign[v.neg]] ELSE Err

LEMMA FromLeafTyped ==
  ASSUME NEW v \in ConstValue, NEW leaf, leaf.ok => leaf.value \in Int
  PROVE  FromLeaf(v, leaf) \in Meant /\ (~FromLeaf(v, leaf).ok => FromLeaf(v, leaf) = Err)
<1>1. CASE leaf.ok /\ v.kind \in Kind /\ leaf.kind = v.kind /\ (v.neg > 0 => v.kind \in {"i32", "isize"})
  <2>1. Sign[v.neg] \in Int
    <3>1. v.neg \in Nat
      BY DEF ConstValue
    <3> QED
      BY <3>1, SignParity
  <2>2. leaf.value * Sign[v.neg] \in Int
    BY <1>1, <2>1
  <2> QED
    BY <1>1, <2>2 DEF FromLeaf, Meant
<1>2. CASE ~(leaf.ok /\ v.kind \in Kind /\ leaf.kind = v.kind /\ (v.neg > 0 => v.kind \in {"i32", "isize"}))
  BY <1>2, ErrTyped, SMTT(60) DEF FromLeaf, Meant, Result, Err, Kind
<1> QED
  BY <1>1, <1>2

\* The right-hand side of Meaning.
MeaningOf(g) ==
  [n \in Nat |-> [x \in Node |->
     LET v == expr[x]
         there == n > 0 /\ v.leaf.form = "path" /\ v.leaf.to # NoItem
         leaf == IF there THEN g[n - 1][v.leaf.to]
                 ELSE [ok |-> v.leaf.form # "path", value |-> v.leaf.value,
                       kind |-> IF v.leaf.form = "bool" THEN "bool"
                                ELSE IF v.leaf.suffix = "none" /\ v.kind # "bool" THEN v.kind ELSE v.leaf.suffix]
     IN IF leaf.ok /\ v.kind \in Kind /\ leaf.kind = v.kind /\ (v.neg > 0 => v.kind \in {"i32", "isize"})
        THEN [ok |-> TRUE, kind |-> v.kind, value |-> leaf.value * Sign[v.neg]] ELSE Err]]

LEMMA MeaningExists ==
  ASSUME NEW g, g = MeaningOf(g)
  PROVE  Meaning = MeaningOf(Meaning)
BY ZenonT(60) DEF Meaning, MeaningOf

\* Meaning is what its definition says: a function with these equations exists.
LEMMA MeaningUnfolds ==
  ASSUME TypeOK
  PROVE  /\ Meaning \in [Nat -> [Node -> Meant]]
         /\ \A n \in Nat, x \in Node :
              Meaning[n][x] = FromLeaf(expr[x], IF n > 0 /\ Names(expr[x]) THEN Meaning[n - 1][expr[x].leaf.to]
                                                                           ELSE OwnLeaf(expr[x]))
<1> DEFINE V == [Node -> Meant]
           a == [x \in Node |-> FromLeaf(expr[x], OwnLeaf(expr[x]))]
           From(m) == [x \in Node |-> FromLeaf(expr[x], IF Names(expr[x]) THEN m[expr[x].leaf.to] ELSE OwnLeaf(expr[x]))]
           step == [q \in (Nat \ {0}) \X V |-> From(q[2])]
           Body(g) == [n \in Nat |-> [x \in Node |->
                         FromLeaf(expr[x], IF n > 0 /\ Names(expr[x]) THEN g[n - 1][expr[x].leaf.to]
                                                                      ELSE OwnLeaf(expr[x]))]]
<1>1. \A x \in Node : expr[x] \in ConstValue /\ OwnLeaf(expr[x]).value \in Int
                      /\ (Names(expr[x]) => expr[x].leaf.to \in Node)
  BY MaxIntAssumption DEF TypeOK, ConstValue, Leaf, OwnLeaf, Names, Node
<1>2. a \in V
  BY <1>1, FromLeafTyped
<1>3. \A m \in V : From(m) \in V
  <2> SUFFICES ASSUME NEW m \in V, NEW x \in Node
               PROVE  FromLeaf(expr[x], IF Names(expr[x]) THEN m[expr[x].leaf.to] ELSE OwnLeaf(expr[x])) \in Meant
    OBVIOUS
  <2>1. CASE Names(expr[x])
    <3>1. m[expr[x].leaf.to] \in Meant
      BY <1>1, <2>1
    <3>2. m[expr[x].leaf.to].value \in Int
      BY <3>1 DEF Meant
    <3> QED
      BY <1>1, <2>1, <3>2, FromLeafTyped
  <2>2. CASE ~Names(expr[x])
    BY <1>1, <2>2, FromLeafTyped
  <2> QED
    BY <2>1, <2>2
<1>4. step \in [(Nat \ {0}) \X V -> V]
  <2> HIDE DEF V, From
  <2> QED
    BY <1>3
<1>5. PICK g \in [Nat -> V] : Iterates(g, a, step)
  <2> HIDE DEF V, a, step
  <2> QED
    BY <1>2, <1>4, RecursionOnNat
<1>6. ASSUME NEW n \in Nat \ {0} PROVE g[n] = From(g[n - 1])
  <2> HIDE DEF V, From, a
  <2>1. <<n, g[n - 1]>> \in (Nat \ {0}) \X V
    OBVIOUS
  <2>2. g[n] = step[<<n, g[n - 1]>>]
    BY <1>5 DEF Iterates
  <2> QED
    BY <2>1, <2>2
<1>7. g = Body(g)
  <2>1. ASSUME NEW n \in Nat PROVE g[n] = Body(g)[n]
    <3>1. CASE n = 0
      BY <3>1, <1>5 DEF Iterates
    <3>2. CASE n # 0
      BY <3>2, <1>6
    <3> QED
      BY <3>1, <3>2
  <2>2. g = [n \in Nat |-> g[n]]
    OBVIOUS
  <2> QED
    BY <2>1, <2>2
<1>8. ASSUME NEW h PROVE MeaningOf(h) = Body(h)
  <2>1. ASSUME NEW n \in Nat, NEW x \in Node PROVE MeaningOf(h)[n][x] = Body(h)[n][x]
    <3> DEFINE leaf == IF n > 0 /\ Names(expr[x]) THEN h[n - 1][expr[x].leaf.to] ELSE OwnLeaf(expr[x])
    <3>1. Body(h)[n][x] = FromLeaf(expr[x], leaf)
      OBVIOUS
    <3>2. MeaningOf(h)[n][x] = FromLeaf(expr[x], leaf)
      BY SMTT(60) DEF FromLeaf, Names, OwnLeaf, MeaningOf
    <3> HIDE DEF Body, leaf
    <3> QED
      BY <3>1, <3>2
  <2>2. MeaningOf(h) = [n \in Nat |-> [x \in Node |-> MeaningOf(h)[n][x]]]
    BY DEF MeaningOf
  <2>3. Body(h) = [n \in Nat |-> [x \in Node |-> Body(h)[n][x]]]
    OBVIOUS
  <2> HIDE DEF Body
  <2> QED
    BY <2>1, <2>2, <2>3
<1>9. g = MeaningOf(g)
  <2> HIDE DEF Body
  <2> QED
    BY <1>7, <1>8
<1>10. Meaning = MeaningOf(Meaning)
  BY <1>9, MeaningExists
<1>11. Meaning = Body(Meaning)
  <2> HIDE DEF Body
  <2> QED
    BY <1>8, <1>10
<1> HIDE DEF V, step
<1> DEFINE S == {n \in Nat : Meaning[n] \in V}
<1>12. 0 \in S
  <2>1. Meaning[0] = a
    BY <1>11 DEF a
  <2> QED
    BY <1>2, <2>1
<1>13. \A n \in Nat : n \in S => n + 1 \in S
  <2> SUFFICES ASSUME NEW n \in Nat, Meaning[n] \in V PROVE Meaning[n + 1] \in V
    OBVIOUS
  <2>1. Meaning[n + 1] = From(Meaning[n])
    <3>1. n + 1 \in Nat /\ n + 1 > 0 /\ (n + 1) - 1 = n
      BY SMTT(60)
    <3> DEFINE k == n + 1
    <3>2. Meaning[k] = [x \in Node |-> FromLeaf(expr[x], IF Names(expr[x]) THEN Meaning[k - 1][expr[x].leaf.to]
                                                                      ELSE OwnLeaf(expr[x]))]
      <4> HIDE DEF k
      <4>1. k \in Nat /\ k > 0
        BY <3>1 DEF k
      <4> QED
        BY <1>11, <4>1
    <3> QED
      BY <3>1, <3>2 DEF From
  <2> QED
    BY <1>3, <2>1
<1> HIDE DEF S
<1>14. Nat \subseteq S
  BY <1>12, <1>13, SetInduction
<1>15. \A n \in Nat : Meaning[n] \in V
  BY <1>14 DEF S
<1>16. Meaning \in [Nat -> [Node -> Meant]]
  BY <1>11, <1>15 DEF V
<1>17. ASSUME NEW n \in Nat, NEW x \in Node
       PROVE  Meaning[n][x] = FromLeaf(expr[x], IF n > 0 /\ Names(expr[x]) THEN Meaning[n - 1][expr[x].leaf.to]
                                                                           ELSE OwnLeaf(expr[x]))
  <2> DEFINE h == Meaning
             leaf == IF n > 0 /\ Names(expr[x]) THEN h[n - 1][expr[x].leaf.to] ELSE OwnLeaf(expr[x])
  <2> HIDE DEF h
  <2>1. Body(h)[n][x] = FromLeaf(expr[x], leaf)
    OBVIOUS
  <2> HIDE DEF Body, leaf
  <2>2. h = Body(h)
    BY <1>11 DEF h
  <2>3. h[n][x] = FromLeaf(expr[x], leaf)
    BY <2>1, <2>2, Zenon
  <2> QED
    BY <2>3 DEF h, leaf
<1> HIDE DEF Body
<1> QED
  BY <1>16, <1>17, Zenon

\* What one level makes of a leaf is what the resolver makes of it.
LEMMA FromLeafResolves ==
  ASSUME NEW v \in ConstValue, Asks(v), NEW r \in Meant
  PROVE  FromLeaf(v, r) = Resolved(v, r)
<1>0. v.neg \in Nat /\ r.value \in Int /\ v.kind \in Kind \cup {"array", "other"} /\ r.kind \in Kind
  BY DEF ConstValue, Meant
<1>1. r.value * Sign[v.neg] = Negated(v.neg, r.value)
  BY <1>0, SignNegates
<1>2. v.kind # "other" /\ (v.neg > 0 => Expected(v) \in Signed)
  BY DEF Asks, NegOk
<1>3. CASE v.kind = "array"
  <2>1. v.kind \notin Kind
    BY <1>3 DEF Kind, Signed
  <2> QED
    BY <1>3, <2>1 DEF FromLeaf, Resolved
<1>4. CASE v.kind # "array"
  <2>1. v.kind \in Kind /\ Expected(v) = v.kind
    BY <1>0, <1>2, <1>4 DEF Expected
  <2> QED
    BY <1>1, <1>2, <1>4, <2>1 DEF FromLeaf, Resolved, Matches, Ok, Signed
<1> QED
  BY <1>3, <1>4

LEMMA FromLeafUnanswered ==
  ASSUME NEW v \in ConstValue, Asks(v)
  PROVE  FromLeaf(v, OwnLeaf(v)) = Err
BY DEF Asks, FromLeaf, OwnLeaf

\* A node that asks for no constant has the value of its literal, or none.
LEMMA FromLeafLiteral ==
  ASSUME NEW v \in ConstValue, ~Asks(v), NEW r, Names(v) \/ r = OwnLeaf(v)
  PROVE  FromLeaf(v, r) = Resolved(v, Literal(v))
<1>0. /\ v.neg \in Nat /\ v.leaf.value \in Int /\ v.kind \in Kind \cup {"array", "other"}
      /\ v.leaf.form \in {"int", "bool", "path"} /\ v.leaf.suffix \in (Kind \ {"bool"}) \cup {"none"}
  BY MaxIntAssumption DEF ConstValue, Leaf
<1>1. "array" \notin Kind /\ "other" \notin Kind /\ "none" \notin Kind /\ "bool" \notin Signed /\ "bool" \in Kind
  BY DEF Kind, Signed
<1>2. CASE v.kind \notin Kind
  <2>1. FromLeaf(v, r) = Err
    BY <1>2 DEF FromLeaf
  <2>2. v.kind = "array" \/ v.kind = "other"
    BY <1>0, <1>2
  <2>3. v.kind = "other" => Literal(v) = Err
    BY DEF Literal
  <2> QED
    BY <2>1, <2>2, <2>3 DEF Resolved, Err
<1>3. CASE v.kind \in Kind /\ ~NegOk(v)
  <2>1. Expected(v) = v.kind /\ v.neg > 0 /\ v.kind \notin {"i32", "isize"}
    BY <1>1, <1>3 DEF NegOk, Expected, Signed
  <2>2. FromLeaf(v, r) = Err
    BY <2>1 DEF FromLeaf
  <2>3. Literal(v) = Err
    BY <1>3 DEF Literal
  <2> QED
    BY <2>2, <2>3 DEF Resolved, Err
<1>4. CASE v.kind \in Kind /\ NegOk(v)
  <2>1. Expected(v) = v.kind /\ v.kind # "array" /\ v.kind # "other" /\ (v.neg > 0 => v.kind \in {"i32", "isize"})
    BY <1>1, <1>4 DEF NegOk, Expected, Signed
  <2>2. ~Names(v) /\ r = OwnLeaf(v)
    BY <1>4, <2>1 DEF Asks, Names
  <2>3. CASE v.leaf.form = "path"
    <3>1. FromLeaf(v, r) = Err
      BY <2>2, <2>3 DEF FromLeaf, OwnLeaf
    <3>2. Literal(v) = Err
      BY <2>3 DEF Literal
    <3> QED
      BY <3>1, <3>2 DEF Resolved, Err
  <2>4. CASE v.leaf.form # "path"
    <3>1. r.ok = TRUE /\ r.value = v.leaf.value
          /\ (r.kind = v.kind <=> \/ v.leaf.form = "int" /\ v.kind # "bool" /\ SuffixOk(v)
                                  \/ v.leaf.form = "bool" /\ v.kind = "bool")
      <4>1. r.ok = TRUE /\ r.value = v.leaf.value
        BY <2>2, <2>4 DEF OwnLeaf
      <4>2. r.kind = IF v.leaf.form = "bool" THEN "bool"
                     ELSE IF v.leaf.suffix = "none" /\ v.kind # "bool" THEN v.kind ELSE v.leaf.suffix
        BY <2>2 DEF OwnLeaf
      <4> QED
        BY <1>0, <1>1, <1>4, <2>1, <2>4, <4>1, <4>2 DEF SuffixOk
    <3>2. v.leaf.value * Sign[v.neg] = Negated(v.neg, v.leaf.value)
      BY <1>0, SignNegates
    <3>3. CASE r.kind = v.kind
      <4>1. Literal(v) = Ok(v.kind, v.leaf.value)
        BY <1>4, <2>1, <3>1, <3>3 DEF Literal
      <4>2. FromLeaf(v, r) = [ok |-> TRUE, kind |-> v.kind, value |-> Negated(v.neg, v.leaf.value)]
        BY <1>4, <2>1, <3>1, <3>2, <3>3 DEF FromLeaf
      <4> QED
        BY <2>1, <4>1, <4>2 DEF Resolved, Matches, Ok
    <3>4. CASE r.kind # v.kind
      <4>1. Literal(v) = Err
        BY <1>4, <2>1, <3>1, <3>4 DEF Literal
      <4> QED
        BY <3>4, <4>1 DEF Resolved, Err, FromLeaf
    <3> QED
      BY <3>3, <3>4
  <2> QED
    BY <2>3, <2>4
<1> QED
  BY <1>2, <1>3, <1>4

LEMMA MeaningOfLiteral ==
  ASSUME TypeOK, NEW x \in Node, ~Asks(expr[x]), NEW n \in Nat
  PROVE  Meaning[n][x] = Resolved(expr[x], Literal(expr[x]))
<1>1. expr[x] \in ConstValue
  BY DEF TypeOK
<1> QED
  BY <1>1, MeaningUnfolds, FromLeafLiteral

LEMMA MeaningOfPath ==
  ASSUME TypeOK, NEW x \in Node, Asks(expr[x])
  PROVE  /\ expr[x].leaf.to \in Node
         /\ Meaning[0][x] = Err
         /\ \A n \in Nat : /\ Meaning[n][expr[x].leaf.to] \in Meant
                           /\ Meaning[n + 1][x] = Resolved(expr[x], Meaning[n][expr[x].leaf.to])
<1>1. expr[x] \in ConstValue /\ Names(expr[x]) /\ expr[x].leaf.to \in Node
  BY AsksItem DEF TypeOK, Names, Asks, Node
<1>2. Meaning[0][x] = Err
  BY <1>1, MeaningUnfolds, FromLeafUnanswered
<1>3. ASSUME NEW n \in Nat
      PROVE  /\ Meaning[n][expr[x].leaf.to] \in Meant
             /\ Meaning[n + 1][x] = Resolved(expr[x], Meaning[n][expr[x].leaf.to])
  <2>1. Meaning[n][expr[x].leaf.to] \in Meant
    BY <1>1, MeaningUnfolds
  <2>2. n + 1 \in Nat /\ n + 1 > 0 /\ (n + 1) - 1 = n
    OBVIOUS
  <2>3. Meaning[n + 1][x] = FromLeaf(expr[x], Meaning[n][expr[x].leaf.to])
    BY <1>1, <2>2, MeaningUnfolds
  <2> QED
    BY <1>1, <2>1, <2>3, FromLeafResolves
<1> QED
  BY <1>1, <1>2, <1>3

LEMMA ResolvedOk ==
  ASSUME NEW v, NEW r
  PROVE  /\ Resolved(v, r).ok => r.ok /\ Matches(r, v) /\ v.kind # "array" /\ Resolved(v, r).kind = Expected(v)
         /\ ~Resolved(v, r).ok => Resolved(v, r) = Err
BY DEF Resolved, Ok, Err

\* What has a meaning n paths away from its literal keeps it.
LEMMA MeaningStays ==
  ASSUME TypeOK, NEW n \in Nat, NEW x \in Node, Meaning[n][x].ok
  PROVE  Meaning[n + 1][x] = Meaning[n][x]
<1> DEFINE S == {k \in Nat : \A y \in Node : Meaning[k][y].ok => Meaning[k + 1][y] = Meaning[k][y]}
<1>1. \A k \in Nat, y \in Node : ~Asks(expr[y]) => Meaning[k + 1][y] = Meaning[k][y]
  BY MeaningOfLiteral
<1>2. 0 \in S
  BY <1>1, MeaningOfPath, ErrTyped
<1>3. \A k \in Nat : k \in S => k + 1 \in S
  <2> SUFFICES ASSUME NEW k \in Nat, k \in S, NEW y \in Node, Meaning[k + 1][y].ok
               PROVE  Meaning[(k + 1) + 1][y] = Meaning[k + 1][y]
    OBVIOUS
  <2>1. CASE ~Asks(expr[y])
    BY <2>1, <1>1
  <2>2. CASE Asks(expr[y])
    <3> DEFINE z == expr[y].leaf.to
    <3>1. z \in Node /\ Meaning[k + 1][y] = Resolved(expr[y], Meaning[k][z])
          /\ Meaning[(k + 1) + 1][y] = Resolved(expr[y], Meaning[k + 1][z])
      BY <2>2, MeaningOfPath
    <3>2. Meaning[k][z].ok
      BY <3>1, ResolvedOk
    <3>3. Meaning[k + 1][z] = Meaning[k][z]
      BY <3>1, <3>2
    <3> QED
      BY <3>1, <3>3
  <2> QED
    BY <2>1, <2>2
<1> HIDE DEF S
<1>4. Nat \subseteq S
  BY <1>2, <1>3, SetInduction
<1> QED
  BY <1>4 DEF S

\* The nodes that have a meaning at most n paths away.
Within(n) == {x \in Node : Meaning[n][x].ok}

LEMMA WithinGrows ==
  ASSUME TypeOK, NEW n \in Nat
  PROVE  /\ Within(n) \subseteq Within(n + 1)
         /\ Within(n + 1) \subseteq Within(n) => Within((n + 1) + 1) \subseteq Within(n + 1)
<1>1. Within(n) \subseteq Within(n + 1)
  BY MeaningStays DEF Within
<1>2. ASSUME Within(n + 1) \subseteq Within(n), NEW x \in Within((n + 1) + 1)
      PROVE  x \in Within(n + 1)
  <2>1. CASE ~Asks(expr[x])
    BY <1>2, <2>1, MeaningOfLiteral DEF Within
  <2>2. CASE Asks(expr[x])
    <3> DEFINE z == expr[x].leaf.to
    <3>0. x \in Node /\ Meaning[(n + 1) + 1][x].ok
      BY <1>2 DEF Within
    <3>1. z \in Node /\ Meaning[n + 1][x] = Resolved(expr[x], Meaning[n][z])
          /\ Meaning[(n + 1) + 1][x] = Resolved(expr[x], Meaning[n + 1][z])
      BY <2>2, <3>0, MeaningOfPath
    <3>2. Meaning[n + 1][z].ok
      BY <3>0, <3>1, ResolvedOk
    <3>3. Meaning[n][z].ok
      BY <1>2, <3>1, <3>2 DEF Within
    <3>4. Meaning[n + 1][z] = Meaning[n][z]
      BY <3>1, <3>3, MeaningStays
    <3> QED
      BY <3>0, <3>1, <3>4 DEF Within
  <2> QED
    BY <2>1, <2>2
<1> QED
  BY <1>1, <1>2

\* No literal is farther away than there are nodes.
LEMMA WithinSaturates ==
  ASSUME TypeOK, IsFiniteSet(Node)
  PROVE  Cardinality(Node) \in Nat /\ Within(Cardinality(Node) + 1) \subseteq Within(Cardinality(Node))
<1> DEFINE N == Cardinality(Node)
           S == {n \in Nat : Cardinality(Within(n)) >= n \/ Within(n + 1) \subseteq Within(n)}
<1>1. N \in Nat
  BY FS_CardinalityType
<1>2. \A n \in Nat : Within(n) \in SUBSET Node
  BY DEF Within
<1>3. \A n \in Nat : IsFiniteSet(Within(n)) /\ Cardinality(Within(n)) \in Nat /\ Cardinality(Within(n)) <= N
  BY <1>2, FS_Subset, FS_CardinalityType
<1>4. 0 \in S
  BY <1>3
<1>5. \A n \in Nat : n \in S => n + 1 \in S
  <2> SUFFICES ASSUME NEW n \in Nat, n \in S, ~(Within((n + 1) + 1) \subseteq Within(n + 1))
               PROVE  Cardinality(Within(n + 1)) >= n + 1
    OBVIOUS
  <2>1. Within(n) \subseteq Within(n + 1) /\ ~(Within(n + 1) \subseteq Within(n))
    BY WithinGrows
  <2>2. Cardinality(Within(n)) >= n
    BY <2>1
  <2>3. Cardinality(Within(n)) <= Cardinality(Within(n + 1))
        /\ Cardinality(Within(n)) # Cardinality(Within(n + 1))
    <3>1. IsFiniteSet(Within(n + 1))
      BY <1>3
    <3> QED
      BY <2>1, <3>1, FS_Subset
  <2> QED
    BY <1>3, <2>2, <2>3
<1> HIDE DEF S
<1>6. Nat \subseteq S
  BY <1>4, <1>5, SetInduction
<1>7. CASE Cardinality(Within(N)) >= N
  <2>1. Cardinality(Within(N)) = N
    BY <1>1, <1>3, <1>7
  <2>2. Within(N) = Node
    BY <1>1, <1>2, <2>1, FS_Subset
  <2> QED
    BY <1>1, <1>2, <2>2
<1>8. CASE Within(N + 1) \subseteq Within(N)
  BY <1>1, <1>8
<1> QED
  BY <1>1, <1>6, <1>7, <1>8 DEF S

\* The meaning of a node is made from its leaf's.
LEMMA MeansUnfolds ==
  ASSUME TypeOK, IsFiniteSet(Node), NEW x \in Node
  PROVE  /\ Means(x) \in Meant
         /\ ~Asks(expr[x]) => Means(x) = Resolved(expr[x], Literal(expr[x]))
         /\ Asks(expr[x]) => Means(x) = Resolved(expr[x], Means(expr[x].leaf.to))
<1> DEFINE N == Cardinality(Node)
<1>1. N \in Nat /\ Within(N + 1) \subseteq Within(N)
  BY WithinSaturates
<1>2. Means(x) \in Meant
  BY <1>1, MeaningUnfolds DEF Means
<1>3. ~Asks(expr[x]) => Means(x) = Resolved(expr[x], Literal(expr[x]))
  BY <1>1, MeaningOfLiteral DEF Means
<1>4. ASSUME Asks(expr[x]) PROVE Means(x) = Resolved(expr[x], Means(expr[x].leaf.to))
  <2>1. Meaning[N + 1][x] = Resolved(expr[x], Meaning[N][expr[x].leaf.to])
    BY <1>1, <1>4, MeaningOfPath
  <2>2. CASE Meaning[N][x].ok
    BY <1>1, <2>1, <2>2, MeaningStays DEF Means
  <2>3. CASE ~Meaning[N][x].ok
    <3>1. ~Meaning[N + 1][x].ok
      BY <1>1, <2>3 DEF Within
    <3>2. Meaning[N + 1][x] = Err
      BY <2>1, <3>1, ResolvedOk
    <3>3. Meaning[N][x] = Err
      <4>1. CASE N = 0
        BY <4>1, <1>4, MeaningOfPath
      <4>2. CASE N # 0
        <5> DEFINE k == N - 1
        <5>1. k \in Nat /\ k + 1 = N
          BY <1>1, <4>2
        <5>2. Meaning[k + 1][x] = Resolved(expr[x], Meaning[k][expr[x].leaf.to])
          BY <5>1, <1>4, MeaningOfPath
        <5>3. ~Meaning[k + 1][x].ok
          BY <5>1, <2>3
        <5>4. Meaning[k + 1][x] = Err
          <6> HIDE DEF k
          <6> QED
            BY <5>2, <5>3, ResolvedOk
        <5> QED
          BY <5>1, <5>4
      <4> QED
        BY <4>1, <4>2
    <3> QED
      BY <2>1, <3>2, <3>3 DEF Means
  <2> QED
    BY <2>2, <2>3
<1> QED
  BY <1>2, <1>3, <1>4

\* The nodes are visited one by one, so there are finitely many.
Finite == IsFiniteSet(Node)

LEMMA FinitelyManyNodes == Init => Finite
<1> SUFFICES ASSUME Init PROVE Finite
  OBVIOUS
<1>1. PICK p \in Programs : expr = p.expr /\ todo = p.order
  BY DEF Init
<1>2. p.order \in Seq(Node) /\ \A x \in Node : \E i \in DOMAIN p.order : p.order[i] = x
  BY <1>1, ProgramsAssumption DEF Program
<1> DEFINE s == p.order
<1>3. Len(s) \in Nat /\ s \in [1..Len(s) -> Node]
  BY <1>2
<1>4. s \in Surjection(1..Len(s), Node)
  BY <1>2, <1>3 DEF Surjection
<1>5. IsFiniteSet(1..Len(s))
  BY <1>3, FS_Interval
<1> QED
  BY <1>4, <1>5, FS_Surjection DEF Finite

\* What is recorded is what the source means: nodes of which it is not would lead to one
\* another for ever, and such nodes are not recorded.
LEMMA RecordedIsMeant == IInv /\ Finite => ValuesAreMeant
<1> SUFFICES ASSUME IInv, Finite PROVE ValuesAreMeant
  OBVIOUS
<1> DEFINE U == {x \in DOMAIN memo : memo[x] # Means(x)}
<1>1. TypeOK /\ IsFiniteSet(Node) /\ DOMAIN memo \subseteq Node
  BY DEF IInv, TypeOK, Finite
<1>2. \A x \in U : Asks(expr[x]) /\ expr[x].leaf.to \in U
  <2> TAKE x \in U
  <2>1. PICK r \in Result : LeafKnown(expr, memo, x, r) /\ memo[x] = Resolved(expr[x], r)
    BY DEF IInv, MemoLocal
  <2>2. x \in Node /\ memo[x] # Means(x)
    BY <1>1
  <2>3. Asks(expr[x])
    BY <1>1, <2>1, <2>2, MeansUnfolds DEF LeafKnown
  <2>4. expr[x].leaf.to \in DOMAIN memo /\ r = memo[expr[x].leaf.to]
    BY <2>1, <2>3 DEF LeafKnown
  <2>5. r # Means(expr[x].leaf.to)
    BY <1>1, <2>1, <2>2, <2>3, MeansUnfolds
  <2> QED
    BY <2>3, <2>4, <2>5
<1>3. U \in SUBSET Node /\ Hopeless(expr, U)
  BY <1>1, <1>2 DEF Hopeless
<1>4. U \cap DOMAIN memo = {}
  <2> HIDE DEF U
  <2> QED
    BY <1>3 DEF IInv, MemoGrounded
<1> QED
  BY <1>4 DEF ValuesAreMeant

\* From nodes without a way to a fitting literal there is none of any length.
LEMMA HopelessMeansNothing ==
  ASSUME TypeOK, NEW S \in SUBSET Node, Hopeless(expr, S), NEW x \in S, NEW n \in Nat
  PROVE  ~Meaning[n][x].ok
<1> DEFINE T == {k \in Nat : \A y \in S : ~Meaning[k][y].ok}
<1>1. \A k \in Nat, y \in S : ~Asks(expr[y]) => ~Meaning[k][y].ok
  BY MeaningOfLiteral DEF Hopeless, Unfit
<1>2. 0 \in T
  BY <1>1, MeaningOfPath, ErrTyped
<1>3. \A k \in Nat : k \in T => k + 1 \in T
  <2> SUFFICES ASSUME NEW k \in Nat, k \in T, NEW y \in S, Meaning[k + 1][y].ok PROVE FALSE
    OBVIOUS
  <2>1. Asks(expr[y])
    BY <1>1
  <2> DEFINE z == expr[y].leaf.to
  <2>2. z \in Node /\ Meaning[k + 1][y] = Resolved(expr[y], Meaning[k][z])
    BY <2>1, MeaningOfPath
  <2>3. Meaning[k][z].ok /\ Meaning[k][z].kind = Expected(expr[y]) /\ expr[y].kind # "array"
    BY <2>2, ResolvedOk DEF Matches
  <2>4. Meaning[k][z].kind = Expected(expr[z])
    <3>1. CASE ~Asks(expr[z])
      BY <2>2, <2>3, <3>1, MeaningOfLiteral, ResolvedOk
    <3>2. CASE Asks(expr[z])
      <4>1. k # 0
        BY <2>2, <2>3, <3>2, MeaningOfPath, ErrTyped
      <4>2. PICK j \in Nat : k = j + 1
        <5>1. k - 1 \in Nat /\ k = (k - 1) + 1
          BY <4>1, SMTT(60)
        <5> QED
          BY <5>1
      <4>3. Meaning[j + 1][z] = Resolved(expr[z], Meaning[j][expr[z].leaf.to])
        BY <2>2, <3>2, MeaningOfPath
      <4>4. Meaning[j + 1][z].ok
        BY <2>3, <4>2
      <4>5. Meaning[j + 1][z].kind = Expected(expr[z])
        <5> HIDE DEF z
        <5> QED
          BY <4>3, <4>4, ResolvedOk
      <4> QED
        BY <4>2, <4>5, SMTT(60)
    <3> QED
      BY <3>1, <3>2
  <2>5. z \in S
    BY <2>1, <2>3, <2>4 DEF Hopeless, Unfit
  <2> QED
    BY <2>3, <2>5
<1> HIDE DEF T
<1>4. Nat \subseteq T
  BY <1>2, <1>3, SetInduction
<1> QED
  BY <1>4 DEF T

LEMMA ReportedIsMeaningless == IInv /\ Finite => ReportsTheMeaningless
<1> SUFFICES ASSUME IInv, Finite, at = "done", NEW x \in Node
             PROVE  Means(x).ok <=> x \notin ToSet(diagnostics)
  BY DEF ReportsTheMeaningless
<1>1. TypeOK /\ IsFiniteSet(Node)
  BY DEF IInv, Finite
<1>2. ASSUME x \in ToSet(diagnostics) PROVE ~Means(x).ok
  <2>1. PICK S \in SUBSET Node : x \in S /\ Hopeless(expr, S)
    BY <1>2 DEF IInv, ReportedInv, NoValue
  <2> QED
    BY <1>1, <2>1, HopelessMeansNothing, FS_CardinalityType DEF Means
<1>3. ASSUME x \notin ToSet(diagnostics) PROVE Means(x).ok
  <2>1. todo = <<>>
    BY DEF IInv
  <2>2. ToSet(todo) = {}
    BY <2>1 DEF ToSet
  <2>3. x \in DOMAIN memo
    BY <1>3, <2>2 DEF IInv, Visited
  <2>4. memo[x] = Means(x) /\ memo[x].ok
    BY <2>3, RecordedIsMeant DEF ValuesAreMeant, IInv, MemoLocal
  <2> QED
    BY <2>4
<1> QED
  BY <1>2, <1>3

LEMMA AlwaysFinite == Spec => []Finite
<1>1. Finite /\ [Next]_vars => Finite'
  BY DEF Finite
<1> QED
  BY FinitelyManyNodes, <1>1, PTL DEF Spec

\* Every recorded value is the one the source gives, through however many constants and
\* whichever node was evaluated first.
THEOREM RecordedValuesAreMeant == Spec => []ValuesAreMeant
  BY InductiveInvariant, AlwaysFinite, RecordedIsMeant, PTL

\* At the end exactly the nodes without a meaning have been reported.
THEOREM ReportsExactly == Spec => []ReportsTheMeaningless
  BY InductiveInvariant, AlwaysFinite, ReportedIsMeaningless, PTL

-----------------------------------------------------------------------------
(***************************************************************************)
(* StructRecursion.  For every set of structs and every field types: the   *)
(* walk reports a member of every inline cycle, and nothing that is not on *)
(* one.                                                                    *)
(***************************************************************************)
(***************************** the invariant ********************************)
Settled(t) == resolving_structs[t] = "Done" \/ t \in Reported
ToVisit(c, frame, t) == \E k \in Rest(c, frame) : c[frame.id][k].leaf = t

\* No struct is active twice.
Distinct == \A i, j \in DOMAIN frames : frames[i].id = frames[j].id => i = j

\* Whoever is active is held, through others, by those below it on the stack.
FramesReach == \A i, j \in DOMAIN frames : i < j => Reaches(crate, frames[i].id, frames[j].id)

\* What an active struct holds is still to visit, settled, or being visited.
ActiveAccounted ==
  \A i \in DOMAIN frames : \A t \in Struct :
    Holds(crate, frames[i].id, t) =>
      \/ ToVisit(crate, frames[i], t)
      \/ Settled(t)
      \/ i < Len(frames) /\ frames[i + 1].id = t

\* What a finished struct holds is settled.
DoneAccounted ==
  \A s, t \in Struct : resolving_structs[s] = "Done" /\ Holds(crate, s, t) => Settled(t)

\* Among finished structs of which none is reported, one holds none of the others.
DoneGrounded ==
  \A S \in SUBSET Struct :
    (S # {} /\ \A s \in S : resolving_structs[s] = "Done" /\ s \notin Reported)
      => \E s \in S : \A t \in S : ~Holds(crate, s, t)

\* A struct not met yet is still to be started.
RootsCover == \A s \in Struct : resolving_structs[s] = "New" => \E i \in DOMAIN roots : roots[i] = s

LayoutInv == /\ LayoutTypeOK
             /\ VisitingIsActive
             /\ Distinct
             /\ FramesReach
             /\ ActiveAccounted
             /\ DoneAccounted
             /\ DoneGrounded
             /\ RootsCover
             /\ OnlyCyclesReported

(******************************* initially **********************************)
LEMMA LayoutStarts == LayoutInit => LayoutInv
<1> SUFFICES ASSUME LayoutInit PROVE LayoutInv
    OBVIOUS
<1> USE DEF LayoutInit
<1>1. LayoutTypeOK
  BY OrdersAssumption DEF LayoutTypeOK
<1>2. VisitingIsActive /\ Distinct /\ FramesReach /\ ActiveAccounted
  BY DEF VisitingIsActive, Distinct, FramesReach, ActiveAccounted
<1>3. DoneAccounted /\ DoneGrounded
  BY DEF DoneAccounted, DoneGrounded
<1>4. RootsCover
  BY OrdersAssumption DEF RootsCover
<1>5. OnlyCyclesReported
  <2>1. Len(reports) = 0 /\ reports \in Seq(Struct)
    OBVIOUS
  <2>2. DOMAIN reports = {}
    BY <2>1
  <2> QED
    BY <2>2 DEF OnlyCyclesReported, Reported
<1> QED
  BY <1>1, <1>2, <1>3, <1>4, <1>5 DEF LayoutInv

(******************************** reaching **********************************)
\* The last index of a stack and the ones below it.
LEMMA LastOrBefore ==
  ASSUME NEW n \in Nat
  PROVE  /\ \A i \in 1..(n + 1) : i # n + 1 => i \in 1..n
         /\ \A i \in 1..n : i \in 1..(n + 1)
         /\ \A i \in 1..n : i < n \/ i = n
  OBVIOUS

LEMMA FramesTyped ==
  ASSUME LayoutTypeOK
  PROVE  /\ Len(frames) \in Nat
         /\ DOMAIN frames = 1..Len(frames)
         /\ \A k \in 1..Len(frames) : frames[k] \in Frame
         /\ \A k \in 1..Len(frames) : frames[k].id \in Struct /\ frames[k].next \in Nat \ {0}
<1>1. frames \in Seq(Frame)
  BY DEF LayoutTypeOK
<1>2. /\ Len(frames) \in Nat
      /\ DOMAIN frames = 1..Len(frames)
      /\ \A k \in 1..Len(frames) : frames[k] \in Frame
  BY <1>1
<1>3. \A f \in Frame : f.id \in Struct /\ f.next \in Nat \ {0}
  BY DEF Frame
<1> QED
  BY <1>2, <1>3

\* One more step at the end of a chain.
LEMMA ReachesFurther ==
  ASSUME NEW s \in Struct, NEW t \in Struct, NEW u \in Struct, Reaches(crate, s, t), Holds(crate, t, u)
  PROVE  Reaches(crate, s, u)
BY DEF Reaches, Closed

LEMMA ReachesNext ==
  ASSUME NEW s \in Struct, NEW t \in Struct, Holds(crate, s, t)
  PROVE  Reaches(crate, s, t)
BY DEF Reaches

\* The struct at any place of the stack reaches what the top holds.
LEMMA StackReachesTarget ==
  ASSUME LayoutTypeOK, FramesReach, NEW i \in DOMAIN frames, NEW s \in Struct, Holds(crate, Active.id, s)
  PROVE  Reaches(crate, frames[i].id, s)
<1> DEFINE n == Len(frames)
<1>2. n \in Nat /\ DOMAIN frames = 1..n /\ i \in 1..n /\ n \in 1..n
  BY FramesTyped
<1>3. \A k \in 1..n : frames[k].id \in Struct
  BY FramesTyped
<1>4. CASE i = n
  BY <1>2, <1>3, <1>4, ReachesNext DEF Active
<1>5. CASE i # n
  <2>1. Reaches(crate, frames[i].id, frames[n].id)
    BY <1>2, <1>5 DEF FramesReach
  <2> QED
    BY <1>2, <1>3, <2>1, ReachesFurther DEF Active
<1> QED
  BY <1>4, <1>5

(****************************** visiting a struct ****************************)
\* caller is the stack with its top moved on behind a target s.
MovedOn(caller, s) ==
  /\ caller \in Seq(Frame)
  /\ Len(caller) = Len(frames)
  /\ \A k \in DOMAIN frames : caller[k].id = frames[k].id
  /\ \A k \in DOMAIN frames : k < Len(frames) => caller[k] = frames[k]
  /\ frames # <<>> => /\ Holds(crate, Active.id, s)
                      /\ \A t \in Struct : ToVisit(crate, Active, t) => t = s \/ ToVisit(crate, caller[Len(caller)], t)

LEMMA CallerTyped ==
  ASSUME LayoutTypeOK, NEW s, NEW caller, MovedOn(caller, s)
  PROVE  /\ DOMAIN caller = 1..Len(frames)
         /\ \A k \in 1..Len(frames) : caller[k].id = frames[k].id
         /\ \A k \in 1..Len(frames) : k < Len(frames) => caller[k] = frames[k]
<1>1. caller \in Seq(Frame) /\ Len(caller) = Len(frames)
  BY DEF MovedOn
<1>2. DOMAIN caller = 1..Len(frames)
  BY <1>1
<1> QED
  BY <1>2, FramesTyped DEF MovedOn

\* The caller has moved on behind s, which is settled: nothing else has changed.
LEMMA CallerAccounted ==
  ASSUME LayoutInv, NEW s \in Struct, NEW caller, MovedOn(caller, s),
         NEW i \in 1..Len(frames), NEW t \in Struct, Holds(crate, frames[i].id, t)
  PROVE  \/ i = Len(frames) /\ t = s
         \/ ToVisit(crate, caller[i], t)
         \/ Settled(t)
         \/ i < Len(frames) /\ caller[i + 1].id = t
<1> DEFINE n == Len(frames)
<1>0. LayoutTypeOK /\ ActiveAccounted
  BY DEF LayoutInv
<1>1. /\ n \in Nat /\ DOMAIN frames = 1..n
      /\ \A k \in 1..n : caller[k].id = frames[k].id /\ (k < n => caller[k] = frames[k])
      /\ Len(caller) = n
  BY <1>0, FramesTyped, CallerTyped DEF MovedOn
<1>2. ToVisit(crate, frames[i], t) \/ Settled(t) \/ (i < n /\ frames[i + 1].id = t)
  BY <1>0, <1>1 DEF ActiveAccounted
<1>3. CASE i < n
  <2>1. caller[i] = frames[i] /\ caller[i + 1].id = frames[i + 1].id
    BY <1>1, <1>3
  <2> QED
    BY <1>2, <2>1
<1>4. CASE i = n
  <2>1. frames # <<>>
    BY <1>1, <1>4
  <2>2. ToVisit(crate, frames[n], t) => t = s \/ ToVisit(crate, caller[n], t)
    BY <1>1, <2>1 DEF MovedOn, Active
  <2> QED
    BY <1>2, <1>4, <2>2
<1>5. i < n \/ i = n
  <2>1. n \in Nat
    BY <1>1
  <2> QED
    BY <2>1, LastOrBefore
<1> QED
  BY <1>3, <1>4, <1>5

\* Visiting a struct that is finished.
LEMMA VisitDone ==
  ASSUME LayoutInv, NEW s \in Struct, NEW caller, MovedOn(caller, s), UNCHANGED crate,
         resolving_structs[s] = "Done", frames' = caller, UNCHANGED <<resolving_structs, reports>>,
         roots' \in Seq(Struct), RootsCover'
  PROVE  LayoutInv'
<1> DEFINE n == Len(frames)
<1>i. LayoutTypeOK /\ VisitingIsActive /\ Distinct /\ FramesReach
  BY DEF LayoutInv
<1>0. /\ n \in Nat /\ DOMAIN frames = 1..n /\ DOMAIN frames' = 1..n /\ Len(frames') = n
      /\ \A k \in 1..n : frames'[k].id = frames[k].id
  BY <1>i, FramesTyped, CallerTyped DEF MovedOn
<1>1. LayoutTypeOK'
  BY <1>i DEF LayoutTypeOK, MovedOn
<1>2. VisitingIsActive' /\ Distinct'
  BY <1>i, <1>0 DEF VisitingIsActive, Distinct
<1>3. FramesReach'
  BY <1>i, <1>0 DEF FramesReach
<1>4. ActiveAccounted'
  <2> SUFFICES ASSUME NEW i \in 1..n, NEW t \in Struct, Holds(crate, frames[i].id, t)
               PROVE  ToVisit(crate, caller[i], t) \/ Settled(t) \/ (i < n /\ caller[i + 1].id = t)
    BY <1>0 DEF ActiveAccounted, Settled, Reported
  <2> QED
    BY CallerAccounted DEF Settled
<1>5. DoneAccounted' /\ DoneGrounded'
  BY DEF LayoutInv, DoneAccounted, DoneGrounded, Settled, Reported
<1>6. OnlyCyclesReported'
  BY DEF LayoutInv, OnlyCyclesReported, Reported
<1> QED
  BY <1>1, <1>2, <1>3, <1>4, <1>5, <1>6 DEF LayoutInv

\* Visiting a struct that is being visited: it is reported.
LEMMA VisitActive ==
  ASSUME LayoutInv, NEW s \in Struct, NEW caller, MovedOn(caller, s), UNCHANGED crate,
         resolving_structs[s] = "Visiting", frames' = caller,
         reports' = Append(reports, s), UNCHANGED resolving_structs,
         roots' \in Seq(Struct), RootsCover'
  PROVE  LayoutInv'
<1> DEFINE n == Len(frames)
<1>i. LayoutTypeOK /\ VisitingIsActive /\ Distinct /\ FramesReach
  BY DEF LayoutInv
<1>0. /\ n \in Nat /\ DOMAIN frames = 1..n /\ DOMAIN frames' = 1..n /\ Len(frames') = n
      /\ \A k \in 1..n : frames'[k].id = frames[k].id
  BY <1>i, FramesTyped, CallerTyped DEF MovedOn
<1>d. reports \in Seq(Struct) /\ reports' \in Seq(Struct)
  BY <1>i DEF LayoutTypeOK
<1>r. Reported' = Reported \cup {s}
  <2>1. /\ Len(reports) \in Nat /\ DOMAIN reports = 1..Len(reports)
        /\ DOMAIN reports' = 1..(Len(reports) + 1)
        /\ \A k \in 1..Len(reports) : reports'[k] = reports[k]
        /\ reports'[Len(reports) + 1] = s
    BY <1>d
  <2> QED
    BY <2>1 DEF Reported
<1>1. LayoutTypeOK'
  BY <1>i, <1>d DEF LayoutTypeOK, MovedOn
<1>2. VisitingIsActive'
  BY <1>i, <1>0, SMTT(60) DEF VisitingIsActive
<1>8. Distinct'
  BY <1>i, <1>0 DEF Distinct
<1>3. FramesReach'
  BY <1>i, <1>0 DEF FramesReach
<1>4. ActiveAccounted'
  <2> SUFFICES ASSUME NEW i \in 1..n, NEW t \in Struct, Holds(crate, frames[i].id, t)
               PROVE  ToVisit(crate, caller[i], t) \/ Settled(t)' \/ (i < n /\ caller[i + 1].id = t)
    BY <1>0 DEF ActiveAccounted, Settled
  <2> QED
    BY <1>r, CallerAccounted DEF Settled
<1>5. DoneAccounted' /\ DoneGrounded'
  BY <1>r DEF LayoutInv, DoneAccounted, DoneGrounded, Settled
<1>6. Reaches(crate, s, s)
  <2>1. PICK i \in DOMAIN frames : frames[i].id = s
    BY <1>i DEF VisitingIsActive
  <2>2. Holds(crate, Active.id, s)
    BY <1>0, <2>1 DEF MovedOn
  <2> QED
    BY <1>i, <2>1, <2>2, StackReachesTarget
<1>7. OnlyCyclesReported'
  BY <1>r, <1>6 DEF LayoutInv, OnlyCyclesReported
<1> QED
  BY <1>1, <1>2, <1>8, <1>3, <1>4, <1>5, <1>7 DEF LayoutInv

\* Visiting a struct that was not met before: its walk begins.
LEMMA VisitNew ==
  ASSUME LayoutInv, NEW s \in Struct, NEW caller, MovedOn(caller, s), UNCHANGED crate,
         resolving_structs[s] = "New", resolving_structs' = [resolving_structs EXCEPT ![s] = "Visiting"],
         frames' = Append(caller, [id |-> s, next |-> 1]), UNCHANGED reports,
         roots' \in Seq(Struct),
         \A r \in Struct : resolving_structs[r] = "New" /\ r # s => \E i \in DOMAIN roots' : roots'[i] = r
  PROVE  LayoutInv'
<1> DEFINE n == Len(frames)
           new == [id |-> s, next |-> 1]
<1>i. LayoutTypeOK /\ VisitingIsActive /\ Distinct /\ FramesReach
  BY DEF LayoutInv
<1>c. caller \in Seq(Frame) /\ Len(caller) = n /\ new \in Frame
  BY DEF MovedOn, Frame
<1>0. /\ n \in Nat /\ DOMAIN frames = 1..n /\ DOMAIN frames' = 1..(n + 1) /\ Len(frames') = n + 1
      /\ frames'[n + 1] = new
      /\ \A k \in 1..n : frames'[k] = caller[k]
      /\ \A k \in 1..n : frames'[k].id = frames[k].id
  <2>1. /\ DOMAIN frames' = 1..(n + 1) /\ Len(frames') = n + 1 /\ frames'[n + 1] = new
        /\ n \in Nat /\ \A k \in 1..n : frames'[k] = caller[k]
    BY <1>c, <1>i, FramesTyped
  <2> QED
    BY <1>i, <2>1, FramesTyped, CallerTyped
<1>v. /\ resolving_structs' \in [Struct -> {"New", "Visiting", "Done"}]
      /\ resolving_structs'[s] = "Visiting"
      /\ \A r \in Struct : r # s => resolving_structs'[r] = resolving_structs[r]
  BY <1>i DEF LayoutTypeOK
<1>s. \A k \in 1..n : frames[k].id # s
  BY <1>i, <1>0 DEF VisitingIsActive
<1>1. LayoutTypeOK'
  <2>1. frames' \in Seq(Frame)
    BY <1>c
  <2> QED
    BY <1>i, <1>v, <2>1 DEF LayoutTypeOK
<1>2. VisitingIsActive'
  <2> SUFFICES ASSUME NEW r \in Struct
               PROVE  resolving_structs'[r] = "Visiting" <=> \E i \in 1..(n + 1) : frames'[i].id = r
    BY <1>0, SMTT(60) DEF VisitingIsActive
  <2>1. CASE r = s
    BY <1>0, <1>v, <2>1
  <2>2. CASE r # s
    <3>1. resolving_structs[r] = "Visiting" <=> \E i \in 1..n : frames[i].id = r
      BY <1>i, <1>0, ZenonT(60) DEF VisitingIsActive
    <3>2. n \in Nat /\ frames'[n + 1].id # r
      BY <1>0, <2>2
    <3>3. /\ \A i \in 1..(n + 1) : i # n + 1 => i \in 1..n
          /\ \A i \in 1..n : i \in 1..(n + 1)
      BY <3>2, LastOrBefore
    <3>6. \A i \in 1..n : frames'[i].id = frames[i].id
      BY <1>0
    <3>5. (\E i \in 1..(n + 1) : frames'[i].id = r) <=> (\E i \in 1..n : frames[i].id = r)
      BY <3>2, <3>3, <3>6
    <3> QED
      BY <1>v, <2>2, <3>1, <3>5
  <2> QED
    BY <2>1, <2>2
<1>3. Distinct'
  BY <1>i, <1>0, <1>s DEF Distinct
<1>4. FramesReach'
  <2> SUFFICES ASSUME NEW i \in 1..(n + 1), NEW j \in 1..(n + 1), i < j
               PROVE  Reaches(crate, frames'[i].id, frames'[j].id)
    BY <1>0 DEF FramesReach
  <2>1. CASE j \in 1..n
    <3>1. i \in 1..n
      BY <1>0, <2>1
    <3>2. Reaches(crate, frames[i].id, frames[j].id)
      BY <1>i, <1>0, <2>1, <3>1 DEF FramesReach
    <3>3. frames'[i].id = frames[i].id /\ frames'[j].id = frames[j].id
      BY <1>0, <2>1, <3>1
    <3> QED
      BY <3>2, <3>3
  <2>2. CASE j = n + 1
    <3>1. i \in DOMAIN frames /\ frames # <<>>
      BY <1>0, <2>2
    <3>2. Holds(crate, Active.id, s)
      BY <3>1 DEF MovedOn
    <3>3. Reaches(crate, frames[i].id, s)
      BY <1>i, <3>1, <3>2, StackReachesTarget
    <3> QED
      <4>1. frames'[i].id = frames[i].id /\ frames'[j].id = s
        BY <1>0, <2>2, <3>1
      <4> QED
        BY <3>3, <4>1
  <2>3. j \in 1..n \/ j = n + 1
    <3>1. n \in Nat
      BY <1>0
    <3> QED
      BY <3>1, LastOrBefore
  <2> QED
    BY <2>1, <2>2, <2>3
<1>5. ActiveAccounted'
  <2> SUFFICES ASSUME NEW i \in 1..(n + 1), NEW t \in Struct, Holds(crate, frames'[i].id, t)
               PROVE  \/ ToVisit(crate, frames'[i], t)
                      \/ Settled(t)'
                      \/ i < n + 1 /\ frames'[i + 1].id = t
    BY <1>0, ZenonT(60) DEF ActiveAccounted
  <2>0. Settled(t) => Settled(t)'
    BY <1>v DEF Settled, Reported
  <2>1. CASE i \in 1..n
    <3>1. \/ i = n /\ t = s
          \/ ToVisit(crate, caller[i], t)
          \/ Settled(t)
          \/ i < n /\ caller[i + 1].id = t
      <4>1. frames'[i].id = frames[i].id
        BY <1>0, <2>1
      <4>2. Holds(crate, frames[i].id, t)
        BY <4>1
      <4> QED
        BY <2>1, <4>2, CallerAccounted
    <3>2. frames'[i] = caller[i] /\ i < n + 1
      BY <1>0, <2>1
    <3>3. i = n => frames'[i + 1].id = s
      <4>1. new.id = s
        OBVIOUS
      <4>2. i = n => frames'[i + 1] = new
        BY <1>0, ZenonT(60)
      <4> QED
        BY <4>1, <4>2, ZenonT(60)
    <3>4. i < n => frames'[i + 1] = caller[i + 1]
      <4> SUFFICES ASSUME i < n PROVE frames'[i + 1] = caller[i + 1]
        OBVIOUS
      <4>1. i + 1 \in 1..n
        BY <1>0, <2>1
      <4> QED
        BY <1>0, <4>1
    <3> QED
      BY <2>0, <3>1, <3>2, <3>3, <3>4
  <2>2. CASE i = n + 1
    <3>1. PICK k \in DOMAIN crate[s] : Inline(crate[s][k]) /\ crate[s][k].leaf = t
      BY <1>0, <2>2 DEF Holds
    <3>2. crate[s] \in Seq(Ty)
      BY <1>i, CratesAssumption DEF LayoutTypeOK
    <3>3. k \in Rest(crate, new)
      BY <3>1, <3>2 DEF Rest
    <3> QED
      <4>1. ToVisit(crate, new, t)
        BY <3>1, <3>3 DEF ToVisit
      <4>2. frames'[i] = new
        BY <1>0, <2>2
      <4> QED
        BY <4>1, <4>2
  <2> QED
    BY <1>0, <2>1, <2>2
<1>6. DoneAccounted' /\ DoneGrounded'
  <2>1. \A r \in Struct : resolving_structs'[r] = "Done" <=> resolving_structs[r] = "Done"
    BY <1>v
  <2> QED
    BY <2>1, SMTT(60) DEF LayoutInv, DoneAccounted, DoneGrounded, Settled, Reported
<1>7. RootsCover'
  BY <1>v DEF RootsCover
<1>8. OnlyCyclesReported'
  BY DEF LayoutInv, OnlyCyclesReported, Reported
<1> QED
  BY <1>1, <1>2, <1>3, <1>4, <1>5, <1>6, <1>7, <1>8 DEF LayoutInv

LEMMA VisitStep ==
  ASSUME LayoutInv, NEW s \in Struct, NEW caller, MovedOn(caller, s), UNCHANGED crate,
         Visit(s, caller), roots' \in Seq(Struct),
         \A r \in Struct : resolving_structs[r] = "New" /\ r # s => \E i \in DOMAIN roots' : roots'[i] = r
  PROVE  LayoutInv'
<1>1. CASE resolving_structs[s] = "New"
  BY <1>1, VisitNew DEF Visit
<1>2. CASE resolving_structs[s] # "New" /\ UNCHANGED resolving_structs
  <2>1. RootsCover'
    BY <1>2 DEF RootsCover
  <2> QED
    BY <1>2, <2>1, VisitDone, VisitActive DEF Visit
<1> QED
  BY <1>1, <1>2 DEF Visit

(********************************* the steps *********************************)
LEMMA StartRootKeeps == LayoutInv /\ StartRoot => LayoutInv'
<1> SUFFICES ASSUME LayoutInv, StartRoot PROVE LayoutInv'
  OBVIOUS
<1> DEFINE s == Head(roots)
<1>1. roots \in Seq(Struct) /\ roots # <<>> /\ roots' = Tail(roots) /\ frames = <<>>
  BY DEF LayoutInv, LayoutTypeOK, StartRoot
<1>2. s \in Struct /\ roots' \in Seq(Struct)
  BY <1>1
<1>3. \A r \in Struct : resolving_structs[r] = "New" /\ r # s => \E i \in DOMAIN roots' : roots'[i] = r
  <2> SUFFICES ASSUME NEW r \in Struct, resolving_structs[r] = "New", r # s
               PROVE  \E i \in DOMAIN roots' : roots'[i] = r
    OBVIOUS
  <2>1. PICK i \in DOMAIN roots : roots[i] = r
    BY DEF LayoutInv, RootsCover
  <2>2. i - 1 \in DOMAIN roots' /\ roots'[i - 1] = r
    BY <1>1, <2>1
  <2> QED
    BY <2>2
<1>4. MovedOn(frames, s)
  BY <1>1 DEF MovedOn, LayoutInv, LayoutTypeOK
<1> QED
  BY <1>2, <1>3, <1>4, VisitStep DEF StartRoot

LEMMA VisitTargetKeeps == LayoutInv /\ VisitTarget => LayoutInv'
<1> SUFFICES ASSUME LayoutInv, VisitTarget PROVE LayoutInv'
  OBVIOUS
<1> DEFINE n == Len(frames)
<1>0. LayoutTypeOK
  BY DEF LayoutInv
<1>1. PICK i \in Rest(crate, Active) :
        /\ \A j \in Rest(crate, Active) : i <= j
        /\ Visit(crate[Active.id][i].leaf, Advanced(i))
  BY DEF VisitTarget
<1> DEFINE s == crate[Active.id][i].leaf
           caller == Advanced(i)
           moved == [Active EXCEPT !.next = i + 1]
<1>2. frames \in Seq(Frame) /\ frames # <<>> /\ n \in Nat \ {0} /\ DOMAIN frames = 1..n
  BY <1>0 DEF LayoutTypeOK, VisitTarget
<1>3. Active \in Frame /\ Active.id \in Struct
  BY <1>0, <1>2, FramesTyped DEF Active
<1>4. crate[Active.id] \in Seq(Ty)
  BY <1>0, <1>3, CratesAssumption DEF LayoutTypeOK
<1>5. i \in DOMAIN crate[Active.id] /\ i \in Nat \ {0} /\ Inline(crate[Active.id][i]) /\ s \in Struct
  BY <1>1, <1>4 DEF Rest, Inline
<1>6. moved \in Frame /\ moved.id = Active.id /\ moved.next = i + 1
  BY <1>3, <1>5 DEF Frame
<1>7. /\ Callers \in Seq(Frame) /\ Len(Callers) = n - 1
      /\ \A k \in 1..(n - 1) : Callers[k] = frames[k]
  BY <1>2 DEF Callers
<1>8. /\ caller \in Seq(Frame) /\ Len(caller) = n /\ caller[n] = moved
      /\ \A k \in 1..(n - 1) : caller[k] = frames[k]
  <2>1. caller = Append(Callers, moved)
    BY DEF Advanced
  <2> HIDE DEF caller, moved
  <2>2. caller \in Seq(Frame) /\ Len(caller) = Len(Callers) + 1 /\ caller[Len(Callers) + 1] = moved
    BY <1>6, <1>7, <2>1
  <2>3. \A k \in 1..Len(Callers) : caller[k] = Callers[k]
    BY <1>6, <1>7, <2>1
  <2>4. Len(Callers) + 1 = n /\ 1..Len(Callers) = 1..(n - 1)
    BY <1>2, <1>7
  <2> QED
    BY <1>7, <2>2, <2>3, <2>4
<1>9. Holds(crate, Active.id, s)
  BY <1>5 DEF Holds
<1>10. ASSUME NEW t \in Struct, ToVisit(crate, Active, t)
       PROVE  t = s \/ ToVisit(crate, moved, t)
  <2>1. PICK k \in Rest(crate, Active) : crate[Active.id][k].leaf = t
    BY <1>10 DEF ToVisit
  <2>2. k \in DOMAIN crate[Active.id] /\ k \in Nat /\ Inline(crate[Active.id][k]) /\ i <= k
    BY <1>1, <1>4, <2>1 DEF Rest
  <2>3. CASE k = i
    BY <2>1, <2>3
  <2>4. CASE k # i
    <3>1. k >= i + 1
      BY <1>5, <2>2, <2>4
    <3>2. k \in Rest(crate, moved)
      BY <1>6, <2>2, <3>1 DEF Rest
    <3> QED
      BY <1>6, <2>1, <3>2 DEF ToVisit
  <2> QED
    BY <2>3, <2>4
<1>11. MovedOn(caller, s)
  <2>1. \A k \in DOMAIN frames : k < n => caller[k] = frames[k]
    BY <1>2, <1>8
  <2>2. \A k \in DOMAIN frames : caller[k].id = frames[k].id
    <3> SUFFICES ASSUME NEW k \in 1..n PROVE caller[k].id = frames[k].id
      BY <1>2
    <3>1. CASE k = n
      BY <1>6, <1>8, <3>1 DEF Active
    <3>2. CASE k # n
      <4>0. n \in Nat
        BY <1>2
      <4> HIDE DEF n
      <4>1. k \in 1..(n - 1)
        BY <3>2, <4>0
      <4> QED
        BY <1>8, <4>1
    <3> QED
      BY <3>1, <3>2
  <2> QED
    BY <1>8, <1>9, <1>10, <2>1, <2>2 DEF MovedOn
<1>12. \A r \in Struct : resolving_structs[r] = "New" /\ r # s => \E k \in DOMAIN roots' : roots'[k] = r
  BY DEF VisitTarget, LayoutInv, RootsCover
<1>13. roots' \in Seq(Struct) /\ UNCHANGED crate
  BY <1>0 DEF VisitTarget, LayoutTypeOK
<1> QED
  BY <1>1, <1>5, <1>11, <1>12, <1>13, VisitStep

LEMMA FinishStructKeeps == LayoutInv /\ FinishStruct => LayoutInv'
<1> SUFFICES ASSUME LayoutInv, FinishStruct PROVE LayoutInv'
  OBVIOUS
<1> DEFINE n == Len(frames)
           u == Active.id
<1>i. LayoutTypeOK /\ VisitingIsActive /\ Distinct /\ FramesReach
  BY DEF LayoutInv
<1>u. UNCHANGED <<crate, roots, reports>> /\ Rest(crate, Active) = {}
  BY DEF FinishStruct
<1>0. /\ n \in Nat \ {0} /\ DOMAIN frames = 1..n /\ DOMAIN frames' = 1..(n - 1)
      /\ Len(frames') = n - 1 /\ frames' \in Seq(Frame)
      /\ \A k \in 1..(n - 1) : frames'[k] = frames[k]
      /\ u = frames[n].id
  <2>1. frames \in Seq(Frame) /\ frames # <<>> /\ frames' = SubSeq(frames, 1, n - 1)
    BY <1>i DEF LayoutTypeOK, FinishStruct, Callers
  <2>2. n \in Nat \ {0} /\ DOMAIN frames = 1..n
    BY <2>1
  <2>3. /\ frames' \in Seq(Frame) /\ Len(frames') = n - 1
        /\ \A k \in 1..(n - 1) : frames'[k] = frames[k]
    BY <2>1, <2>2
  <2>4. DOMAIN frames' = 1..(n - 1)
    BY <2>2, <2>3
  <2>5. u = frames[n].id
    BY DEF Active
  <2> QED
    BY <2>2, <2>3, <2>4, <2>5
<1>1. u \in Struct /\ resolving_structs[u] = "Visiting"
  BY <1>i, <1>0, FramesTyped DEF VisitingIsActive
<1>v. /\ resolving_structs' \in [Struct -> {"New", "Visiting", "Done"}]
      /\ resolving_structs'[u] = "Done"
      /\ \A r \in Struct : r # u => resolving_structs'[r] = resolving_structs[r]
  BY <1>i, <1>1 DEF LayoutTypeOK, FinishStruct
<1>s. \A k \in 1..(n - 1) : frames[k].id # u
  BY <1>i, <1>0 DEF Distinct
<1>2. LayoutTypeOK'
  BY <1>i, <1>u, <1>0, <1>v DEF LayoutTypeOK
<1>3. VisitingIsActive'
  <2> SUFFICES ASSUME NEW r \in Struct
               PROVE  resolving_structs'[r] = "Visiting" <=> \E i \in 1..(n - 1) : frames[i].id = r
    BY <1>0 DEF VisitingIsActive
  <2>1. CASE r = u
    BY <1>v, <1>s, <2>1
  <2>2. CASE r # u
    <3>1. resolving_structs[r] = "Visiting" <=> \E i \in 1..n : frames[i].id = r
      BY <1>i, <1>0 DEF VisitingIsActive
    <3>2. n \in Nat \ {0} /\ frames[n].id # r
      BY <1>0, <2>2
    <3>3. \A i \in 1..n : i # n => i \in 1..(n - 1)
      BY <3>2
    <3>4. \A i \in 1..(n - 1) : i \in 1..n
      BY <3>2
    <3>5. (\E i \in 1..n : frames[i].id = r) <=> (\E i \in 1..(n - 1) : frames[i].id = r)
      BY <3>2, <3>3, <3>4
    <3> QED
      BY <1>v, <2>2, <3>1, <3>5
  <2> QED
    BY <2>1, <2>2
<1>4. Distinct'
  BY <1>i, <1>0, SMTT(60) DEF Distinct
<1>5. FramesReach'
  BY <1>i, <1>u, <1>0 DEF FramesReach
<1>r. Reported' = Reported
  BY <1>u DEF Reported
<1>6. ActiveAccounted'
  <2> SUFFICES ASSUME NEW i \in 1..(n - 1), NEW t \in Struct, Holds(crate, frames[i].id, t)
               PROVE  \/ ToVisit(crate, frames[i], t)
                      \/ Settled(t)'
                      \/ i < n - 1 /\ frames'[i + 1].id = t
    BY <1>u, <1>0 DEF ActiveAccounted
  <2>0. i \in DOMAIN frames /\ i < n
    BY <1>0
  <2>1. ToVisit(crate, frames[i], t) \/ Settled(t) \/ (i < n /\ frames[i + 1].id = t)
    BY <2>0 DEF LayoutInv, ActiveAccounted
  <2>2. CASE Settled(t)
    BY <1>v, <1>r, <2>2 DEF Settled
  <2>3. CASE frames[i + 1].id = t /\ i + 1 = n
    BY <1>0, <1>v, <2>3 DEF Settled
  <2>4. CASE frames[i + 1].id = t /\ i + 1 # n
    BY <1>0, <2>4
  <2> QED
    BY <2>1, <2>2, <2>3, <2>4
<1>7. \A t \in Struct : Holds(crate, u, t) => Settled(t)
  <2> SUFFICES ASSUME NEW t \in Struct, Holds(crate, u, t) PROVE Settled(t)
    OBVIOUS
  <2>1. ToVisit(crate, frames[n], t) \/ Settled(t) \/ (n < n /\ frames[n + 1].id = t)
    BY <1>0, SMTT(60) DEF LayoutInv, ActiveAccounted
  <2>2. ~ToVisit(crate, frames[n], t)
    BY <1>u DEF ToVisit, Active
  <2> QED
    BY <1>0, <2>1, <2>2
<1>8. DoneAccounted'
  <2>1. \A s, t \in Struct : resolving_structs[s] = "Done" /\ Holds(crate, s, t) => Settled(t)
    BY DEF LayoutInv, DoneAccounted
  <2>2. \A t \in Struct : Settled(t) => Settled(t)'
    BY <1>v, <1>r DEF Settled
  <2> QED
    BY <1>u, <1>7, <1>v, <2>1, <2>2 DEF DoneAccounted
<1>9. DoneGrounded'
  <2> SUFFICES ASSUME NEW S \in SUBSET Struct, S # {},
                      \A s \in S : resolving_structs'[s] = "Done" /\ s \notin Reported
               PROVE  \E s \in S : \A t \in S : ~Holds(crate, s, t)
    BY <1>u, <1>r DEF DoneGrounded
  <2>1. \A Q \in SUBSET Struct :
          (Q # {} /\ \A s \in Q : resolving_structs[s] = "Done" /\ s \notin Reported)
            => \E s \in Q : \A t \in Q : ~Holds(crate, s, t)
    BY DEF LayoutInv, DoneGrounded
  <2>2. CASE u \notin S
    BY <1>v, <2>1, <2>2
  <2>3. CASE u \in S
    <3>1. ~Settled(u)
      BY <1>1, <2>3 DEF Settled
    <3>2. CASE S = {u}
      BY <1>1, <1>7, <3>1, <3>2
    <3>3. CASE S # {u}
      <4> DEFINE Q == S \ {u}
      <4>1. Q # {} /\ Q \in SUBSET Struct /\ \A s \in Q : resolving_structs[s] = "Done" /\ s \notin Reported
        BY <1>v, <2>3, <3>3
      <4>2. PICK s \in Q : \A t \in Q : ~Holds(crate, s, t)
        BY <2>1, <4>1
      <4>3. ~Holds(crate, s, u)
        BY <1>1, <3>1, <4>1, <4>2 DEF LayoutInv, DoneAccounted
      <4> QED
        BY <4>2, <4>3
    <3> QED
      BY <3>2, <3>3
  <2> QED
    BY <2>2, <2>3
<1>10. RootsCover'
  BY <1>u, <1>v DEF LayoutInv, RootsCover
<1>11. OnlyCyclesReported'
  BY <1>u, <1>r DEF LayoutInv, OnlyCyclesReported
<1> QED
  BY <1>2, <1>3, <1>4, <1>5, <1>6, <1>8, <1>9, <1>10, <1>11 DEF LayoutInv

(******************************** the theorems *******************************)
\* Every step of the walk, and every step that is none, keeps the invariant.
THEOREM LayoutInvariant == LayoutSpec => []LayoutInv
<1>1. LayoutInv /\ [LayoutNext]_layoutVars => LayoutInv'
  <2> SUFFICES ASSUME LayoutInv, [LayoutNext]_layoutVars PROVE LayoutInv'
    OBVIOUS
  <2>1. CASE StartRoot
    BY <2>1, StartRootKeeps
  <2>2. CASE VisitTarget
    BY <2>2, VisitTargetKeeps
  <2>3. CASE FinishStruct
    BY <2>3, FinishStructKeeps
  <2>4. CASE UNCHANGED layoutVars
    BY <2>4, SMTT(60) DEF LayoutInv, layoutVars, LayoutTypeOK, VisitingIsActive, Distinct, FramesReach, ActiveAccounted,
       DoneAccounted, DoneGrounded, RootsCover, OnlyCyclesReported, Settled, Reported
  <2> QED
    BY <2>1, <2>2, <2>3, <2>4 DEF LayoutNext
<1> QED
  BY LayoutStarts, <1>1, PTL DEF LayoutSpec

\* A struct is marked Visiting exactly while its walk is on the stack.
THEOREM VisitingAlwaysActive == LayoutSpec => []VisitingIsActive
BY LayoutInvariant, PTL DEF LayoutInv

\* When the walk is over every inline cycle has a member that is reported, for
\* every crate and every declaration order.
THEOREM CyclesAreReported == LayoutSpec => []EveryCycleReported
<1>1. LayoutInv => EveryCycleReported
  <2> SUFFICES ASSUME LayoutInv, Finished, NEW S \in SUBSET Struct, S # {},
                      \A s \in S : \E t \in S : Holds(crate, s, t),
                      S \cap Reported = {}
               PROVE  FALSE
    BY DEF EveryCycleReported
  <2>1. DOMAIN roots = {} /\ DOMAIN frames = {}
    <3>1. Len(roots) = 0 /\ Len(frames) = 0 /\ roots \in Seq(Struct) /\ frames \in Seq(Frame)
      BY DEF Finished, LayoutInv, LayoutTypeOK
    <3> QED
      BY <3>1
  <2>2. \A s \in Struct : resolving_structs[s] = "Done"
    BY <2>1 DEF LayoutInv, LayoutTypeOK, RootsCover, VisitingIsActive
  <2> QED
    BY <2>2 DEF LayoutInv, DoneGrounded
<1> QED
  BY LayoutInvariant, <1>1, PTL

\* Only a struct that does hold itself inline is ever reported.
THEOREM ReportsAreCycles == LayoutSpec => []OnlyCyclesReported
BY LayoutInvariant, PTL DEF LayoutInv
=============================================================================
