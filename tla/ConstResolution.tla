--------------------------- MODULE ConstResolution ---------------------------
(* The type resolver's evaluation of constants (semantic/type_res.rs): const   *)
(* items and array lengths, which may name const items declared anywhere, are  *)
(* evaluated in source order with a memo and a set of items being resolved.    *)
EXTENDS Integers, FiniteSets, SequencesExt

CONSTANTS Item,      \* the const items, associated ones included
          Length,    \* the array lengths, in types and in repeat expressions
          MaxInt,    \* i64::MAX: a larger literal is rejected by itself
          Programs   \* [expr, order] of the crates considered

NoItem == "no item"   \* a path that is unresolved or names something else

Node == Item \cup Length
Signed == {"i32", "isize"}
Kind == Signed \cup {"u32", "usize", "bool"}

\* The value expression of a node: negations around a literal or a path.  An item of
\* type [T; N] is evaluated as far as N; one of "other" type not at all.
Leaf == [form : {"int", "bool", "path"}, suffix : (Kind \ {"bool"}) \cup {"none"}, value : 0..MaxInt, to : Item \cup {NoItem}]
ConstValue == [kind : Kind \cup {"array", "other"}, neg : Nat, leaf : Leaf]

\* A length is expected to be a usize; every item and length is visited.
Program(p) ==
  /\ p.expr \in [Node -> ConstValue]
  /\ \A x \in Length : p.expr[x].kind = "usize"
  /\ p.order \in Seq(Node)
  /\ \A x \in Node : \E i \in DOMAIN p.order : p.order[i] = x

ASSUME NodesAssumption == Item \cap Length = {} /\ NoItem \notin Item
ASSUME MaxIntAssumption == MaxInt \in Nat
ASSUME ProgramsAssumption == \A p \in Programs : Program(p)

VARIABLES expr,         \* the value expressions, never changed
          todo,         \* the nodes visit_crate has still to visit
          root,         \* the node it visits
          at,           \* "visit", "item", "value" or "done": what comes next
          item,         \* at "item": the argument of resolve_const_item
          result,       \* at "value": what was found for the node on top of the stack
          stack,        \* the nodes being evaluated, each by the one before
          resolving,    \* resolving_consts
          memo,         \* node_const
          diagnostics   \* the visited nodes that were reported

vars == <<expr, todo, root, at, item, result, stack, resolving, memo, diagnostics>>

Err == [ok |-> FALSE, kind |-> "bool", value |-> 0]
Ok(k, n) == [ok |-> TRUE, kind |-> k, value |-> n]
Result == [ok : BOOLEAN, kind : Kind, value : (-MaxInt)..MaxInt]

Expected(v) == IF v.kind = "array" THEN "usize" ELSE v.kind
Top == stack[Len(stack)]

Init ==
  /\ \E p \in Programs : expr = p.expr /\ todo = p.order
  /\ root = NoItem
  /\ at = "visit"
  /\ item = NoItem
  /\ result = Err
  /\ stack = <<>>
  /\ resolving = {}
  /\ memo = [x \in {} |-> Err]
  /\ diagnostics = <<>>

\* Checked before the operand of the negations is looked at.
NegOk(v) == v.neg > 0 => Expected(v) \in Signed
\* The expression asks for the value of an item.
Asks(v) == v.kind # "other" /\ NegOk(v) /\ v.leaf.form = "path" /\ v.leaf.to # NoItem

\* mutant: a suffix is not compared with the expected type
SuffixOk_Any(v) == TRUE
SuffixOk(v) == v.leaf.suffix \in {"none", Expected(v)}

\* The literal under the negations, in the expected type.
Literal(v) ==
  LET k == Expected(v) IN
  IF /\ v.kind # "other"
     /\ NegOk(v)
     /\ \/ v.leaf.form = "int" /\ k # "bool" /\ SuffixOk(v)
        \/ v.leaf.form = "bool" /\ k = "bool"
  THEN Ok(k, v.leaf.value) ELSE Err

\* mutant: two negations are one
Negated_Once(n, x) == IF n = 0 THEN x ELSE -x
Negated(n, x) == IF n % 2 = 0 THEN x ELSE -x

\* mutant: a constant of any type will do
Matches_Any(r, v) == TRUE
Matches(r, v) == r.kind = Expected(v)

\* The value of an expression, from that of its leaf.
Resolved(v, r) ==
  IF r.ok /\ Matches(r, v) /\ v.kind # "array"
  THEN Ok(Expected(v), Negated(v.neg, r.value)) ELSE Err

\* resolve_const_value, as far as its leaf.
Evaluate(x) ==
  IF Asks(expr[x]) THEN at' = "item" /\ item' = expr[x].leaf.to /\ UNCHANGED result
                   ELSE at' = "value" /\ result' = Literal(expr[x]) /\ UNCHANGED item

\* visit_const_item
VisitItem ==
  /\ at = "visit" /\ todo # <<>> /\ Head(todo) \in Item
  /\ root' = Head(todo) /\ todo' = Tail(todo)
  /\ at' = "item" /\ item' = Head(todo)
  /\ UNCHANGED <<expr, result, stack, resolving, memo, diagnostics>>

\* visit_const_value, and the length of an array type
VisitLength ==
  /\ at = "visit" /\ todo # <<>> /\ Head(todo) \in Length
  /\ root' = Head(todo) /\ todo' = Tail(todo)
  /\ stack' = <<Head(todo)>>
  /\ Evaluate(Head(todo))
  /\ UNCHANGED <<expr, resolving, memo, diagnostics>>

\* resolve_const_item: it is known
Remembered ==
  /\ at = "item" /\ item \in DOMAIN memo
  /\ at' = "value" /\ result' = memo[item]
  /\ UNCHANGED <<expr, todo, root, item, stack, resolving, memo, diagnostics>>

\* resolve_const_item: it is being resolved
Cyclic ==
  /\ at = "item" /\ item \notin DOMAIN memo /\ item \in resolving
  /\ at' = "value" /\ result' = Err
  /\ UNCHANGED <<expr, todo, root, item, stack, resolving, memo, diagnostics>>

\* resolve_const_item: its expression is evaluated
Enter ==
  /\ at = "item" /\ item \notin DOMAIN memo /\ item \notin resolving
  /\ resolving' = resolving \cup {item}
  /\ stack' = Append(stack, item)
  /\ Evaluate(item)
  /\ UNCHANGED <<expr, todo, root, memo, diagnostics>>

\* mutant: the value is recorded for the item that was named
Keyed_ByTarget(x) == IF expr[x].leaf.form = "path" THEN expr[x].leaf.to ELSE x
Keyed(x) == x
\* mutant: failures are remembered as well
Remembers_All(x, r) == TRUE
\* mutant: only values that took a path are remembered
Remembers_Paths(x, r) == r.ok /\ expr[x].leaf.form = "path"
Remembers(x, r) == r.ok
\* record_node_const
Record(x, r) ==
  memo' = IF Remembers(x, r) THEN [y \in DOMAIN memo \cup {Keyed(x)} |-> IF y = Keyed(x) THEN r ELSE memo[y]] ELSE memo

\* mutant: the finished node is not taken off
Popped_Peek(s) == s
Popped(s) == SubSeq(s, 1, Len(s) - 1)

\* The rest of resolve_const_value and resolve_const_item
Return ==
  /\ at = "value" /\ stack # <<>>
  /\ LET r == Resolved(expr[Top], result) IN result' = r /\ Record(Top, r)
  /\ stack' = Popped(stack)
  /\ resolving' = resolving \ {Top}
  /\ UNCHANGED <<expr, todo, root, at, item, diagnostics>>

\* Back in the visitor
Report ==
  /\ at = "value" /\ stack = <<>>
  /\ at' = "visit"
  /\ diagnostics' = IF result.ok THEN diagnostics ELSE Append(diagnostics, root)
  /\ UNCHANGED <<expr, todo, root, item, result, stack, resolving, memo>>

Finish ==
  /\ at = "visit" /\ todo = <<>>
  /\ at' = "done"
  /\ UNCHANGED <<expr, todo, root, item, result, stack, resolving, memo, diagnostics>>

Next == VisitItem \/ VisitLength \/ Remembered \/ Cyclic \/ Enter \/ Return \/ Report \/ Finish

Spec == Init /\ [][Next]_vars
\* The resolver runs until it has finished.
FairSpec == Spec /\ WF_vars(Next)

(******************************** properties *********************************)
\* Negation cannot overflow an i64.
TypeOK ==
  /\ expr \in [Node -> ConstValue]
  /\ todo \in Seq(Node) /\ root \in Node \cup {NoItem} /\ diagnostics \in Seq(Node)
  /\ at \in {"visit", "item", "value", "done"}
  /\ item \in Item \cup {NoItem} /\ (at = "item" => item # NoItem)
  /\ result \in Result
  /\ stack \in Seq(Node) /\ resolving \subseteq Item
  /\ DOMAIN memo \subseteq Node
  /\ \A x \in DOMAIN memo : memo[x] \in Result /\ memo[x].ok

\* (-1)^k
Sign[k \in Nat] == IF k = 0 THEN 1 ELSE -Sign[k - 1]

\* What the language gives an expression, its literal at most n paths away: all types
\* on the way agree, and only signed constants are negated.
Meaning[n \in Nat] ==
  [x \in Node |->
     LET v == expr[x]
         there == n > 0 /\ v.leaf.form = "path" /\ v.leaf.to # NoItem
         leaf == IF there THEN Meaning[n - 1][v.leaf.to]
                 ELSE [ok |-> v.leaf.form # "path", value |-> v.leaf.value,
                       kind |-> IF v.leaf.form = "bool" THEN "bool"
                                ELSE IF v.leaf.suffix = "none" /\ v.kind # "bool" THEN v.kind ELSE v.leaf.suffix]
     IN IF leaf.ok /\ v.kind \in Kind /\ leaf.kind = v.kind /\ (v.neg > 0 => v.kind \in {"i32", "isize"})
        THEN [ok |-> TRUE, kind |-> v.kind, value |-> leaf.value * Sign[v.neg]] ELSE Err]
Means(x) == Meaning[Cardinality(Node)][x]

\* Every value that is used is the one the source gives, however far away its
\* literal and whichever node was evaluated first.
ValuesAreMeant == \A x \in DOMAIN memo : memo[x] = Means(x)

\* Exactly the nodes without a meaning are reported: cycles and everything that leads
\* into them, but nothing that was met while a cycle was being resolved.
ReportsTheMeaningless ==
  at = "done" => \A x \in Node : Means(x).ok <=> x \notin ToSet(diagnostics)

\* The lowering and the body check take the value of every constant and length of
\* an accepted program for granted (node_const(..).unwrap()).
AcceptedAreKnown == at = "done" /\ diagnostics = <<>> => DOMAIN memo = Node

\* A length is cast to usize unchecked: it is never negative, though the constants
\* it names may be built from negative ones.
LengthsAreNatural == \A x \in Length \cap DOMAIN memo : memo[x].value >= 0

\* A value, once recorded, never changes.
MemoIsStable == [][\A x \in DOMAIN memo : x \in DOMAIN memo' /\ memo'[x] = memo[x]]_vars

Terminates == <>(at = "done")
=============================================================================
