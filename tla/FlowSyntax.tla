------------------------------ MODULE FlowSyntax ------------------------------
(* The fragment of the Rx syntax tree that decides control flow: blocks, let,  *)
(* assignment, operators, loops, jumps and conditionals over one visible local *)
(* x of type bool.  A body is the sequence of its nodes in source order, and   *)
(* the id of a node is its place there.                                        *)
EXTENDS Integers, Sequences, SequencesExt

None == "None"                            \* Option::None, beside types
NoNode == 0                               \* Option::None of a node id
Never == "Never"
Unit == "Unit"
Bool == "Bool"
Types == {Never, Unit, Bool}

\* {}   {a}   {a;}   {a; b}   {a b}   {let mut x = a; b}
BlockOps == {"empty", "tail", "semi", "seq", "run", "let"}
TailOps == {"tail", "seq", "run", "let"}  \* blocks that end in a tail expression
BlockLike == BlockOps \cup {"loop", "while", "if", "ifelse"}

Atoms == {"unit", "true", "read", "x", "return", "break", "continue", "empty"}
Unary == {"not", "tail", "semi", "returnv", "breakv", "loop"}
Binary == {"set", "seq", "run", "let", "xor", "eq", "and", "or", "while", "if"}
Ops == Atoms \cup Unary \cup Binary \cup {"ifelse"}
Arity(op) == IF op \in Atoms THEN 0 ELSE IF op \in Unary THEN 1 ELSE IF op = "ifelse" THEN 3 ELSE 2

\* op, the ids of the children, and the id of the last node below
Node == [op : Ops, sub : Seq(Nat), last : Nat]

\* What the k-th child of an op must be: a loop body and an if branch are blocks, a
\* statement without a semicolon is block-like, the place of an assignment is x.
Allowed(op, k) ==
  CASE \/ op = "loop"
       \/ op \in {"while", "if", "ifelse"} /\ k > 1 -> BlockOps
    [] op = "run" /\ k = 1 -> BlockLike
    [] op = "set" /\ k = 1 -> {"x"}
    [] OTHER -> Ops

\* The nodes of f are numbered in source order, each right before those below it.
Numbered(f, i) ==
  LET sub == f[i].sub IN
  /\ Len(sub) = Arity(f[i].op)
  /\ f[i].last \in i .. Len(f)
  /\ f[i].last = IF sub = <<>> THEN i ELSE f[sub[Len(sub)]].last
  /\ \A k \in DOMAIN sub : /\ sub[k] \in DOMAIN f
                           /\ sub[k] = (IF k = 1 THEN i ELSE f[sub[k - 1]].last) + 1
                           /\ f[sub[k]].op \in Allowed(f[i].op, k)

IsBody(f) ==
  /\ f \in Seq(Node) /\ f # <<>>
  /\ \A i \in DOMAIN f : Numbered(f, i)
  /\ f[1].op \in BlockOps /\ f[1].last = Len(f)

\* The local declared by the let of block p, and the parameter.
LetId(p) == -1 - p
ParamId == -1
Ids(f) == (-1 - Len(f)) .. Len(f)

\* The `?` operator: run F on the state of a step that returned Ok.
Then(s, F(_)) == IF s.ok THEN F(s) ELSE s

Bit(b) == IF b THEN 1 ELSE 0
=============================================================================
