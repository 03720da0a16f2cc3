---------------------------- MODULE MCControlFlow ----------------------------
(* Bodies for the ControlFlow runs: every tree up to a weight over some forms, *)
(* and a few families of larger loops.                                         *)
EXTENDS FlowAgreement

\* A tree, before its nodes are numbered.
Tree(op, sub) == [op |-> op, sub |-> sub]
AsBlock(e) == IF e.op \in BlockOps THEN e ELSE Tree("tail", <<e>>)
Build1(op, a) == Tree(op, <<IF op = "loop" THEN AsBlock(a) ELSE a>>)
Build2(op, a, b) == Tree(op, <<a, IF op \in {"while", "if"} THEN AsBlock(b) ELSE b>>)
IfElse(a, b, c) == Tree("ifelse", <<a, AsBlock(b), AsBlock(c)>>)
Assign(a) == Tree("set", <<Tree("x", <<>>), a>>)
Build(op, a) == IF op = "set" THEN Assign(a) ELSE Build1(op, a)

\* The body a tree stands for, its first node numbered i.
RECURSIVE Number(_, _)
Number(e, i) ==
  LET children[k \in 0 .. Len(e.sub)] ==
        IF k = 0 THEN <<>> ELSE children[k - 1] \o Number(e.sub[k], i + 1 + Len(children[k - 1]))
      start[k \in 1 .. Len(e.sub)] == i + 1 + Len(children[k - 1])
      below == children[Len(e.sub)]
  IN <<[op |-> e.op, sub |-> [k \in 1 .. Len(e.sub) |-> start[k]], last |-> i + Len(below)]>> \o below
Body(e) == Number(AsBlock(e), 1)

\* ByWeight(forms, max): the trees of at most max constructors taken from `forms`.
Forms1 == {"not", "set", "semi", "returnv", "breakv", "loop"}
Forms2 == {"seq", "run", "let", "xor", "eq", "and", "or", "while", "if"}
ByWeight(forms, max) ==
  LET W[n \in 1..max] ==
        (IF n = 1 THEN {Tree(op, <<>>) : op \in forms \cap Atoms} ELSE {})
        \cup (IF n < 2 THEN {}
              ELSE {Build(op, a) : op \in forms \cap Forms1, a \in W[n - 1]})
        \cup UNION {{Build2(op, a, b) : op \in (forms \cap Forms2) \ {"run"}, a \in W[i], b \in W[n - 1 - i]}
                     \cup {Build2(op, a, b) : op \in forms \cap {"run"},
                             a \in {w \in W[i] : w.op \in BlockLike}, b \in W[n - 1 - i]} : i \in 1..(n - 2)}
        \cup (IF "ifelse" \notin forms THEN {}
              ELSE UNION {UNION {{IfElse(a, b, c) : a \in W[i], b \in W[j], c \in W[n - 1 - i - j]} :
                                   j \in 1..(n - 2 - i)} : i \in 1..(n - 3)})
  IN UNION {W[n] : n \in 1..max}

JumpForms == {"x", "return", "returnv", "break", "breakv", "continue", "loop", "while", "if",
              "ifelse", "semi", "seq"}
ValueForms == {"true", "read", "x", "not", "set", "xor", "eq", "and", "or", "let", "ifelse", "seq",
               "returnv"}

Bodies(forms, max) == {Body(e) : e \in ByWeight(forms, max)}

\* Loops with a conditional jump and a step in the body: alone, under another loop,
\* before a use of x, or giving x its value.
Leaf(op) == Tree(op, <<>>)
X == Leaf("x")
ReadBool == Leaf("read")
Conditions == {X, ReadBool}
Jumps == {Leaf("break"), Leaf("continue"), Leaf("return"), Build1("breakv", X), Build1("returnv", X)}
Steps == {Leaf("unit"), Assign(ReadBool), Assign(Build1("not", X))}
LoopBodies == {Build2("run", Build2("if", c, j), s) : c \in Conditions, j \in Jumps, s \in Steps \cup Jumps}
              \cup {Build2("seq", s, IfElse(c, j, t)) : c \in Conditions, j \in Jumps, s \in Steps, t \in Steps}
Loops == {Build1("loop", b) : b \in LoopBodies} \cup {Build2("while", c, b) : c \in Conditions, b \in LoopBodies}
LoopFamilies ==
  {{Body(l) : l \in Loops},
   {Body(Build2(op, l, X)) : op \in {"seq", "let"}, l \in Loops},
   {Body(Build2("seq", Build2("while", ReadBool, l), X)) : l \in Loops},
   {Body(Build1("loop", Build2("seq", l, j))) : l \in Loops, j \in Jumps}}
AllBodies == {Bodies(JumpForms, 4), Bodies(JumpForms \ {"semi"}, 5),
              Bodies(ValueForms, 4), Bodies(ValueForms \ {"true"}, 5)} \cup LoopFamilies

\* Small bodies on which the known defects show, one way of failing each: `{ e; }`
\* with a return in e, a comparison, a let.
LazyBodies == {{Body(Build1("semi", e)) : e \in ByWeight({"x", "returnv", "seq", "and"}, 6)}}
UnitOperands == {Bodies({"x", "unit", "eq"}, 3)}
=============================================================================
