------------------------------ MODULE FlowTyping ------------------------------
(* What it means that a body is well typed: rules for the types, the jump      *)
(* targets and the divergence recorded of its nodes, each rule about a node    *)
(* and its children alone.  The lowering relies on nothing else.               *)
EXTENDS FlowCheck

\* Node i is inside the last child of node j: in the rest of a let, in the body of a loop.
Inside(f, j, i) == f[j].sub # <<>> /\ Last(f[j].sub) <= i /\ i <= f[j].last

\* The locals in scope at a node.
Visible(f, i, l) ==
  l = ParamId \/ \E j \in DOMAIN f : f[j].op = "let" /\ Inside(f, j, i) /\ l = LetId(j)

\* Control does not come back from the node.
Ends(info, q) == info[q].div = TRUE

\* If the node comes to a value, the value has this type.
Is(info, q, ty) == ~Ends(info, q) => info[q].ty = ty

\* A node has a type, and one it may be coerced to; only a node that ends has the type !.
Settled(info, q) ==
  /\ info[q].ty \in Types /\ info[q].val \in Types /\ Coerces(info[q].ty, info[q].val)
  /\ info[q].ty = Never => Ends(info, q)

\* Literals and the local: a local that never has a value ends.
ValueRule(f, r, info, q) ==
  /\ f[q].op = "unit" => info[q].ty = Unit /\ ~Ends(info, q)
  /\ f[q].op \in {"true", "read"} => info[q].ty = Bool /\ ~Ends(info, q)
  /\ f[q].op = "x" => /\ Visible(f, q, info[q].local) /\ info[q].ty = info[info[q].local].ty
                      /\ Ends(info, q) => info[q].ty = Never

\* A block has the type of its tail, and ends if its statement or its tail does.
BlockRule(f, r, info, q) ==
  /\ f[q].op = "empty" => ~Ends(info, q)
  /\ f[q].op \in {"tail", "semi"} => (Ends(info, q) => Ends(info, f[q].sub[1]))
  /\ f[q].op \in {"seq", "run", "let"} => (Ends(info, q) => Ends(info, f[q].sub[1]) \/ Ends(info, f[q].sub[2]))
  /\ f[q].op \in {"empty", "semi"} => Is(info, q, Unit)
  /\ f[q].op = "tail" => Is(info, f[q].sub[1], info[q].ty)
  /\ f[q].op \in {"seq", "run", "let"} => Is(info, f[q].sub[2], info[q].ty)
  /\ f[q].op = "let" => Is(info, f[q].sub[1], info[LetId(q)].ty)

\* Operands are bool, but those of == may be anything; an assignment stores the type of its place.
OperatorRule(f, r, info, q) ==
  /\ f[q].op = "not" => /\ info[q].ty = Bool /\ Is(info, f[q].sub[1], Bool)
                        /\ Ends(info, q) => Ends(info, f[q].sub[1])
  /\ f[q].op \in {"xor", "and", "or", "eq"} =>
       info[q].ty = Bool /\ (Ends(info, q) => Ends(info, f[q].sub[1]) \/ Ends(info, f[q].sub[2]))
  /\ f[q].op \in {"xor", "and", "or"} => Is(info, f[q].sub[1], Bool) /\ Is(info, f[q].sub[2], Bool)
  /\ f[q].op = "set" => /\ info[q].ty = Unit
                        /\ Ends(info, q) => Ends(info, f[q].sub[1]) \/ Ends(info, f[q].sub[2])
                        /\ ~Ends(info, f[q].sub[1]) => Is(info, f[q].sub[2], info[f[q].sub[1]].ty)

\* An if without else has the type (); two arms have one type, unless one does not come back.
BranchRule(f, r, info, q) ==
  /\ f[q].op \in {"if", "while"} => /\ info[q].ty = Unit /\ Is(info, f[q].sub[1], Bool)
                                    /\ Ends(info, q) => Ends(info, f[q].sub[1])
  /\ f[q].op = "if" => Is(info, f[q].sub[2], Unit)
  /\ f[q].op = "ifelse" =>
       /\ Is(info, f[q].sub[1], Bool)
       /\ Is(info, f[q].sub[2], info[q].ty) /\ Is(info, f[q].sub[3], info[q].ty)
       /\ Ends(info, q) => Ends(info, f[q].sub[1]) \/ (Ends(info, f[q].sub[2]) /\ Ends(info, f[q].sub[3]))

\* A jump has a target around it, and a value that is jumped with has the type expected there.
JumpRule(f, r, info, q) ==
  /\ f[q].op \in {"break", "breakv", "continue"} =>
       /\ info[q].jump \in DOMAIN f /\ f[info[q].jump].op \in {"loop", "while"}
       /\ Inside(f, info[q].jump, q)
  /\ f[q].op = "break" /\ f[info[q].jump].op = "loop" => info[info[q].jump].ty = Unit /\ ~Ends(info, info[q].jump)
  /\ f[q].op = "breakv" =>
       /\ f[info[q].jump].op = "loop"
       /\ ~Ends(info, f[q].sub[1]) => info[f[q].sub[1]].ty = info[info[q].jump].ty /\ ~Ends(info, info[q].jump)
  /\ f[q].op = "return" => r = Unit
  /\ f[q].op = "returnv" => Is(info, f[q].sub[1], r)

\* The rule of a node.
Rule(f, r, info, q) ==
  /\ ValueRule(f, r, info, q) /\ BlockRule(f, r, info, q) /\ OperatorRule(f, r, info, q)
  /\ BranchRule(f, r, info, q) /\ JumpRule(f, r, info, q)

\* Every node is settled and follows its rule.
WellTyped(f, r, info) ==
  info \in [Ids(f) -> Info] /\ \A q \in DOMAIN f : Settled(info, q) /\ Rule(f, r, info, q)

\* What the checker finds of a body it accepts.
Accepted(f, r, info) ==
  WellTyped(f, r, info) /\ info[1].val = r /\ info[ParamId].ty = Bool
=============================================================================
