------------------------------ MODULE FlowCheck ------------------------------
(* The body checker (semantic/body_check.rs) on the control-flow fragment: a   *)
(* type for every node, the target of every jump, and whether a node diverges. *)
(* A check takes its context c, the node p, the expected type and the state:   *)
(*   ok      Result::Ok; a failure has pushed a diagnostic and is final        *)
(*   div     the bool of the Ok: control does not come back from the node      *)
(*   info    SemanticCtx.node_info: type, type after coercion, jump, local     *)
(*   frames  loop_stack                                                        *)
(*   scope   the local the name x resolves to here (name_res.rs)               *)
(* The context is the body, the result type of the function, and expr, the     *)
(* check of the nodes further down.                                            *)
EXTENDS FlowSyntax

Info == [ty : Types \cup {None}, val : Types \cup {None}, jump : Nat, local : Int, div : BOOLEAN]
Break == [source : Nat, operand : Nat, div : BOOLEAN]
Frame == [id : Nat, kind : {"Loop", "While"}, phase : {"Condition", "Body"},
          expected : Types \cup {None}, breaks : SUBSET Break]
Checkers(f) == [ok : BOOLEAN, div : BOOLEAN, info : [Ids(f) -> Info], frames : Seq(Frame), scope : Ids(f)]

CheckSub(c, p, expected, s) == c.expr[<<p, expected, s>>]
Child(c, p, k) == c.body[p].sub[k]

Coerces(from, to) == from = to \/ from = Never

\* lub_coerce: the one of the types that every other one coerces to.
Lub(types) ==
  IF \E to \in types : \A from \in types : Coerces(from, to)
  THEN CHOOSE to \in types : \A from \in types : Coerces(from, to) ELSE None

NoInfo == [ty |-> None, val |-> None, jump |-> NoNode, local |-> NoNode, div |-> FALSE]
Record(s, p, ty, val) == [s EXCEPT !.info[p].ty = ty, !.info[p].val = val]
RecordJumps(s, nodes, target) ==
  [s EXCEPT !.info = [q \in DOMAIN s.info |->
                        IF q \in nodes THEN [s.info[q] EXCEPT !.jump = target] ELSE s.info[q]]]

Fail(s) == [s EXCEPT !.ok = FALSE]
\* coerce_node, of each of the nodes
Coerce(s, nodes, to) ==
  IF \A q \in nodes : Coerces(s.info[q].ty, to)
  THEN [s EXCEPT !.info = [q \in DOMAIN s.info |->
                             IF q \in nodes THEN [s.info[q] EXCEPT !.val = to] ELSE s.info[q]]]
  ELSE Fail(s)

\* The end every check shares: record the type, then coerce it to the expected one.
Typed(s, p, ty, expected, div) ==
  LET t == [Record(s, p, ty, ty) EXCEPT !.div = div, !.info[p].div = div] IN
  IF expected = None THEN t ELSE Coerce(t, {p}, expected)

\* The statement of a block, if it has one; div is the statement's.
CheckStmt(c, p, s) ==
  LET op == c.body[p].op IN
  IF op \in {"empty", "tail"} THEN [s EXCEPT !.div = FALSE]
  ELSE Then(CheckSub(c, Child(c, p, 1), IF op = "run" THEN Unit ELSE None, s),
         LAMBDA a : IF op # "let" THEN a
                    ELSE LET ty == a.info[Child(c, p, 1)].val IN
                         [Record(a, LetId(p), ty, ty) EXCEPT !.scope = LetId(p)])

CheckBlock(c, p, expected, s) ==
  LET last == Last(c.body[p].sub)
      checked ==
        Then(CheckStmt(c, p, s), LAMBDA a :
          IF c.body[p].op \in TailOps
          THEN Then(CheckSub(c, last, expected, a),
                 LAMBDA t : Typed(t, p, t.info[last].val, None, a.div \/ t.div))
          ELSE Typed(a, p, IF a.div THEN Never ELSE Unit, expected, a.div))
  IN [checked EXCEPT !.scope = s.scope]

\* A block as an expression has the type it was coerced to.
CheckBlockExpr(c, p, expected, s) ==
  Then(CheckBlock(c, p, expected, s), LAMBDA b : Record(b, p, b.info[p].val, b.info[p].val))

CheckPath(p, expected, s) ==
  LET ty == s.info[s.scope].val IN
  Typed([s EXCEPT !.info[p].local = s.scope], p, ty, expected, ty = Never)

CheckNot(c, p, expected, s) ==
  Then(CheckSub(c, Child(c, p, 1), None, s), LAMBDA a :
    IF a.info[Child(c, p, 1)].val = Bool THEN Typed(a, p, Bool, expected, a.div) ELSE Fail(a))

CheckBinary(c, p, expected, s) ==
  LET left == Child(c, p, 1)
      right == Child(c, p, 2)
  IN Then(CheckSub(c, left, None, s), LAMBDA l :
       Then(CheckSub(c, right, None, l), LAMBDA r :
         \* == asks only that the left type implement PartialEq, as every type here does
         IF c.body[p].op # "eq" /\ {r.info[left].val, r.info[right].val} # {Bool}
         THEN Fail(r)
         ELSE Typed(r, p, Bool, expected, l.div \/ r.div)))

\* x = a: the place is the mutable local in scope.
CheckAssign(c, p, expected, s) ==
  Then(CheckSub(c, Child(c, p, 1), None, s), LAMBDA l :
    Then(CheckSub(c, Child(c, p, 2), l.info[Child(c, p, 1)].val, l), LAMBDA r :
      Typed(r, p, Unit, expected, l.div \/ r.div)))

LoopType(frame, expected, s) ==
  IF frame.kind = "While" THEN Unit
  ELSE IF frame.breaks = {} THEN Never
  ELSE IF expected # None THEN expected
  ELSE Lub({IF b.operand = NoNode THEN Unit ELSE s.info[b.operand].ty : b \in frame.breaks})

\* After the body: the jumps of the frame's breaks, and the type they give the loop.
FinishLoop(p, expected, conditionDiv, s) ==
  LET frame == Last(s.frames)
      popped == RecordJumps([s EXCEPT !.frames = Front(@)], {b.source : b \in frame.breaks}, frame.id)
      ty == LoopType(frame, expected, popped)
      operands == {b.operand : b \in frame.breaks} \ {NoNode}
      coerced == IF frame.kind = "While" \/ expected # None THEN popped ELSE Coerce(popped, operands, ty)
      div == IF frame.kind = "While" THEN conditionDiv ELSE \A b \in frame.breaks : b.div
  IN IF ty = None THEN Fail(popped) ELSE Typed(coerced, p, ty, expected, div)

PushFrame(c, p, expected, s) ==
  LET frame == IF c.body[p].op = "loop"
               THEN [id |-> p, kind |-> "Loop", phase |-> "Body", expected |-> expected, breaks |-> {}]
               ELSE [id |-> p, kind |-> "While", phase |-> "Condition", expected |-> None, breaks |-> {}]
  IN [s EXCEPT !.frames = Append(@, frame), !.div = FALSE]

CheckCondition(c, p, s) ==
  IF c.body[p].op = "loop" THEN s
  ELSE Then(CheckSub(c, Child(c, p, 1), Bool, s), LAMBDA a : [a EXCEPT !.frames[Len(a.frames)].phase = "Body"])

CheckLoop(c, p, expected, s) ==
  Then(CheckCondition(c, p, PushFrame(c, p, expected, s)), LAMBDA a :
    Then(CheckBlock(c, Last(c.body[p].sub), Unit, a), LAMBDA b : FinishLoop(p, expected, a.div, b)))

\* May a break with or without a value leave the innermost loop from here?
BreakAllowed(hasValue, frames) ==
  /\ frames # <<>>
  /\ LET frame == Last(frames) IN
     /\ frame.phase = "Body"
     /\ hasValue => frame.kind = "Loop"
     /\ (~hasValue /\ frame.expected # None) => Coerces(Unit, frame.expected)

CheckBreak(c, p, expected, s) ==
  LET hasValue == c.body[p].op = "breakv"
      value == IF hasValue THEN CheckSub(c, Child(c, p, 1), Last(s.frames).expected, s)
               ELSE [s EXCEPT !.div = FALSE]
      break(v) == [source |-> p, operand |-> IF hasValue THEN Child(c, p, 1) ELSE NoNode, div |-> v.div]
  IN IF ~BreakAllowed(hasValue, s.frames) THEN Fail(s)
     ELSE Then(value, LAMBDA v :
            Typed([v EXCEPT !.frames[Len(v.frames)].breaks = @ \cup {break(v)}], p, Never, expected, TRUE))

CheckContinue(p, expected, s) ==
  IF s.frames = <<>> THEN Fail(s)
  ELSE IF Last(s.frames).phase = "Condition" THEN Fail(s)
  ELSE Typed(RecordJumps(s, {p}, Last(s.frames).id), p, Never, expected, TRUE)

\* mutant: an if diverges as soon as one arm does
IfDiverges_EitherArm(condition, then, else) == condition \/ then \/ else
IfDiverges(condition, then, else) == condition \/ (then /\ else)

CheckIf(c, p, expected, s) ==
  Then(CheckSub(c, Child(c, p, 1), Bool, s), LAMBDA a :
    Then(CheckSub(c, Child(c, p, 2), Unit, a), LAMBDA t : Typed(t, p, Unit, expected, a.div)))

CheckIfElse(c, p, expected, s) ==
  LET then == Child(c, p, 2)
      else == Child(c, p, 3)
  IN Then(CheckSub(c, Child(c, p, 1), Bool, s), LAMBDA a :
       Then(CheckSub(c, then, expected, a), LAMBDA t :
         Then(CheckSub(c, else, expected, t), LAMBDA f :
           LET lub == Lub({f.info[then].val, f.info[else].val})
               div == IfDiverges(a.div, t.div, f.div)
           IN IF expected # None THEN Typed(f, p, expected, expected, div)
              ELSE IF lub = None THEN Fail(f)
              ELSE Typed(Coerce(f, {then, else}, lub), p, lub, None, div))))

\* mutant: `return;` is not checked against the result type
CheckReturn_Unchecked(c, p, expected, s) ==
  IF c.body[p].op = "returnv"
  THEN Then(CheckSub(c, Child(c, p, 1), c.result, s), LAMBDA v : Typed(v, p, Never, expected, TRUE))
  ELSE Typed(s, p, Never, expected, TRUE)
CheckReturn(c, p, expected, s) ==
  IF c.body[p].op = "returnv"
  THEN Then(CheckSub(c, Child(c, p, 1), c.result, s), LAMBDA v : Typed(v, p, Never, expected, TRUE))
  ELSE IF Coerces(Unit, c.result) THEN Typed(s, p, Never, expected, TRUE) ELSE Fail(s)

CheckExpr(c, p, expected, s) ==
  LET op == c.body[p].op IN
  CASE op = "unit" -> Typed(s, p, Unit, expected, FALSE)
    [] op \in {"true", "read"} -> Typed(s, p, Bool, expected, FALSE)
    [] op = "x" -> CheckPath(p, expected, s)
    [] op \in BlockOps -> CheckBlockExpr(c, p, expected, s)
    [] op = "not" -> CheckNot(c, p, expected, s)
    [] op \in {"xor", "eq", "and", "or"} -> CheckBinary(c, p, expected, s)
    [] op = "set" -> CheckAssign(c, p, expected, s)
    [] op \in {"loop", "while"} -> CheckLoop(c, p, expected, s)
    [] op \in {"break", "breakv"} -> CheckBreak(c, p, expected, s)
    [] op = "continue" -> CheckContinue(p, expected, s)
    [] op = "if" -> CheckIf(c, p, expected, s)
    [] op = "ifelse" -> CheckIfElse(c, p, expected, s)
    [] op \in {"return", "returnv"} -> CheckReturn(c, p, expected, s)

\* check_expr on the nodes of f with at most n nodes below them.
CheckTree(f, result) ==
  LET Expr[n \in Nat] ==
        [call \in (DOMAIN f) \X (Types \cup {None}) \X Checkers(f) |->
           CheckExpr([body |-> f, result |-> result, expr |-> IF n = 0 THEN <<>> ELSE Expr[n - 1]],
                     call[1], call[2], call[3])]
  IN Expr

\* check_function: fn f(mut x: bool) -> result { body }
CheckFunction(f, result) ==
  CheckBlock([body |-> f, result |-> result, expr |-> CheckTree(f, result)[Len(f)]], 1, result,
    [ok |-> TRUE, div |-> FALSE, frames |-> <<>>, scope |-> ParamId,
     info |-> [q \in Ids(f) |-> IF q = ParamId THEN [NoInfo EXCEPT !.ty = Bool, !.val = Bool] ELSE NoInfo]])
=============================================================================
