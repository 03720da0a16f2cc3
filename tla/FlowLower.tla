------------------------------ MODULE FlowLower ------------------------------
(* Lowering of the control-flow fragment (lower/function.rs, lower/expr.rs)    *)
(* through the IR builder (ir/builder.rs).  A lowering step takes its context  *)
(* c, a node and the lowerer's state b and returns the next state:             *)
(*   ok      Result::Ok; Err(()) "means control flow has already terminated"   *)
(*   insts   FunctionBody.instructions       blocks  FunctionBody.blocks       *)
(*   cur     current_block_id                locals, loops   the lowerer maps  *)
(*   res     the LoweredExpr of an Ok        fault   an assertion has failed   *)
(* The context is the body, the checker's info and expr, the lowering of the   *)
(* nodes further down.                                                         *)
EXTENDS FlowCheck

Void == [k |-> "void", v |-> 0]
Const(v) == [k |-> "const", v |-> v]
Parameter(i) == [k |-> "param", v |-> i]
Inst(id) == [k |-> "inst", v |-> id]
Operand == [k : {"void", "const", "param", "inst"}, v : Nat]

NoTerminator == [k |-> "none", opd |-> Void, to |-> <<>>]
Br(b) == [k |-> "br", opd |-> Void, to |-> <<b>>]
CondBr(c, t, f) == [k |-> "condbr", opd |-> c, to |-> <<t, f>>]
Ret(v) == [k |-> "ret", opd |-> v, to |-> <<>>]
Terminator == [k : {"none", "br", "condbr", "ret"}, opd : Operand, to : Seq(Nat)]

Instruction(op, a, b) == [op |-> op, a |-> a, b |-> b]
InstructionOps == {"alloca", "call", "load", "store", "xor", "icmp"}
Instructions == [op : InstructionOps, a : Operand, b : Operand]

NoBlock == 0
Unbound == [kind |-> "none", ty |-> None, opd |-> Void]
NotALoop == [open |-> FALSE, entry |-> NoBlock, exit |-> NoBlock, result |-> Void]

BasicBlock == [insts : Seq(Nat), term : Terminator]
LoweredExpr == [kind : {"none", "value", "place"}, ty : Types \cup {None}, opd : Operand]
LoopInfo == [open : BOOLEAN, entry : Nat, exit : Nat, result : Operand]
Lowerers(f) ==
  [ok : BOOLEAN, fault : BOOLEAN, insts : Seq(Instructions), blocks : Seq(BasicBlock), cur : Nat,
   locals : [Ids(f) -> LoweredExpr], loops : [0 .. Len(f) -> LoopInfo], res : LoweredExpr]

LowerSub(c, p, b) == c.expr[<<p, b>>]

(***************************** the builder *********************************)
Terminated(b) == b.blocks[b.cur].term # NoTerminator

Emit(b, op, x, y) ==
  [b EXCEPT !.insts = Append(@, Instruction(op, x, y)),
            !.blocks[b.cur].insts = Append(@, Len(b.insts) + 1),
            !.fault = @ \/ Terminated(b)]
LastInst(b) == Inst(Len(b.insts))

\* mutant: the slot is allocated where it is first needed
AllocaInEntry_Here(b) == Emit(b, "alloca", Void, Void)

\* The slot is allocated at the head of the entry block, terminated or not.
AllocaInEntry(b) ==
  [b EXCEPT !.insts = Append(@, Instruction("alloca", Void, Void)),
            !.blocks[1].insts = <<Len(b.insts) + 1>> \o @]

CreateBlock(b) == [b EXCEPT !.blocks = Append(@, [insts |-> <<>>, term |-> NoTerminator])]
LastBlock(b) == Len(b.blocks)
PositionAtEnd(b, block) == [b EXCEPT !.cur = block]
Terminate(b, t) == [b EXCEPT !.blocks[b.cur].term = t, !.fault = @ \/ Terminated(b)]

(***************************** lowered values *******************************)
Value(b, ty, operand) == [b EXCEPT !.res = [kind |-> "value", ty |-> ty, opd |-> operand]]
Place(b, ty, operand) == [b EXCEPT !.res = [kind |-> "place", ty |-> ty, opd |-> operand]]

\* as_value: the result is a value; a place is loaded, here and now.
AsValue(b) ==
  IF b.res.kind = "value" THEN b
  ELSE LET l == Emit(b, "load", b.res.opd, Void) IN Value(l, b.res.ty, LastInst(l))

\* as_value, stored into a slot
StoreResult(b, slot) == LET v == AsValue(b) IN Emit(v, "store", v.res.opd, slot)

Stop(b) == [b EXCEPT !.ok = FALSE]        \* Err(())
Require(b, holds) == [b EXCEPT !.fault = @ \/ ~holds]

(***************************** the handlers *********************************)
\* LowerExpr and then as_value
LowerValue(c, p, b) == Then(LowerSub(c, p, b), AsValue)

LowerPath(c, p, b) ==
  LET local == b.locals[c.info[p].local] IN Require([b EXCEPT !.res = local], local.kind # "none")

LowerLet(c, p, b) ==
  LET slot == AllocaInEntry(b)
      stored == StoreResult(slot, LastInst(slot))
      bound == [kind |-> "place", ty |-> c.info[LetId(p)].ty, opd |-> LastInst(slot)]
  IN Require([stored EXCEPT !.locals[LetId(p)] = bound], b.res.ty = c.info[LetId(p)].ty)

LowerStmt(c, p, b) ==
  IF c.body[p].op \in {"empty", "tail"} THEN b
  ELSE Then(LowerSub(c, Child(c, p, 1), b), LAMBDA a : IF c.body[p].op = "let" THEN LowerLet(c, p, a) ELSE a)

LowerBlock(c, p, b) ==
  Then(LowerStmt(c, p, b), LAMBDA a :
    IF c.body[p].op \in TailOps THEN LowerValue(c, Last(c.body[p].sub), a) ELSE Value(a, Unit, Void))

LowerNot(c, p, b) ==
  Then(LowerValue(c, Child(c, p, 1), b), LAMBDA a :
    LET x == Emit(a, "xor", a.res.opd, Const(1)) IN Value(x, c.info[p].ty, LastInst(x)))

\* mutant: the left place is loaded only after the right side has run
LowerArithmetic_LateLoad(c, p, b) ==
  Then(LowerSub(c, Child(c, p, 1), b), LAMBDA l :
    Then(LowerValue(c, Child(c, p, 2), l), LAMBDA r :
      LET lv == AsValue([r EXCEPT !.res = l.res])
          x == Emit(lv, "xor", lv.res.opd, r.res.opd)
      IN Value(x, c.info[p].ty, LastInst(x))))

\* Eager operators other than == take the left value before the right side runs.
LowerArithmetic(c, p, b) ==
  Then(LowerValue(c, Child(c, p, 1), b), LAMBDA l :
    Then(LowerValue(c, Child(c, p, 2), l), LAMBDA r :
      LET x == Emit(r, "xor", l.res.opd, r.res.opd) IN Value(x, c.info[p].ty, LastInst(x))))

\* == keeps the left place and loads it after the right side has run.
LowerEquality(c, p, b) ==
  Then(LowerSub(c, Child(c, p, 1), b), LAMBDA l :
    Then(LowerSub(c, Child(c, p, 2), l), LAMBDA r :
      LET lv == AsValue([r EXCEPT !.res = l.res])
          rv == AsValue([lv EXCEPT !.res = r.res])
          x == Emit(rv, "icmp", lv.res.opd, rv.res.opd)
      IN Require(Value(x, Bool, LastInst(x)), l.res.ty = Bool)))

\* The left side is stored, and the right side lowered into a block of its own.
LowerLazyLeft(c, p, l) ==
  LET slot == AllocaInEntry(l)
      lhs == AsValue(slot)
      stored == Emit(lhs, "store", lhs.res.opd, LastInst(slot))
      and == c.body[p].op = "and"
      cond == IF and THEN Emit(stored, "xor", lhs.res.opd, Const(1)) ELSE stored
      two == CreateBlock(CreateBlock(cond))
      merge == LastBlock(two)
  IN PositionAtEnd(Terminate(two, CondBr(IF and THEN LastInst(cond) ELSE lhs.res.opd, merge, merge - 1)),
                   merge - 1)

LowerShortCircuit(c, p, b) ==
  Then(LowerSub(c, Child(c, p, 1), b), LAMBDA l :
    LET left == LowerLazyLeft(c, p, l)
        result == Inst(Len(l.insts) + 1)
        merge == LastBlock(left)
        rhs == LowerSub(c, Child(c, p, 2), left)
        joined == IF rhs.ok THEN Terminate(StoreResult(rhs, result), Br(merge)) ELSE rhs
        load == Emit(PositionAtEnd([joined EXCEPT !.ok = TRUE], merge), "load", result, Void)
    IN Value(load, Bool, LastInst(load)))

\* mutant: the value is stored into a temporary
LowerAssign_ToTemporary(c, p, b) ==
  Then(LowerValue(c, Child(c, p, 2), b), LAMBDA r :
    LET slot == AllocaInEntry(r) IN Value(StoreResult(slot, LastInst(slot)), Unit, Void))
LowerAssign(c, p, b) ==
  Then(LowerValue(c, Child(c, p, 2), b), LAMBDA r :
    Then(LowerSub(c, Child(c, p, 1), r), LAMBDA place :
      Value(Emit(place, "store", r.res.opd, place.res.opd), Unit, Void)))

\* mutant: continue goes to the block the body starts in
OpenLoop_EntryHere(b, p, entry, exit) ==
  [b EXCEPT !.loops[p] = [open |-> TRUE, entry |-> b.cur, exit |-> exit, result |-> Void]]
OpenLoop(b, p, entry, exit) ==
  [b EXCEPT !.loops[p] = [open |-> TRUE, entry |-> entry, exit |-> exit, result |-> Void]]

\* The block a loop comes back to.
LowerLoopEntry(b) ==
  LET created == CreateBlock(b) IN PositionAtEnd(Terminate(created, Br(LastBlock(created))), LastBlock(created))

\* The blocks a loop starts with, its condition lowered; the state is in the body block.
LowerLoopHead(c, p, b) ==
  LET head == LowerLoopEntry(b) IN
  IF c.body[p].op = "loop" THEN OpenLoop(head, p, head.cur, NoBlock)
  ELSE Then(LowerValue(c, Child(c, p, 1), head), LAMBDA a :
         LET two == CreateBlock(CreateBlock(a))
             exit == LastBlock(two)
             inBody == PositionAtEnd(Terminate(two, CondBr(a.res.opd, exit - 1, exit)), exit - 1)
         IN OpenLoop(inBody, p, head.cur, exit))

\* mutant: the body is closed with a branch back even when it has ended already
CloseBody_Always(b, p) == Terminate([b EXCEPT !.ok = TRUE], Br(b.loops[p].entry))
CloseBody(b, p) == IF b.ok THEN Terminate(b, Br(b.loops[p].entry)) ELSE [b EXCEPT !.ok = TRUE]

LowerLoop(c, p, b) ==
  Then(LowerLoopHead(c, p, b), LAMBDA h :
    LET back == CloseBody(LowerBlock(c, Last(c.body[p].sub), h), p)
        loop == back.loops[p]
        closed == [back EXCEPT !.loops[p] = NotALoop]
        out == PositionAtEnd(closed, loop.exit)
    IN IF loop.exit = NoBlock THEN Stop(closed)
       ELSE IF loop.result # Void THEN Place(out, c.info[p].ty, loop.result)
       ELSE Value(out, c.info[p].ty, Void))

\* The exit block and the result slot of a loop are made by the first break that needs them.
\* mutant: every break makes an exit block of its own
WithExit_New(b, loop) == LET n == CreateBlock(b) IN [n EXCEPT !.loops[loop].exit = LastBlock(n)]
WithExit(b, loop) ==
  IF b.loops[loop].exit # NoBlock THEN b
  ELSE LET n == CreateBlock(b) IN [n EXCEPT !.loops[loop].exit = LastBlock(n)]
\* mutant: every break makes a result slot of its own
WithSlot_New(b, loop) == LET n == AllocaInEntry(b) IN [n EXCEPT !.loops[loop].result = LastInst(n)]
WithSlot(b, loop) ==
  IF b.loops[loop].result # Void THEN b
  ELSE LET n == AllocaInEntry(b) IN [n EXCEPT !.loops[loop].result = LastInst(n)]

\* The jump of a break out of its loop, with the value it gives the loop.
LeaveLoop(b, target, ty) ==
  LET exits == WithExit(b, target)
      slots == WithSlot(exits, target)
      stored == IF ty = Unit THEN exits ELSE StoreResult(slots, slots.loops[target].result)
  IN Stop(Terminate(stored, Br(stored.loops[target].exit)))

LowerBreak(c, p, b) ==
  LET value == IF c.body[p].op = "breakv" THEN LowerValue(c, Child(c, p, 1), b) ELSE Value(b, Unit, Void)
      target == c.info[p].jump
  IN Then(value, LAMBDA v :
       IF v.loops[target].open THEN LeaveLoop(v, target, c.info[target].ty) ELSE Stop(Require(v, FALSE)))

LowerContinue(c, p, b) ==
  LET loop == b.loops[c.info[p].jump] IN
  IF loop.open THEN Stop(Terminate(b, Br(loop.entry))) ELSE Stop(Require(b, FALSE))

\* One arm of an if, in its block; merge block and result slot are made on first use.
LowerBranch(c, p, ty, b, block, merge, result) ==
  LET arm == LowerSub(c, p, PositionAtEnd(b, block))
      merged == IF merge # NoBlock THEN arm ELSE CreateBlock(arm)
      target == IF merge # NoBlock THEN merge ELSE LastBlock(merged)
      slotted == IF result # Void \/ ty = Unit THEN merged ELSE AllocaInEntry(merged)
      slot == IF result # Void \/ ty = Unit THEN result ELSE LastInst(slotted)
      stored == IF ty = Unit THEN slotted ELSE StoreResult(slotted, slot)
  IN IF arm.ok THEN [b |-> Terminate(stored, Br(target)), merge |-> target, result |-> slot]
     ELSE [b |-> [arm EXCEPT !.ok = TRUE], merge |-> merge, result |-> result]

\* After the arms: in the merge block, if an arm comes to its end.
EndIf(arms, ty) ==
  LET out == PositionAtEnd(arms.b, arms.merge) IN
  IF arms.merge = NoBlock THEN Stop(arms.b)
  ELSE IF arms.result # Void THEN Place(out, ty, arms.result) ELSE Value(out, ty, Void)

LowerIf(c, p, b) ==
  Then(LowerValue(c, Child(c, p, 1), b), LAMBDA a :
    LET two == CreateBlock(CreateBlock(a))
        \* the second block is the else block, or the merge block of an if without else
        second == LastBlock(two)
        start == Terminate(two, CondBr(a.res.opd, second - 1, second))
        ty == c.info[p].ty
        then == LowerBranch(c, Child(c, p, 2), ty, start, second - 1,
                            IF c.body[p].op = "if" THEN second ELSE NoBlock, Void)
    IN EndIf(IF c.body[p].op = "if" THEN then
             ELSE LowerBranch(c, Child(c, p, 3), ty, then.b, second, then.merge, then.result), ty))

LowerReturn(c, p, b) ==
  IF c.body[p].op = "return" THEN Stop(Terminate(b, Ret(Void)))
  ELSE Then(LowerValue(c, Child(c, p, 1), b), LAMBDA v : Stop(Terminate(v, Ret(v.res.opd))))

LowerExpr(c, p, b) ==
  LET op == c.body[p].op IN
  CASE op = "unit" -> Value(b, Unit, Void)
    [] op = "true" -> Value(b, Bool, Const(1))
    [] op = "read" -> LET x == Emit(b, "call", Void, Void) IN Value(x, Bool, LastInst(x))
    [] op = "x" -> LowerPath(c, p, b)
    [] op \in BlockOps -> LowerBlock(c, p, b)
    [] op = "not" -> LowerNot(c, p, b)
    [] op = "xor" -> LowerArithmetic(c, p, b)
    [] op = "eq" -> LowerEquality(c, p, b)
    [] op \in {"and", "or"} -> LowerShortCircuit(c, p, b)
    [] op = "set" -> LowerAssign(c, p, b)
    [] op \in {"loop", "while"} -> LowerLoop(c, p, b)
    [] op \in {"break", "breakv"} -> LowerBreak(c, p, b)
    [] op = "continue" -> LowerContinue(c, p, b)
    [] op \in {"if", "ifelse"} -> LowerIf(c, p, b)
    [] op \in {"return", "returnv"} -> LowerReturn(c, p, b)

\* lower_expr on the nodes of f with at most n nodes below them.
LowerTree(f, info) ==
  LET Lower[n \in Nat] ==
        [call \in (DOMAIN f) \X Lowerers(f) |->
           LowerExpr([body |-> f, info |-> info, expr |-> IF n = 0 THEN <<>> ELSE Lower[n - 1]],
                     call[1], call[2])]
  IN Lower

\* The entry block, with the parameter in a slot.
LowerEntry(f) ==
  LET empty == [ok |-> TRUE, fault |-> FALSE, insts |-> <<>>, blocks |-> <<>>, cur |-> 1,
                locals |-> [q \in Ids(f) |-> Unbound], loops |-> [q \in 0 .. Len(f) |-> NotALoop],
                res |-> [kind |-> "value", ty |-> Unit, opd |-> Void]]
      slot == AllocaInEntry(CreateBlock(empty))
  IN [Emit(slot, "store", Parameter(0), LastInst(slot)) EXCEPT
        !.locals[ParamId] = [kind |-> "place", ty |-> Bool, opd |-> LastInst(slot)]]

\* lower_body: the entry block, the parameter's slot, the body, the final ret.
LowerFunction(f, info) ==
  Then(LowerBlock([body |-> f, info |-> info, expr |-> LowerTree(f, info)[Len(f)]], 1, LowerEntry(f)),
       LAMBDA b : Terminate(b, Ret(b.res.opd)))
=============================================================================
