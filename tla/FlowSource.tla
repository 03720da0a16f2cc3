------------------------------ MODULE FlowSource ------------------------------
(* What a function of the fragment means: a definitional interpreter over the  *)
(* syntax tree, written without types, blocks or slots.  It is the reference   *)
(* the lowered code is compared with.                                          *)
EXTENDS FlowSyntax

(* The outcome of a node, kind:                                                *)
(*   "value"  it has a value;      "return", "break", "continue": it jumps;    *)
(*   "reads"  it calls read() once more than `input` has answers;              *)
(*   "silent" it went round loops `Fuel` times since its last read().          *)
(* env is the stack of the values of the x's in scope, used the answers taken. *)
CONSTANT Fuel
ASSUME FuelAssumption == Fuel \in Nat

Outcome(s, kind, v) == [s EXCEPT !.kind = kind, !.v = v]

\* F(s), with s evaluated once: rounds of a loop nest.
Once(s, F(_)) == CHOOSE t \in {F(u) : u \in {s}} : TRUE

\* Continue with F when s has a value; any other outcome is the outcome of the whole.
OnValue(s, F(_)) == Once(s, LAMBDA u : IF u.kind = "value" THEN F(u) ELSE u)

RECURSIVE Eval(_, _, _, _)

\* One round of a loop from its head.
RECURSIVE Rounds(_, _, _, _)
Rounds(f, i, input, s) ==
  LET head == IF f[i].op = "loop" THEN Outcome(s, "value", 1) ELSE Eval(f, f[i].sub[1], input, s)
      again(t) == IF t.fuel = 0 THEN Outcome(t, "silent", 0)
                  ELSE Rounds(f, i, input, [t EXCEPT !.fuel = @ - 1, !.env = SubSeq(@, 1, Len(s.env))])
      leave(t) == Outcome([t EXCEPT !.env = SubSeq(@, 1, Len(s.env))], "value", t.v)
  IN OnValue(head, LAMBDA h :
       IF h.v = 0 THEN Outcome(h, "value", 0)
       ELSE Once(Eval(f, Last(f[i].sub), input, h), LAMBDA t :
              IF t.kind \in {"value", "continue"} THEN again(t)
              ELSE IF t.kind = "break" THEN leave(t) ELSE t))

EvalBlock(f, i, input, s) ==
  LET first == IF f[i].op \in {"empty", "tail"} THEN Outcome(s, "value", 0) ELSE Eval(f, f[i].sub[1], input, s)
      bound(t) == IF f[i].op = "let" THEN [t EXCEPT !.env = Append(@, t.v)] ELSE t
      whole == OnValue(first, LAMBDA t :
                 IF f[i].op \in TailOps THEN Eval(f, Last(f[i].sub), input, bound(t)) ELSE Outcome(t, "value", 0))
  IN [whole EXCEPT !.env = SubSeq(@, 1, Len(s.env))]

EvalBinary(f, i, input, s) ==
  OnValue(Eval(f, f[i].sub[1], input, s), LAMBDA l :
    IF (f[i].op = "and" /\ l.v = 0) \/ (f[i].op = "or" /\ l.v = 1) THEN l
    ELSE OnValue(Eval(f, f[i].sub[2], input, l), LAMBDA r :
           Outcome(r, "value", CASE f[i].op = "xor" -> Bit(l.v # r.v)
                                 [] f[i].op = "eq" -> Bit(l.v = r.v)
                                 [] OTHER -> r.v)))

EvalJump(f, i, kind, input, s) ==
  IF f[i].sub = <<>> THEN Outcome(s, kind, 0)
  ELSE OnValue(Eval(f, f[i].sub[1], input, s), LAMBDA t : Outcome(t, kind, t.v))

Eval(f, i, input, s) ==
  CASE f[i].op = "unit" -> Outcome(s, "value", 0)
    [] f[i].op = "true" -> Outcome(s, "value", 1)
    [] f[i].op = "x" -> Outcome(s, "value", Last(s.env))
    [] f[i].op = "read" -> IF s.used = Len(input) THEN Outcome(s, "reads", 0)
                        ELSE Outcome([s EXCEPT !.used = @ + 1, !.fuel = Fuel], "value", input[s.used + 1])
    [] f[i].op \in BlockOps -> EvalBlock(f, i, input, s)
    [] f[i].op = "not" -> OnValue(Eval(f, f[i].sub[1], input, s), LAMBDA t : Outcome(t, "value", 1 - t.v))
    [] f[i].op = "set" -> OnValue(Eval(f, f[i].sub[2], input, s), LAMBDA t :
                         Outcome([t EXCEPT !.env[Len(t.env)] = t.v], "value", 0))
    [] f[i].op \in {"xor", "eq", "and", "or"} -> EvalBinary(f, i, input, s)
    [] f[i].op \in {"loop", "while"} -> Rounds(f, i, input, s)
    [] f[i].op \in {"if", "ifelse"} ->
         OnValue(Eval(f, f[i].sub[1], input, s), LAMBDA c :
           IF c.v = 1 THEN Eval(f, f[i].sub[2], input, c)
           ELSE IF f[i].op = "ifelse" THEN Eval(f, f[i].sub[3], input, c) ELSE Outcome(c, "value", 0))
    [] f[i].op \in {"return", "returnv"} -> EvalJump(f, i, "return", input, s)
    [] f[i].op \in {"break", "breakv"} -> EvalJump(f, i, "break", input, s)
    [] f[i].op = "continue" -> Outcome(s, "continue", 0)

\* The outcome of the function with body f, argument x and the answers input.
Meaning(f, x, input) ==
  Eval(f, 1, input, [kind |-> "value", v |-> 0, env |-> <<x>>, used |-> 0, fuel |-> Fuel])
=============================================================================
