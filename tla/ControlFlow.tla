----------------------------- MODULE ControlFlow -----------------------------
(* A function goes through the compiler and its code runs: the body check, the *)
(* lowering to basic blocks, the printer, and then the emitted code, block by  *)
(* block, with the answers of the calls it makes chosen by the environment.    *)
EXTENDS FlowLower, FlowTyping

CONSTANTS Programs,     \* the bodies compiled, in families
          MaxReads,     \* bound: answers the environment gives to read()
          SetAside      \* what the known defects named in README.md are kept out of

ASSUME ControlFlowAssumption ==
  /\ MaxReads \in Nat
  /\ SetAside \subseteq {"lazy", "unit", "order"}
  /\ \A family \in Programs : \A f \in family : IsBody(f)

VARIABLES body,         \* the function's body
          result,       \* its declared result type
          arg,          \* the value of the parameter, known once the code is called
          phase,        \* where the function is: see Phases
          checked,      \* the checker's final state, until the module is printed
          code,         \* the lowerer's final state
          pc,           \* [block, inst]: the next instruction of the running code
          regs,         \* values of the instructions run so far
          mem,          \* values of the slots written so far
          input,        \* the answers given so far
          answer        \* the operand of the ret that ended the run

vars == <<body, result, arg, phase, checked, code, pc, regs, mem, input, answer>>

Phases == {"check", "lower", "print", "run", "done", "rejected", "aside", "panicked"}

NoCode == [insts |-> <<>>, blocks |-> <<>>]

\* Programs the known defects touch: a lazy operator whose right side diverges, a
\* unit value that must be stored or compared, a == whose right side assigns its left.
Touches(defect, f, info) ==
  \E p \in DOMAIN f :
    LET sub == f[p].sub IN
    CASE defect = "lazy" -> f[p].op \in {"and", "or"} /\ info[sub[2]].div
      [] defect = "unit" -> \/ f[p].op = "let" /\ info[LetId(p)].ty = Unit
                            \/ f[p].op = "eq" /\ \E k \in 1..2 : info[sub[k]].val = Unit
      [] defect = "order" -> /\ f[p].op = "eq" /\ f[sub[1]].op = "x"
                             /\ \E q \in sub[2] .. f[sub[2]].last : f[q].op = "set"

Init ==
  /\ \E family \in Programs : body \in family
  /\ result \in {Unit, Bool}
  /\ arg = 0
  /\ phase = "check"
  /\ checked = <<>> /\ code = NoCode
  /\ pc = [block |-> 1, inst |-> 1]
  /\ regs = <<>> /\ mem = <<>> /\ input = <<>> /\ answer = <<>>

(******************************* compiling **********************************)
Check ==
  /\ phase = "check"
  /\ LET s == CheckFunction(body, result) IN
     /\ checked' = s
     /\ phase' = IF ~s.ok THEN "rejected"
                 ELSE IF \E d \in SetAside : Touches(d, body, s.info) THEN "aside" ELSE "lower"
  /\ UNCHANGED <<body, result, arg, code, pc, regs, mem, input, answer>>

Lower ==
  /\ phase = "lower"
  /\ LET b == LowerFunction(body, checked.info) IN
     /\ code' = b
     /\ phase' = IF b.fault THEN "panicked" ELSE "print"
  /\ UNCHANGED <<body, result, arg, checked, pc, regs, mem, input, answer>>

\* The printer asserts a terminator in every block and an operand wherever it
\* prints one; `ret` alone may have none.
Printable(c) ==
  /\ \A i \in DOMAIN c.blocks : c.blocks[i].term # NoTerminator
  /\ \A i \in DOMAIN c.blocks : c.blocks[i].term.k = "condbr" => c.blocks[i].term.opd # Void
  /\ \A i \in DOMAIN c.insts : c.insts[i].op \in {"store", "load", "xor", "icmp"} =>
       c.insts[i].a # Void /\ (c.insts[i].op # "load" => c.insts[i].b # Void)

EmitModule ==
  /\ phase = "print"
  /\ phase' = IF Printable(code) THEN "run" ELSE "panicked"
  /\ arg' \in {0, 1}
  /\ checked' = <<>>
  /\ UNCHANGED <<body, result, code, pc, regs, mem, input, answer>>

(*************************** the emitted code *******************************)
Block == code.blocks[pc.block]
AtInst == phase = "run" /\ pc.inst <= Len(Block.insts)
AtEnd == phase = "run" /\ pc.inst > Len(Block.insts)
InstId == Block.insts[pc.inst]
Current == code.insts[InstId]

Known(o) == CASE o.k = "inst" -> o.v \in DOMAIN regs
              [] o.k = "void" -> FALSE
              [] OTHER -> TRUE
ValueOf(o) == CASE o.k = "inst" -> regs[o.v] [] o.k = "param" -> arg [] OTHER -> o.v

Operands(i) == CASE i.op \in {"alloca", "call"} -> {}
                 [] i.op = "load" -> {i.a}
                 [] OTHER -> {i.a, i.b}

\* What an instruction needs is there: its operands, and for a load a written slot.
Ready(i) == /\ \A o \in Operands(i) : Known(o)
            /\ i.op = "load" => i.a.v \in DOMAIN mem

Set(f, x, v) == [y \in DOMAIN f \cup {x} |-> IF y = x THEN v ELSE f[y]]
Advance == pc' = [pc EXCEPT !.inst = @ + 1]

\* The slot of an alloca is named by its instruction.
Execute ==
  /\ AtInst
  /\ Current.op # "call"
  /\ Ready(Current)
  /\ LET i == Current IN
     /\ regs' = CASE i.op = "alloca" -> Set(regs, InstId, InstId)
                  [] i.op = "load" -> Set(regs, InstId, mem[i.a.v])
                  [] i.op = "store" -> regs
                  [] i.op = "xor" -> Set(regs, InstId, Bit(ValueOf(i.a) # ValueOf(i.b)))
                  [] i.op = "icmp" -> Set(regs, InstId, Bit(ValueOf(i.a) = ValueOf(i.b)))
     /\ mem' = IF i.op = "store" THEN Set(mem, i.b.v, ValueOf(i.a)) ELSE mem
  /\ Advance
  /\ UNCHANGED <<body, result, arg, phase, checked, code, input, answer>>

\* read(): the environment answers.
Read ==
  /\ AtInst
  /\ Current.op = "call"
  /\ Len(input) < MaxReads
  /\ \E v \in {0, 1} : /\ regs' = Set(regs, InstId, v)
                       /\ input' = Append(input, v)
  /\ Advance
  /\ UNCHANGED <<body, result, arg, phase, checked, code, mem, answer>>

Jump ==
  /\ AtEnd
  /\ Block.term.k \in {"br", "condbr"}
  /\ Block.term.k = "condbr" => Known(Block.term.opd)
  /\ LET t == Block.term IN
     pc' = [block |-> t.to[IF t.k = "br" \/ ValueOf(t.opd) = 1 THEN 1 ELSE 2], inst |-> 1]
  /\ UNCHANGED <<body, result, arg, phase, checked, code, regs, mem, input, answer>>

Return ==
  /\ AtEnd
  /\ Block.term.k = "ret"
  /\ Block.term.opd # Void => Known(Block.term.opd)
  /\ answer' = IF Block.term.opd = Void THEN <<>> ELSE <<ValueOf(Block.term.opd)>>
  /\ phase' = "done"
  /\ UNCHANGED <<body, result, arg, checked, code, pc, regs, mem, input>>

\* An operand or a slot used before anything defined it.
UndefinedUse ==
  \/ AtInst /\ ~Ready(Current)
  \/ AtEnd /\ Block.term.k = "condbr" /\ ~Known(Block.term.opd)
  \/ AtEnd /\ Block.term.k = "ret" /\ Block.term.opd # Void /\ ~Known(Block.term.opd)

Run == Execute \/ Read \/ Jump \/ Return
Next == Check \/ Lower \/ EmitModule \/ Run

Spec == Init /\ [][Next]_vars
\* The processor runs the code it is given.
FairSpec == Spec /\ WF_vars(Run)

(******************************* properties *********************************)
AtRead == AtInst /\ Current.op = "call"

\* No assertion of the lowerer, the builder or the printer fails on an accepted
\* function: nothing is appended to a closed block (builder.rs "cannot append an
\* instruction to a terminated block"), no block is closed twice or never, every
\* jump finds its loop, every operand exists.
NeverPanics == phase # "panicked"

\* The two meanings of "diverges" agree: a body the checker calls diverging, or of
\* type Never, is lowered to Err(()), so that no `ret` of a missing value is emitted.
DivergenceEndsTheCode ==
  phase = "print" => (checked.div \/ checked.info[1].ty = Never => ~code.ok)

\* A function that returns bool returns a value, one that returns () returns none.
ReturnsWhatItDeclares == phase = "done" => (answer = <<>> <=> result = Unit)

\* The emitted code never uses a register before its instruction has run, nor
\* loads a slot nothing was stored to.
NoUndefinedRead == ~UndefinedUse
=============================================================================
