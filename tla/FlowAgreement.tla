---------------------------- MODULE FlowAgreement ----------------------------
(* The emitted code against what its source means: the code of ControlFlow and *)
(* the interpreter of FlowSource, given the same argument and answers.         *)
EXTENDS ControlFlow, FlowSource

\* What the source does with the answers given so far.
Due == Meaning(body, arg, input)

\* Whatever the code does that can be seen, returning a value or asking for one
\* more read(), the source does at that point with the same answers.
AgreesWithSource ==
  /\ AtRead => Due.kind = "reads"
  /\ phase = "done" => LET due == Due IN
                       /\ due.kind \in {"value", "return"}
                       /\ due.used = Len(input)
                       /\ answer # <<>> => answer = <<due.v>>

\* The code is called, or has just got an answer.
Resumed ==
  /\ phase = "run"
  /\ \/ pc = [block |-> 1, inst |-> 1]
     \/ pc.inst > 1 /\ code.insts[Block.insts[pc.inst - 1]].op = "call"

\* A function whose source goes on to answer is not left looping by its code.
AnswersIfSourceDoes ==
  []((Resumed /\ Due.kind # "silent") => <>(AtRead \/ phase = "done"))
=============================================================================
