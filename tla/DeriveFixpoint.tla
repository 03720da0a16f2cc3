--------------------------- MODULE DeriveFixpoint ---------------------------
(***************************************************************************)
(* What trait checking promises: starting from the declared derives, the   *)
(* ones that are not supported are withdrawn, one at a time and in any     *)
(* order, until the rest support each other.  The result does not depend   *)
(* on the order: it is the largest consistent subset of the declarations.  *)
(***************************************************************************)
EXTENDS TraitRules

VARIABLES prog,       \* the program under check
          derives,    \* the derives that still stand
          finished    \* the verdict is final

vars == <<prog, derives, finished>>

Init == /\ prog \in Programs
        /\ derives = prog.declared
        /\ finished = FALSE

\* Withdraw one derive that the standing ones do not support.
Withdraw == /\ ~finished
            /\ \E n \in derives : /\ ~Supported(n, prog.fields, derives)
                                  /\ derives' = derives \ {n}
            /\ UNCHANGED <<prog, finished>>

Finish == /\ ~finished
          /\ Consistent(derives, prog.fields)
          /\ finished' = TRUE
          /\ UNCHANGED <<prog, derives>>

Next == Withdraw \/ Finish

Spec == Init /\ [][Next]_vars
==============================================================================
