---------------------------- MODULE MCTraitCheck ----------------------------
(* TraitCheck on the programs of MCTraitPrograms. *)
EXTENDS TraitCheck, MCTraitPrograms
=============================================================================
