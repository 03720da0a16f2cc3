----------------------------- MODULE MCRuntimeVec -----------------------------
(* Two vectors of 4-byte elements in a heap with room for a full buffer of     *)
(* four and its copy of eight, or for a few clones.                            *)
EXTENDS RuntimeVec
CONSTANTS v, w
TwoVars == {v, w}
SmallElem == 1..2
=============================================================================
