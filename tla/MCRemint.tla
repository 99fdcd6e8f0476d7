------------------------------ MODULE MCRemint ------------------------------
(* Remint with two Machines: a run on the seed that may be lost, and runs     *)
(* after it.                                                                  *)
EXTENDS Remint, TLC

CONSTANTS s1, s2
MCSlots == {s1, s2}
Sym == Permutations(MCSlots)
=============================================================================
