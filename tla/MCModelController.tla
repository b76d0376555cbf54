------------------------ MODULE MCModelController --------------------------
(* Instances of ModelController for TLC.                                   *)
EXTENDS ModelController, TLC

Symmetry == Permutations(Configs)
=============================================================================
