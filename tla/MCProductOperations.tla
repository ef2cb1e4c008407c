------------------------- MODULE MCProductOperations -------------------------
(***************************************************************************)
(* Instances of ProductOperations for TLC.                                 *)
(***************************************************************************)
EXTENDS ProductOperations, TLC

Symmetry == Permutations(Request) \cup Permutations(Input)
=============================================================================
