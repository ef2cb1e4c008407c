-------------------------- MODULE MCRuntimeSockets --------------------------
(***************************************************************************)
(* Instances of RuntimeSockets for TLC.                                    *)
(***************************************************************************)
EXTENDS RuntimeSockets, TLC

AllDialIn == {Attempt}

Symmetry == Permutations(Attempt)
=============================================================================
