------------------------ MODULE MCRuntimeConnections ------------------------
(***************************************************************************)
(* Instances of RuntimeConnections for TLC: an environment the hub dials   *)
(* and one that two runtimes dial in to.                                   *)
(***************************************************************************)
EXTENDS RuntimeConnections, TLC

DialOutOrIn == {{}} \cup {A \in SUBSET Attempt : Cardinality(A) = 2}
OneDialsIn == {A \in SUBSET Attempt : Cardinality(A) = 1}

\* The environment the hub dials goes without the background reads of the
\* manifest, which write nothing any other step reads.
Scenario == ~DialIn => refresh' = None

Symmetry == Permutations(Attempt)
=============================================================================
