--------------------------- MODULE MCMangoSession ---------------------------
(***************************************************************************)
(* Instances of MangoSession for TLC: sizes 1 (fits every ceiling) and 2,  *)
(* and the option records the two ends are constructed with.               *)
(***************************************************************************)
EXTENDS MangoSession, TLC

Options(majors, minors, frames, inFlight) ==
    [major : majors, minor : minors, maxFrame : frames, maxInFlight : inFlight]

\* Ends that agree on the version; one or two requests may be in flight.
ConfigsInFlight == Options({1}, {2}, {2}, {1, 2})
\* Every combination of versions the negotiation tells apart, and an end whose
\* ceiling an error of the other end can exceed.
ConfigsVersions == Options({1, 2}, {0, 2}, {2}, {1}) \cup Options({1}, {2}, {1}, {1})
\* A ceiling below the default and one at it.
ConfigsCeilings == Options({1}, {2}, {1, 2}, {2})
ConfigsPlain == Options({1}, {2}, {2}, {2})

Symmetry == Permutations(Call) \cup Permutations(StreamKey)
=============================================================================
