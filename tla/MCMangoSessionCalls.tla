------------------------ MODULE MCMangoSessionCalls ------------------------
(***************************************************************************)
(* Two instances of MangoSession in one state graph: overlapping calls     *)
(* without events, and one call beside large and small events between ends *)
(* of different ceilings.                                                  *)
(***************************************************************************)
EXTENDS MCMangoSession

ConfigsCalls == ConfigsInFlight \cup ConfigsCeilings

Calls == conf[Hub].maxFrame = conf[Runtime].maxFrame

\* Only the runtime serves requests, so only its limit on them varies.
MCInit ==
    /\ Init
    /\ conf[Hub].maxInFlight = 2
    /\ conf \in [Peer -> ConfigsInFlight] \/ (conf \in [Peer -> ConfigsCeilings] /\ ~Calls)

\* The frames on the wire are small ones of calls.
CallsOnly ==
    \A p \in Peer :
        /\ OpenKeys(p) = {}
        /\ \A i \in 1 .. Len(wire[p]) :
              wire[p][i].size <= 1 /\ wire[p][i].type \notin {"evt", "ping"}

OneCall == \A c, d \in Call : call[Hub][c].state # "idle" /\ call[Hub][d].state # "idle" => c = d

Scenario == IF Calls THEN CallsOnly' ELSE OneCall'

MCSpec == MCInit /\ [][Next]_vars
=============================================================================
