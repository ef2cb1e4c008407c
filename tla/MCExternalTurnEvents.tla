------------------------ MODULE MCExternalTurnEvents ------------------------
(***************************************************************************)
(* ExternalTurnEvents on two small instances in one state graph: a stream  *)
(* with faults and approvals that two windows answer, and turns that are   *)
(* steered twice while a few events arrive.                                *)
(***************************************************************************)
EXTENDS ExternalTurnEvents, TLC

VARIABLE scenario

MCInit == Init /\ scenario \in {"stream", "steering"}

Asks == \E e \in Range(log) : e.type \in {"ask", "error"}

MCNext ==
    /\ Next /\ UNCHANGED scenario
    /\ scenario = "stream" => writes' = <<>>
    /\ scenario = "steering" => ~Asks' /\ faults' = 0 /\ lost' = {} /\ up' /\ Len(log') < MaxEvent

MCSpec ==
    /\ MCInit /\ [][MCNext]_<<vars, scenario>>
    /\ WF_vars(Settled) /\ WF_vars(FinishMark) /\ WF_vars(FinishRow) /\ WF_vars(WriteStep)

Symmetry == Permutations(Client) \cup Permutations(Steer)
=============================================================================
