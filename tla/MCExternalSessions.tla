------------------------- MODULE MCExternalSessions -------------------------
(***************************************************************************)
(* ExternalSessions on two small instances in one state graph: a chat of a *)
(* vendor that goes on with a killed turn, with failing writes, a restart  *)
(* and withdrawn consent, whose last session stays on the first binding    *)
(* after at most one of the two failures; and two chats that adopt         *)
(* conversations, over fewer sessions.                                     *)
(***************************************************************************)
EXTENDS ExternalSessions

MCInit == Init /\ born = (IF kind = "claude" THEN {1} ELSE {})

BoundTo(b) == \E c \in Chat : row[c].bind = b \/ opener[c].bind = b

Scenario ==
    /\ kind = "claude" => (minted' = MaxSession => ~BoundTo(2)' /\ faults' + crashes' <= 1)
    /\ kind = "codex" => /\ faults' = 0 /\ crashes' = 0 /\ minted' < MaxSession
                         /\ consent' = "given" /\ ~stopping' /\ ~BoundTo(2)'

MCSpec == MCInit /\ [][Next]_vars
=============================================================================
