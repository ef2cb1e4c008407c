---------------------------- MODULE CallPromise ----------------------------
(***************************************************************************)
(* What request() promises its callers (packages/protocol/src/session.ts,  *)
(* spec/mango-protocol-1.md 6.2 and 11.2), whatever the two sessions and   *)
(* the transport do to keep it: a call ends once, an answer that tells how *)
(* the work ended is of work that was begun, and a refusal is of work that *)
(* was not begun and will not be, so that it may be asked for again.       *)
(* MangoSession implements it; that it does not begin the same work twice, *)
(* which `begun' cannot tell, is its HandlersRunOnce.                      *)
(***************************************************************************)
CONSTANTS
    Caller,       \* the calls of both ends
    Reported,     \* outcomes that say how the work ended
    Refused,      \* outcomes that say it was not begun
    Unknown       \* outcomes that say neither

VARIABLE calls    \* per call its phase, its outcome, and whether the work was begun

Work(phase, outcome, begun) == [phase |-> phase, outcome |-> outcome, begun |-> begun]

Init == calls = [c \in Caller |-> Work("idle", "none", FALSE)]

\* A call moves from r to t: it is made,
Asks(r, t) ==
    /\ r.phase = "idle"
    /\ t = Work("open", r.outcome, r.begun)
\* its work begins, maybe for a caller that no longer waits but for none that was refused,
Begins(r, t) ==
    /\ r.phase # "idle" /\ ~r.begun /\ r.outcome \notin Refused
    /\ t = Work(r.phase, r.outcome, TRUE)
\* or its caller is told an outcome.
Ends(r, t) ==
    /\ r.phase = "open"
    /\ \E o \in Unknown \cup (IF r.begun THEN Reported ELSE Refused) :
          t = Work("settled", o, r.begun)

\* Calls move on their own; a closure ends many of them at once.
Moves(r, t) == t = r \/ Asks(r, t) \/ Begins(r, t) \/ Ends(r, t)

Next ==
    LET next == calls' IN
        /\ next = [c \in Caller |-> next[c]]
        /\ \A c \in Caller : Moves(calls[c], next[c])

Spec == Init /\ [][Next]_calls
=============================================================================
