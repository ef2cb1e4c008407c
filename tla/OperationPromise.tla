--------------------------- MODULE OperationPromise ---------------------------
(***************************************************************************)
(* What an operation id promises the clients that use it, whatever the hub *)
(* does to keep it (the contract of                                        *)
(* apps/api/src/modules/operations/application/product-operation.ts): the  *)
(* work is done for one request at most, one verdict is reached, it says   *)
(* completed or failed only of work that ended so, and every client that   *)
(* hears a verdict hears that one.  ProductOperations implements it.       *)
(***************************************************************************)
CONSTANT Request

VARIABLES
    work,       \* per request: what became of the work done for it
    record,     \* the verdict, "none" before it is reached
    heard       \* per request: the verdict it was told, "none" before

promiseVars == <<work, record, heard>>

Verdicts == {"completed", "failed", "unresolved"}

Init ==
    /\ work = [r \in Request |-> "none"]
    /\ record = "none"
    /\ heard = [r \in Request |-> "none"]

Untouched == \A r \in Request : work[r] = "none"

\* The work is started for one request, once.
Dispatch(r) ==
    /\ Untouched
    /\ work' = [work EXCEPT ![r] = "running"]
    /\ UNCHANGED <<record, heard>>

\* It ends, or goes on with nobody to see its end.
Ends(r, outcome) ==
    /\ work[r] = "running"
    /\ work' = [work EXCEPT ![r] = outcome]
    /\ UNCHANGED <<record, heard>>

Honest(v) == v # "unresolved" => \E r \in Request : work[r] = v

\* The verdict is reached, and the client whose request reached it may be told at once.
Decide(v, told) ==
    /\ record = "none" /\ Honest(v)
    /\ record' = v
    /\ heard' = [r \in Request |-> IF r \in told THEN v ELSE heard[r]]
    /\ UNCHANGED work

\* A client is told the verdict.
Tell(r) ==
    /\ record # "none"
    /\ heard' = [heard EXCEPT ![r] = record]
    /\ UNCHANGED <<work, record>>

\* Work that is one transaction: done, decided and told together.
Perform(r) ==
    /\ Untouched /\ record = "none"
    /\ work' = [work EXCEPT ![r] = "completed"]
    /\ record' = "completed"
    /\ heard' = [heard EXCEPT ![r] = "completed"]

Next ==
    \/ \E r \in Request : \/ Dispatch(r) \/ Tell(r) \/ Perform(r)
                          \/ \E outcome \in Verdicts \cup {"lost"} : Ends(r, outcome)
    \/ \E v \in Verdicts : Decide(v, {}) \/ \E r \in Request : Decide(v, {r})

Spec == Init /\ [][Next]_promiseVars
=============================================================================
