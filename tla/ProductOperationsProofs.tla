----------------------- MODULE ProductOperationsProofs -----------------------
(***************************************************************************)
(* Proofs about ProductOperations, for every set of requests and inputs    *)
(* and every number of restarts.                                           *)
(***************************************************************************)
EXTENDS ProductOperations, TLAPS

\* The handlers whose request claimed the row and has not let go of it.
Holds(r) == phase[r] \in {"claimed", "marking", "releasing", "draining", "settling"}

\* A handler that holds the row is alone with it: it is of this process, was made
\* for this request, is still open and no verdict waits for it.
HolderOwnsRow ==
    \A r \in Request : Holds(r) =>
        /\ HasRow /\ row.owner = owner /\ row.fingerprint = Fingerprint(r)
        /\ row.state \in Open /\ pending = "none"
        /\ \A s \in Request : s # r => ~Holds(s) /\ ~Dispatched(s)

\* Before it is dispatched the row is only accepted, and nothing was dispatched.
HolderBeforeDispatch ==
    \A r \in Request :
        /\ phase[r] \in {"claimed", "releasing"} => row.state = "accepted" /\ ~Dispatched(r)
        /\ phase[r] = "marking" => row.state = "accepted"

\* A handler about to mark the row unresolved found a row nobody else settles.
OrphanRow ==
    \A r \in Request : phase[r] = "unresolving" =>
        HasRow /\ row.owner # owner /\ row.state \in Open \cup {"unresolved"}

\* A verdict waits only for a row.
PendingHasRow == pending # "none" => HasRow

\* A handler that settles has a verdict to record.
SettlesVerdict ==
    \A r \in Request : phase[r] = "settling" => verdict[r] \in Terminal

AdmissionInv ==
    /\ TypeOK /\ DispatchedAtMostOnce
    /\ HolderOwnsRow /\ HolderBeforeDispatch /\ OrphanRow
    /\ PendingHasRow /\ SettlesVerdict

-----------------------------------------------------------------------------
\* A handler's step keeps the row with the one request that claimed it, whatever
\* storage answers (claimOperation, readOperation, settleOperation, the routes).
LEMMA HandlerAdmission ==
    ASSUME AdmissionInv, NEW r \in Request, Handles(r)
    PROVE  AdmissionInv'
<1>. USE DEF AdmissionInv, Goes, Holds, HolderOwnsRow, HolderBeforeDispatch, OrphanRow,
         PendingHasRow, SettlesVerdict, DispatchedAtMostOnce, Dispatched, TypeOK,
         requestVars, Kinds, Open, Terminal, NoRow, HasRow, Fingerprint
<1>1. CASE ClaimOperation(r)
  BY <1>1 DEF ClaimOperation, Claim, Row
<1>2. CASE ReadOperation(r)
  BY <1>2 DEF ReadOperation, Answer, Tells, OwnerGone
<1>3. CASE CreateChat(r)
  BY <1>3 DEF CreateChat, Answer, Tells, Row
<1>4. CASE StreamRefused(r)
  BY <1>4 DEF StreamRefused
<1>5. CASE StreamStarts(r)
  BY <1>5 DEF StreamStarts
<1>6. ASSUME NEW b \in BOOLEAN, Unresolve(r, b) PROVE AdmissionInv'
  BY <1>6 DEF Unresolve, OrphanVerdict, Answer, Tells
<1>7. ASSUME NEW b \in BOOLEAN, Recover(r, b) PROVE AdmissionInv'
  BY <1>7 DEF Recover, WriteTerminalReceipt, Settles, PendingAfterRefusal, Answer, Tells
<1>8. ASSUME NEW b \in BOOLEAN, Respond(r, b) PROVE AdmissionInv'
  BY <1>8 DEF Respond, Tells
<1>9. ASSUME NEW b \in BOOLEAN, StreamThrows(r, b) PROVE AdmissionInv'
  BY <1>9 DEF StreamThrows, AfterThrow
<1>10. ASSUME NEW b \in BOOLEAN, MarkRunning(r, b) PROVE AdmissionInv'
  BY <1>10 DEF MarkRunning, Tells
<1>11. ASSUME NEW b \in BOOLEAN, ReleaseOperation(r, b) PROVE AdmissionInv'
  BY <1>11 DEF ReleaseOperation
<1>12. ASSUME NEW b \in BOOLEAN, SettleOperation(r, b) PROVE AdmissionInv'
  BY <1>12 DEF SettleOperation, WriteTerminalReceipt, Settles
<1>13. ASSUME NEW outcome \in Terminal, WorkEnds(r, outcome) PROVE AdmissionInv'
  BY <1>13 DEF WorkEnds
<1>. QED
  BY <1>1, <1>2, <1>3, <1>4, <1>5, <1>6, <1>7, <1>8, <1>9, <1>10, <1>11, <1>12, <1>13 DEF Handles

\* The invariant holds before the first request.
LEMMA AdmissionInit == Init => AdmissionInv
<1>. SUFFICES ASSUME Init PROVE AdmissionInv
  OBVIOUS
<1>1. TypeOK
  <2>1. owner \in 0 .. MaxRestarts
    BY MaxRestartsTyped DEF Init
  <2>. QED
    BY <2>1 DEF Init, TypeOK
<1>2. \A r \in Request : ~Holds(r) /\ phase[r] = "start" /\ ~Dispatched(r)
  BY DEF Init, Holds, Dispatched
<1>. QED
  BY <1>1, <1>2
     DEF Init, AdmissionInv, HolderOwnsRow, HolderBeforeDispatch, OrphanRow, PendingHasRow,
         SettlesVerdict, DispatchedAtMostOnce

\* A step of a handler, an expiry, a restart or a stutter keeps the invariant.
LEMMA AdmissionStep == AdmissionInv /\ [Next]_vars => AdmissionInv'
<1>. SUFFICES ASSUME AdmissionInv, [Next]_vars PROVE AdmissionInv'
  OBVIOUS
<1>1. ASSUME NEW r \in Request, Handles(r) PROVE AdmissionInv'
  BY <1>1, HandlerAdmission
<1>. USE DEF AdmissionInv, Holds, HolderOwnsRow, HolderBeforeDispatch, OrphanRow, PendingHasRow,
       SettlesVerdict, DispatchedAtMostOnce, Dispatched, TypeOK, Kinds, Open, Terminal, NoRow,
       HasRow, Fingerprint, requestVars
<1>2. CASE Expire
  BY <1>2 DEF Expire
<1>3. CASE Restart
  BY <1>3, MaxRestartsTyped DEF Restart
<1>4. CASE UNCHANGED vars
  BY <1>4 DEF vars
<1>. QED
  BY <1>1, <1>2, <1>3, <1>4 DEF Next

\* In every reachable state the row belongs to the one request that claimed it.
THEOREM AdmissionInvariant == Spec => []AdmissionInv
BY AdmissionInit, AdmissionStep, PTL DEF Spec

\* For every number of requests, inputs and restarts every variable keeps its type.
THEOREM TypeCorrect == Spec => []TypeOK
<1>1. AdmissionInv => TypeOK
  BY DEF AdmissionInv
<1>. QED
  BY <1>1, AdmissionInvariant, PTL

\* For every number of requests, inputs and restarts an operation id dispatches
\* work at most once (claimOperation, releaseOperation, the routes).
THEOREM OperationRunsOnce == Spec => []DispatchedAtMostOnce
<1>1. AdmissionInv => DispatchedAtMostOnce
  BY DEF AdmissionInv
<1>. QED
  BY <1>1, AdmissionInvariant, PTL

-----------------------------------------------------------------------------
\* A handler never touches a row that has its verdict: the writes that name no
\* owner and no state (finishOperation) only ever find the row they expect.
LEMMA HandlerKeepsVerdict ==
    ASSUME AdmissionInv, NEW r \in Request, Handles(r), row.state \in Terminal
    PROVE  row' = row
<1>. USE DEF AdmissionInv, Open, Terminal
<1>1. CASE ClaimOperation(r)
  BY <1>1 DEF ClaimOperation, Claim, HasRow
<1>2. CASE ReadOperation(r)
  BY <1>2 DEF ReadOperation
<1>3. CASE CreateChat(r)
  BY <1>3 DEF CreateChat, HasRow
<1>4. CASE StreamRefused(r)
  BY <1>4 DEF StreamRefused
<1>5. CASE StreamStarts(r)
  BY <1>5 DEF StreamStarts
<1>6. ASSUME NEW b \in BOOLEAN, Unresolve(r, b) PROVE row' = row
  BY <1>6 DEF Unresolve, OrphanVerdict, OrphanRow, TypeOK, NoRow
<1>7. ASSUME NEW b \in BOOLEAN, Recover(r, b) PROVE row' = row
  BY <1>7 DEF Recover, WriteTerminalReceipt, Settles
<1>8. ASSUME NEW b \in BOOLEAN, Respond(r, b) PROVE row' = row
  BY <1>8 DEF Respond, Holds, HolderOwnsRow
<1>9. ASSUME NEW b \in BOOLEAN, StreamThrows(r, b) PROVE row' = row
  BY <1>9 DEF StreamThrows
<1>10. ASSUME NEW b \in BOOLEAN, MarkRunning(r, b) PROVE row' = row
  BY <1>10 DEF MarkRunning, Holds, HolderOwnsRow
<1>11. ASSUME NEW b \in BOOLEAN, ReleaseOperation(r, b) PROVE row' = row
  BY <1>11 DEF ReleaseOperation
<1>12. ASSUME NEW b \in BOOLEAN, SettleOperation(r, b) PROVE row' = row
  BY <1>12 DEF SettleOperation, WriteTerminalReceipt, Settles
<1>13. ASSUME NEW outcome \in Terminal, WorkEnds(r, outcome) PROVE row' = row
  BY <1>13 DEF WorkEnds
<1>. QED
  BY <1>1, <1>2, <1>3, <1>4, <1>5, <1>6, <1>7, <1>8, <1>9, <1>10, <1>11, <1>12, <1>13
     DEF Handles

\* A recorded verdict is never revised, for every number of requests, inputs and
\* restarts (writeTerminalReceipt, finishOperation, releaseOperation).
THEOREM VerdictsAreFinal == Spec => VerdictIsFinal
<1>1. AdmissionInv /\ [Next]_vars => [row.state \in Terminal => row' = row]_vars
  <2>. SUFFICES ASSUME AdmissionInv, Next, row.state \in Terminal PROVE row' = row
    BY DEF vars
  <2>1. ASSUME NEW r \in Request, Handles(r) PROVE row' = row
    BY <2>1, HandlerKeepsVerdict
  <2>2. CASE Expire \/ Restart
    BY <2>2 DEF Expire, Restart
  <2>. QED
    BY <2>1, <2>2 DEF Next
<1>. QED
  BY <1>1, AdmissionInvariant, PTL DEF Spec, VerdictIsFinal

-----------------------------------------------------------------------------
(* The receipts keep what an operation id promises.                        *)

\* Work is under way while its handler marks the row or drains the stream, and a
\* verdict about to be recorded, or kept for the next lookup, is true of it.
VerdictsGrounded ==
    /\ \A r \in Request : phase[r] \in {"marking", "draining"} => work[r] = "running"
    /\ \A r \in Request : phase[r] = "settling" /\ verdict[r] # "unresolved" => work[r] = verdict[r]
    /\ pending \in {"completed", "failed"} => \E r \in Request : work[r] = pending

\* A client that was told a verdict was told the row's, at the end of its request.
ToldTheRow ==
    \A r \in Request : told[r] \in Terminal => told[r] = row.state /\ phase[r] = "done"

PromiseInv == AdmissionInv /\ VerdictIsTrue /\ VerdictsGrounded /\ ToldTheRow

\* The invariant holds before the first request.
LEMMA PromiseInit == Init => PromiseInv
<1>. SUFFICES ASSUME Init PROVE PromiseInv
  OBVIOUS
<1>1. AdmissionInv
  BY AdmissionInit
<1>. QED
  BY <1>1 DEF Init, PromiseInv, VerdictIsTrue, VerdictsGrounded, ToldTheRow, NoRow, Terminal

\* Nobody takes a verdict back: one that is recorded stays true of the work.
LEMMA OutcomesStay ==
    ASSUME AdmissionInv, VerdictsGrounded, [Next]_vars, NEW s \in Request, work[s] \in Terminal
    PROVE  work'[s] = work[s]
<1>. USE DEF AdmissionInv, TypeOK, Terminal
<1>1. ASSUME NEW r \in Request, Handles(r) PROVE work'[s] = work[s]
  <2>1. CASE CreateChat(r)
    BY <2>1 DEF CreateChat, DispatchedAtMostOnce, Dispatched
  <2>2. CASE StreamStarts(r)
    BY <2>2 DEF StreamStarts, HolderBeforeDispatch, Dispatched
  <2>3. ASSUME NEW b \in BOOLEAN, Respond(r, b) PROVE work'[s] = work[s]
    BY <2>3 DEF Respond, HolderBeforeDispatch, Dispatched
  <2>4. ASSUME NEW b \in BOOLEAN, StreamThrows(r, b) PROVE work'[s] = work[s]
    BY <2>4 DEF StreamThrows, HolderBeforeDispatch, Dispatched
  <2>5. ASSUME NEW outcome \in Terminal, WorkEnds(r, outcome) PROVE work'[s] = work[s]
    BY <2>5 DEF WorkEnds, VerdictsGrounded
  <2>. QED
    BY <1>1, <2>1, <2>2, <2>3, <2>4, <2>5
       DEF Handles, ClaimOperation, ReadOperation, StreamRefused, Unresolve, Recover, MarkRunning,
           ReleaseOperation, SettleOperation
<1>2. CASE Expire
  BY <1>2 DEF Expire
<1>3. CASE Restart
  BY <1>3 DEF Restart
<1>4. CASE UNCHANGED vars
  BY <1>4 DEF vars
<1>. QED
  BY <1>1, <1>2, <1>3, <1>4 DEF Next

\* A handler's step keeps verdicts true and everyone told the same.
LEMMA HandlerPromise ==
    ASSUME PromiseInv, NEW r \in Request, Handles(r)
    PROVE  VerdictIsTrue' /\ VerdictsGrounded' /\ ToldTheRow'
<1>0. \A s \in Request : work[s] \in Terminal => work'[s] = work[s]
  BY OutcomesStay DEF PromiseInv, Next
<1>. USE DEF PromiseInv, AdmissionInv, Goes, Tells, VerdictIsTrue, VerdictsGrounded, ToldTheRow,
         TypeOK, requestVars, Open, Terminal, NoRow, HasRow
<1>1. CASE ClaimOperation(r)
  BY <1>1 DEF ClaimOperation, Claim, Row
<1>2. CASE ReadOperation(r)
  BY <1>2 DEF ReadOperation, Answer
<1>3. CASE CreateChat(r)
  BY <1>0, <1>3 DEF CreateChat, Answer, Row
<1>4. CASE StreamRefused(r)
  BY <1>4 DEF StreamRefused
<1>5. CASE StreamStarts(r)
  BY <1>0, <1>5 DEF StreamStarts
<1>6. ASSUME NEW b \in BOOLEAN, Unresolve(r, b) PROVE VerdictIsTrue' /\ VerdictsGrounded' /\ ToldTheRow'
  BY <1>6 DEF Unresolve, OrphanVerdict, OrphanRow, Answer
<1>7. ASSUME NEW b \in BOOLEAN, Recover(r, b) PROVE VerdictIsTrue' /\ VerdictsGrounded' /\ ToldTheRow'
  BY <1>7 DEF Recover, WriteTerminalReceipt, Settles, PendingAfterRefusal, Answer
<1>8. ASSUME NEW b \in BOOLEAN, Respond(r, b) PROVE VerdictIsTrue' /\ VerdictsGrounded' /\ ToldTheRow'
  BY <1>0, <1>8 DEF Respond, Holds, HolderOwnsRow
<1>9. ASSUME NEW b \in BOOLEAN, StreamThrows(r, b) PROVE VerdictIsTrue' /\ VerdictsGrounded' /\ ToldTheRow'
  BY <1>0, <1>9 DEF StreamThrows, AfterThrow
<1>10. ASSUME NEW b \in BOOLEAN, MarkRunning(r, b) PROVE VerdictIsTrue' /\ VerdictsGrounded' /\ ToldTheRow'
  BY <1>10 DEF MarkRunning, Holds, HolderOwnsRow
<1>11. ASSUME NEW b \in BOOLEAN, ReleaseOperation(r, b) PROVE VerdictIsTrue' /\ VerdictsGrounded' /\ ToldTheRow'
  BY <1>11 DEF ReleaseOperation
<1>12. ASSUME NEW b \in BOOLEAN, SettleOperation(r, b) PROVE VerdictIsTrue' /\ VerdictsGrounded' /\ ToldTheRow'
  BY <1>12 DEF SettleOperation, WriteTerminalReceipt, Settles, SettlesVerdict
<1>13. ASSUME NEW outcome \in Terminal, WorkEnds(r, outcome)
       PROVE  VerdictIsTrue' /\ VerdictsGrounded' /\ ToldTheRow'
  BY <1>0, <1>13 DEF WorkEnds
<1>. QED
  BY <1>1, <1>2, <1>3, <1>4, <1>5, <1>6, <1>7, <1>8, <1>9, <1>10, <1>11, <1>12, <1>13 DEF Handles

\* Every step keeps verdicts true and everyone told the same.
LEMMA PromiseStep == PromiseInv /\ [Next]_vars => PromiseInv'
<1>. SUFFICES ASSUME PromiseInv, [Next]_vars PROVE PromiseInv'
  OBVIOUS
<1>1. AdmissionInv'
  BY AdmissionStep DEF PromiseInv
<1>2. ASSUME NEW r \in Request, Handles(r) PROVE VerdictIsTrue' /\ VerdictsGrounded' /\ ToldTheRow'
  BY <1>2, HandlerPromise
<1>3. ASSUME Expire PROVE VerdictIsTrue' /\ VerdictsGrounded' /\ ToldTheRow'
  BY <1>3 DEF Expire, PromiseInv, VerdictIsTrue, VerdictsGrounded, ToldTheRow
<1>4. ASSUME Restart PROVE VerdictIsTrue' /\ VerdictsGrounded' /\ ToldTheRow'
  BY <1>4 DEF Restart, PromiseInv, AdmissionInv, TypeOK, VerdictIsTrue, VerdictsGrounded,
              ToldTheRow, Terminal
<1>5. ASSUME UNCHANGED vars PROVE VerdictIsTrue' /\ VerdictsGrounded' /\ ToldTheRow'
  BY <1>5 DEF vars, PromiseInv, VerdictIsTrue, VerdictsGrounded, ToldTheRow
<1>. QED
  BY <1>1, <1>2, <1>3, <1>4, <1>5 DEF Next, PromiseInv

\* Completed and failed are reported only of work that ended so, for every number
\* of requests, inputs and restarts (readOperation, settleOperation), and every
\* client that hears a verdict hears the same (readOperation).
THEOREM VerdictsTrueAndShared == Spec => [](VerdictIsTrue /\ AnswersAgree)
<1>1. Spec => []PromiseInv
  BY PromiseInit, PromiseStep, PTL DEF Spec
<1>2. PromiseInv => VerdictIsTrue /\ AnswersAgree
  BY DEF PromiseInv, ToldTheRow, AnswersAgree
<1>. QED
  BY <1>1, <1>2, PTL

\* The abstract variables, by their concrete values.
LEMMA PromiseVarsUnchanged ==
    ASSUME UNCHANGED <<work, row, told>>
    PROVE  UNCHANGED Promise!promiseVars
BY DEF Promise!promiseVars, VerdictOf

\* A handler's step is one step of the promise, or none.
LEMMA HandlerKeepsPromise ==
    ASSUME PromiseInv, NEW r \in Request, Handles(r)
    PROVE  [Promise!Next]_(Promise!promiseVars)
<1>. DEFINE Step == [Promise!Next]_(Promise!promiseVars)
<1>0. AdmissionInv' /\ VerdictIsTrue' /\ VerdictsGrounded' /\ ToldTheRow'
  BY HandlerPromise, HandlerAdmission DEF PromiseInv
<1>. USE DEF PromiseInv, AdmissionInv, TypeOK, VerdictOf, Terminal, Open, NoRow, HasRow, Goes, Tells,
         requestVars
\* What a reader is answered with is the row's verdict, or no verdict.
<1>a. ASSUME NEW state \in Open \cup Terminal, Answer(r, state), UNCHANGED work,
             UNCHANGED row, phase[r] # "done", state \in Terminal => state = row.state
      PROVE  Step
  <2>1. told[r] \notin Terminal
    BY <1>a DEF ToldTheRow
  <2>2. CASE told' = told
    BY <1>a, <2>2, PromiseVarsUnchanged
  <2>3. CASE told' = [told EXCEPT ![r] = state] /\ state \in Terminal
    <3>1. Promise!Tell(r)
      BY <1>a, <2>3 DEF Promise!Tell
    <3>. QED
      BY <3>1 DEF Promise!Next
  <2>4. CASE told' = [told EXCEPT ![r] = state] /\ state \notin Terminal
    BY <1>a, <2>1, <2>4 DEF Promise!promiseVars
  <2>. QED
    BY <1>a, <2>2, <2>3, <2>4 DEF Answer
<1>1. CASE ClaimOperation(r)
  BY <1>1 DEF ClaimOperation, Claim, Row, Promise!promiseVars
<1>2. CASE ReadOperation(r)
  <2>1. CASE UNCHANGED told
    BY <1>2, <2>1, PromiseVarsUnchanged DEF ReadOperation
  <2>2. CASE Answer(r, row.state) /\ HasRow
    BY <1>2, <1>a, <2>2 DEF ReadOperation
  <2>. QED
    BY <1>2, <2>1, <2>2 DEF ReadOperation
<1>3. CASE CreateChat(r)
  <2>1. CASE ~HasRow
    <3>1. Promise!Untouched
      BY <2>1 DEF Promise!Untouched, DispatchedAtMostOnce, Dispatched
    <3>2. /\ row.state = "none" /\ row'.state = "completed"
          /\ work' = [work EXCEPT ![r] = "completed"] /\ told' = [told EXCEPT ![r] = "completed"]
      BY <1>3, <2>1 DEF CreateChat, Row
    <3>3. Promise!Perform(r)
      BY <3>1, <3>2 DEF Promise!Perform
    <3>. QED
      BY <3>3 DEF Promise!Next
  <2>2. CASE HasRow /\ Answer(r, row.state)
    BY <1>3, <1>a, <2>2 DEF CreateChat
  <2>3. CASE HasRow /\ UNCHANGED told
    BY <1>3, <2>3, PromiseVarsUnchanged DEF CreateChat
  <2>. QED
    BY <1>3, <2>1, <2>2, <2>3 DEF CreateChat
<1>4. CASE StreamRefused(r)
  BY <1>4, PromiseVarsUnchanged DEF StreamRefused
<1>5. ASSUME phase[r] = "claimed", work' = [work EXCEPT ![r] = "running"],
             row'.state \in Open, \A s \in Request : VerdictOf(told'[s]) = VerdictOf(told[s])
      PROVE  Step
  <2>1. Promise!Dispatch(r)
    BY <1>5 DEF Promise!Dispatch, Promise!Untouched, HolderOwnsRow, HolderBeforeDispatch, Holds, Dispatched
  <2>. QED
    BY <2>1 DEF Promise!Next
<1>6. CASE StreamStarts(r)
  BY <1>5, <1>6 DEF StreamStarts, HolderOwnsRow, Holds
<1>7. ASSUME NEW b \in BOOLEAN, StreamThrows(r, b) PROVE Step
  <2>1. CASE b
    BY <1>5, <1>7, <2>1 DEF StreamThrows, HolderOwnsRow, Holds
  <2>2. CASE ~b
    BY <1>7, <2>2, PromiseVarsUnchanged DEF StreamThrows, HolderBeforeDispatch, Dispatched
  <2>. QED
    BY <2>1, <2>2
<1>8. ASSUME NEW b \in BOOLEAN, Respond(r, b) PROVE Step
  <2>1. CASE b
    <3>1. told[r] \notin Terminal
      BY <1>8 DEF Respond, ToldTheRow
    <3>. QED
      BY <1>5, <1>8, <2>1, <3>1 DEF Respond, HolderOwnsRow, Holds
  <2>2. CASE ~b
    BY <1>8, <2>2, PromiseVarsUnchanged DEF Respond
  <2>. QED
    BY <2>1, <2>2
<1>9. ASSUME NEW b \in BOOLEAN, MarkRunning(r, b) PROVE Step
  <2>1. told[r] \notin Terminal
    BY <1>9 DEF MarkRunning, ToldTheRow
  <2>. QED
    BY <1>9, <2>1 DEF MarkRunning, HolderOwnsRow, Holds, Promise!promiseVars
<1>10. ASSUME NEW b \in BOOLEAN, ReleaseOperation(r, b) PROVE Step
  BY <1>10 DEF ReleaseOperation, Promise!promiseVars
<1>11. ASSUME NEW outcome \in Terminal, WorkEnds(r, outcome) PROVE Step
  <2>1. Promise!Ends(r, outcome)
    BY <1>11 DEF WorkEnds, VerdictsGrounded, Promise!Ends
  <2>. QED
    BY <2>1 DEF Promise!Next, Promise!Verdicts
\* A verdict that is recorded is true of the work, and is told to the reader at most.
<1>12. ASSUME NEW v \in Terminal, row.state \notin Terminal, row'.state = v, UNCHANGED work,
              told' = told \/ told' = [told EXCEPT ![r] = v]
       PROVE  Step
  <2>1. Promise!Honest(v)
    BY <1>0, <1>12 DEF VerdictIsTrue, Promise!Honest
  <2>2. CASE told' = told
    <3>1. Promise!Decide(v, {})
      BY <1>12, <2>1, <2>2 DEF Promise!Decide
    <3>. QED
      BY <3>1 DEF Promise!Next, Promise!Verdicts
  <2>3. CASE told' = [told EXCEPT ![r] = v]
    <3>1. Promise!Decide(v, {r})
      BY <1>12, <2>1, <2>3 DEF Promise!Decide
    <3>. QED
      BY <3>1 DEF Promise!Next, Promise!Verdicts
  <2>. QED
    BY <1>12, <2>2, <2>3
<1>13. ASSUME NEW b \in BOOLEAN, Unresolve(r, b) PROVE Step
  <2>1. CASE ~b
    BY <1>13, <2>1, PromiseVarsUnchanged DEF Unresolve
  <2>2. CASE b /\ row.state = "unresolved"
    BY <1>13, <2>2, <1>a DEF Unresolve, OrphanVerdict
  <2>3. CASE b /\ row.state \in Open
    BY <1>13, <2>3, <1>12 DEF Unresolve, OrphanVerdict, Answer
  <2>. QED
    BY <1>13, <2>1, <2>2, <2>3 DEF Unresolve, OrphanRow
<1>14. ASSUME NEW b \in BOOLEAN, Recover(r, b) PROVE Step
  <2>1. CASE UNCHANGED <<row, told>>
    BY <1>14, <2>1, PromiseVarsUnchanged DEF Recover
  <2>2. CASE Settles /\ pending # "none" /\ b
    BY <1>14, <2>2, <1>12 DEF Recover, WriteTerminalReceipt, Settles, Answer
  <2>3. CASE ~b
    BY <1>14, <2>3, <1>a DEF Recover
  <2>. QED
    BY <1>14, <2>1, <2>2, <2>3 DEF Recover, WriteTerminalReceipt
<1>15. ASSUME NEW b \in BOOLEAN, SettleOperation(r, b) PROVE Step
  <2>1. CASE b /\ Settles
    BY <1>15, <2>1, <1>12 DEF SettleOperation, WriteTerminalReceipt, Settles, SettlesVerdict
  <2>2. CASE ~b \/ ~Settles
    BY <1>15, <2>2, PromiseVarsUnchanged DEF SettleOperation, WriteTerminalReceipt
  <2>. QED
    BY <2>1, <2>2
<1>. QED
  BY <1>1, <1>2, <1>3, <1>4, <1>6, <1>7, <1>8, <1>9, <1>10, <1>11, <1>13, <1>14, <1>15 DEF Handles

\* A restart loses sight of the one work that was under way.
LEMMA RestartKeepsPromise ==
    ASSUME PromiseInv, Restart
    PROVE  [Promise!Next]_(Promise!promiseVars)
<1>. USE DEF PromiseInv, AdmissionInv, TypeOK
<1>1. CASE \A r \in Request : work[r] # "running"
  <2>1. work' = work
    BY <1>1 DEF Restart
  <2>. QED
    BY <2>1, PromiseVarsUnchanged DEF Restart
<1>2. ASSUME NEW r \in Request, work[r] = "running" PROVE Promise!Next
  <2>1. work' = [work EXCEPT ![r] = "lost"]
    BY <1>2 DEF Restart, DispatchedAtMostOnce, Dispatched
  <2>2. Promise!Ends(r, "lost")
    BY <1>2, <2>1 DEF Restart, Promise!Ends, VerdictOf
  <2>. QED
    BY <2>2 DEF Promise!Next
<1>. QED
  BY <1>1, <1>2

\* The receipts implement the promise of an operation id for every number of
\* requests, inputs and restarts (product-operation.ts and the routes that use it).
THEOREM ReceiptsKeepPromise == Spec => KeepsPromise
<1>1. Init => Promise!Init
  BY DEF Init, Promise!Init, VerdictOf, NoRow, Terminal
<1>2. PromiseInv /\ [Next]_vars => [Promise!Next]_(Promise!promiseVars)
  <2>. SUFFICES ASSUME PromiseInv, [Next]_vars PROVE [Promise!Next]_(Promise!promiseVars)
    OBVIOUS
  <2>1. ASSUME NEW r \in Request, Handles(r) PROVE [Promise!Next]_(Promise!promiseVars)
    BY <2>1, HandlerKeepsPromise
  <2>2. CASE Expire
    BY <2>2, PromiseVarsUnchanged DEF Expire
  <2>3. CASE Restart
    BY <2>3, RestartKeepsPromise
  <2>4. CASE UNCHANGED vars
    BY <2>4, PromiseVarsUnchanged DEF vars
  <2>. QED
    BY <2>1, <2>2, <2>3, <2>4 DEF Next
<1>3. Spec => []PromiseInv
  BY PromiseInit, PromiseStep, PTL DEF Spec
<1>. QED
  BY <1>1, <1>2, <1>3, PTL DEF Spec, KeepsPromise, Promise!Spec
-----------------------------------------------------------------------------
(* What a refused write leaves behind.                                     *)

\* No row is of a process that has not started.
OwnersArePast == HasRow => row.owner <= owner

\* A request that is still to claim or read the row dispatched nothing.
ReadersDidNothing ==
    \A r \in Request :
        phase[r] \in {"start", "reading", "unresolving", "recovering"} => ~Dispatched(r)

KeptInv == AdmissionInv /\ OwnersArePast /\ ReadersDidNothing /\ VerdictKept

\* A handler that ends has its verdict in the row or leaves it for a lookup; a lookup
\* drops it only when the row has one, belongs to no one or expired (readOperation).
LEMMA HandlerKeeps ==
    ASSUME KeptInv, NEW r \in Request, Handles(r)
    PROVE  (OwnersArePast /\ ReadersDidNothing /\ VerdictKept)'
<1>. USE DEF KeptInv, AdmissionInv, OwnersArePast, ReadersDidNothing, VerdictKept, Dispatched, Goes, TypeOK, requestVars,
         Open, Terminal, NoRow, HasRow
<1>1. CASE ClaimOperation(r)
  BY <1>1 DEF ClaimOperation, Claim, Row, DispatchedAtMostOnce, Dispatched
<1>2. CASE ReadOperation(r)
  BY <1>2 DEF ReadOperation, Answer, Tells, OwnerGone, DispatchedAtMostOnce, Dispatched
<1>3. CASE CreateChat(r)
  BY <1>3 DEF CreateChat, Answer, Tells, Row
<1>4. CASE StreamRefused(r)
  BY <1>4 DEF StreamRefused
<1>5. CASE StreamStarts(r)
  BY <1>5 DEF StreamStarts
<1>6. ASSUME NEW b \in BOOLEAN, Unresolve(r, b) PROVE (OwnersArePast /\ ReadersDidNothing /\ VerdictKept)'
  BY <1>6 DEF Unresolve, OrphanVerdict, Answer, Tells, OrphanRow
<1>7. ASSUME NEW b \in BOOLEAN, Recover(r, b) PROVE (OwnersArePast /\ ReadersDidNothing /\ VerdictKept)'
  BY <1>7 DEF Recover, WriteTerminalReceipt, Settles, PendingAfterRefusal, Answer, Tells, PendingHasRow
<1>8. ASSUME NEW b \in BOOLEAN, Respond(r, b) PROVE (OwnersArePast /\ ReadersDidNothing /\ VerdictKept)'
  BY <1>8 DEF Respond, HolderOwnsRow, Holds, Dispatched
<1>9. ASSUME NEW b \in BOOLEAN, StreamThrows(r, b) PROVE (OwnersArePast /\ ReadersDidNothing /\ VerdictKept)'
  BY <1>9 DEF StreamThrows, AfterThrow
<1>10. ASSUME NEW b \in BOOLEAN, MarkRunning(r, b) PROVE (OwnersArePast /\ ReadersDidNothing /\ VerdictKept)'
  BY <1>10 DEF MarkRunning, HolderOwnsRow, Holds, Dispatched
<1>11. ASSUME NEW b \in BOOLEAN, ReleaseOperation(r, b) PROVE (OwnersArePast /\ ReadersDidNothing /\ VerdictKept)'
  BY <1>11 DEF ReleaseOperation, HolderOwnsRow, HolderBeforeDispatch, Holds, Dispatched
<1>12. ASSUME NEW b \in BOOLEAN, SettleOperation(r, b) PROVE (OwnersArePast /\ ReadersDidNothing /\ VerdictKept)'
  BY <1>12 DEF SettleOperation, WriteTerminalReceipt, Settles, HolderOwnsRow, Holds, SettlesVerdict
<1>13. ASSUME NEW outcome \in Terminal, WorkEnds(r, outcome) PROVE (OwnersArePast /\ ReadersDidNothing /\ VerdictKept)'
  BY <1>13 DEF WorkEnds
<1>. QED
  BY <1>1, <1>2, <1>3, <1>4, <1>5, <1>6, <1>7, <1>8, <1>9, <1>10, <1>11, <1>12, <1>13 DEF Handles

\* So does an expiry; a restart leaves only rows of a process that is gone.
LEMMA KeptStep == KeptInv /\ [Next]_vars => KeptInv'
<1>. SUFFICES ASSUME KeptInv, [Next]_vars PROVE (OwnersArePast /\ ReadersDidNothing /\ VerdictKept)'
  BY AdmissionStep DEF KeptInv
<1>1. ASSUME NEW r \in Request, Handles(r) PROVE (OwnersArePast /\ ReadersDidNothing /\ VerdictKept)'
  BY <1>1, HandlerKeeps
<1>2. CASE Expire
  BY <1>2 DEF Expire, KeptInv, OwnersArePast, ReadersDidNothing, VerdictKept, Dispatched, HasRow
<1>3. CASE Restart
  <2>1. owner \in Nat /\ owner' = owner + 1 /\ row' = row
    BY <1>3, MaxRestartsTyped DEF Restart, KeptInv, AdmissionInv, TypeOK
  <2>2. HasRow => row.owner \in Nat /\ row.owner <= owner
    BY MaxRestartsTyped DEF KeptInv, AdmissionInv, TypeOK, OwnersArePast, HasRow, NoRow
  <2>3. HasRow => row.owner <= owner' /\ row.owner # owner'
    BY <2>1, <2>2
  <2>4. \A r \in Request : work'[r] \in Terminal => Dispatched(r)
    BY <1>3 DEF Restart, Dispatched, Terminal, KeptInv, AdmissionInv, TypeOK
  <2>5. \A r \in Request : Dispatched(r) => HasRow
    BY DEF KeptInv, AdmissionInv, DispatchedAtMostOnce
  <2>6. ReadersDidNothing'
    BY <1>3 DEF Restart, KeptInv, ReadersDidNothing, Dispatched
  <2>. QED
    BY <2>1, <2>3, <2>4, <2>5, <2>6 DEF OwnersArePast, VerdictKept, HasRow
<1>4. CASE UNCHANGED vars
  BY <1>4 DEF vars, KeptInv, OwnersArePast, ReadersDidNothing, VerdictKept, Dispatched, HasRow
<1>. QED
  BY <1>1, <1>2, <1>3, <1>4 DEF Next

\* While the process lives, work that ended has its verdict in the row or kept for the
\* next lookup, whatever storage refused (settleOperation, readOperation).
THEOREM VerdictsAreKept == Spec => []VerdictKept
<1>1. Init => KeptInv
  <2>1. Init => OwnersArePast /\ ReadersDidNothing /\ VerdictKept
    BY DEF Init, OwnersArePast, ReadersDidNothing, VerdictKept, Dispatched, HasRow, NoRow
  <2>. QED
    BY <2>1, AdmissionInit DEF KeptInv
<1>2. KeptInv => VerdictKept
  BY DEF KeptInv
<1>. QED
  BY <1>1, <1>2, KeptStep, PTL DEF Spec
=============================================================================
