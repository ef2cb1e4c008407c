-------------------------- MODULE ProductOperations --------------------------
(***************************************************************************)
(* The idempotency receipts of the hub                                     *)
(* (apps/api/src/modules/operations/application/product-operation.ts) with *)
(* the routes that use them: POST /chats, POST /respond,                   *)
(* POST /respond/stream and GET /operations/:id.                           *)
(*                                                                         *)
(* One operation id of one user, and the requests clients make with it: a  *)
(* row that is reserved before any work is dispatched and ends in one      *)
(* verdict.  Every SQL statement is one step; a step between two awaits    *)
(* may interleave with every other request, storage may refuse a write and *)
(* the hub may restart.  A create-chat is one transaction, hence one step. *)
(* Messages, result snapshots and fingerprint hashing are left out: a      *)
(* fingerprint is the kind of request with its input.                      *)
(***************************************************************************)
EXTENDS Integers, FiniteSets

CONSTANTS
    Request,        \* requests clients may make with the one operation id
    Input,          \* what a client may ask for
    MaxRestarts     \* bound: restarts of the hub

ASSUME RequestFinite == IsFiniteSet(Request)
ASSUME MaxRestartsTyped == MaxRestarts \in Nat

VARIABLES
    row,            \* the row of product_operations, NoRow before and after a release
    expired,        \* expiresAt has passed
    pending,        \* the verdict pendingReceipts holds for the row, "none" if none
    owner,          \* processOwner: the number of restarts so far
    kind,           \* per request: the route it calls
    input,          \* per request: the body it sends
    phase,          \* per request: where its handler is
    verdict,        \* per request: the terminal state its handler is about to record
    told,           \* per request: the state its answer reported
    work            \* per request: the work it dispatched

vars == <<row, expired, pending, owner, kind, input, phase, verdict, told, work>>
requestVars == <<kind, input>>

Kinds == {"create", "respond", "stream", "lookup"}
Open == {"accepted", "running"}
Terminal == {"completed", "failed", "unresolved"}
NoRow == [state |-> "none"]

\* operationFingerprint: the transport of a turn is part of its input.
Fingerprint(r) == <<kind[r], input[r]>>
Row(r, state) == [state |-> state, owner |-> owner, fingerprint |-> Fingerprint(r)]
HasRow == row.state # "none"

TypeOK ==
    /\ \/ row = NoRow
       \/ row \in [state : Open \cup Terminal, owner : 0 .. MaxRestarts,
                   fingerprint : (Kinds \ {"lookup"}) \X Input]
    /\ expired \in BOOLEAN
    /\ pending \in Terminal \cup {"none"}
    /\ owner \in 0 .. MaxRestarts
    /\ kind \in [Request -> Kinds] /\ input \in [Request -> Input]
    /\ phase \in [Request -> {"start", "reading", "unresolving", "recovering", "claimed",
                              "marking", "releasing", "draining", "settling", "done"}]
    /\ verdict \in [Request -> Terminal \cup {"none"}]
    /\ told \in [Request -> Open \cup Terminal \cup {"none"}]
    /\ work \in [Request -> {"none", "running", "lost"} \cup Terminal]

Goes(r, p) == phase' = [phase EXCEPT ![r] = p]
Tells(r, state) == told' = [told EXCEPT ![r] = state]

-----------------------------------------------------------------------------
(* claimOperation and readOperation.                                       *)

\* The insert of claimOperation: the primary key admits one.
ClaimOverwriting(r) ==
    /\ row' = Row(r, "accepted")
    /\ Goes(r, "claimed")

Claim(r) ==
    IF HasRow THEN Goes(r, "reading") /\ UNCHANGED row
              ELSE Goes(r, "claimed") /\ row' = Row(r, "accepted")

ClaimOperation(r) ==
    /\ phase[r] = "start" /\ kind[r] \in {"respond", "stream"}
    /\ Claim(r)
    /\ UNCHANGED <<expired, pending, owner, requestVars, verdict, told, work>>

\* What a request that did not claim the row is answered with, once read.
Answer(r, state) ==
    /\ Goes(r, "done")
    /\ IF kind[r] # "lookup" /\ row.fingerprint # Fingerprint(r)
       THEN UNCHANGED told                                  \* OperationConflictError
       ELSE Tells(r, state)

\* A row of an owner that is gone: nobody will settle it any more.
OwnerGone == row.owner # owner

\* readOperation up to its first write.
ReadOperation(r) ==
    /\ phase[r] = "reading" \/ (phase[r] = "start" /\ kind[r] = "lookup")
    /\ \/ /\ ~HasRow
          /\ Goes(r, IF kind[r] = "lookup" THEN "done" ELSE "start")
          /\ UNCHANGED <<pending, told>>
       \/ /\ HasRow /\ expired                              \* OperationExpiredError
          /\ pending' = "none"
          /\ Goes(r, "done")
          /\ UNCHANGED told
       \/ /\ HasRow /\ ~expired /\ row.state \in Terminal
          /\ pending' = "none"
          /\ Answer(r, row.state)
       \/ /\ HasRow /\ ~expired /\ row.state \in Open /\ OwnerGone
          /\ pending' = "none"
          /\ Goes(r, "unresolving")
          /\ UNCHANGED told
       \/ /\ HasRow /\ ~expired /\ row.state \in Open /\ ~OwnerGone
          /\ \/ /\ pending = "none"
                /\ Answer(r, row.state)
             \/ /\ pending # "none"
                /\ Goes(r, "recovering")
                /\ UNCHANGED told
          /\ UNCHANGED pending
    /\ UNCHANGED <<row, expired, owner, requestVars, verdict, work>>

\* What a process can say of work that an earlier one dispatched.
OrphanVerdict == "unresolved"

\* finishOperation(unresolved), or storage refuses it and the request fails.
Unresolve(r, ok) ==
    /\ phase[r] = "unresolving"
    /\ \/ /\ ok
          /\ row' = IF HasRow THEN [row EXCEPT !.state = OrphanVerdict] ELSE row
          /\ Answer(r, OrphanVerdict)
       \/ /\ ~ok
          /\ Goes(r, "done")
          /\ UNCHANGED <<row, told>>
    /\ UNCHANGED <<expired, pending, owner, requestVars, verdict, work>>

\* The row writeTerminalReceipt's where clause finds.
Settles == HasRow /\ row.state \in Open /\ row.owner = owner /\ ~expired

WriteTerminalReceipt(state) ==
    row' = IF Settles THEN [row EXCEPT !.state = state] ELSE row

PendingAfterRefusalDropped == "none"
PendingAfterRefusal == pending

\* A verdict whose write failed is written by the next lookup.  When another lookup
\* wrote it first the where clause finds nothing and the row is read again; when
\* storage refuses, the answer is the copy read before, which was open.
Recover(r, ok) ==
    /\ phase[r] = "recovering"
    /\ \/ /\ ok /\ pending # "none"
          /\ WriteTerminalReceipt(pending)
          /\ pending' = "none"
          /\ IF Settles THEN Answer(r, pending) ELSE Goes(r, "reading") /\ UNCHANGED told
       \/ /\ ok /\ pending = "none"
          /\ Goes(r, "reading")
          /\ UNCHANGED <<row, pending, told>>
       \/ /\ ~ok
          /\ pending' = PendingAfterRefusal
          /\ \E state \in Open : Answer(r, state)
          /\ UNCHANGED row
    /\ UNCHANGED <<expired, owner, requestVars, verdict, work>>

-----------------------------------------------------------------------------
(* The routes.                                                             *)

\* createChatUseCase: claim, chat and completed receipt commit together, or a
\* replay reads the receipt.
CreateChat(r) ==
    /\ phase[r] = "start" /\ kind[r] = "create"
    /\ \/ /\ ~HasRow
          /\ row' = Row(r, "completed")
          /\ work' = [work EXCEPT ![r] = "completed"]
          /\ Tells(r, "completed") /\ Goes(r, "done")
       \/ /\ HasRow
          /\ IF ~expired /\ row.state \in Terminal THEN Answer(r, row.state)
                                                   ELSE Goes(r, "done") /\ UNCHANGED told
          /\ UNCHANGED <<row, work>>
    /\ UNCHANGED <<expired, pending, owner, requestVars, verdict>>

\* POST /respond: the row says running before the work starts.
Respond(r, ok) ==
    /\ phase[r] = "claimed" /\ kind[r] = "respond"
    /\ \/ /\ ok
          /\ row' = IF HasRow THEN [row EXCEPT !.state = "running"] ELSE row
          /\ work' = [work EXCEPT ![r] = "running"]
          /\ Tells(r, "running") /\ Goes(r, "draining")
       \/ /\ ~ok
          /\ Goes(r, "releasing")
          /\ UNCHANGED <<row, work, told>>
    /\ UNCHANGED <<expired, pending, owner, requestVars, verdict>>

\* POST /respond/stream: preflight refuses, the turn starts, or the route throws,
\* whether or not the turn had started.
StreamRefused(r) ==
    /\ phase[r] = "claimed" /\ kind[r] = "stream"
    /\ Goes(r, "releasing")
    /\ UNCHANGED <<row, expired, pending, owner, requestVars, verdict, told, work>>

StreamStarts(r) ==
    /\ phase[r] = "claimed" /\ kind[r] = "stream"
    /\ work' = [work EXCEPT ![r] = "running"]
    /\ Goes(r, "marking")
    /\ UNCHANGED <<row, expired, pending, owner, requestVars, verdict, told>>

AfterThrowReleasing == "releasing"
AfterThrow == "settling"

StreamThrows(r, started) ==
    /\ phase[r] = "claimed" /\ kind[r] = "stream"
    /\ work' = [work EXCEPT ![r] = IF started THEN "running" ELSE "none"]
    /\ verdict' = [verdict EXCEPT ![r] = "unresolved"]
    /\ Goes(r, AfterThrow)
    /\ UNCHANGED <<row, expired, pending, owner, requestVars, told>>

\* finishOperation(running) of a started stream; a refused write is only logged.
MarkRunning(r, ok) ==
    /\ phase[r] = "marking"
    /\ row' = IF ok /\ HasRow THEN [row EXCEPT !.state = "running"] ELSE row
    /\ Tells(r, IF ok THEN "running" ELSE "accepted")
    /\ Goes(r, "draining")
    /\ UNCHANGED <<expired, pending, owner, requestVars, verdict, work>>

\* releaseOperation: only an accepted row goes.  A stream that cannot release
\* settles instead.
ReleaseOperation(r, ok) ==
    /\ phase[r] = "releasing"
    /\ row' = IF ok /\ row.state = "accepted" THEN NoRow ELSE row
    /\ expired' = (expired /\ row' # NoRow)
    /\ verdict' = [verdict EXCEPT ![r] = IF ~ok /\ kind[r] = "stream" THEN "unresolved" ELSE @]
    /\ Goes(r, IF ~ok /\ kind[r] = "stream" THEN "settling" ELSE "done")
    /\ UNCHANGED <<pending, owner, requestVars, told, work>>

\* sendTextMessage settles, or drainOperationStream reaches the end of its stream
\* and reads the outcome off it.
WorkEnds(r, outcome) ==
    /\ phase[r] = "draining"
    /\ kind[r] = "respond" => outcome # "unresolved"
    /\ work' = [work EXCEPT ![r] = outcome]
    /\ verdict' = [verdict EXCEPT ![r] = outcome]
    /\ Goes(r, "settling")
    /\ UNCHANGED <<row, expired, pending, owner, requestVars, told>>

\* settleOperation: the first verdict that could not be written is kept.
SettleOperation(r, ok) ==
    /\ phase[r] = "settling"
    /\ \/ /\ ok
          /\ WriteTerminalReceipt(verdict[r])
          /\ UNCHANGED pending
       \/ /\ ~ok
          /\ pending' = IF pending = "none" THEN verdict[r] ELSE pending
          /\ UNCHANGED row
    /\ Goes(r, "done")
    /\ UNCHANGED <<expired, owner, requestVars, verdict, told, work>>

-----------------------------------------------------------------------------
\* The retention window of the row ends.
Expire ==
    /\ HasRow /\ ~expired
    /\ expired' = TRUE
    /\ UNCHANGED <<row, pending, owner, requestVars, phase, verdict, told, work>>

\* The hub restarts: handlers, running work and pendingReceipts are gone.
Restart ==
    /\ owner < MaxRestarts
    /\ owner' = owner + 1
    /\ pending' = "none"
    /\ phase' = [r \in Request |-> IF phase[r] = "start" THEN "start" ELSE "done"]
    /\ work' = [r \in Request |-> IF work[r] = "running" THEN "lost" ELSE work[r]]
    /\ UNCHANGED <<row, expired, requestVars, verdict, told>>

Init ==
    /\ row = NoRow /\ expired = FALSE /\ pending = "none" /\ owner = 0
    /\ kind \in [Request -> Kinds] /\ input \in [Request -> Input]
    /\ phase = [r \in Request |-> "start"]
    /\ verdict = [r \in Request |-> "none"]
    /\ told = [r \in Request |-> "none"]
    /\ work = [r \in Request |-> "none"]

Handles(r) ==
    \/ ClaimOperation(r) \/ ReadOperation(r) \/ CreateChat(r)
    \/ StreamRefused(r) \/ StreamStarts(r)
    \/ \E b \in BOOLEAN : \/ Unresolve(r, b) \/ Recover(r, b) \/ Respond(r, b)
                          \/ StreamThrows(r, b) \/ MarkRunning(r, b)
                          \/ ReleaseOperation(r, b) \/ SettleOperation(r, b)
    \/ \E outcome \in Terminal : WorkEnds(r, outcome)

Next == (\E r \in Request : Handles(r)) \/ Expire \/ Restart

Spec == Init /\ [][Next]_vars

-----------------------------------------------------------------------------
(* The abstract operation: the row without its reservation, answers without*)
(* the ones that only say that the work goes on.                           *)

VerdictOf(state) == IF state \in Terminal THEN state ELSE "none"

Promise == INSTANCE OperationPromise WITH
    record <- VerdictOf(row.state),
    heard <- [r \in Request |-> VerdictOf(told[r])]

\* The receipts implement what an operation id promises: work done for one request
\* at most, one verdict that is true of it and never revised, and that verdict for
\* everyone, across replays, refused writes, lookups and restarts.
KeepsPromise == Promise!Spec

-----------------------------------------------------------------------------
(* Safety.                                                                 *)

Dispatched(r) == work[r] # "none"

\* Whatever requests are repeated, refused, interleaved or cut off by a restart,
\* one operation id dispatches work at most once, and its row stays reserved
\* from then on (claimOperation, releaseOperation, the routes).
DispatchedAtMostOnce ==
    /\ \A r, s \in Request : Dispatched(r) /\ Dispatched(s) => r = s
    /\ \A r \in Request : Dispatched(r) => HasRow /\ row.fingerprint = Fingerprint(r)

\* A verdict is never revised (writeTerminalReceipt, finishOperation).
VerdictIsFinal == [][row.state \in Terminal => row' = row]_vars

\* No two answers ever report different verdicts, across lookups, replays and
\* restarts (readOperation).
AnswersAgree ==
    \A r, s \in Request : told[r] \in Terminal /\ told[s] \in Terminal => told[r] = told[s]

\* Completed and failed are reported only of work that ended so; anything the hub
\* cannot prove is unresolved (readOperation, drainOperationStream).
VerdictIsTrue ==
    row.state \in {"completed", "failed"} => \E r \in Request : work[r] = row.state

\* While the process lives, work that ended has its verdict in the row or kept for
\* the next lookup, so a refused write never leaves it running for ever
\* (settleOperation, readOperation).
VerdictKept ==
    \A r \in Request :
        phase[r] = "done" /\ work[r] \in Terminal =>
            row.state \in Terminal \/ pending # "none" \/ row.owner # owner \/ expired
=============================================================================
