------------------------- MODULE ExternalSubmission -------------------------
(***************************************************************************)
(* One external turn handed to a runtime: the submission loop with its     *)
(* durable receipts (external-turn-submission.ts, the attempt repository), *)
(* the part of the turn controller that ends the turn, the boot sweep      *)
(* (external-turn-recovery.ts), and the runtime's own receipts (turns.rs). *)
(*                                                                         *)
(* Sessions are numbered in the order the hub opens them; the vendor's     *)
(* answer to a start, a request's delay and a dropped connection are free  *)
(* choices. Everything the hub awaits is a step of its own, so a stop, a   *)
(* dropped link or a crash may fall into each await.                       *)
(***************************************************************************)
EXTENDS Integers, FiniteSets

CONSTANTS MaxSession,  \* sessions the hub may open for the turn
          MaxAttempt,  \* receipts it may write
          MaxSend,     \* requests it may put on the wire
          MaxFault,    \* database writes that may fail
          MaxCrash,    \* hub crashes, those during a boot included
          Reviews,     \* subset of BOOLEAN: ordinary turns, native reviews, or both
          InOrder      \* a request sent after another one's timeout is admitted after it

ASSUME SubmissionBounds ==
    /\ MaxSession \in Nat \ {0} /\ MaxAttempt \in Nat \ {0}
    /\ MaxSend \in Nat \ {0} /\ MaxFault \in Nat /\ MaxCrash \in Nat
    /\ Reviews \subseteq BOOLEAN /\ InOrder \in BOOLEAN

Session == 1 .. MaxSession
Attempt == 1 .. MaxAttempt
Send == 1 .. MaxSend

VARIABLES
    review,   \* whether this turn is a native review
    hub,      \* the hub process: serving, down, or a phase of its boot
    loop,     \* the submission loop's locals and program counter
    turn,     \* the controller's closure for the turn
    row,      \* the assistant message's durable row
    ledger,   \* durable: state of each attempt's receipt
    frame,    \* each request: its session and where it, or its answer, is
    cancels,  \* cancels on their way to the runtime: <<session, named>>
    link,     \* sessions the hub holds as live
    open,     \* sessions the runtime holds
    receipt,  \* runtime: what it recorded under the turn's id, per session
    slot,     \* runtime: who holds the session's one turn slot
    running,  \* sessions on which the vendor is running the turn
    runs,     \* how often the vendor began the turn
    heard,    \* attempts for which the runtime's answer reached the hub
    faults, crashes

hubVars == <<hub, loop, turn, row, ledger, heard, faults, crashes>>
runtimeVars == <<open, receipt, slot, running, runs>>
vars == <<review, hubVars, runtimeVars, frame, cancels, link>>

OpenState == {"acceptance-unknown", "not-submitted", "accepted"}
ClosedState == {"none", "unresolved", "terminal"}
Body == {"accepted", "absent", "closed", "nonresumable", "unknown", "refused",
         "detached", "not-sent"}
NoWrite == [to |-> "none", from |-> {}, then |-> "none"]

TypeOK ==
    /\ review \in BOOLEAN
    /\ hub \in {"serving", "down", "sweep", "seal", "orphans", "restarted"}
    /\ loop.pc \in {"persist", "top", "reacquire", "insert", "head", "awaiting",
                    "write", "done", "applied"}
    /\ loop.att \in 0 .. MaxAttempt /\ loop.send \in 0 .. MaxSend
    /\ loop.handle \in Session
    /\ turn.phase \in {"running", "flushed", "finalized", "over"}
    /\ row.state \in {"absent", "generating", "done"}
    /\ ledger \in [Attempt -> OpenState \cup ClosedState]
    /\ \A n \in Send : frame[n].st \in Body \cup {"none", "wire", "joined"}
    /\ link \subseteq Session /\ open \subseteq Session /\ running \subseteq open
    /\ receipt \in [Session -> {"none", "starting", "accepted", "detached", "unknown", "refused"}]
    /\ slot \in [Session -> {"idle", "other", "ours"}]
    /\ heard \subseteq Attempt /\ runs \in Nat

InitLoop == [pc |-> "persist", att |-> 0, handle |-> 1, send |-> 0,
             dispatched |-> FALSE, unanswered |-> FALSE, replaced |-> {},
             write |-> NoWrite, outcome |-> "none"]
InitTurn == [phase |-> "running", terminal |-> "none", submitting |-> TRUE, pending |-> FALSE]

Init ==
    /\ review \in Reviews
    /\ hub = "serving"
    /\ loop = InitLoop
    /\ turn = InitTurn
    /\ row = [state |-> "absent", reason |-> "none"]
    /\ ledger = [a \in Attempt |-> "none"]
    /\ frame = [n \in Send |-> [to |-> 1, st |-> "none"]]
    /\ cancels = {}
    /\ link = {1} /\ open = {1}
    /\ receipt = [s \in Session |-> "none"]
    /\ slot \in {[s \in Session |-> IF s = 1 THEN w ELSE "idle"] : w \in {"idle", "other"}}
    /\ running = {} /\ runs = 0 /\ heard = {} /\ faults = 0 /\ crashes = 0

-----------------------------------------------------------------------------
(* The controller's end of the turn.                                       *)

aborted == turn.terminal # "none"

TerminatedAsAsked(t, requested) ==
    IF t.terminal # "none" THEN t ELSE [t EXCEPT !.terminal = requested]

\* The turn after terminate(requested): the first terminal writer wins, and a
\* shutdown while a request may be with the runtime does not claim an outcome.
Terminated(t, requested) ==
    IF t.terminal # "none" THEN t
    ELSE [t EXCEPT !.terminal = IF requested = "hub-restarted" /\ t.submitting /\ t.pending
                                THEN "acceptance-unknown" ELSE requested]

\* The user's stop: the turn ends now, and the vendor is asked to stop whatever
\* the session runs (by its id once it is bound).
UserStop ==
    /\ hub = "serving" /\ turn.phase = "running"
    /\ turn' = Terminated(turn, "cancelled-by-user")
    /\ cancels' = IF loop.handle \in link
                  THEN cancels \cup {<<loop.handle, ~turn.submitting>>} ELSE cancels
    /\ UNCHANGED <<review, hub, loop, row, ledger, heard, faults, crashes, runtimeVars,
                   frame, link>>

\* A reap of the chat's scope or of everything (shutdown): the hold and the
\* session's teardown end the turn, and the session is closed.
Reap(reason) ==
    /\ hub = "serving" /\ turn.phase = "running"
    /\ turn' = Terminated(turn, reason)
    /\ link' = link \ {loop.handle}
    /\ UNCHANGED <<review, hub, loop, row, ledger, heard, faults, crashes, runtimeVars,
                   frame, cancels>>

\* The connection under the session drops. While the turn is being submitted
\* that is the submission's to judge; afterwards it ends the turn.
Disconnect(s) ==
    /\ hub = "serving" /\ s \in link
    /\ link' = link \ {s}
    /\ turn' = IF s = loop.handle /\ ~turn.submitting /\ turn.phase = "running"
               THEN Terminated(turn, "runtime-disconnected") ELSE turn
    /\ UNCHANGED <<review, hub, loop, row, ledger, heard, faults, crashes, runtimeVars,
                   frame, cancels>>

\* The vendor finishes the turn and its last event reaches the hub, possibly
\* before the reply that names the turn.
VendorCompletes(s) ==
    /\ s \in running
    /\ running' = running \ {s}
    /\ slot' = [slot EXCEPT ![s] = "idle"]
    /\ turn' = IF hub = "serving" /\ s \in link /\ s = loop.handle /\ turn.phase = "running"
               THEN Terminated(turn, "completed") ELSE turn
    /\ UNCHANGED <<review, hub, loop, row, ledger, heard, faults, crashes, open, receipt,
                   runs, frame, cancels, link>>

-----------------------------------------------------------------------------
(* The submission loop (submitExternalTurn, runAttempt).                   *)

HubStep == hub = "serving"
LoopOnly == UNCHANGED <<review, hub, turn, row, ledger, heard, faults, crashes, runtimeVars,
                        frame, cancels, link>>

Persist ==
    /\ HubStep /\ loop.pc = "persist"
    /\ row' = [row EXCEPT !.state = "generating"]
    /\ loop' = [loop EXCEPT !.pc = "top"]
    /\ UNCHANGED <<review, hub, turn, ledger, heard, faults, crashes, runtimeVars, frame,
                   cancels, link>>

Done(l, outcome) == [l EXCEPT !.pc = "done", !.outcome = outcome, !.write = NoWrite]

\* A review stays on its session; an ordinary turn needs a live one. (At the
\* bound on attempts the loop keeps waiting, as in a backoff, until it is stopped.)
Top ==
    /\ HubStep /\ loop.pc = "top" /\ (aborted \/ loop.att < MaxAttempt)
    /\ loop' = IF aborted THEN Done(loop, "stopped")
               ELSE IF ~review /\ loop.handle \notin link
                    THEN [loop EXCEPT !.pc = "reacquire"]
                    ELSE [loop EXCEPT !.pc = "insert"]
    /\ LoopOnly

Reacquired ==
    /\ HubStep /\ loop.pc = "reacquire" /\ loop.handle < MaxSession
    /\ LET s == loop.handle + 1 IN
       /\ link' = link \cup {s}
       /\ open' = open \cup {s}
       /\ loop' = IF aborted THEN Done(loop, "stopped")
                  ELSE [loop EXCEPT !.handle = s, !.pc = "insert"]
    /\ UNCHANGED <<review, hub, turn, row, ledger, heard, faults, crashes, receipt, slot,
                   running, runs, frame, cancels>>

\* No connection yet: wait and ask again. Any other failure is a refusal.
ReacquireFails(waiting) ==
    /\ HubStep /\ loop.pc = "reacquire"
    /\ loop' = IF aborted THEN Done(loop, "stopped")
               ELSE IF waiting THEN [loop EXCEPT !.pc = "top"] ELSE Done(loop, "refused")
    /\ LoopOnly

\* Rule 1: the receipt before the request.
Insert ==
    /\ HubStep /\ loop.pc = "insert"
    /\ ledger' = [ledger EXCEPT ![loop.att + 1] = "acceptance-unknown"]
    /\ loop' = [loop EXCEPT !.pc = "head", !.att = @ + 1, !.dispatched = FALSE,
                            !.unanswered = FALSE]
    /\ UNCHANGED <<review, hub, turn, row, heard, faults, crashes, runtimeVars, frame,
                   cancels, link>>

InsertFails ==
    /\ HubStep /\ loop.pc = "insert" /\ faults < MaxFault
    /\ faults' = faults + 1
    /\ loop' = Done(loop, "receipt-failed")
    /\ UNCHANGED <<review, hub, turn, row, ledger, heard, crashes, runtimeVars, frame,
                   cancels, link>>

\* A compare-and-set on the current receipt, awaited; `then` is what follows it.
Writing(l, from, to, then) ==
    [l EXCEPT !.pc = "write", !.write = [from |-> from, to |-> to, then |-> then]]
Settle(l, to, then) == Writing(l, {"acceptance-unknown"}, to, then)
RecordLate(l) == Writing(l, {"acceptance-unknown", "unresolved"}, "terminal", "late")

HeadEndsUnstoppable ==
    /\ HubStep /\ loop.pc = "head"
    /\ ~aborted /\ loop.unanswered /\ loop.handle \notin link
    /\ loop' = Settle(loop, "unresolved", "unresolved")
    /\ LoopOnly

\* The head of the attempt's inner loop when it does not send.
HeadEnds ==
    /\ HubStep /\ loop.pc = "head"
    /\ \/ /\ aborted
          /\ loop' = Settle(loop, IF loop.dispatched THEN "unresolved" ELSE "terminal",
                            "stopped")
       \/ /\ ~aborted /\ loop.unanswered /\ loop.handle \notin link
          /\ loop' = Settle(loop, "unresolved", "unresolved")
    /\ LoopOnly

\* request.send(): a session that is closed, or closed a moment ago without the
\* handle knowing it yet, refuses before a frame is written.
SendRequest ==
    /\ HubStep /\ loop.pc = "head" /\ ~aborted
    /\ ~(loop.unanswered /\ loop.handle \notin link)
    /\ loop.send < MaxSend
    /\ \E st \in {"wire", "not-sent"} :
          /\ st = "wire" => loop.handle \in link
          /\ frame' = [frame EXCEPT ![loop.send + 1] = [to |-> loop.handle, st |-> st]]
          /\ link' = IF st = "wire" THEN link ELSE link \ {loop.handle}
    /\ turn' = [turn EXCEPT !.pending = TRUE]
    /\ loop' = [loop EXCEPT !.pc = "awaiting", !.dispatched = TRUE, !.send = @ + 1]
    /\ UNCHANGED <<review, hub, row, ledger, heard, faults, crashes, runtimeVars, cancels>>

\* No reply the hub can still reconcile on this connection: resend. Otherwise
\* the acceptance is unknowable, and nothing is resent (rule 4).
NoReply(l, reconcilable) ==
    LET u == [l EXCEPT !.unanswered = TRUE] IN
    IF reconcilable \/ aborted THEN [u EXCEPT !.pc = "head"]
    ELSE Settle(u, "unresolved", "unresolved")

OnFailureTrustingUnsent(l, body) ==
    IF body \in {"absent", "not-sent"}
    THEN Settle(l, "not-submitted", IF ~review THEN "retry"
                                    ELSE IF body = "not-sent" THEN "unsent" ELSE "refused")
    ELSE IF body \in {"closed", "nonresumable"} /\ ~review /\ ~l.unanswered
            /\ body \notin l.replaced
    THEN Settle([l EXCEPT !.replaced = @ \cup {body}], "not-submitted", "replace")
    ELSE IF body \in {"closed", "nonresumable"} THEN Settle(l, "terminal", "session-lost")
    ELSE IF body \in {"refused", "detached"} THEN Settle(l, "terminal", "refused")
    ELSE NoReply(l, FALSE)

OnFailureReplacingAnyway(l, body) ==
    IF body = "absent" \/ (body = "not-sent" /\ ~l.unanswered)
    THEN Settle(l, "not-submitted", IF ~review THEN "retry"
                                    ELSE IF body = "not-sent" THEN "unsent" ELSE "refused")
    ELSE IF body \in {"closed", "nonresumable"}
            /\ ~review /\ body \notin l.replaced
    THEN Settle([l EXCEPT !.replaced = @ \cup {body}], "not-submitted", "replace")
    ELSE IF body \in {"closed", "nonresumable"} THEN Settle(l, "terminal", "session-lost")
    ELSE IF body \in {"refused", "detached"} THEN Settle(l, "terminal", "refused")
    ELSE NoReply(l, FALSE)

\* classifySubmissionFailure and what the attempt does with each failure.
OnFailure(l, body) ==
    IF body = "absent" \/ (body = "not-sent" /\ ~l.unanswered)
    THEN Settle(l, "not-submitted", IF ~review THEN "retry"
                                    ELSE IF body = "not-sent" THEN "unsent" ELSE "refused")
    ELSE IF body \in {"closed", "nonresumable"} /\ ~review /\ ~l.unanswered
            /\ body \notin l.replaced
    THEN Settle([l EXCEPT !.replaced = @ \cup {body}], "not-submitted", "replace")
    ELSE IF body \in {"closed", "nonresumable"} THEN Settle(l, "terminal", "session-lost")
    ELSE IF body \in {"refused", "detached"} THEN Settle(l, "terminal", "refused")
    ELSE NoReply(l, FALSE)

Receive ==
    /\ HubStep /\ loop.pc = "awaiting"
    /\ LET body == frame[loop.send].st IN
       /\ body \in Body
       /\ body # "not-sent" => loop.handle \in link
       /\ loop' = IF body # "accepted" THEN OnFailure(loop, body)
                  ELSE IF aborted THEN RecordLate(loop)
                  ELSE Settle(loop, "accepted", "accepted")
       /\ heard' = IF body = "not-sent" THEN heard ELSE heard \cup {loop.att}
       /\ cancels' = IF body = "detached" THEN cancels \cup {<<loop.handle, TRUE>>}
                     ELSE cancels
    /\ frame' = [frame EXCEPT ![loop.send].st = "none"]
    /\ UNCHANGED <<review, hub, turn, row, ledger, faults, crashes, runtimeVars, link>>

\* The call's deadline passes, or the connection closes under it; an answer
\* that comes after that is dropped.
ReplyLost ==
    /\ HubStep /\ loop.pc = "awaiting" /\ frame[loop.send].st # "not-sent"
    /\ loop' = NoReply(loop, loop.handle \in link)
    /\ frame' = [frame EXCEPT ![loop.send].st = IF @ \in Body THEN "none" ELSE @]
    /\ UNCHANGED <<review, hub, turn, row, ledger, heard, faults, crashes, runtimeVars,
                   cancels, link>>

LateCancelForgotten(then) == {}

\* onLateAcceptance: the vendor took a turn that already ended here.
LateCancel(then) ==
    IF then = "late" /\ loop.handle \in link THEN {<<loop.handle, TRUE>>} ELSE {}

\* What follows the awaited write once it returned; `won` says whether it changed the row.
AfterWrite(l, won) ==
    CASE l.write.then = "accepted" -> IF won THEN Done(l, "accepted") ELSE RecordLate(l)
      [] l.write.then \in {"retry", "replace"} -> [l EXCEPT !.pc = "top", !.write = NoWrite]
      [] l.write.then = "late" -> Done(l, "stopped")
      [] OTHER -> Done(l, l.write.then)

Written ==
    /\ HubStep /\ loop.pc = "write"
    /\ LET w == loop.write
           won == ledger[loop.att] \in w.from
       IN /\ ledger' = IF won THEN [ledger EXCEPT ![loop.att] = w.to] ELSE ledger
          /\ loop' = AfterWrite(loop, won)
          /\ turn' = IF w.then \in {"retry", "replace", "refused", "session-lost", "unsent"}
                        \/ (w.then = "accepted" /\ won)
                     THEN [turn EXCEPT !.pending = FALSE] ELSE turn
          /\ link' = IF w.then = "replace" THEN link \ {loop.handle} ELSE link
          /\ cancels' = cancels \cup LateCancel(w.then)
    /\ UNCHANGED <<review, hub, row, heard, faults, crashes, runtimeVars, frame>>

\* The write throws. The late and the unresolved ones swallow it; a failed
\* acceptance write asks the vendor to stop; any other fails the submission.
WriteFails ==
    /\ HubStep /\ loop.pc = "write" /\ faults < MaxFault
    /\ faults' = faults + 1
    /\ LET w == loop.write IN
       /\ loop' = CASE w.then = "accepted" -> Settle(loop, "unresolved", "unresolved")
                    [] w.then = "unresolved" -> Done(loop, "unresolved")
                    [] w.then = "late" -> Done(loop, "stopped")
                    [] OTHER -> Done(loop, "fault")
       /\ cancels' = cancels \cup LateCancel(IF w.then = "accepted" THEN "late" ELSE w.then)
    /\ UNCHANGED <<review, hub, turn, row, ledger, heard, crashes, runtimeVars, frame, link>>

\* applySubmission: nothing once the turn ended; otherwise bind it or end it.
\* A refusal by a session the runtime lost also drops that session.
ApplySubmission ==
    /\ HubStep /\ loop.pc = "done"
    /\ loop' = [loop EXCEPT !.pc = "applied"]
    /\ LET bound == [turn EXCEPT !.submitting = FALSE]
           reason == CASE loop.outcome = "unresolved" -> "acceptance-unknown"
                       [] loop.outcome = "session-lost" -> "session-lost"
                       [] loop.outcome = "unsent" -> "runtime-disconnected"
                       [] OTHER -> "vendor-error"
       IN /\ turn' = IF aborted THEN turn
                     ELSE IF loop.outcome = "accepted"
                          THEN IF loop.handle \in link THEN bound
                               ELSE Terminated(bound, "runtime-disconnected")
                          ELSE Terminated(turn, reason)
          /\ link' = IF ~aborted /\ loop.outcome # "accepted" /\ reason = "session-lost"
                     THEN link \ {loop.handle} ELSE link
    /\ UNCHANGED <<review, hub, row, ledger, heard, faults, crashes, runtimeVars, frame, cancels>>

\* finish(): the transcript with its reason, then the message, then the receipts.
FinishUnchanged == UNCHANGED <<review, hub, loop, heard, crashes, runtimeVars, frame, cancels,
                               link>>

FinishFlush ==
    /\ HubStep /\ turn.phase = "running" /\ aborted /\ loop.pc # "persist"
    /\ turn' = [turn EXCEPT !.phase = "flushed"]
    /\ row' = [row EXCEPT !.reason = turn.terminal]
    /\ UNCHANGED <<ledger, faults>> /\ FinishUnchanged

FinishMessage ==
    /\ HubStep /\ turn.phase = "flushed"
    /\ turn' = [turn EXCEPT !.phase = "finalized"]
    /\ row' = [row EXCEPT !.state = "done"]
    /\ UNCHANGED <<ledger, faults>> /\ FinishUnchanged

SealedUnlessAccepted(l) == [a \in Attempt |->
                CASE l[a] = "acceptance-unknown" -> "unresolved"
                  [] l[a] = "not-submitted" -> "terminal"
                  [] OTHER -> l[a]]

\* sealAttemptsForMessage: the final state of every receipt still open.
Sealed(l) == [a \in Attempt |->
                CASE l[a] = "acceptance-unknown" -> "unresolved"
                  [] l[a] \in {"not-submitted", "accepted"} -> "terminal"
                  [] OTHER -> l[a]]

FinishSeal ==
    /\ HubStep /\ turn.phase = "finalized"
    /\ turn' = [turn EXCEPT !.phase = "over"]
    /\ \/ ledger' = Sealed(ledger) /\ UNCHANGED faults
       \/ faults < MaxFault /\ faults' = faults + 1 /\ UNCHANGED ledger
    /\ UNCHANGED row /\ FinishUnchanged

-----------------------------------------------------------------------------
(* Crash and boot (external-turn-recovery.ts, start-server.ts).            *)

Crash ==
    /\ hub # "down" /\ crashes < MaxCrash
    /\ hub' = "down" /\ crashes' = crashes + 1
    /\ link' = {} /\ cancels' = {}
    /\ loop' = [InitLoop EXCEPT !.att = loop.att]
    /\ turn' = InitTurn
    /\ UNCHANGED <<review, row, ledger, heard, faults, runtimeVars, frame>>

BootUnchanged == UNCHANGED <<review, loop, turn, heard, faults, crashes, runtimeVars, frame,
                             cancels, link>>

Boot ==
    /\ hub = "down" /\ hub' = "sweep"
    /\ UNCHANGED <<row, ledger>> /\ BootUnchanged

\* What a restart may say of the turn, from its latest receipt.
ReasonFromAttempts(l) ==
    LET written == {a \in Attempt : l[a] # "none"}
        latest == CHOOSE a \in written : \A b \in written : b <= a
    IN IF written # {} /\ l[latest] \in {"acceptance-unknown", "unresolved"}
       THEN "acceptance-unknown" ELSE "hub-restarted"

\* reconcileExternalTurns: a row still generating gets its reason and is done ...
SweepMessage ==
    /\ hub = "sweep"
    /\ IF row.state = "generating"
       THEN /\ row' = [state |-> "done",
                       reason |-> IF row.reason = "none" THEN ReasonFromAttempts(ledger)
                                  ELSE row.reason]
            /\ hub' = "seal"
       ELSE hub' = "orphans" /\ UNCHANGED row
    /\ UNCHANGED ledger /\ BootUnchanged

\* ... and its receipts are sealed; then every receipt of a finished message is.
SweepReceipts ==
    /\ hub \in {"seal", "orphans"}
    /\ hub' = IF hub = "seal" THEN "orphans" ELSE "restarted"
    /\ ledger' = IF hub = "seal" \/ row.state # "generating" THEN Sealed(ledger) ELSE ledger
    /\ UNCHANGED row /\ BootUnchanged

-----------------------------------------------------------------------------
(* The runtime (turns.rs) and the wire.                                    *)

RuntimeOnly == UNCHANGED <<review, hubVars, cancels, link>>
\* An answer reaches the hub only while it awaits that request on a live session.
Reply(n, body) ==
    IF hub = "serving" /\ loop.pc = "awaiting" /\ loop.send = n /\ frame[n].to \in link
    THEN body ELSE "none"
AnswerJoined(s, body) ==
    [n \in Send |-> IF frame[n].to = s /\ frame[n].st = "joined"
                    THEN [frame[n] EXCEPT !.st = Reply(n, body)] ELSE frame[n]]

\* A frame of a closed connection may never have been read.
LoseFrame(n) ==
    /\ frame[n].st = "wire" /\ frame[n].to \notin link
    /\ frame' = [frame EXCEPT ![n].st = "none"]
    /\ UNCHANGED runtimeVars /\ RuntimeOnly

\* admit(): answer from the receipt, refuse while the slot is taken, or start.
\* Each request is a task of its own, spawned in frame order.
Admit(n) ==
    /\ frame[n].st = "wire"
    /\ InOrder => \A m \in Send : m < n /\ frame[m].to = frame[n].to => frame[m].st # "wire"
    /\ LET s == frame[n].to IN
       \/ /\ s \notin open
          /\ frame' = [frame EXCEPT ![n].st = Reply(n, "closed")]
          /\ UNCHANGED <<receipt, slot>>
       \/ /\ s \in open /\ receipt[s] = "none" /\ slot[s] # "idle"
          /\ frame' = [frame EXCEPT ![n].st = Reply(n, "absent")]
          /\ UNCHANGED <<receipt, slot>>
       \/ /\ s \in open /\ receipt[s] = "none" /\ slot[s] = "idle"
          /\ frame' = [frame EXCEPT ![n].st = "joined"]
          /\ receipt' = [receipt EXCEPT ![s] = "starting"]
          /\ slot' = [slot EXCEPT ![s] = "ours"]
       \/ /\ s \in open /\ receipt[s] # "none"
          /\ frame' = [frame EXCEPT ![n].st = IF receipt[s] = "starting" THEN "joined"
                                              ELSE Reply(n, receipt[s])]
          /\ UNCHANGED <<receipt, slot>>
    /\ UNCHANGED <<open, running, runs>> /\ RuntimeOnly

\* The vendor takes the turn; a review may come back on another thread.
StartAccepted(s) ==
    /\ receipt[s] = "starting"
    /\ runs' = runs + 1
    /\ running' = running \cup {s}
    /\ \E body \in {"accepted"} \cup (IF review THEN {"detached"} ELSE {}) :
          /\ receipt' = [receipt EXCEPT ![s] = body]
          /\ frame' = AnswerJoined(s, body)
    /\ UNCHANGED <<open, slot>> /\ RuntimeOnly

\* It took the turn under a handle the runtime cannot use: stopped and drained.
StartDiscarded(s) ==
    /\ receipt[s] = "starting"
    /\ runs' = runs + 1
    /\ receipt' = [receipt EXCEPT ![s] = "refused"]
    /\ slot' = [slot EXCEPT ![s] = "idle"]
    /\ frame' = AnswerJoined(s, "refused")
    /\ UNCHANGED <<open, running>> /\ RuntimeOnly

\* refused_start with proof that nothing was dispatched: the receipt is
\* forgotten. A spent session is closed.
StartAbsent(s, body) ==
    /\ receipt[s] = "starting"
    /\ receipt' = [receipt EXCEPT ![s] = "none"]
    /\ slot' = [slot EXCEPT ![s] = "idle"]
    /\ open' = IF body \in {"closed", "nonresumable"} THEN open \ {s} ELSE open
    /\ frame' = AnswerJoined(s, body)
    /\ UNCHANGED <<running, runs>> /\ RuntimeOnly

\* refused_start without that proof: the vendor may be running the turn.
StartUnknown(s) ==
    /\ receipt[s] = "starting"
    /\ receipt' = [receipt EXCEPT ![s] = "unknown"]
    /\ slot' = [slot EXCEPT ![s] = "idle"]
    /\ frame' = AnswerJoined(s, "unknown")
    /\ \/ runs' = runs + 1 /\ running' = running \cup {s}
       \/ UNCHANGED <<runs, running>>
    /\ UNCHANGED open /\ RuntimeOnly

OtherTurnEnds(s) ==
    /\ slot[s] = "other"
    /\ slot' = [slot EXCEPT ![s] = "idle"]
    /\ UNCHANGED <<open, receipt, running, runs, frame>> /\ RuntimeOnly

\* The runtime drops the session: the hub closed it or is gone, or the
\* vendor's process ended.
RuntimeCloses(s) ==
    /\ s \in open /\ receipt[s] # "starting"
    /\ open' = open \ {s}
    /\ running' = running \ {s}
    /\ slot' = [slot EXCEPT ![s] = "idle"]
    /\ receipt' = [receipt EXCEPT ![s] = "none"]
    /\ UNCHANGED <<runs, frame>> /\ RuntimeOnly

\* cancel: a named one only stops the turn it names; while the vendor is still
\* starting a turn there is nothing to stop yet.
CancelArrives(c) ==
    /\ c \in cancels
    /\ cancels' = cancels \ {c}
    /\ running' = running \ {c[1]}
    /\ slot' = IF c[1] \in running THEN [slot EXCEPT ![c[1]] = "idle"] ELSE slot
    /\ UNCHANGED <<review, hubVars, open, receipt, runs, frame, link>>

-----------------------------------------------------------------------------
LoopStep ==
    \/ Persist \/ Top \/ Reacquired \/ ReacquireFails(TRUE) \/ ReacquireFails(FALSE)
    \/ Insert \/ InsertFails \/ HeadEnds \/ SendRequest \/ Receive \/ ReplyLost
    \/ Written \/ WriteFails \/ ApplySubmission
FinishStep == FinishFlush \/ FinishMessage \/ FinishSeal
BootStep == Boot \/ SweepMessage \/ SweepReceipts
RuntimeStep ==
    \/ \E n \in Send : LoseFrame(n) \/ Admit(n)
    \/ \E s \in Session : \/ StartAccepted(s) \/ StartDiscarded(s) \/ StartUnknown(s)
                          \/ OtherTurnEnds(s) \/ RuntimeCloses(s)
                          \/ \E b \in {"absent", "refused", "closed", "nonresumable"} :
                                StartAbsent(s, b)
    \/ \E c \in cancels : CancelArrives(c)

Next ==
    \/ LoopStep \/ FinishStep \/ BootStep \/ RuntimeStep \/ Crash
    \/ UserStop
    \/ \E reason \in {"consent-revoked", "hub-restarted"} : Reap(reason)
    \/ \E s \in Session : Disconnect(s) \/ VendorCompletes(s)

\* The hub's own steps happen: its awaits end (each request has the call
\* deadline, each write its result) and a stopped turn is finished.
Fairness == WF_vars(LoopStep) /\ WF_vars(FinishStep)

Spec == Init /\ [][Next]_vars /\ Fairness

-----------------------------------------------------------------------------
(* Properties.                                                             *)

\* The vendor begins the user's turn at most once, whatever was lost, resent,
\* refused or replayed: rules 2 to 4 of the loop against the runtime's receipts
\* (runAttempt, classifySubmissionFailure; admit of turns.rs).
VendorRunsOnce == runs <= 1

\* "Downgraded to not-submitted only on proof": while the latest receipt says
\* so, the vendor has not begun the turn, and no request on the way can make it
\* (runAttempt, transitionAttempt).
NotSubmittedIsProof ==
    loop.att > 0 /\ ledger[loop.att] = "not-submitted"
        => /\ runs = 0
           /\ \A n \in Send : frame[n].st \notin {"wire", "joined"}

\* A restart says hub-restarted of a turn the vendor began only when the
\* runtime's answer for its latest attempt had reached the hub; a turn sent and
\* never confirmed is acceptance-unknown, in the sweep and in a shutdown
\* (terminate, reconcileExternalTurns, reasonFromAttempts).
RestartIsHonest == row.reason = "hub-restarted" /\ runs > 0 => loop.att \in heard

\* Once the turn is over and nothing is in transit, a vendor still running it
\* on a live session is on record: some receipt says the outcome is unknown
\* (recordLateAcceptance and the cancel that follows it).
UnwatchedRunIsOnRecord ==
    \A s \in link \cap running :
        /\ hub = "serving" /\ turn.phase = "over" /\ loop.pc = "applied"
        /\ cancels = {}
        => \E a \in Attempt : ledger[a] \in {"unresolved", "acceptance-unknown"}

\* After a boot's sweeps, whatever the crash or crashes cut short, the turn no
\* longer reads as generating and none of its receipts is open
\* (reconcileExternalTurns, sealOrphaned).
BootLeavesNothingOpen ==
    hub = "restarted" => /\ row.state # "generating"
                         /\ \A a \in Attempt : ledger[a] \in ClosedState

\* A turn that was ended settles although a request of its submission hangs,
\* and then the submission itself settles and no receipt stays open
\* (the abort of registerActiveTurn, runAttempt, finish).
StopSettles ==
    turn.terminal # "none" ~>
        \/ hub # "serving"
        \/ /\ turn.phase = "over" /\ loop.pc = "applied"
           /\ faults > 0 \/ \A a \in Attempt : ledger[a] \in ClosedState
=============================================================================
