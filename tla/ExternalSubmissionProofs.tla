---------------------- MODULE ExternalSubmissionProofs ----------------------
(***************************************************************************)
(* Proofs about ExternalSubmission, for every number of sessions, receipts,*)
(* requests, failing writes and crashes.                                   *)
(***************************************************************************)
EXTENDS ExternalSubmission, TLAPS

(* Types.                                                                  *)

LoopPc == {"persist", "top", "reacquire", "insert", "head", "awaiting", "write", "done", "applied"}
Reason == {"none", "cancelled-by-user", "consent-revoked", "hub-restarted", "acceptance-unknown",
           "completed", "runtime-disconnected", "session-lost", "vendor-error"}
Verdict == {"none", "accepted", "retry", "replace", "unsent", "refused", "session-lost", "unresolved",
            "late", "stopped", "receipt-failed", "fault"}
WriteType == [to : {"none", "not-submitted", "accepted", "unresolved", "terminal"},
              from : SUBSET {"acceptance-unknown", "unresolved"}, then : Verdict]
LoopType == [pc : LoopPc, att : 0 .. MaxAttempt, handle : Session, send : 0 .. MaxSend,
             dispatched : BOOLEAN, unanswered : BOOLEAN, replaced : SUBSET Body,
             write : WriteType, outcome : Verdict]
TurnType == [phase : {"running", "flushed", "finalized", "over"}, terminal : Reason,
             submitting : BOOLEAN, pending : BOOLEAN]

HubTyped ==
    /\ review \in BOOLEAN
    /\ hub \in {"serving", "down", "sweep", "seal", "orphans", "restarted"}
    /\ loop \in LoopType
    /\ turn \in TurnType
    /\ row \in [state : {"absent", "generating", "done"}, reason : Reason]
    /\ ledger \in [Attempt -> OpenState \cup ClosedState]
    /\ heard \subseteq Attempt
    /\ faults \in Nat /\ crashes \in Nat
RuntimeTyped ==
    /\ frame \in [Send -> [to : Session, st : Body \cup {"none", "wire", "joined"}]]
    /\ cancels \subseteq Session \X BOOLEAN
    /\ link \subseteq Session /\ open \subseteq Session /\ running \subseteq open
    /\ receipt \in [Session -> {"none", "starting", "accepted", "detached", "unknown", "refused"}]
    /\ slot \in [Session -> {"idle", "other", "ours"}]
    /\ runs \in Nat
Typed == HubTyped /\ RuntimeTyped
\* A session that starts the turn is open, and one that runs it has a receipt of it.
Placed ==
    \A s \in Session : /\ receipt[s] = "starting" => s \in open
                       /\ s \in running => receipt[s] \in {"accepted", "detached", "unknown"}

-----------------------------------------------------------------------------
(* The boot.                                                               *)

\* Once a boot swept the message it no longer reads as generating, and once it
\* swept the receipts none is open.
Swept ==
    /\ hub \in {"seal", "orphans", "restarted"} => row.state # "generating"
    /\ hub = "restarted" => \A a \in Attempt : ledger[a] \in ClosedState

-----------------------------------------------------------------------------
(* The one run.                                                            *)

Travels(n) == frame[n].st \in {"wire", "joined"}
Starting(s) == receipt[s] = "starting"
\* A session that answers a request without starting the turn.
Used(s) == s \notin open \/ receipt[s] # "none"

\* The vendor did not begin the turn, and nothing on the way can make it.
NoRun == runs = 0 /\ (\A n \in Send : ~Travels(n)) /\ (\A s \in Session : ~Starting(s))
\* Nothing on the way can make the vendor begin it from here on.
Spent == /\ \A s \in Session : ~Starting(s)
         /\ \A n \in Send : frame[n].st = "wire" => Used(frame[n].to)

\* The runtime: one session at most starts the turn, requests that joined a start
\* wait for that one, and every request on the way goes to one session; a request
\* joins only after those before it were admitted.
OneStart ==
    /\ \A n \in Send : frame[n].st = "joined" => Starting(frame[n].to)
    /\ \A s, t \in Session : Starting(s) /\ Starting(t) => s = t
    /\ \A s \in Session : Starting(s) => s \in open /\ runs = 0
    /\ \A n \in Send, s \in Session : Travels(n) /\ Starting(s) => frame[n].to = s
    /\ \A m, n \in Send : Travels(m) /\ Travels(n) => frame[m].to = frame[n].to
    /\ \A m, n \in Send : m < n /\ frame[n].st = "joined" => frame[m].st # "wire"
\* A run spends whatever is still on the way.
RunSpends == runs > 0 => runs = 1 /\ Spent

\* The hub sends to the session it holds, and to no other one.
OneTarget ==
    hub = "serving" =>
        /\ \A n \in Send : Travels(n) => frame[n].to = loop.handle
        /\ \A n \in Send : n > loop.send => frame[n].st = "none"
        /\ \A s \in Session : s > loop.handle => receipt[s] = "none" /\ s \notin running
        /\ \A s \in Session : Starting(s) \/ s \in running => s = loop.handle
        /\ loop.pc = "awaiting" => loop.send \in Send /\ frame[loop.send].to = loop.handle
        /\ \A n \in Send : frame[n].st \in Body => loop.pc = "awaiting" /\ loop.send = n
\* A running turn was begun, and so was one whose receipt says how it began.
RunningBegan ==
    /\ running # {} => runs > 0
    /\ \A s \in Session : /\ receipt[s] \in {"accepted", "detached", "refused"} => runs > 0
                          /\ receipt[s] = "refused" => s \notin running

\* Between attempts, before the first request of one, and once a refusal was taken
\* as proof, the vendor has not begun the turn.
Cleared ==
    /\ hub = "serving"
    /\ \/ loop.pc \in {"persist", "top", "reacquire", "insert"}
       \/ loop.pc = "head" /\ loop.unanswered = FALSE
       \/ /\ loop.pc = "write"
          /\ loop.write.to = "not-submitted" \/ loop.write.then \in {"retry", "replace"}
ProofOfNoRun == Cleared => NoRun
\* A resend goes to a session that knows of the run, if there was one.
ResendIsSafe ==
    hub = "serving" /\ loop.pc \in {"head", "awaiting"} /\ runs > 0 => Used(loop.handle)
\* What the answer to the request under way proves.
AnswerProves ==
    hub = "serving" /\ loop.pc = "awaiting" =>
        LET st == frame[loop.send].st IN
        /\ loop.unanswered = FALSE => \A n \in Send : Travels(n) => n = loop.send
        /\ loop.unanswered = FALSE /\ st = "wire" => runs = 0 /\ \A s \in Session : ~Starting(s)
        /\ loop.unanswered = FALSE /\ st \in {"closed", "nonresumable", "not-sent"} => NoRun
        /\ st = "absent" => NoRun
        /\ st \in {"closed", "nonresumable", "accepted", "detached", "refused"} => Spent

RunOK == OneStart /\ RunSpends /\ OneTarget /\ RunningBegan /\ ProofOfNoRun /\ ResendIsSafe
         /\ AnswerProves
-----------------------------------------------------------------------------
(* The receipts.                                                           *)

LatestIs(S) == loop.att > 0 /\ ledger[loop.att] \in S
\* The vendor did not begin the turn, or the runtime's answer for the latest attempt
\* reached the hub.
Known == NoRun \/ loop.att \in heard

\* Receipts are written in order, and the attempt under way has an open one, or one
\* that the end of the turn sealed.
InTurn ==
    /\ \A a \in Attempt : ledger[a] # "none" <=> a <= loop.att
    /\ hub = "serving" /\ loop.pc \in {"head", "awaiting", "write"} =>
           LatestIs({"acceptance-unknown", "unresolved"})
    /\ hub = "serving" /\ loop.pc \in {"insert", "reacquire"} => loop.att < MaxAttempt
    /\ hub = "serving" /\ loop.pc = "write" =>
           /\ loop.write.to # "none"
           /\ loop.write.then = "accepted" <=> loop.write.to = "accepted"
           /\ loop.write.then = "late" => loop.write.to = "terminal"
    /\ loop.pc = "awaiting" => loop.dispatched = TRUE
    /\ loop.dispatched = FALSE => loop.unanswered = FALSE
ReceiptProves ==
    /\ LatestIs({"not-submitted"}) => NoRun
    /\ LatestIs({"accepted", "terminal"}) => Known
    /\ loop.att = 0 => NoRun
    /\ hub = "serving" /\ loop.pc = "write" /\ loop.write.to \in {"accepted", "terminal"} => Known
    /\ hub = "serving" /\ loop.pc = "write" /\ loop.write.then \in {"refused", "session-lost", "unsent"} => Known
\* What the turn says of itself.
ReasonProves ==
    /\ hub = "serving" /\ (turn.pending = FALSE \/ turn.submitting = FALSE) => Known
    /\ hub = "serving" /\ turn.terminal = "hub-restarted" => Known
    /\ row.reason = "hub-restarted" => Known
    /\ hub = "serving" /\ row.reason # "none" => turn.terminal = row.reason
    /\ hub = "serving" /\ loop.pc = "done" /\ loop.outcome = "accepted" => Known
    /\ hub = "serving" /\ turn.submitting = FALSE => loop.pc = "applied"
LedgerOK == InTurn /\ ReceiptProves /\ ReasonProves
-----------------------------------------------------------------------------
(* The run nobody watches.                                                 *)
Unknown == LatestIs({"acceptance-unknown", "unresolved"})
Cancelled(s) == \E b \in BOOLEAN : <<s, b>> \in cancels

\* An acceptance and an end are on record only when nothing more can begin, and a
\* submission that ended leaves it so or leaves its receipt saying it does not know.
WriteSpent == hub = "serving" /\ loop.pc = "write" /\ loop.write.to \in {"accepted", "terminal"} => Spent
EndSpent == hub = "serving" /\ loop.pc \in {"done", "applied"} => Unknown \/ Spent
OverEnded == hub = "serving" /\ turn.phase # "running" => aborted
\* What the hub does about a run on a session it still holds.
Follows(s) ==
    /\ loop.pc = "awaiting" => frame[loop.send].st \notin {"closed", "nonresumable", "refused", "absent"}
    /\ loop.pc = "write" /\ loop.write.to = "terminal" /\ loop.write.then # "late" => Cancelled(s)
    /\ loop.pc = "write" /\ loop.write.to = "accepted" => ~aborted \/ Cancelled(s)
    /\ loop.pc \in {"done", "applied"} =>
          Unknown \/ Cancelled(s) \/ (loop.outcome = "accepted" /\ ~aborted)
RunFollowed == hub = "serving" => \A s \in link \cap running : Follows(s)
Watched == WriteSpent /\ EndSpent /\ OverEnded /\ RunFollowed

\* What holds in whatever order requests arrive, and what needs them in order.
BasicInv == Typed /\ Placed /\ InTurn /\ Swept
SubmissionInv == Typed /\ RunOK /\ LedgerOK /\ Watched
-----------------------------------------------------------------------------
(* What the pieces of the handlers return.                                 *)

\* The locals of the loop that only a new attempt, a new session or a request change.
Same(r, l) == r.att = l.att /\ r.handle = l.handle /\ r.send = l.send

\* The loop leaves with an outcome (the returns of runAttempt).
LEMMA DoneFields ==
    ASSUME NEW l \in LoopType, NEW outcome \in Verdict
    PROVE  LET r == Done(l, outcome) IN
           /\ r \in LoopType /\ Same(r, l) /\ r.dispatched = l.dispatched
           /\ r.unanswered = l.unanswered
           /\ r.pc = "done" /\ r.outcome = outcome
<1>1. NoWrite \in WriteType
  BY DEF NoWrite, WriteType, Verdict
<1>. QED
  BY <1>1 DEF Done, LoopType, LoopPc, Same

\* The loop awaits a write (transitionAttempt).
LEMMA WritingFields ==
    ASSUME NEW l \in LoopType, NEW from \in SUBSET {"acceptance-unknown", "unresolved"},
           NEW to \in {"not-submitted", "accepted", "unresolved", "terminal"}, NEW then \in Verdict
    PROVE  LET r == Writing(l, from, to, then) IN
           /\ r \in LoopType /\ Same(r, l) /\ r.dispatched = l.dispatched
           /\ r.unanswered = l.unanswered /\ r.outcome = l.outcome
           /\ r.pc = "write" /\ r.write.from = from /\ r.write.to = to /\ r.write.then = then
BY DEF Writing, LoopType, LoopPc, WriteType, Same

\* A write that wins only over a receipt nobody settled (settle of runAttempt).
LEMMA SettleFields ==
    ASSUME NEW l \in LoopType,
           NEW to \in {"not-submitted", "accepted", "unresolved", "terminal"}, NEW then \in Verdict
    PROVE  LET r == Settle(l, to, then) IN
           /\ r \in LoopType /\ Same(r, l) /\ r.dispatched = l.dispatched
           /\ r.unanswered = l.unanswered /\ r.outcome = l.outcome
           /\ r.pc = "write" /\ r.write.to = to /\ r.write.then = then
BY DEF Settle, Writing, LoopType, LoopPc, WriteType, Same

\* The record of an acceptance that came after the turn ended (recordLateAcceptance).
LEMMA RecordLateFields ==
    ASSUME NEW l \in LoopType
    PROVE  LET r == RecordLate(l) IN
           /\ r \in LoopType /\ Same(r, l) /\ r.dispatched = l.dispatched
           /\ r.unanswered = l.unanswered /\ r.outcome = l.outcome
           /\ r.pc = "write" /\ r.write.to = "terminal" /\ r.write.then = "late"
BY WritingFields DEF RecordLate, Verdict

\* Which failures are taken as proof that nothing began, which end the submission
\* and which leave it unknown (classifySubmissionFailure).
Proving(l, body) ==
    \/ body = "absent"
    \/ l.unanswered = FALSE /\ body \in {"not-sent", "closed", "nonresumable"}
Judged(r, l, body) ==
    \/ r.pc = "head" /\ r.unanswered = TRUE
    \/ /\ r.pc = "write"
       /\ \/ r.write.to = "unresolved" /\ r.write.then = "unresolved"
          \/ /\ r.write.to = "not-submitted" /\ Proving(l, body)
             /\ r.write.then \in {"retry", "unsent", "refused", "replace"}
          \/ /\ r.write.to = "terminal" /\ r.write.then \in {"refused", "session-lost"}
             /\ body \in {"closed", "nonresumable", "refused", "detached"}

\* A failure is judged one of those ways.
LEMMA OnFailureFields ==
    ASSUME NEW l \in LoopType, NEW body \in Body \ {"accepted"}, review \in BOOLEAN
    PROVE  LET r == OnFailure(l, body) IN
           /\ r \in LoopType /\ Same(r, l) /\ r.dispatched = l.dispatched
           /\ Judged(r, l, body)
           /\ l.unanswered = TRUE => r.unanswered = TRUE
<1>1. CASE body = "absent" \/ (body = "not-sent" /\ ~l.unanswered)
  <2>0. Proving(l, body)
    BY <1>1 DEF Proving, LoopType
  <2>1. OnFailure(l, body) \in {Settle(l, "not-submitted", v) : v \in {"retry", "unsent", "refused"}}
    BY <1>1 DEF OnFailure
  <2>2. PICK v \in {"retry", "unsent", "refused"} : OnFailure(l, body) = Settle(l, "not-submitted", v)
    BY <2>1
  <2>3. v \in Verdict
    BY DEF Verdict
  <2>4. LET r == Settle(l, "not-submitted", v) IN
        /\ r \in LoopType /\ Same(r, l) /\ r.dispatched = l.dispatched
        /\ r.unanswered = l.unanswered
        /\ r.pc = "write" /\ r.write.to = "not-submitted" /\ r.write.then = v
    BY <2>3, SettleFields
  <2>. QED
    BY <2>0, <2>2, <2>4 DEF Judged
<1>2. CASE /\ ~(body = "absent" \/ (body = "not-sent" /\ ~l.unanswered))
           /\ body \in {"closed", "nonresumable"} /\ ~review /\ ~l.unanswered /\ body \notin l.replaced
  BY ZenonT(60), <1>2 DEF OnFailure, Proving, Judged, Settle, Writing, LoopType, LoopPc, WriteType, Verdict, Same
<1>3. CASE /\ ~(body = "absent" \/ (body = "not-sent" /\ ~l.unanswered))
           /\ ~(body \in {"closed", "nonresumable"} /\ ~review /\ ~l.unanswered /\ body \notin l.replaced)
           /\ body \in {"closed", "nonresumable"}
  BY <1>3, SettleFields DEF OnFailure, Judged, Same, Verdict
<1>4. CASE /\ ~(body = "absent" \/ (body = "not-sent" /\ ~l.unanswered))
           /\ body \notin {"closed", "nonresumable"} /\ body \in {"refused", "detached"}
  BY <1>4, SettleFields DEF OnFailure, Judged, Same, Verdict
<1>5. CASE /\ ~(body = "absent" \/ (body = "not-sent" /\ ~l.unanswered))
           /\ body \notin {"closed", "nonresumable"} /\ body \notin {"refused", "detached"}
  <2>1. CASE aborted
    BY <1>5, <2>1 DEF OnFailure, Judged, NoReply, LoopType, LoopPc, Same
  <2>2. CASE ~aborted
    BY <1>5, <2>2 DEF OnFailure, Judged, NoReply, Settle, Writing, LoopType, LoopPc, WriteType, Verdict, Same
  <2>. QED
    BY <2>1, <2>2
<1>. QED
  BY <1>1, <1>2, <1>3, <1>4, <1>5

\* After the write the loop retries, or ends (the callers of transitionAttempt).
LEMMA WrittenFields ==
    ASSUME loop \in LoopType, Written
    PROVE  LET won == ledger[loop.att] \in loop.write.from
               then == loop.write.then IN
           /\ loop' \in LoopType /\ Same(loop', loop)
           /\ loop'.dispatched = loop.dispatched /\ loop'.unanswered = loop.unanswered
           /\ \/ loop'.pc = "top" /\ then \in {"retry", "replace"}
              \/ /\ loop'.pc = "write" /\ loop'.write.to = "terminal" /\ loop'.write.then = "late"
                 /\ then = "accepted" /\ ~won
              \/ /\ loop'.pc = "done" /\ then \notin {"retry", "replace"}
                 /\ then = "accepted" <=> loop'.outcome = "accepted"
                 /\ then = "accepted" => won
<1>. DEFINE won == ledger[loop.att] \in loop.write.from
            then == loop.write.then
<1>1. then \in Verdict
  BY DEF LoopType, WriteType
<1>2. CASE then = "accepted" /\ won
  <2>1. loop' = Done(loop, "accepted")
    BY <1>2 DEF Written, AfterWrite
  <2>. QED
    BY <1>2, <2>1, DoneFields DEF Verdict
<1>3. CASE then = "accepted" /\ ~won
  <2>1. loop' = RecordLate(loop)
    BY <1>3 DEF Written, AfterWrite
  <2>. QED
    BY <1>3, <2>1, RecordLateFields
<1>4. CASE then \in {"retry", "replace"}
  <2>1. NoWrite \in WriteType
    BY DEF NoWrite, WriteType, Verdict
  <2>2. loop' = [loop EXCEPT !.pc = "top", !.write = NoWrite]
    BY <1>4 DEF Written, AfterWrite
  <2>. QED
    BY <1>4, <2>1, <2>2 DEF LoopType, LoopPc, Same
<1>5. CASE then = "late"
  <2>1. loop' = Done(loop, "stopped")
    BY <1>5 DEF Written, AfterWrite
  <2>. QED
    BY <1>5, <2>1, DoneFields DEF Verdict
<1>6. CASE then \notin {"accepted", "retry", "replace", "late"}
  <2>1. loop' = Done(loop, then)
    BY <1>6 DEF Written, AfterWrite
  <2>. QED
    BY <1>1, <1>6, <2>1, DoneFields
<1>. QED
  BY <1>2, <1>3, <1>4, <1>5, <1>6

\* The first terminal writer wins, and a shutdown claims no outcome of a request that

\* may be with the runtime (terminate).
LEMMA TerminatedFields ==
    ASSUME NEW t \in TurnType, NEW requested \in Reason
    PROVE  LET r == Terminated(t, requested) IN
           /\ r \in TurnType
           /\ r.phase = t.phase /\ r.submitting = t.submitting /\ r.pending = t.pending
           /\ t.terminal # "none" => r.terminal = t.terminal
           /\ requested # "none" => r.terminal # "none"
           /\ r.terminal = "hub-restarted" =>
                 \/ t.terminal = "hub-restarted"
                 \/ requested = "hub-restarted" /\ (t.submitting = FALSE \/ t.pending = FALSE)
BY DEF Terminated, TurnType, Reason

\* Whoever ends the turn.
LEMMA EndsFields ==
    ASSUME turn \in TurnType, NEW requested \in Reason,
           turn' = turn \/ turn' = Terminated(turn, requested)
    PROVE  /\ turn'.terminal = "hub-restarted" =>
                 turn.terminal = "hub-restarted" \/ turn.submitting = FALSE \/ turn.pending = FALSE
           /\ turn'.terminal = "hub-restarted" =>
                 turn.terminal = "hub-restarted" \/ requested = "hub-restarted"
           /\ turn.terminal # "none" => turn'.terminal = turn.terminal
           /\ turn'.phase = turn.phase
           /\ turn'.submitting = turn.submitting /\ turn'.pending = turn.pending
<1>1. CASE turn' = turn
  BY <1>1
<1>2. CASE turn' = Terminated(turn, requested)
  <2>1. /\ turn'.phase = turn.phase /\ turn'.submitting = turn.submitting /\ turn'.pending = turn.pending
        /\ turn.terminal # "none" => turn'.terminal = turn.terminal
    BY <1>2, TerminatedFields
  <2>2. turn'.terminal = "hub-restarted" =>
           \/ turn.terminal = "hub-restarted"
           \/ requested = "hub-restarted" /\ (turn.submitting = FALSE \/ turn.pending = FALSE)
    BY <1>2, TerminatedFields
  <2>. QED
    BY <2>1, <2>2
<1>. QED
  BY <1>1, <1>2

\* A start that ends answers every request that joined it.
LEMMA AnswerJoinedFields ==
    ASSUME RuntimeTyped, NEW s \in Session, NEW body \in Body
    PROVE  LET f == AnswerJoined(s, body) IN
           /\ f \in [Send -> [to : Session, st : Body \cup {"none", "wire", "joined"}]]
           /\ \A n \in Send :
                 /\ f[n].to = frame[n].to
                 /\ frame[n].st = "joined" /\ frame[n].to = s => f[n].st = Reply(n, body)
                 /\ ~(frame[n].st = "joined" /\ frame[n].to = s) => f[n].st = frame[n].st
<1>1. \A n \in Send : Reply(n, body) \in Body \cup {"none"}
  BY DEF Reply
<1>. QED
  BY <1>1 DEF AnswerJoined, RuntimeTyped

\* Sealing closes every receipt, and what was not known stays unknown

\* (sealAttemptsForMessage).
LEMMA SealedFields ==
    ASSUME NEW l \in [Attempt -> OpenState \cup ClosedState]
    PROVE  /\ Sealed(l) \in [Attempt -> OpenState \cup ClosedState]
           /\ \A a \in Attempt :
                 /\ Sealed(l)[a] \in ClosedState
                 /\ Sealed(l)[a] = "none" <=> l[a] = "none"
                 /\ Sealed(l)[a] = "unresolved" <=> l[a] \in {"acceptance-unknown", "unresolved"}
                 /\ Sealed(l)[a] = "terminal" <=> l[a] \in {"not-submitted", "accepted", "terminal"}
BY DEF Sealed, OpenState, ClosedState

\* The request whose answer the hub waits for.
Awaits(n) == hub = "serving" /\ loop.pc = "awaiting" /\ loop.send = n

\* An answer reaches nobody but the request the hub waits for.
LEMMA ReplyFields ==
    ASSUME NEW n, NEW body
    PROVE  \/ Reply(n, body) = "none"
           \/ Reply(n, body) = body /\ Awaits(n)
<1>1. CASE hub = "serving" /\ loop.pc = "awaiting" /\ loop.send = n /\ frame[n].to \in link
  BY <1>1 DEF Reply, Awaits
<1>2. CASE ~(hub = "serving" /\ loop.pc = "awaiting" /\ loop.send = n /\ frame[n].to \in link)
  BY <1>2 DEF Reply
<1>. QED
  BY <1>1, <1>2

\* A start ends, one way or another.
StartEnds(s) ==
    \/ StartAccepted(s) \/ StartDiscarded(s) \/ StartUnknown(s)
    \/ \E b \in {"absent", "refused", "closed", "nonresumable"} : StartAbsent(s, b)

\* It ends once, answers what joined it, and nothing else on the way changes.
LEMMA StartEndsFields ==
    ASSUME Typed, OneStart, NEW s \in Session, StartEnds(s)
    PROVE  /\ receipt[s] = "starting" /\ receipt'[s] # "starting"
           /\ \A t \in Session : t # s => receipt'[t] = receipt[t]
           /\ \A n \in Send : /\ frame'[n].to = frame[n].to
                              /\ frame'[n].st # "joined"
                              /\ frame'[n].st = "wire" <=> frame[n].st = "wire"
                              /\ frame[n].st # "joined" => frame'[n].st = frame[n].st
                              /\ frame[n].st = "joined" =>
                                    frame'[n].st = "none" \/ (frame'[n].st \in Body /\ Awaits(n))
           /\ runs = 0 /\ runs' \in {0, 1}
<1>1. PICK body \in Body : frame' = AnswerJoined(s, body)
  BY DEF StartEnds, StartAccepted, StartDiscarded, StartUnknown, StartAbsent, Body
<1>2. \A n \in Send : /\ Reply(n, body) \notin {"wire", "joined"}
                      /\ Reply(n, body) = "none" \/ (Reply(n, body) \in Body /\ Awaits(n))
  BY ReplyFields DEF Body
<1>3. receipt[s] = "starting" /\ receipt'[s] # "starting" /\ runs = 0 /\ runs' \in {0, 1}
  BY DEF StartEnds, StartAccepted, StartDiscarded, StartUnknown, StartAbsent, Typed, RuntimeTyped,
         OneStart, Starting
<1>4. \A t \in Session : t # s => receipt'[t] = receipt[t]
  BY DEF StartEnds, StartAccepted, StartDiscarded, StartUnknown, StartAbsent, Typed, RuntimeTyped
<1>5. \A n \in Send : frame[n].st = "joined" => frame[n].to = s
  BY <1>3 DEF OneStart, Starting, Typed, RuntimeTyped
<1>6. \A n \in Send : /\ frame'[n].to = frame[n].to
                      /\ frame[n].st = "joined" => frame'[n].st = Reply(n, body)
                      /\ frame[n].st # "joined" => frame'[n].st = frame[n].st
  BY <1>1, <1>5, AnswerJoinedFields DEF Typed
<1>. QED
  BY <1>2, <1>3, <1>4, <1>6

\* The attempt's inner loop ends before it sends.
LEMMA HeadEndsFields ==
    ASSUME loop \in LoopType, HeadEnds
    PROVE  /\ loop' \in LoopType /\ Same(loop', loop) /\ loop'.dispatched = loop.dispatched
           /\ loop'.unanswered = loop.unanswered
           /\ loop'.pc = "write"
           /\ \/ /\ loop'.write.to = "unresolved"
                 /\ loop'.write.then \in {"stopped", "unresolved"}
              \/ /\ loop'.write.to = "terminal" /\ loop'.write.then = "stopped"
                 /\ loop.dispatched = FALSE
<1>1. \/ loop' = Settle(loop, "unresolved", "stopped")
      \/ loop' = Settle(loop, "terminal", "stopped") /\ loop.dispatched = FALSE
      \/ loop' = Settle(loop, "unresolved", "unresolved")
  BY DEF HeadEnds, LoopType
<1>. QED
  BY <1>1, SettleFields DEF Verdict

\* The answer is judged.
LEMMA ReceiveFields ==
    ASSUME Typed, Receive
    PROVE  LET body == frame[loop.send].st IN
           /\ loop' \in LoopType /\ Same(loop', loop) /\ loop'.dispatched = loop.dispatched
           /\ body \in Body
           /\ loop.unanswered = TRUE => loop'.unanswered = TRUE
           /\ \/ body # "accepted" /\ Judged(loop', loop, body)
              \/ /\ body = "accepted" /\ loop'.pc = "write"
                 /\ \/ loop'.write.to = "terminal" /\ loop'.write.then = "late"
                    \/ loop'.write.to = "accepted" /\ loop'.write.then = "accepted" /\ ~aborted
<1>. DEFINE body == frame[loop.send].st
<1>0. body \in Body /\ loop \in LoopType /\ review \in BOOLEAN
  BY DEF Receive, Typed, HubTyped
<1>1. CASE body # "accepted"
  <2>1. loop' = OnFailure(loop, body) /\ body \in Body \ {"accepted"}
    BY <1>0, <1>1 DEF Receive
  <2>2. PICK b \in Body \ {"accepted"} : b = body
    BY <2>1
  <2>3. loop' = OnFailure(loop, b)
    BY <2>1, <2>2
  <2>. QED
    BY <1>0, <2>2, <2>3, OnFailureFields
<1>2. CASE body = "accepted" /\ aborted
  <2>1. loop' = RecordLate(loop)
    BY <1>2 DEF Receive
  <2>. QED
    BY <1>0, <1>2, <2>1, RecordLateFields
<1>3. CASE body = "accepted" /\ ~aborted
  <2>1. loop' = Settle(loop, "accepted", "accepted")
    BY <1>3 DEF Receive
  <2>. QED
    BY <1>0, <1>3, <2>1, SettleFields DEF Verdict
<1>. QED
  BY <1>1, <1>2, <1>3

\* No answer came: the request is sent again on the same session, or given up.
LEMMA ReplyLostFields ==
    ASSUME loop \in LoopType, ReplyLost
    PROVE  /\ loop' \in LoopType /\ Same(loop', loop) /\ loop'.dispatched = loop.dispatched
           /\ loop'.unanswered = TRUE
           /\ \/ loop'.pc = "head"
              \/ loop'.pc = "write" /\ loop'.write.to = "unresolved" /\ loop'.write.then = "unresolved"
<1>1. CASE loop.handle \in link \/ aborted
  <2>1. loop' = [[loop EXCEPT !.unanswered = TRUE] EXCEPT !.pc = "head"]
    BY <1>1 DEF ReplyLost, NoReply
  <2>. QED
    BY <2>1 DEF LoopType, LoopPc, Same
<1>2. CASE ~(loop.handle \in link \/ aborted)
  BY <1>2 DEF ReplyLost, NoReply, Settle, Writing, LoopType, LoopPc, WriteType, Verdict, Same
<1>. QED
  BY <1>1, <1>2

\* The write throws.
LEMMA WriteFailsFields ==
    ASSUME loop \in LoopType, WriteFails
    PROVE  /\ loop' \in LoopType /\ Same(loop', loop) /\ loop'.dispatched = loop.dispatched
           /\ loop'.unanswered = loop.unanswered
           /\ \/ /\ loop'.pc = "write" /\ loop'.write.to = "unresolved"
                 /\ loop'.write.then = "unresolved" /\ loop.write.then = "accepted"
              \/ /\ loop'.pc = "done" /\ loop'.outcome \in {"unresolved", "stopped", "fault"}
                 /\ loop.write.then # "accepted"
<1>1. CASE loop.write.then = "accepted"
  <2>1. loop' = Settle(loop, "unresolved", "unresolved")
    BY <1>1 DEF WriteFails
  <2>. QED
    BY <1>1, <2>1, SettleFields DEF Verdict
<1>2. CASE loop.write.then # "accepted"
  <2>1. PICK o \in {"unresolved", "stopped", "fault"} : loop' = Done(loop, o)
    BY <1>2 DEF WriteFails
  <2>2. o \in Verdict
    BY DEF Verdict
  <2>. QED
    BY <1>2, <2>1, <2>2, DoneFields
<1>. QED
  BY <1>1, <1>2

\* The runtime admits a request: what it answers depends on the session's receipt alone.
LEMMA AdmitFields ==
    ASSUME Typed, NEW n \in Send, Admit(n)
    PROVE  LET s == frame[n].to
               st == frame'[n].st IN
           /\ frame[n].st = "wire" /\ s \in Session /\ frame'[n].to = s
           /\ \A m \in Send : m # n => frame'[m] = frame[m]
           /\ \A t \in Session : t # s => receipt'[t] = receipt[t]
           /\ InOrder => \A m \in Send : m < n /\ frame[m].to = s => frame[m].st # "wire"
           /\ UNCHANGED <<open, running, runs, hubVars, link, cancels>>
           /\ \/ s \in open /\ receipt[s] = "none" /\ st = "joined" /\ receipt'[s] = "starting"
              \/ s \in open /\ receipt[s] = "starting" /\ st = "joined" /\ receipt' = receipt
              \/ st = "none" /\ receipt' = receipt
              \/ /\ receipt' = receipt /\ Awaits(n)
                 /\ \/ s \notin open /\ st = "closed"
                    \/ s \in open /\ receipt[s] = "none" /\ st = "absent"
                    \/ /\ s \in open /\ receipt[s] \in {"accepted", "detached", "unknown", "refused"}
                       /\ st = receipt[s]
<1>. DEFINE s == frame[n].to
<1>1. frame[n].st = "wire" /\ s \in Session /\ UNCHANGED <<open, running, runs, hubVars, link, cancels>>
  BY DEF Admit, RuntimeOnly, Typed, RuntimeTyped
<1>2. InOrder => \A m \in Send : m < n /\ frame[m].to = s => frame[m].st # "wire"
  BY DEF Admit
<1>3. frame'[n].to = s /\ (\A m \in Send : m # n => frame'[m] = frame[m])
  BY DEF Admit, Typed, RuntimeTyped
<1>4. \A t \in Session : t # s => receipt'[t] = receipt[t]
  BY DEF Admit, Typed, RuntimeTyped
<1>r. \A body : Reply(n, body) = "none" \/ (Reply(n, body) = body /\ Awaits(n))
  BY ReplyFields
<1>5. CASE s \notin open
  <2>1. frame'[n].st = Reply(n, "closed") /\ receipt' = receipt
    BY <1>1, <1>5 DEF Admit, Typed, RuntimeTyped
  <2>. QED
    BY <1>1, <1>2, <1>3, <1>4, <1>5, <1>r, <2>1
<1>6. CASE s \in open /\ receipt[s] = "none"
  <2>1. \/ frame'[n].st = Reply(n, "absent") /\ receipt' = receipt
        \/ frame'[n].st = "joined" /\ receipt'[s] = "starting"
    BY <1>1, <1>6 DEF Admit, Typed, RuntimeTyped
  <2>. QED
    BY <1>1, <1>2, <1>3, <1>4, <1>6, <1>r, <2>1
<1>7. CASE s \in open /\ receipt[s] = "starting"
  <2>1. frame'[n].st = "joined" /\ receipt' = receipt
    BY <1>1, <1>7 DEF Admit, Typed, RuntimeTyped
  <2>. QED
    BY <1>1, <1>2, <1>3, <1>4, <1>7, <2>1
<1>8. CASE s \in open /\ receipt[s] \notin {"none", "starting"}
  <2>1. frame'[n].st = Reply(n, receipt[s]) /\ receipt' = receipt
    BY <1>1, <1>8 DEF Admit, Typed, RuntimeTyped
  <2>2. receipt[s] \in {"accepted", "detached", "unknown", "refused"}
    BY <1>1, <1>8 DEF Typed, RuntimeTyped
  <2>. QED
    BY <1>1, <1>2, <1>3, <1>4, <1>8, <1>r, <2>1, <2>2
<1>. QED
  BY <1>5, <1>6, <1>7, <1>8

\* Every step keeps the types of the hub's state.
LEMMA HubTypedStep == Typed /\ InTurn /\ [Next]_vars => HubTyped'
<1>. SUFFICES ASSUME Typed, InTurn, [Next]_vars PROVE HubTyped'
  OBVIOUS
<1>. USE DEF Typed, HubTyped, vars, hubVars, runtimeVars, HubStep, LoopOnly, RuntimeOnly, aborted
<1>1. CASE Persist
  BY <1>1 DEF Persist, LoopType, LoopPc
<1>2. CASE Top
  <2>1. loop' \in LoopType
    BY <1>2, DoneFields DEF Top, LoopType, LoopPc, Verdict
  <2>. QED
    BY <1>2, <2>1 DEF Top
<1>3. CASE Reacquired
  <2>1. loop' \in LoopType
    <3>1. CASE aborted
      BY <1>3, <3>1, DoneFields DEF Reacquired, Verdict
    <3>2. CASE ~aborted
      <4>1. loop.handle + 1 \in Session
        BY <1>3, SubmissionBounds DEF Reacquired, LoopType, Session
      <4>. QED
        BY <1>3, <3>2, <4>1 DEF Reacquired, LoopType, LoopPc
    <3>. QED
      BY <3>1, <3>2
  <2>. QED
    BY <1>3, <2>1 DEF Reacquired
<1>4. ASSUME NEW b \in BOOLEAN, ReacquireFails(b) PROVE HubTyped'
  <2>1. loop' \in LoopType
    BY <1>4, DoneFields DEF ReacquireFails, LoopType, LoopPc, Verdict
  <2>. QED
    BY <1>4, <2>1 DEF ReacquireFails
<1>5. CASE Insert
  <2>1. loop.att + 1 \in Attempt
    BY <1>5, SubmissionBounds DEF Insert, InTurn, LoopType, Attempt
  <2>2. loop.att + 1 \in 0 .. MaxAttempt
    BY <2>1, SubmissionBounds DEF Attempt
  <2>3. loop' \in LoopType
    BY <1>5, <2>2 DEF Insert, LoopType, LoopPc
  <2>. QED
    BY <1>5, <2>1, <2>3 DEF Insert, OpenState
<1>6. CASE InsertFails
  BY <1>6, DoneFields, SubmissionBounds DEF InsertFails, Verdict
<1>7. CASE HeadEnds
  BY <1>7, SettleFields DEF HeadEnds, Verdict
<1>8. CASE SendRequest
  <2>0. loop.send + 1 \in 0 .. MaxSend
    BY <1>8, SubmissionBounds DEF SendRequest, LoopType
  <2>1. loop' \in LoopType
    BY <1>8, <2>0 DEF SendRequest, LoopType, LoopPc
  <2>2. turn' \in TurnType
    BY <1>8 DEF SendRequest, TurnType
  <2>. QED
    BY <1>8, <2>1, <2>2 DEF SendRequest
<1>9. CASE Receive
  <2>. DEFINE body == frame[loop.send].st
  <2>1. loop' \in LoopType
    <3>1. CASE body # "accepted"
      <4>1. body \in Body \ {"accepted"} /\ loop' = OnFailure(loop, body)
        BY <1>9, <3>1 DEF Receive
      <4>. QED
        BY <4>1, OnFailureFields
    <3>2. CASE body = "accepted" /\ aborted
      BY <1>9, <3>2, RecordLateFields DEF Receive
    <3>3. CASE body = "accepted" /\ ~aborted
      BY <1>9, <3>3, SettleFields DEF Receive, Verdict
    <3>. QED
      BY <3>1, <3>2, <3>3
  <2>2. loop.att \in Attempt
    BY <1>9 DEF Receive, InTurn, LatestIs, LoopType, Attempt
  <2>. QED
    BY <1>9, <2>1, <2>2 DEF Receive
<1>10. CASE ReplyLost
  <2>1. loop' \in LoopType
    <3>1. CASE loop.handle \in link \/ aborted
      BY <1>10, <3>1 DEF ReplyLost, NoReply, LoopType, LoopPc
    <3>2. CASE ~(loop.handle \in link \/ aborted)
      BY <1>10, <3>2 DEF ReplyLost, NoReply, Settle, Writing, LoopType, LoopPc, WriteType, Verdict
    <3>. QED
      BY <3>1, <3>2
  <2>. QED
    BY <1>10, <2>1 DEF ReplyLost
<1>11. CASE Written
  <2>1. loop' \in LoopType
    BY <1>11, WrittenFields
  <2>2. ledger' \in [Attempt -> OpenState \cup ClosedState]
    <3>1. loop.write.to \in OpenState \cup ClosedState
      BY DEF LoopType, WriteType, OpenState, ClosedState
    <3>. QED
      BY <1>11, <3>1 DEF Written
  <2>3. turn' \in TurnType
    BY <1>11 DEF Written, TurnType
  <2>. QED
    BY <1>11, <2>1, <2>2, <2>3 DEF Written
<1>12. CASE WriteFails
  <2>1. loop' \in LoopType
    <3>1. CASE loop.write.then = "accepted"
      BY <1>12, <3>1, SettleFields DEF WriteFails, Verdict
    <3>2. CASE loop.write.then # "accepted"
      BY <1>12, <3>2, DoneFields DEF WriteFails, Verdict
    <3>. QED
      BY <3>1, <3>2
  <2>. QED
    BY <1>12, <2>1, SubmissionBounds DEF WriteFails
<1>13. CASE ApplySubmission
  <2>1. loop' \in LoopType
    BY <1>13 DEF ApplySubmission, LoopType, LoopPc
  <2>2. [turn EXCEPT !.submitting = FALSE] \in TurnType
    BY DEF TurnType
  <2>3. turn' \in TurnType
    BY <1>13, <2>2, TerminatedFields DEF ApplySubmission, Reason
  <2>. QED
    BY <1>13, <2>1, <2>3 DEF ApplySubmission
<1>14. CASE FinishFlush
  BY <1>14 DEF FinishFlush, FinishUnchanged, TurnType
<1>15. CASE FinishMessage
  BY <1>15 DEF FinishMessage, FinishUnchanged, TurnType
<1>16. CASE FinishSeal
  <2>1. turn' \in TurnType
    BY <1>16 DEF FinishSeal, TurnType
  <2>. QED
    BY <1>16, <2>1, SealedFields, SubmissionBounds DEF FinishSeal, FinishUnchanged
<1>17. CASE Boot
  BY <1>17 DEF Boot, BootUnchanged
<1>18. CASE SweepMessage
  BY <1>18 DEF SweepMessage, BootUnchanged, ReasonFromAttempts, Reason
<1>19. CASE SweepReceipts
  BY <1>19, SealedFields DEF SweepReceipts, BootUnchanged
<1>20. ASSUME NEW n \in Send, LoseFrame(n) PROVE HubTyped'
  BY <1>20 DEF LoseFrame
<1>21. ASSUME NEW n \in Send, Admit(n) PROVE HubTyped'
  BY <1>21 DEF Admit, Reply
<1>22. ASSUME NEW s \in Session, StartAccepted(s) PROVE HubTyped'
  BY <1>22 DEF StartAccepted, AnswerJoined, Reply
<1>23. ASSUME NEW s \in Session, StartDiscarded(s) PROVE HubTyped'
  BY <1>23 DEF StartDiscarded, AnswerJoined, Reply
<1>24. ASSUME NEW s \in Session, StartUnknown(s) PROVE HubTyped'
  BY <1>24 DEF StartUnknown, AnswerJoined, Reply
<1>25. ASSUME NEW s \in Session, OtherTurnEnds(s) PROVE HubTyped'
  BY <1>25 DEF OtherTurnEnds
<1>26. ASSUME NEW s \in Session, RuntimeCloses(s) PROVE HubTyped'
  BY <1>26 DEF RuntimeCloses
<1>27. ASSUME NEW s \in Session, NEW b \in {"absent", "refused", "closed", "nonresumable"}, StartAbsent(s, b)
       PROVE  HubTyped'
  BY <1>27 DEF StartAbsent, AnswerJoined, Reply
<1>28. ASSUME NEW c \in cancels, CancelArrives(c) PROVE HubTyped'
  BY <1>28 DEF CancelArrives
<1>29. CASE Crash
  <2>1. loop' \in LoopType
    <3>1. NoWrite \in WriteType
      BY DEF NoWrite, WriteType, Verdict
    <3>. QED
      <4>1. 1 \in Session /\ 0 \in 0 .. MaxSend /\ "none" \in Verdict
        BY SubmissionBounds DEF Session, Verdict
      <4>2. /\ loop' = [pc |-> "persist", att |-> loop.att, handle |-> 1, send |-> 0,
                      dispatched |-> FALSE, unanswered |-> FALSE, replaced |-> {},
                      write |-> NoWrite, outcome |-> "none"]
            /\ loop.att \in 0 .. MaxAttempt
        BY <1>29 DEF Crash, InitLoop, LoopType
      <4>. QED
        BY <3>1, <4>1, <4>2 DEF LoopType, LoopPc
  <2>2. turn' \in TurnType
    BY <1>29 DEF Crash, InitTurn, TurnType, Reason
  <2>. QED
    BY <1>29, <2>1, <2>2, SubmissionBounds DEF Crash
<1>30. CASE UserStop
  BY <1>30, TerminatedFields DEF UserStop, Reason
<1>31. ASSUME NEW r \in {"consent-revoked", "hub-restarted"}, Reap(r) PROVE HubTyped'
  BY <1>31, TerminatedFields DEF Reap, Reason
<1>32. ASSUME NEW s \in Session, Disconnect(s) PROVE HubTyped'
  BY <1>32, TerminatedFields DEF Disconnect, Reason
<1>33. ASSUME NEW s \in Session, VendorCompletes(s) PROVE HubTyped'
  BY <1>33, TerminatedFields DEF VendorCompletes, Reason
<1>34. CASE UNCHANGED vars
  BY <1>34
<1>. HIDE DEF HubTyped, Typed, HubTyped
<1>. QED
  BY <1>1, <1>2, <1>3, <1>4, <1>5, <1>6, <1>7, <1>8, <1>9, <1>10, <1>11, <1>12, <1>13,
     <1>14, <1>15, <1>16, <1>17, <1>18, <1>19, <1>20, <1>21, <1>22, <1>23, <1>24, <1>25,
     <1>26, <1>27, <1>28, <1>29, <1>30, <1>31, <1>32, <1>33, <1>34
     DEF Next, LoopStep, FinishStep, BootStep, RuntimeStep

\* Every step keeps the types of the runtime's state.
LEMMA RuntimeTypedStep == Typed /\ Placed /\ [Next]_vars => RuntimeTyped'
<1>. SUFFICES ASSUME Typed, Placed, [Next]_vars PROVE RuntimeTyped'
  OBVIOUS
<1>. USE DEF Typed, RuntimeTyped, vars, hubVars, runtimeVars, HubStep, LoopOnly, RuntimeOnly, aborted
<1>1. CASE Persist
  BY <1>1 DEF Persist
<1>2. CASE Top
  BY <1>2 DEF Top, Done
<1>3. CASE Reacquired
  BY SMTT(40), <1>3, SubmissionBounds DEF Reacquired, HubTyped, LoopType, Session
<1>4. ASSUME NEW b \in BOOLEAN, ReacquireFails(b) PROVE RuntimeTyped'
  BY <1>4 DEF ReacquireFails, Done
<1>5. CASE Insert
  BY <1>5 DEF Insert
<1>6. CASE InsertFails
  BY <1>6 DEF InsertFails, Done
<1>7. CASE HeadEnds
  BY <1>7 DEF HeadEnds, Settle, Writing
<1>8. CASE SendRequest
  <2>1. loop.handle \in Session /\ loop.send + 1 \in Send
    BY <1>8, SubmissionBounds DEF SendRequest, HubTyped, LoopType, Send
  <2>. QED
    BY <1>8, <2>1 DEF SendRequest, Body
<1>9. CASE Receive
  <2>1. loop.handle \in Session
    BY DEF HubTyped, LoopType
  <2>2. <<loop.handle, TRUE>> \in Session \X BOOLEAN
    BY <2>1
  <2>3. cancels' \subseteq Session \X BOOLEAN
    BY <1>9, <2>2 DEF Receive
  <2>. QED
    BY <1>9, <2>3 DEF Receive
<1>10. CASE ReplyLost
  BY ZenonT(60), <1>10 DEF ReplyLost
<1>11. CASE Written
  <2>1. loop.handle \in Session
    BY DEF HubTyped, LoopType
  <2>2. <<loop.handle, TRUE>> \in Session \X BOOLEAN
    BY <2>1
  <2>3. cancels' \subseteq Session \X BOOLEAN
    BY <1>11, <2>2 DEF Written, LateCancel
  <2>. QED
    BY <1>11, <2>3 DEF Written
<1>12. CASE WriteFails
  <2>1. loop.handle \in Session
    BY DEF HubTyped, LoopType
  <2>2. <<loop.handle, TRUE>> \in Session \X BOOLEAN
    BY <2>1
  <2>3. cancels' \subseteq Session \X BOOLEAN
    BY <1>12, <2>2 DEF WriteFails, LateCancel
  <2>. QED
    BY <1>12, <2>3 DEF WriteFails
<1>13. CASE ApplySubmission
  BY <1>13 DEF ApplySubmission, Terminated
<1>14. CASE FinishFlush
  BY <1>14 DEF FinishFlush, FinishUnchanged
<1>15. CASE FinishMessage
  BY <1>15 DEF FinishMessage, FinishUnchanged
<1>16. CASE FinishSeal
  BY <1>16 DEF FinishSeal, FinishUnchanged, Sealed
<1>17. CASE Boot
  BY <1>17 DEF Boot, BootUnchanged
<1>18. CASE SweepMessage
  BY <1>18 DEF SweepMessage, BootUnchanged
<1>19. CASE SweepReceipts
  BY <1>19 DEF SweepReceipts, BootUnchanged, Sealed
<1>20. ASSUME NEW n \in Send, LoseFrame(n) PROVE RuntimeTyped'
  BY <1>20 DEF LoseFrame
<1>21. ASSUME NEW n \in Send, Admit(n) PROVE RuntimeTyped'
  <2>1. \A body \in Body : Reply(n, body) \in Body \cup {"none"}
    BY DEF Reply
  <2>2. frame[n].to \in Session /\ {"closed", "absent", "accepted", "detached", "unknown", "refused"} \subseteq Body
    BY DEF Body
  <2>3. frame' \in [Send -> [to : Session, st : Body \cup {"none", "wire", "joined"}]]
    BY <1>21, <2>1, <2>2 DEF Admit
  <2>. QED
    BY <1>21, <2>2, <2>3 DEF Admit
<1>22. ASSUME NEW s \in Session, StartAccepted(s) PROVE RuntimeTyped'
  BY SMTT(40), <1>22, AnswerJoinedFields DEF StartAccepted, Body, Placed
<1>23. ASSUME NEW s \in Session, StartDiscarded(s) PROVE RuntimeTyped'
  BY <1>23, AnswerJoinedFields DEF StartDiscarded, Body
<1>24. ASSUME NEW s \in Session, StartUnknown(s) PROVE RuntimeTyped'
  BY <1>24, AnswerJoinedFields DEF StartUnknown, Body, Placed
<1>25. ASSUME NEW s \in Session, OtherTurnEnds(s) PROVE RuntimeTyped'
  BY <1>25 DEF OtherTurnEnds
<1>26. ASSUME NEW s \in Session, RuntimeCloses(s) PROVE RuntimeTyped'
  BY <1>26 DEF RuntimeCloses
<1>27. ASSUME NEW s \in Session, NEW b \in {"absent", "refused", "closed", "nonresumable"}, StartAbsent(s, b)
       PROVE  RuntimeTyped'
  BY <1>27, AnswerJoinedFields DEF StartAbsent, Body, Placed
<1>28. ASSUME NEW c \in cancels, CancelArrives(c) PROVE RuntimeTyped'
  BY <1>28 DEF CancelArrives
<1>29. CASE Crash
  BY <1>29 DEF Crash, InitLoop, InitTurn, NoWrite
<1>30. CASE UserStop
  <2>1. loop.handle \in Session /\ turn.submitting \in BOOLEAN
    BY DEF HubTyped, LoopType, TurnType
  <2>2. <<loop.handle, ~turn.submitting>> \in Session \X BOOLEAN
    BY <2>1
  <2>3. cancels' \subseteq Session \X BOOLEAN
    BY <1>30, <2>2 DEF UserStop
  <2>. QED
    BY <1>30, <2>3 DEF UserStop
<1>31. ASSUME NEW r \in {"consent-revoked", "hub-restarted"}, Reap(r) PROVE RuntimeTyped'
  BY <1>31 DEF Reap, Terminated
<1>32. ASSUME NEW s \in Session, Disconnect(s) PROVE RuntimeTyped'
  BY <1>32 DEF Disconnect, Terminated
<1>33. ASSUME NEW s \in Session, VendorCompletes(s) PROVE RuntimeTyped'
  BY <1>33 DEF VendorCompletes, Terminated
<1>34. CASE UNCHANGED vars
  BY <1>34
<1>. HIDE DEF RuntimeTyped, Typed, RuntimeTyped
<1>. QED
  BY <1>1, <1>2, <1>3, <1>4, <1>5, <1>6, <1>7, <1>8, <1>9, <1>10, <1>11, <1>12, <1>13,
     <1>14, <1>15, <1>16, <1>17, <1>18, <1>19, <1>20, <1>21, <1>22, <1>23, <1>24, <1>25,
     <1>26, <1>27, <1>28, <1>29, <1>30, <1>31, <1>32, <1>33, <1>34
     DEF Next, LoopStep, FinishStep, BootStep, RuntimeStep

\* A session starts the turn while it is open, and runs it under a receipt.
LEMMA PlacedStep == Typed /\ Placed /\ [Next]_vars => Placed'
<1>. SUFFICES ASSUME Typed, Placed, [Next]_vars PROVE Placed'
  OBVIOUS
<1>. USE DEF Placed, Typed, RuntimeTyped, vars, hubVars, runtimeVars, HubStep, LoopOnly, RuntimeOnly, aborted
<1>1. CASE Persist
  BY <1>1 DEF Persist
<1>2. CASE Top
  BY <1>2 DEF Top
<1>3. CASE Reacquired
  BY <1>3 DEF Reacquired
<1>4. ASSUME NEW b \in BOOLEAN, ReacquireFails(b) PROVE Placed'
  BY <1>4 DEF ReacquireFails
<1>5. CASE Insert
  BY <1>5 DEF Insert
<1>6. CASE InsertFails
  BY <1>6 DEF InsertFails
<1>7. CASE HeadEnds
  BY <1>7 DEF HeadEnds
<1>8. CASE SendRequest
  BY <1>8 DEF SendRequest
<1>9. CASE Receive
  BY <1>9 DEF Receive
<1>10. CASE ReplyLost
  BY <1>10 DEF ReplyLost
<1>11. CASE Written
  BY <1>11 DEF Written
<1>12. CASE WriteFails
  BY <1>12 DEF WriteFails
<1>13. CASE ApplySubmission
  BY <1>13 DEF ApplySubmission
<1>14. CASE FinishFlush
  BY <1>14 DEF FinishFlush, FinishUnchanged
<1>15. CASE FinishMessage
  BY <1>15 DEF FinishMessage, FinishUnchanged
<1>16. CASE FinishSeal
  BY <1>16 DEF FinishSeal, FinishUnchanged
<1>17. CASE Boot
  BY <1>17 DEF Boot, BootUnchanged
<1>18. CASE SweepMessage
  BY <1>18 DEF SweepMessage, BootUnchanged
<1>19. CASE SweepReceipts
  BY <1>19 DEF SweepReceipts, BootUnchanged
<1>20. ASSUME NEW n \in Send, LoseFrame(n) PROVE Placed'
  BY <1>20 DEF LoseFrame
<1>21. ASSUME NEW n \in Send, Admit(n) PROVE Placed'
  BY <1>21 DEF Admit
<1>22. ASSUME NEW s \in Session, StartAccepted(s) PROVE Placed'
  BY <1>22 DEF StartAccepted
<1>23. ASSUME NEW s \in Session, StartDiscarded(s) PROVE Placed'
  BY <1>23 DEF StartDiscarded
<1>24. ASSUME NEW s \in Session, StartUnknown(s) PROVE Placed'
  BY <1>24 DEF StartUnknown
<1>25. ASSUME NEW s \in Session, OtherTurnEnds(s) PROVE Placed'
  BY <1>25 DEF OtherTurnEnds
<1>26. ASSUME NEW s \in Session, RuntimeCloses(s) PROVE Placed'
  BY <1>26 DEF RuntimeCloses
<1>27. ASSUME NEW s \in Session, NEW b \in {"absent", "refused", "closed", "nonresumable"}, StartAbsent(s, b)
       PROVE  Placed'
  BY <1>27 DEF StartAbsent
<1>28. ASSUME NEW c \in cancels, CancelArrives(c) PROVE Placed'
  BY <1>28 DEF CancelArrives
<1>29. CASE Crash
  BY <1>29 DEF Crash
<1>30. CASE UserStop
  BY <1>30 DEF UserStop
<1>31. ASSUME NEW r \in {"consent-revoked", "hub-restarted"}, Reap(r) PROVE Placed'
  BY <1>31 DEF Reap
<1>32. ASSUME NEW s \in Session, Disconnect(s) PROVE Placed'
  BY <1>32 DEF Disconnect
<1>33. ASSUME NEW s \in Session, VendorCompletes(s) PROVE Placed'
  BY <1>33 DEF VendorCompletes
<1>34. CASE UNCHANGED vars
  BY <1>34
<1>. HIDE DEF Placed, Typed, RuntimeTyped
<1>. QED
  BY <1>1, <1>2, <1>3, <1>4, <1>5, <1>6, <1>7, <1>8, <1>9, <1>10, <1>11, <1>12, <1>13,
     <1>14, <1>15, <1>16, <1>17, <1>18, <1>19, <1>20, <1>21, <1>22, <1>23, <1>24, <1>25,
     <1>26, <1>27, <1>28, <1>29, <1>30, <1>31, <1>32, <1>33, <1>34
     DEF Next, LoopStep, FinishStep, BootStep, RuntimeStep

\* Only a request the hub sends can make the vendor begin a turn that nothing on the way can.
LEMMA NoRunStays == Typed /\ NoRun /\ ~SendRequest /\ [Next]_vars => NoRun'
<1>. SUFFICES ASSUME Typed, NoRun, ~SendRequest, [Next]_vars PROVE NoRun'
  OBVIOUS
<1>. USE DEF NoRun, Travels, Starting, Typed, RuntimeTyped, vars, hubVars, runtimeVars, HubStep, LoopOnly, RuntimeOnly, aborted
<1>1. CASE Persist
  BY <1>1 DEF Persist
<1>2. CASE Top
  BY <1>2 DEF Top
<1>3. CASE Reacquired
  BY <1>3 DEF Reacquired
<1>4. ASSUME NEW b \in BOOLEAN, ReacquireFails(b) PROVE NoRun'
  BY <1>4 DEF ReacquireFails
<1>5. CASE Insert
  BY <1>5 DEF Insert
<1>6. CASE InsertFails
  BY <1>6 DEF InsertFails
<1>7. CASE HeadEnds
  BY <1>7 DEF HeadEnds
<1>8. CASE SendRequest
  BY <1>8
<1>9. CASE Receive
  BY <1>9 DEF Receive, Body
<1>10. CASE ReplyLost
  BY <1>10 DEF ReplyLost, Body
<1>11. CASE Written
  BY <1>11 DEF Written
<1>12. CASE WriteFails
  BY <1>12 DEF WriteFails
<1>13. CASE ApplySubmission
  BY <1>13 DEF ApplySubmission
<1>14. CASE FinishFlush
  BY <1>14 DEF FinishFlush, FinishUnchanged
<1>15. CASE FinishMessage
  BY <1>15 DEF FinishMessage, FinishUnchanged
<1>16. CASE FinishSeal
  BY <1>16 DEF FinishSeal, FinishUnchanged, Sealed
<1>17. CASE Boot
  BY <1>17 DEF Boot, BootUnchanged
<1>18. CASE SweepMessage
  BY <1>18 DEF SweepMessage, BootUnchanged
<1>19. CASE SweepReceipts
  BY <1>19 DEF SweepReceipts, BootUnchanged, Sealed
<1>20. ASSUME NEW n \in Send, LoseFrame(n) PROVE NoRun'
  BY <1>20 DEF LoseFrame
<1>21. ASSUME NEW n \in Send, Admit(n) PROVE NoRun'
  BY <1>21 DEF Admit
<1>22. ASSUME NEW s \in Session, StartAccepted(s) PROVE NoRun'
  BY <1>22 DEF StartAccepted
<1>23. ASSUME NEW s \in Session, StartDiscarded(s) PROVE NoRun'
  BY <1>23 DEF StartDiscarded
<1>24. ASSUME NEW s \in Session, StartUnknown(s) PROVE NoRun'
  BY <1>24 DEF StartUnknown
<1>25. ASSUME NEW s \in Session, OtherTurnEnds(s) PROVE NoRun'
  BY <1>25 DEF OtherTurnEnds
<1>26. ASSUME NEW s \in Session, RuntimeCloses(s) PROVE NoRun'
  BY <1>26 DEF RuntimeCloses
<1>27. ASSUME NEW s \in Session, NEW b \in {"absent", "refused", "closed", "nonresumable"}, StartAbsent(s, b)
       PROVE  NoRun'
  BY <1>27 DEF StartAbsent
<1>28. ASSUME NEW c \in cancels, CancelArrives(c) PROVE NoRun'
  BY <1>28 DEF CancelArrives
<1>29. CASE Crash
  BY <1>29 DEF Crash
<1>30. CASE UserStop
  BY <1>30 DEF UserStop
<1>31. ASSUME NEW r \in {"consent-revoked", "hub-restarted"}, Reap(r) PROVE NoRun'
  BY <1>31 DEF Reap
<1>32. ASSUME NEW s \in Session, Disconnect(s) PROVE NoRun'
  BY <1>32 DEF Disconnect
<1>33. ASSUME NEW s \in Session, VendorCompletes(s) PROVE NoRun'
  BY <1>33 DEF VendorCompletes
<1>34. CASE UNCHANGED vars
  BY <1>34
<1>. HIDE DEF NoRun, Typed, RuntimeTyped
<1>. QED
  BY <1>1, <1>2, <1>3, <1>4, <1>5, <1>6, <1>7, <1>8, <1>9, <1>10, <1>11, <1>12, <1>13,
     <1>14, <1>15, <1>16, <1>17, <1>18, <1>19, <1>20, <1>21, <1>22, <1>23, <1>24, <1>25,
     <1>26, <1>27, <1>28, <1>29, <1>30, <1>31, <1>32, <1>33, <1>34
     DEF Next, LoopStep, FinishStep, BootStep, RuntimeStep

\* Only a request the hub sends can make the vendor begin a turn when whatever is on the way is spent.
LEMMA SpentStays == Typed /\ RunOK /\ Spent /\ ~SendRequest /\ [Next]_vars => Spent'
<1>. SUFFICES ASSUME Typed, RunOK, Spent, ~SendRequest, [Next]_vars PROVE Spent'
  OBVIOUS
<1>. USE DEF Spent, Used, Starting, Typed, RuntimeTyped, vars, hubVars, runtimeVars, HubStep, LoopOnly, RuntimeOnly, aborted, RunOK
<1>1. CASE Persist
  BY <1>1 DEF Persist
<1>2. CASE Top
  BY <1>2 DEF Top
<1>3. CASE Reacquired
  BY <1>3 DEF Reacquired, OneTarget, Travels, ProofOfNoRun, Cleared, NoRun, HubTyped, LoopType, Session
<1>4. ASSUME NEW b \in BOOLEAN, ReacquireFails(b) PROVE Spent'
  BY <1>4 DEF ReacquireFails
<1>5. CASE Insert
  BY <1>5 DEF Insert
<1>6. CASE InsertFails
  BY <1>6 DEF InsertFails
<1>7. CASE HeadEnds
  BY <1>7 DEF HeadEnds
<1>8. CASE SendRequest
  BY <1>8
<1>9. CASE Receive
  BY <1>9 DEF Receive, Body
<1>10. CASE ReplyLost
  BY <1>10 DEF ReplyLost, Body
<1>11. CASE Written
  BY <1>11 DEF Written
<1>12. CASE WriteFails
  BY <1>12 DEF WriteFails
<1>13. CASE ApplySubmission
  BY <1>13 DEF ApplySubmission
<1>14. CASE FinishFlush
  BY <1>14 DEF FinishFlush, FinishUnchanged
<1>15. CASE FinishMessage
  BY <1>15 DEF FinishMessage, FinishUnchanged
<1>16. CASE FinishSeal
  BY <1>16 DEF FinishSeal, FinishUnchanged, Sealed
<1>17. CASE Boot
  BY <1>17 DEF Boot, BootUnchanged
<1>18. CASE SweepMessage
  BY <1>18 DEF SweepMessage, BootUnchanged
<1>19. CASE SweepReceipts
  BY <1>19 DEF SweepReceipts, BootUnchanged, Sealed
<1>20. ASSUME NEW n \in Send, LoseFrame(n) PROVE Spent'
  BY <1>20 DEF LoseFrame
<1>21. ASSUME NEW n \in Send, Admit(n) PROVE Spent'
  BY <1>21 DEF Admit
<1>22. ASSUME NEW s \in Session, StartAccepted(s) PROVE Spent'
  BY <1>22 DEF StartAccepted
<1>23. ASSUME NEW s \in Session, StartDiscarded(s) PROVE Spent'
  BY <1>23 DEF StartDiscarded
<1>24. ASSUME NEW s \in Session, StartUnknown(s) PROVE Spent'
  BY <1>24 DEF StartUnknown
<1>25. ASSUME NEW s \in Session, OtherTurnEnds(s) PROVE Spent'
  BY <1>25 DEF OtherTurnEnds
<1>26. ASSUME NEW s \in Session, RuntimeCloses(s) PROVE Spent'
  BY <1>26 DEF RuntimeCloses
<1>27. ASSUME NEW s \in Session, NEW b \in {"absent", "refused", "closed", "nonresumable"}, StartAbsent(s, b)
       PROVE  Spent'
  BY <1>27 DEF StartAbsent
<1>28. ASSUME NEW c \in cancels, CancelArrives(c) PROVE Spent'
  BY <1>28 DEF CancelArrives
<1>29. CASE Crash
  BY <1>29 DEF Crash
<1>30. CASE UserStop
  BY <1>30 DEF UserStop
<1>31. ASSUME NEW r \in {"consent-revoked", "hub-restarted"}, Reap(r) PROVE Spent'
  BY <1>31 DEF Reap
<1>32. ASSUME NEW s \in Session, Disconnect(s) PROVE Spent'
  BY <1>32 DEF Disconnect
<1>33. ASSUME NEW s \in Session, VendorCompletes(s) PROVE Spent'
  BY <1>33 DEF VendorCompletes
<1>34. CASE UNCHANGED vars
  BY <1>34
<1>. HIDE DEF Spent, Typed, RuntimeTyped, RunOK
<1>. QED
  BY <1>1, <1>2, <1>3, <1>4, <1>5, <1>6, <1>7, <1>8, <1>9, <1>10, <1>11, <1>12, <1>13,
     <1>14, <1>15, <1>16, <1>17, <1>18, <1>19, <1>20, <1>21, <1>22, <1>23, <1>24, <1>25,
     <1>26, <1>27, <1>28, <1>29, <1>30, <1>31, <1>32, <1>33, <1>34
     DEF Next, LoopStep, FinishStep, BootStep, RuntimeStep

\* At most one session starts the turn.
LEMMA OneStartStep == Typed /\ RunOK /\ InOrder /\ [Next]_vars => OneStart'
<1>. SUFFICES ASSUME Typed, RunOK, InOrder, [Next]_vars PROVE OneStart'
  OBVIOUS
<1>. USE DEF OneStart, Travels, Starting, RunOK, Typed, RuntimeTyped, vars, hubVars, runtimeVars, HubStep, LoopOnly, RuntimeOnly, aborted
<1>1. CASE Persist
  BY <1>1 DEF Persist
<1>2. CASE Top
  BY <1>2 DEF Top
<1>3. CASE Reacquired
  BY <1>3 DEF Reacquired
<1>4. ASSUME NEW b \in BOOLEAN, ReacquireFails(b) PROVE OneStart'
  BY <1>4 DEF ReacquireFails
<1>5. CASE Insert
  BY <1>5 DEF Insert
<1>6. CASE InsertFails
  BY <1>6 DEF InsertFails
<1>7. CASE HeadEnds
  BY <1>7 DEF HeadEnds
<1>8. CASE SendRequest
  <2>1. loop.send + 1 \in Send
    BY <1>8, SubmissionBounds DEF SendRequest, HubTyped, LoopType, Send
  <2>. QED
    BY SMTT(40), <1>8, <2>1, SubmissionBounds DEF SendRequest, OneTarget, HubTyped, LoopType, Send
<1>9. CASE Receive
  BY <1>9 DEF Receive, Body
<1>10. CASE ReplyLost
  BY <1>10 DEF ReplyLost, Body
<1>11. CASE Written
  BY <1>11 DEF Written
<1>12. CASE WriteFails
  BY <1>12 DEF WriteFails
<1>13. CASE ApplySubmission
  BY <1>13 DEF ApplySubmission
<1>14. CASE FinishFlush
  BY <1>14 DEF FinishFlush, FinishUnchanged
<1>15. CASE FinishMessage
  BY <1>15 DEF FinishMessage, FinishUnchanged
<1>16. CASE FinishSeal
  BY <1>16 DEF FinishSeal, FinishUnchanged, Sealed
<1>17. CASE Boot
  BY <1>17 DEF Boot, BootUnchanged
<1>18. CASE SweepMessage
  BY <1>18 DEF SweepMessage, BootUnchanged
<1>19. CASE SweepReceipts
  BY <1>19 DEF SweepReceipts, BootUnchanged, Sealed
<1>20. ASSUME NEW n \in Send, LoseFrame(n) PROVE OneStart'
  BY <1>20 DEF LoseFrame
<1>21. ASSUME NEW n \in Send, Admit(n) PROVE OneStart'
  <2>1. CASE frame'[n].st = "joined" /\ receipt[frame[n].to] = "none"
    <3>1. /\ frame[n].st = "wire" /\ frame[n].to \in Session /\ frame[n].to \in open
          /\ receipt' = [receipt EXCEPT ![frame[n].to] = "starting"]
          /\ frame' = [frame EXCEPT ![n].st = "joined"]
          /\ \A m \in Send : m < n /\ frame[m].to = frame[n].to => frame[m].st # "wire"
          /\ open' = open /\ runs' = runs
      BY <1>21, <2>1 DEF Admit, Reply
    <3>2. runs = 0
      BY <2>1, <3>1 DEF RunSpends, Spent, Used
    <3>. QED
      BY <2>1, <3>1, <3>2
  <2>2. CASE ~(frame'[n].st = "joined" /\ receipt[frame[n].to] = "none")
    <3>1. /\ receipt' = receipt /\ open' = open /\ runs' = runs /\ frame[n].st = "wire"
          /\ frame[n].to \in Session
          /\ frame'[n].st = "joined" => receipt[frame[n].to] = "starting"
          /\ frame'[n].st # "wire"
          /\ frame' = [frame EXCEPT ![n].st = frame'[n].st]
          /\ \A m \in Send : m < n /\ frame[m].to = frame[n].to => frame[m].st # "wire"
      BY <1>21, <2>2 DEF Admit, Reply
    <3>2. /\ \A m \in Send : m # n => frame'[m] = frame[m]
          /\ \A m \in Send : frame'[m].to = frame[m].to
          /\ \A s \in Session : Starting(s)' = Starting(s)
          /\ \A m \in Send : Travels(m)' => Travels(m)
      BY <3>1
    <3>3. \A m \in Send : frame'[m].st = "joined" => Starting(frame[m].to)'
      BY <3>1, <3>2
    <3>4. \A m, k \in Send : m < k /\ frame'[k].st = "joined" => frame'[m].st # "wire"
      BY <3>1, <3>2
    <3>. QED
      BY <3>1, <3>2, <3>3, <3>4
  <2>. QED
    BY <2>1, <2>2
<1>22. ASSUME NEW s \in Session, StartAccepted(s) PROVE OneStart'
  <2>1. StartEnds(s)
    BY <1>22 DEF StartEnds
  <2>. QED
    BY <1>22, <2>1, StartEndsFields DEF StartAccepted
<1>23. ASSUME NEW s \in Session, StartDiscarded(s) PROVE OneStart'
  <2>1. StartEnds(s)
    BY <1>23 DEF StartEnds
  <2>. QED
    BY <1>23, <2>1, StartEndsFields DEF StartDiscarded
<1>24. ASSUME NEW s \in Session, StartUnknown(s) PROVE OneStart'
  <2>1. StartEnds(s)
    BY <1>24 DEF StartEnds
  <2>. QED
    BY <1>24, <2>1, StartEndsFields DEF StartUnknown
<1>25. ASSUME NEW s \in Session, OtherTurnEnds(s) PROVE OneStart'
  BY <1>25 DEF OtherTurnEnds
<1>26. ASSUME NEW s \in Session, RuntimeCloses(s) PROVE OneStart'
  BY <1>26 DEF RuntimeCloses
<1>27. ASSUME NEW s \in Session, NEW b \in {"absent", "refused", "closed", "nonresumable"}, StartAbsent(s, b)
       PROVE  OneStart'
  <2>1. StartEnds(s)
    BY <1>27 DEF StartEnds
  <2>. QED
    BY <1>27, <2>1, StartEndsFields DEF StartAbsent
<1>28. ASSUME NEW c \in cancels, CancelArrives(c) PROVE OneStart'
  BY <1>28 DEF CancelArrives
<1>29. CASE Crash
  BY <1>29 DEF Crash
<1>30. CASE UserStop
  BY <1>30 DEF UserStop
<1>31. ASSUME NEW r \in {"consent-revoked", "hub-restarted"}, Reap(r) PROVE OneStart'
  BY <1>31 DEF Reap
<1>32. ASSUME NEW s \in Session, Disconnect(s) PROVE OneStart'
  BY <1>32 DEF Disconnect
<1>33. ASSUME NEW s \in Session, VendorCompletes(s) PROVE OneStart'
  BY <1>33 DEF VendorCompletes
<1>34. CASE UNCHANGED vars
  BY <1>34
<1>. HIDE DEF OneStart, Typed, RuntimeTyped, RunOK
<1>. QED
  BY <1>1, <1>2, <1>3, <1>4, <1>5, <1>6, <1>7, <1>8, <1>9, <1>10, <1>11, <1>12, <1>13,
     <1>14, <1>15, <1>16, <1>17, <1>18, <1>19, <1>20, <1>21, <1>22, <1>23, <1>24, <1>25,
     <1>26, <1>27, <1>28, <1>29, <1>30, <1>31, <1>32, <1>33, <1>34
     DEF Next, LoopStep, FinishStep, BootStep, RuntimeStep

\* What runs was begun.
LEMMA RunningBeganStep == Typed /\ RunOK /\ [Next]_vars => RunningBegan'
<1>. SUFFICES ASSUME Typed, RunOK, [Next]_vars PROVE RunningBegan'
  OBVIOUS
<1>. USE DEF RunningBegan, RunOK, Typed, RuntimeTyped, vars, hubVars, runtimeVars, HubStep, LoopOnly, RuntimeOnly, aborted
<1>1. CASE Persist
  BY <1>1 DEF Persist
<1>2. CASE Top
  BY <1>2 DEF Top
<1>3. CASE Reacquired
  BY <1>3 DEF Reacquired
<1>4. ASSUME NEW b \in BOOLEAN, ReacquireFails(b) PROVE RunningBegan'
  BY <1>4 DEF ReacquireFails
<1>5. CASE Insert
  BY <1>5 DEF Insert
<1>6. CASE InsertFails
  BY <1>6 DEF InsertFails
<1>7. CASE HeadEnds
  BY <1>7 DEF HeadEnds
<1>8. CASE SendRequest
  BY <1>8 DEF SendRequest
<1>9. CASE Receive
  BY <1>9 DEF Receive, Body
<1>10. CASE ReplyLost
  BY <1>10 DEF ReplyLost, Body
<1>11. CASE Written
  BY <1>11 DEF Written
<1>12. CASE WriteFails
  BY <1>12 DEF WriteFails
<1>13. CASE ApplySubmission
  BY <1>13 DEF ApplySubmission
<1>14. CASE FinishFlush
  BY <1>14 DEF FinishFlush, FinishUnchanged
<1>15. CASE FinishMessage
  BY <1>15 DEF FinishMessage, FinishUnchanged
<1>16. CASE FinishSeal
  BY <1>16 DEF FinishSeal, FinishUnchanged, Sealed
<1>17. CASE Boot
  BY <1>17 DEF Boot, BootUnchanged
<1>18. CASE SweepMessage
  BY <1>18 DEF SweepMessage, BootUnchanged
<1>19. CASE SweepReceipts
  BY <1>19 DEF SweepReceipts, BootUnchanged, Sealed
<1>20. ASSUME NEW n \in Send, LoseFrame(n) PROVE RunningBegan'
  BY <1>20 DEF LoseFrame
<1>21. ASSUME NEW n \in Send, Admit(n) PROVE RunningBegan'
  BY <1>21 DEF Admit, Reply
<1>22. ASSUME NEW s \in Session, StartAccepted(s) PROVE RunningBegan'
  BY <1>22 DEF StartAccepted, OneStart, Starting
<1>23. ASSUME NEW s \in Session, StartDiscarded(s) PROVE RunningBegan'
  BY <1>23 DEF StartDiscarded, OneStart, Starting
<1>24. ASSUME NEW s \in Session, StartUnknown(s) PROVE RunningBegan'
  BY <1>24 DEF StartUnknown, OneStart, Starting
<1>25. ASSUME NEW s \in Session, OtherTurnEnds(s) PROVE RunningBegan'
  BY <1>25 DEF OtherTurnEnds
<1>26. ASSUME NEW s \in Session, RuntimeCloses(s) PROVE RunningBegan'
  BY <1>26 DEF RuntimeCloses
<1>27. ASSUME NEW s \in Session, NEW b \in {"absent", "refused", "closed", "nonresumable"}, StartAbsent(s, b)
       PROVE  RunningBegan'
  BY <1>27 DEF StartAbsent, OneStart, Starting
<1>28. ASSUME NEW c \in cancels, CancelArrives(c) PROVE RunningBegan'
  BY <1>28 DEF CancelArrives
<1>29. CASE Crash
  BY <1>29 DEF Crash
<1>30. CASE UserStop
  BY <1>30 DEF UserStop
<1>31. ASSUME NEW r \in {"consent-revoked", "hub-restarted"}, Reap(r) PROVE RunningBegan'
  BY <1>31 DEF Reap
<1>32. ASSUME NEW s \in Session, Disconnect(s) PROVE RunningBegan'
  BY <1>32 DEF Disconnect
<1>33. ASSUME NEW s \in Session, VendorCompletes(s) PROVE RunningBegan'
  BY <1>33 DEF VendorCompletes
<1>34. CASE UNCHANGED vars
  BY <1>34
<1>. HIDE DEF RunningBegan, Typed, RuntimeTyped, RunOK
<1>. QED
  BY <1>1, <1>2, <1>3, <1>4, <1>5, <1>6, <1>7, <1>8, <1>9, <1>10, <1>11, <1>12, <1>13,
     <1>14, <1>15, <1>16, <1>17, <1>18, <1>19, <1>20, <1>21, <1>22, <1>23, <1>24, <1>25,
     <1>26, <1>27, <1>28, <1>29, <1>30, <1>31, <1>32, <1>33, <1>34
     DEF Next, LoopStep, FinishStep, BootStep, RuntimeStep

\* A run spends whatever is still on the way.
LEMMA RunSpendsStep == Typed /\ RunOK /\ [Next]_vars => RunSpends'
<1>. SUFFICES ASSUME Typed, RunOK, [Next]_vars PROVE RunSpends'
  OBVIOUS
<1>1. CASE SendRequest
  <2>1. runs' = runs /\ receipt' = receipt /\ open' = open
    BY <1>1 DEF SendRequest, runtimeVars
  <2>2. loop.send + 1 \in Send
    BY <1>1, SubmissionBounds DEF SendRequest, Typed, HubTyped, LoopType, Send
  <2>3. PICK k \in Send : /\ frame'[k].to = loop.handle
                         /\ \A n \in Send : n # k => frame'[n] = frame[n]
    BY <1>1, <2>2 DEF SendRequest, Typed, RuntimeTyped
  <2>4. runs > 0 => Used(loop.handle)
    BY <1>1 DEF SendRequest, RunOK, ResendIsSafe, HubStep
  <2>. QED
    BY <2>1, <2>3, <2>4 DEF RunSpends, RunOK, Spent, Starting, Used
<1>2. ASSUME NEW s \in Session, StartAccepted(s) \/ StartDiscarded(s) \/ StartUnknown(s)
      PROVE  RunSpends'
  <2>1. Starting(s) /\ runs = 0 /\ runs' \in {0, 1}
    BY <1>2 DEF Starting, StartAccepted, StartDiscarded, StartUnknown, RunOK, OneStart, Typed, RuntimeTyped
  <2>2. receipt'[s] \notin {"none", "starting"} /\ \A t \in Session : t # s => receipt'[t] = receipt[t]
    BY <1>2 DEF StartAccepted, StartDiscarded, StartUnknown, Typed, RuntimeTyped
  <2>3. \A n \in Send : frame'[n].st = "wire" => frame[n].st = "wire" /\ frame'[n].to = frame[n].to
    BY <1>2, StartEndsFields DEF StartEnds, RunOK
  <2>4. runs' > 0 => Spent'
    BY <2>1, <2>2, <2>3 DEF Spent, Used, Starting, RunOK, OneStart, Travels
  <2>. QED
    BY <2>1, <2>4 DEF RunSpends
<1>3. CASE /\ ~SendRequest
           /\ ~\E s \in Session : StartAccepted(s) \/ StartDiscarded(s) \/ StartUnknown(s)
  <2>1. runs' = runs
    BY <1>3 DEF Next, LoopStep, FinishStep, BootStep, RuntimeStep, Persist, Top, Reacquired,
       ReacquireFails, Insert, InsertFails, HeadEnds, Receive, ReplyLost, Written, WriteFails,
       ApplySubmission, FinishFlush, FinishMessage, FinishSeal, FinishUnchanged, Boot, SweepMessage,
       SweepReceipts, BootUnchanged, LoseFrame, Admit, OtherTurnEnds, RuntimeCloses, StartAbsent,
       CancelArrives, Crash, UserStop, Reap, Disconnect, VendorCompletes, vars, runtimeVars, LoopOnly
  <2>2. Spent => Spent'
    BY <1>3, SpentStays
  <2>. QED
    BY <2>1, <2>2 DEF RunSpends, RunOK
<1>. QED
  BY <1>1, <1>2, <1>3

\* The hub sends to the session it holds.
LEMMA OneTargetStep == Typed /\ RunOK /\ InOrder /\ [Next]_vars => OneTarget'
<1>. SUFFICES ASSUME Typed, RunOK, InOrder, [Next]_vars PROVE OneTarget'
  OBVIOUS
<1>. USE DEF OneTarget, Travels, Starting, RunOK, Typed, HubTyped, vars, hubVars, runtimeVars, HubStep, LoopOnly, RuntimeOnly, aborted
<1>1. CASE Persist
  BY <1>1 DEF Persist, LoopType
<1>2. CASE Top
  BY <1>2, DoneFields DEF Top, Same, Verdict, LoopType
<1>3. CASE Reacquired
  <2>1. loop.handle \in Nat /\ loop.handle + 1 \in Session /\ \A s \in Session : s \in Nat
    BY <1>3, SubmissionBounds DEF Reacquired, LoopType, Session
  <2>2. NoRun /\ running = {}
    BY <1>3 DEF Reacquired, ProofOfNoRun, Cleared, RunningBegan, NoRun
  <2>3. loop'.pc \in {"done", "insert"} /\ loop'.send = loop.send /\ loop'.handle \in {loop.handle, loop.handle + 1}
    BY <1>3, DoneFields DEF Reacquired, LoopType, Verdict, Same
  <2>. QED
    BY <1>3, <2>1, <2>2, <2>3 DEF Reacquired, NoRun
<1>4. ASSUME NEW b \in BOOLEAN, ReacquireFails(b) PROVE OneTarget'
  BY <1>4, DoneFields DEF ReacquireFails, Same, Verdict, LoopType
<1>5. CASE Insert
  BY <1>5 DEF Insert, LoopType
<1>6. CASE InsertFails
  BY <1>6, DoneFields DEF InsertFails, Same, Verdict, LoopType
<1>7. CASE HeadEnds
  BY <1>7, HeadEndsFields DEF HeadEnds, Same, Body
<1>8. CASE SendRequest
  <2>1. loop.send + 1 \in Send /\ loop.send \in Nat
    BY <1>8, SubmissionBounds DEF SendRequest, LoopType, Send
  <2>2. loop'.send = loop.send + 1 /\ loop'.handle = loop.handle /\ loop'.pc = "awaiting"
    BY <1>8 DEF SendRequest, LoopType
  <2>3. /\ frame'[loop.send + 1].to = loop.handle
        /\ \A n \in Send : n # loop.send + 1 => frame'[n] = frame[n]
    BY <1>8, <2>1 DEF SendRequest, RuntimeTyped
  <2>4. \A n \in Send : n \in Nat
    BY SubmissionBounds DEF Send
  <2>5. UNCHANGED <<hub, receipt, running>>
    BY <1>8 DEF SendRequest
  <2>. QED
    BY <1>8, <2>1, <2>2, <2>3, <2>4, <2>5 DEF SendRequest, Body
<1>9. CASE Receive
  <2>1. loop'.pc \in {"head", "write"} /\ Same(loop', loop)
    BY <1>9, ReceiveFields DEF Judged
  <2>2. \A n \in Send : /\ frame'[n].to = frame[n].to
                         /\ frame'[n].st = IF n = loop.send THEN "none" ELSE frame[n].st
    BY <1>9 DEF Receive, RuntimeTyped
  <2>. QED
    BY SMTT(40), <1>9, <2>1, <2>2 DEF Receive, Same, Body
<1>10. CASE ReplyLost
  <2>1. loop'.pc \in {"head", "write"} /\ Same(loop', loop)
    BY <1>10, ReplyLostFields
  <2>2. \A n \in Send :
           /\ frame'[n].to = frame[n].to
           /\ frame'[n].st = IF n = loop.send /\ frame[n].st \in Body THEN "none" ELSE frame[n].st
    BY <1>10 DEF ReplyLost, RuntimeTyped
  <2>. QED
    BY <1>10, <2>1, <2>2 DEF ReplyLost, Same, Body
<1>11. CASE Written
  BY <1>11, WrittenFields DEF Written, Same, Body
<1>12. CASE WriteFails
  BY <1>12, WriteFailsFields DEF WriteFails, Same, Body
<1>13. CASE ApplySubmission
  BY <1>13 DEF ApplySubmission, LoopType
<1>14. CASE FinishFlush
  BY <1>14 DEF FinishFlush, FinishUnchanged
<1>15. CASE FinishMessage
  BY <1>15 DEF FinishMessage, FinishUnchanged
<1>16. CASE FinishSeal
  BY <1>16 DEF FinishSeal, FinishUnchanged, Sealed
<1>17. CASE Boot
  BY <1>17 DEF Boot, BootUnchanged
<1>18. CASE SweepMessage
  BY <1>18 DEF SweepMessage, BootUnchanged
<1>19. CASE SweepReceipts
  BY <1>19 DEF SweepReceipts, BootUnchanged, Sealed
<1>20. ASSUME NEW n \in Send, LoseFrame(n) PROVE OneTarget'
  BY <1>20 DEF LoseFrame, RuntimeTyped, Body
<1>21. ASSUME NEW n \in Send, Admit(n) PROVE OneTarget'
  <2>1. loop.handle \in Nat
    BY DEF LoopType, Session
  <2>. QED
    BY <1>21, <2>1, AdmitFields DEF Awaits, Body
<1>22. ASSUME NEW s \in Session, StartAccepted(s) PROVE OneTarget'
  <2>1. StartEnds(s)
    BY <1>22 DEF StartEnds
  <2>. QED
    BY <1>22, <2>1, StartEndsFields DEF StartAccepted, Awaits, RuntimeTyped, Body
<1>23. ASSUME NEW s \in Session, StartDiscarded(s) PROVE OneTarget'
  <2>1. StartEnds(s)
    BY <1>23 DEF StartEnds
  <2>. QED
    BY <1>23, <2>1, StartEndsFields DEF StartDiscarded, Awaits, RuntimeTyped, Body
<1>24. ASSUME NEW s \in Session, StartUnknown(s) PROVE OneTarget'
  <2>1. StartEnds(s)
    BY <1>24 DEF StartEnds
  <2>. QED
    BY <1>24, <2>1, StartEndsFields DEF StartUnknown, Awaits, RuntimeTyped, Body
<1>25. ASSUME NEW s \in Session, OtherTurnEnds(s) PROVE OneTarget'
  BY <1>25 DEF OtherTurnEnds
<1>26. ASSUME NEW s \in Session, RuntimeCloses(s) PROVE OneTarget'
  BY <1>26 DEF RuntimeCloses, RuntimeTyped
<1>27. ASSUME NEW s \in Session, NEW b \in {"absent", "refused", "closed", "nonresumable"}, StartAbsent(s, b)
       PROVE  OneTarget'
  <2>1. StartEnds(s)
    BY <1>27 DEF StartEnds
  <2>. QED
    BY <1>27, <2>1, StartEndsFields DEF StartAbsent, Awaits, RuntimeTyped, Body
<1>28. ASSUME NEW c \in cancels, CancelArrives(c) PROVE OneTarget'
  BY <1>28 DEF CancelArrives
<1>29. CASE Crash
  BY <1>29 DEF Crash
<1>30. CASE UserStop
  BY <1>30 DEF UserStop
<1>31. ASSUME NEW r \in {"consent-revoked", "hub-restarted"}, Reap(r) PROVE OneTarget'
  BY <1>31 DEF Reap
<1>32. ASSUME NEW s \in Session, Disconnect(s) PROVE OneTarget'
  BY <1>32 DEF Disconnect
<1>33. ASSUME NEW s \in Session, VendorCompletes(s) PROVE OneTarget'
  BY <1>33 DEF VendorCompletes
<1>34. CASE UNCHANGED vars
  BY <1>34
<1>. HIDE DEF OneTarget, Typed, HubTyped, RunOK
<1>. QED
  BY <1>1, <1>2, <1>3, <1>4, <1>5, <1>6, <1>7, <1>8, <1>9, <1>10, <1>11, <1>12, <1>13,
     <1>14, <1>15, <1>16, <1>17, <1>18, <1>19, <1>20, <1>21, <1>22, <1>23, <1>24, <1>25,
     <1>26, <1>27, <1>28, <1>29, <1>30, <1>31, <1>32, <1>33, <1>34
     DEF Next, LoopStep, FinishStep, BootStep, RuntimeStep

\* The loop takes nothing as proof that the vendor did not begin but what is.
LEMMA ClearedOnProof == Typed /\ RunOK /\ [Next]_vars => (Cleared' => NoRun)
<1>. SUFFICES ASSUME Typed, RunOK, [Next]_vars, Cleared' PROVE NoRun
  OBVIOUS
<1>. USE DEF Cleared, Typed, HubTyped, vars, hubVars, runtimeVars, HubStep, LoopOnly, RuntimeOnly, aborted
<1>1. CASE Persist
  BY <1>1 DEF Persist, RunOK, ProofOfNoRun, LoopType
<1>2. CASE Top
  BY <1>2, DoneFields DEF Top, Verdict, RunOK, ProofOfNoRun, LoopType
<1>3. CASE Reacquired
  BY <1>3, DoneFields DEF Reacquired, Verdict, RunOK, ProofOfNoRun, LoopType
<1>4. ASSUME NEW b \in BOOLEAN, ReacquireFails(b) PROVE NoRun
  BY <1>4, DoneFields DEF ReacquireFails, Verdict, RunOK, ProofOfNoRun, LoopType
<1>5. CASE Insert
  BY <1>5 DEF Insert, RunOK, ProofOfNoRun, LoopType
<1>6. CASE InsertFails
  BY <1>6, DoneFields DEF InsertFails, Verdict, RunOK, ProofOfNoRun, LoopType
<1>7. CASE HeadEnds
  BY <1>7, HeadEndsFields
<1>8. CASE SendRequest
  BY <1>8 DEF SendRequest, RunOK, ProofOfNoRun, LoopType
<1>9. CASE Receive
  BY <1>9, ReceiveFields DEF Receive, Judged, Proving, RunOK, AnswerProves, Body
<1>10. CASE ReplyLost
  BY <1>10, ReplyLostFields
<1>11. CASE Written
  BY <1>11, WrittenFields DEF Written, RunOK, ProofOfNoRun
<1>12. CASE WriteFails
  BY <1>12, WriteFailsFields
<1>13. CASE ApplySubmission
  BY <1>13 DEF ApplySubmission, RunOK, ProofOfNoRun, LoopType
<1>14. CASE FinishFlush
  BY <1>14 DEF FinishFlush, FinishUnchanged, RunOK, ProofOfNoRun
<1>15. CASE FinishMessage
  BY <1>15 DEF FinishMessage, FinishUnchanged, RunOK, ProofOfNoRun
<1>16. CASE FinishSeal
  BY <1>16 DEF FinishSeal, FinishUnchanged, RunOK, ProofOfNoRun
<1>17. CASE Boot
  BY <1>17 DEF Boot, BootUnchanged
<1>18. CASE SweepMessage
  BY <1>18 DEF SweepMessage, BootUnchanged
<1>19. CASE SweepReceipts
  BY <1>19 DEF SweepReceipts, BootUnchanged
<1>20. ASSUME NEW n \in Send, LoseFrame(n) PROVE NoRun
  BY <1>20 DEF LoseFrame, RunOK, ProofOfNoRun, LoopType
<1>21. ASSUME NEW n \in Send, Admit(n) PROVE NoRun
  BY <1>21 DEF Admit, RunOK, ProofOfNoRun
<1>22. ASSUME NEW s \in Session, StartAccepted(s) PROVE NoRun
  BY <1>22 DEF StartAccepted, RunOK, ProofOfNoRun
<1>23. ASSUME NEW s \in Session, StartDiscarded(s) PROVE NoRun
  BY <1>23 DEF StartDiscarded, RunOK, ProofOfNoRun
<1>24. ASSUME NEW s \in Session, StartUnknown(s) PROVE NoRun
  BY <1>24 DEF StartUnknown, RunOK, ProofOfNoRun
<1>25. ASSUME NEW s \in Session, OtherTurnEnds(s) PROVE NoRun
  BY <1>25 DEF OtherTurnEnds, RunOK, ProofOfNoRun, LoopType
<1>26. ASSUME NEW s \in Session, RuntimeCloses(s) PROVE NoRun
  BY <1>26 DEF RuntimeCloses, RunOK, ProofOfNoRun, LoopType
<1>27. ASSUME NEW s \in Session, NEW b \in {"absent", "refused", "closed", "nonresumable"}, StartAbsent(s, b)
       PROVE  NoRun
  BY <1>27 DEF StartAbsent, RunOK, ProofOfNoRun
<1>28. ASSUME NEW c \in cancels, CancelArrives(c) PROVE NoRun
  BY <1>28 DEF CancelArrives, RunOK, ProofOfNoRun, LoopType
<1>29. CASE Crash
  BY <1>29 DEF Crash, RunOK, ProofOfNoRun, LoopType
<1>30. CASE UserStop
  BY <1>30 DEF UserStop, RunOK, ProofOfNoRun, LoopType
<1>31. ASSUME NEW r \in {"consent-revoked", "hub-restarted"}, Reap(r) PROVE NoRun
  BY <1>31 DEF Reap, RunOK, ProofOfNoRun, LoopType
<1>32. ASSUME NEW s \in Session, Disconnect(s) PROVE NoRun
  BY <1>32 DEF Disconnect, RunOK, ProofOfNoRun, LoopType
<1>33. ASSUME NEW s \in Session, VendorCompletes(s) PROVE NoRun
  BY <1>33 DEF VendorCompletes, RunOK, ProofOfNoRun, LoopType
<1>34. CASE UNCHANGED vars
  BY <1>34 DEF RunOK, ProofOfNoRun
<1>. HIDE DEF Cleared, Typed, HubTyped
<1>. QED
  BY <1>1, <1>2, <1>3, <1>4, <1>5, <1>6, <1>7, <1>8, <1>9, <1>10, <1>11, <1>12, <1>13,
     <1>14, <1>15, <1>16, <1>17, <1>18, <1>19, <1>20, <1>21, <1>22, <1>23, <1>24, <1>25,
     <1>26, <1>27, <1>28, <1>29, <1>30, <1>31, <1>32, <1>33, <1>34
     DEF Next, LoopStep, FinishStep, BootStep, RuntimeStep

\* The loop's belief that nothing began is right after every step.
LEMMA ProofOfNoRunStep == Typed /\ RunOK /\ [Next]_vars => ProofOfNoRun'
<1>. SUFFICES ASSUME Typed, RunOK, [Next]_vars PROVE ProofOfNoRun'
  OBVIOUS
<1>1. CASE SendRequest
  BY <1>1 DEF SendRequest, ProofOfNoRun, Cleared, Typed, HubTyped, LoopType
<1>2. CASE ~SendRequest
  BY <1>2, ClearedOnProof, NoRunStays DEF ProofOfNoRun
<1>. QED
  BY <1>1, <1>2

\* A resend stays safe.
LEMMA ResendIsSafeStep == Typed /\ RunOK /\ [Next]_vars => ResendIsSafe'
<1>. SUFFICES ASSUME Typed, RunOK, [Next]_vars PROVE ResendIsSafe'
  OBVIOUS
<1>. USE DEF ResendIsSafe, Used, RunOK, Typed, HubTyped, RuntimeTyped, vars, hubVars, runtimeVars, HubStep, LoopOnly, RuntimeOnly, aborted
<1>1. CASE Persist
  BY <1>1 DEF Persist, LoopType
<1>2. CASE Top
  BY <1>2, DoneFields DEF Top, Same, Verdict, LoopType
<1>3. CASE Reacquired
  BY <1>3, DoneFields DEF Reacquired, LoopType, Verdict
<1>4. ASSUME NEW b \in BOOLEAN, ReacquireFails(b) PROVE ResendIsSafe'
  BY <1>4, DoneFields DEF ReacquireFails, Same, Verdict, LoopType
<1>5. CASE Insert
  BY <1>5 DEF Insert, LoopType, ProofOfNoRun, Cleared, NoRun
<1>6. CASE InsertFails
  BY <1>6, DoneFields DEF InsertFails, Same, Verdict, LoopType
<1>7. CASE HeadEnds
  BY <1>7, HeadEndsFields DEF HeadEnds, Same, Body
<1>8. CASE SendRequest
  BY <1>8 DEF SendRequest, LoopType
<1>9. CASE Receive
  BY <1>9, ReceiveFields DEF Receive, Judged, Same
<1>10. CASE ReplyLost
  BY <1>10, ReplyLostFields DEF ReplyLost, Same, Body
<1>11. CASE Written
  BY <1>11, WrittenFields DEF Written, Same, Body
<1>12. CASE WriteFails
  BY <1>12, WriteFailsFields DEF WriteFails, Same, Body
<1>13. CASE ApplySubmission
  BY <1>13 DEF ApplySubmission, LoopType
<1>14. CASE FinishFlush
  BY <1>14 DEF FinishFlush, FinishUnchanged
<1>15. CASE FinishMessage
  BY <1>15 DEF FinishMessage, FinishUnchanged
<1>16. CASE FinishSeal
  BY <1>16 DEF FinishSeal, FinishUnchanged, Sealed
<1>17. CASE Boot
  BY <1>17 DEF Boot, BootUnchanged
<1>18. CASE SweepMessage
  BY <1>18 DEF SweepMessage, BootUnchanged
<1>19. CASE SweepReceipts
  BY <1>19 DEF SweepReceipts, BootUnchanged, Sealed
<1>20. ASSUME NEW n \in Send, LoseFrame(n) PROVE ResendIsSafe'
  BY <1>20 DEF LoseFrame
<1>21. ASSUME NEW n \in Send, Admit(n) PROVE ResendIsSafe'
  BY <1>21, AdmitFields
<1>22. ASSUME NEW s \in Session, StartAccepted(s) PROVE ResendIsSafe'
  BY <1>22 DEF StartAccepted, OneStart, OneTarget, Starting
<1>23. ASSUME NEW s \in Session, StartDiscarded(s) PROVE ResendIsSafe'
  BY <1>23 DEF StartDiscarded, OneStart, OneTarget, Starting
<1>24. ASSUME NEW s \in Session, StartUnknown(s) PROVE ResendIsSafe'
  BY <1>24 DEF StartUnknown, OneStart, OneTarget, Starting
<1>25. ASSUME NEW s \in Session, OtherTurnEnds(s) PROVE ResendIsSafe'
  BY <1>25 DEF OtherTurnEnds
<1>26. ASSUME NEW s \in Session, RuntimeCloses(s) PROVE ResendIsSafe'
  BY <1>26 DEF RuntimeCloses, LoopType
<1>27. ASSUME NEW s \in Session, NEW b \in {"absent", "refused", "closed", "nonresumable"}, StartAbsent(s, b)
       PROVE  ResendIsSafe'
  BY <1>27 DEF StartAbsent, OneStart, OneTarget, Starting
<1>28. ASSUME NEW c \in cancels, CancelArrives(c) PROVE ResendIsSafe'
  BY <1>28 DEF CancelArrives
<1>29. CASE Crash
  BY <1>29 DEF Crash
<1>30. CASE UserStop
  BY <1>30 DEF UserStop
<1>31. ASSUME NEW r \in {"consent-revoked", "hub-restarted"}, Reap(r) PROVE ResendIsSafe'
  BY <1>31 DEF Reap
<1>32. ASSUME NEW s \in Session, Disconnect(s) PROVE ResendIsSafe'
  BY <1>32 DEF Disconnect
<1>33. ASSUME NEW s \in Session, VendorCompletes(s) PROVE ResendIsSafe'
  BY <1>33 DEF VendorCompletes
<1>34. CASE UNCHANGED vars
  BY <1>34
<1>. HIDE DEF ResendIsSafe, Typed, HubTyped, RuntimeTyped, RunOK
<1>. QED
  BY <1>1, <1>2, <1>3, <1>4, <1>5, <1>6, <1>7, <1>8, <1>9, <1>10, <1>11, <1>12, <1>13,
     <1>14, <1>15, <1>16, <1>17, <1>18, <1>19, <1>20, <1>21, <1>22, <1>23, <1>24, <1>25,
     <1>26, <1>27, <1>28, <1>29, <1>30, <1>31, <1>32, <1>33, <1>34
     DEF Next, LoopStep, FinishStep, BootStep, RuntimeStep

\* What the hub can take as proof, and what ends the attempt, when a start ends.
LEMMA StartAnswerProves ==
    ASSUME Typed, RunOK, NEW s \in Session, StartEnds(s), RunSpends', Awaits(loop.send)
    PROVE  frame[loop.send].st = "joined" =>
              /\ frame'[loop.send].st \in {"closed", "nonresumable", "absent", "not-sent"} => NoRun'
              /\ frame'[loop.send].st \in {"accepted", "detached", "refused"} => Spent'
<1>. SUFFICES ASSUME frame[loop.send].st = "joined"
             PROVE  /\ frame'[loop.send].st \in {"closed", "nonresumable", "absent", "not-sent"} => NoRun'
                    /\ frame'[loop.send].st \in {"accepted", "detached", "refused"} => Spent'
  OBVIOUS
<1>0. loop.send \in Send /\ \A n \in Send : n \in Nat
  BY SubmissionBounds DEF RunOK, OneTarget, Awaits, Send
<1>1. /\ receipt[s] = "starting" /\ receipt'[s] # "starting"
      /\ \A t \in Session : t # s => receipt'[t] = receipt[t]
      /\ \A n \in Send : frame'[n].st # "joined" /\ (frame'[n].st = "wire" => frame[n].st = "wire")
      /\ runs = 0
  BY StartEndsFields DEF RunOK
<1>2. \A n \in Send : frame'[n].st \notin {"wire", "joined"}
  <2>1. \A n \in Send : n < loop.send => frame[n].st # "wire"
    BY <1>0 DEF RunOK, OneStart
  <2>2. \A n \in Send : n > loop.send => frame[n].st # "wire"
    BY <1>0 DEF RunOK, OneTarget, Awaits
  <2>. QED
    BY <1>0, <1>1, <2>1, <2>2
<1>3. \A t \in Session : receipt'[t] # "starting"
  BY <1>1 DEF RunOK, OneStart, Starting
<1>4. Spent'
  BY <1>2, <1>3 DEF Spent, Starting
<1>5. frame[loop.send].to = s
  BY <1>0, <1>1 DEF RunOK, OneStart, Starting, Travels
<1>6. runs' # 0 => frame'[loop.send].st \notin {"closed", "nonresumable", "absent", "not-sent"}
  <2>1. ASSUME NEW body \in Body, body \notin {"closed", "nonresumable", "absent", "not-sent"},
               frame' = AnswerJoined(s, body)
        PROVE  frame'[loop.send].st \notin {"closed", "nonresumable", "absent", "not-sent"}
    <3>1. frame'[loop.send].st = Reply(loop.send, body)
      BY <1>0, <1>5, <2>1, AnswerJoinedFields DEF Typed
    <3>. QED
      BY <2>1, <3>1, ReplyFields
  <2>2. CASE StartAccepted(s)
    BY <2>1, <2>2 DEF StartAccepted, Body
  <2>3. CASE StartDiscarded(s)
    BY <2>1, <2>3 DEF StartDiscarded, Body
  <2>4. CASE StartUnknown(s)
    BY <2>1, <2>4 DEF StartUnknown, Body
  <2>5. CASE \E b \in {"absent", "refused", "closed", "nonresumable"} : StartAbsent(s, b)
    BY <1>1, <2>5 DEF StartAbsent
  <2>. QED
    BY <2>2, <2>3, <2>4, <2>5 DEF StartEnds
<1>. QED
  BY <1>2, <1>3, <1>4, <1>6 DEF NoRun, Travels, Starting

\* An answer proves no more than what it is taken for.
LEMMA AnswerProvesStep == Typed /\ RunOK /\ InOrder /\ [Next]_vars => AnswerProves'
<1>. SUFFICES ASSUME Typed, RunOK, InOrder, [Next]_vars, Awaits(loop.send)'
             PROVE  AnswerProves'
  BY DEF AnswerProves, Awaits
<1>0. RunSpends' /\ (~SendRequest => (NoRun => NoRun') /\ (Spent => Spent'))
  BY RunSpendsStep, NoRunStays, SpentStays
<1>1. CASE SendRequest
  <2>1. loop.send + 1 \in Send /\ loop'.send = loop.send + 1 /\ loop'.unanswered = loop.unanswered
    BY <1>1, SubmissionBounds DEF SendRequest, Typed, HubTyped, LoopType, Send
  <2>2. PICK k \in Send : /\ k = loop'.send /\ frame'[k].st \in {"wire", "not-sent"}
                         /\ \A n \in Send : n # k => frame'[n] = frame[n]
    BY <1>1, <2>1 DEF SendRequest, Typed, RuntimeTyped
  <2>3. UNCHANGED <<receipt, runs>>
    BY <1>1 DEF SendRequest, runtimeVars
  <2>4. loop'.unanswered = FALSE => NoRun
    BY <1>1, <2>1 DEF SendRequest, HubStep, RunOK, ProofOfNoRun, Cleared
  <2>. QED
    BY <2>2, <2>3, <2>4 DEF AnswerProves, NoRun, Travels, Starting
<1>2. ASSUME NEW n \in Send, Admit(n) PROVE AnswerProves'
  <2>0. ~SendRequest /\ Awaits(loop.send) /\ loop' = loop /\ hub' = hub
    BY <1>2, SubmissionBounds DEF Admit, RuntimeOnly, SendRequest, Awaits, Typed, HubTyped, LoopType, hubVars
  <2>1. loop.send \in Send /\ frame[loop.send].to = loop.handle /\ \A m \in Send : m \in Nat
    BY <2>0, SubmissionBounds DEF RunOK, OneTarget, Awaits, Send
  <2>2. CASE n # loop.send
    <3>1. frame'[loop.send] = frame[loop.send] /\ frame[n].st = "wire"
      BY <1>2, <2>1, <2>2, AdmitFields
    <3>2. loop.unanswered = TRUE
      BY <2>0, <2>2, <3>1 DEF RunOK, AnswerProves, Travels, Awaits, Typed, HubTyped, LoopType
    <3>. QED
      BY <1>0, <2>0, <3>1, <3>2 DEF RunOK, AnswerProves, Awaits
  <2>3. CASE n = loop.send
    <3>. DEFINE s == frame[n].to
    <3>1. /\ frame[n].st = "wire" /\ s \in Session /\ frame'[n].to = s /\ runs' = runs /\ open' = open
          /\ \A m \in Send : m # n => frame'[m] = frame[m]
          /\ \A m \in Send : m < n /\ frame[m].to = s => frame[m].st # "wire"
      BY <1>2, AdmitFields
    <3>2. \A m \in Send : m # n => frame[m].st # "wire"
      BY <2>0, <2>1, <2>3, <3>1 DEF RunOK, OneTarget, OneStart, Travels, Awaits
    <3>3. loop.unanswered = FALSE => runs = 0 /\ (\A t \in Session : ~Starting(t))
                                    /\ (\A m \in Send : Travels(m) => m = n)
      BY <2>0, <2>3, <3>1 DEF RunOK, AnswerProves, Awaits
    <3>4. CASE frame'[n].st \in {"none", "joined"}
      <4>1. \A m \in Send : frame'[m].st \in {"wire", "joined"} => frame[m].st \in {"wire", "joined"}
        BY <3>1
      <4>. QED
        BY <2>0, <2>3, <3>3, <3>4, <4>1 DEF AnswerProves, Travels
    <3>5. CASE frame'[n].st = "closed"
      <4>1. s \notin open /\ receipt' = receipt
        BY <1>2, <3>5, AdmitFields
      <4>2. \A t \in Session : ~Starting(t)
        BY <2>1, <2>3, <4>1, <2>0 DEF RunOK, OneStart, OneTarget, Awaits
      <4>3. Spent'
        BY <3>1, <3>2, <3>5, <4>1, <4>2 DEF Spent, Starting
      <4>4. loop.unanswered = FALSE => NoRun'
        BY <3>1, <3>3, <3>5, <4>1, <4>2 DEF NoRun, Starting, Travels
      <4>. QED
        BY <2>0, <2>3, <3>1, <3>3, <3>5, <4>3, <4>4 DEF AnswerProves, Travels
    <3>6. CASE frame'[n].st = "absent"
      <4>1. s \in open /\ receipt[s] = "none" /\ receipt' = receipt
        BY <1>2, <3>6, AdmitFields
      <4>2. runs = 0
        BY <3>1, <4>1 DEF RunOK, RunSpends, Spent, Used, Typed, RuntimeTyped
      <4>3. \A t \in Session : ~Starting(t)
        BY <3>1, <4>1 DEF RunOK, OneStart, Travels, Starting
      <4>4. NoRun'
        BY <3>1, <3>2, <3>6, <4>1, <4>2, <4>3 DEF NoRun, Starting, Travels, RunOK, OneStart, Typed, RuntimeTyped
      <4>. QED
        BY <2>0, <2>3, <3>6, <4>4 DEF AnswerProves, NoRun
    <3>7. CASE frame'[n].st \in {"accepted", "detached", "unknown", "refused"}
      <4>1. receipt[s] = frame'[n].st /\ receipt' = receipt
        BY <1>2, <3>7, AdmitFields
      <4>2. frame'[n].st # "unknown" => Spent'
        BY <1>0, <3>1, <3>7, <4>1 DEF RunOK, RunningBegan, RunSpends
      <4>. QED
        BY <2>0, <2>3, <3>1, <3>3, <3>7, <4>1, <4>2 DEF AnswerProves, Travels
    <3>. QED
      BY <1>2, <3>4, <3>5, <3>6, <3>7, AdmitFields
  <2>. QED
    BY <2>2, <2>3
<1>3. ASSUME NEW s \in Session, StartEnds(s) PROVE AnswerProves'
  <2>0. ~SendRequest /\ Awaits(loop.send) /\ loop' = loop /\ hub' = hub
    BY <1>3, SubmissionBounds
       DEF StartEnds, StartAccepted, StartDiscarded, StartUnknown, StartAbsent, RuntimeOnly, SendRequest,
           Awaits, Typed, HubTyped, LoopType, hubVars
  <2>1. loop.send \in Send
    BY <2>0 DEF RunOK, OneTarget, Awaits
  <2>2. /\ Starting(s)
        /\ \A n \in Send : /\ Travels(n)' => Travels(n)
                           /\ frame'[n].st # "joined"
                           /\ frame[n].st # "joined" => frame'[n].st = frame[n].st
                           /\ frame'[n].st = "wire" => frame[n].st = "wire"
    BY <1>3, StartEndsFields DEF RunOK, Starting, Travels
  <2>3. loop.unanswered = FALSE => frame[loop.send].st # "wire"
    BY <2>0, <2>2 DEF RunOK, AnswerProves, Awaits
  <2>4. CASE frame[loop.send].st = "joined"
    <3>1. /\ frame'[loop.send].st \in {"closed", "nonresumable", "absent", "not-sent"} => NoRun'
          /\ frame'[loop.send].st \in {"accepted", "detached", "refused"} => Spent'
      BY <1>0, <1>3, <2>0, <2>4, StartAnswerProves
    <3>2. NoRun' => Spent'
      BY DEF NoRun, Spent, Travels
    <3>3. loop.unanswered = FALSE => \A n \in Send : Travels(n)' => n = loop.send
      BY <2>0, <2>2 DEF RunOK, AnswerProves, Awaits
    <3>. QED
      BY <2>0, <2>1, <2>2, <2>4, <3>1, <3>2, <3>3 DEF AnswerProves
  <2>5. CASE frame[loop.send].st # "joined"
    BY <1>0, <2>0, <2>1, <2>2, <2>3, <2>5 DEF RunOK, AnswerProves, Awaits
  <2>. QED
    BY <2>4, <2>5
<1>4. CASE LoopStep /\ ~SendRequest
  <2>. USE DEF Awaits, Typed, HubTyped
  <2>1. CASE Persist \/ Insert \/ ApplySubmission
    BY <2>1 DEF Persist, Insert, ApplySubmission, LoopType
  <2>2. CASE Top
    BY <2>2, DoneFields DEF Top, LoopType, Verdict
  <2>8. CASE Reacquired
    BY <2>8, DoneFields DEF Reacquired, LoopType, Verdict
  <2>5. CASE ReacquireFails(TRUE)
    BY <2>5, DoneFields DEF ReacquireFails, LoopType, Verdict
  <2>6. CASE ReacquireFails(FALSE)
    BY <2>6, DoneFields DEF ReacquireFails, LoopType, Verdict
  <2>7. CASE InsertFails
    BY <2>7, DoneFields DEF InsertFails, LoopType, Verdict
  <2>3. CASE HeadEnds \/ ReplyLost \/ Written \/ WriteFails
    BY <2>3, HeadEndsFields, ReplyLostFields, WrittenFields, WriteFailsFields
  <2>4. CASE Receive
    BY <2>4, ReceiveFields DEF Judged
  <2>. QED
    BY <1>4, <2>1, <2>2, <2>3, <2>4, <2>5, <2>6, <2>7, <2>8 DEF LoopStep
<1>5. ASSUME /\ hub' = hub /\ loop' = loop /\ runs' = runs
             /\ \A t \in Session : Starting(t)' => Starting(t)
             /\ \A n \in Send : \/ frame'[n] = frame[n]
                                \/ frame[n].st = "wire" /\ frame'[n].st = "none"
      PROVE  AnswerProves'
  <2>1. ~SendRequest /\ Awaits(loop.send)
    BY <1>5, SubmissionBounds DEF SendRequest, Awaits, Typed, HubTyped, LoopType
  <2>2. loop.send \in Send
    BY <2>1 DEF RunOK, OneTarget, Awaits
  <2>3. \A n \in Send : Travels(n)' => Travels(n)
    BY <1>5 DEF Travels
  <2>. QED
    BY <1>0, <1>5, <2>1, <2>2, <2>3 DEF RunOK, AnswerProves, Awaits
<1>6. CASE FinishStep \/ UserStop \/ UNCHANGED vars
  BY <1>5, <1>6 DEF Starting, FinishStep, FinishFlush, FinishMessage, FinishSeal, FinishUnchanged,
                    UserStop, vars, hubVars, runtimeVars
<1>7. CASE BootStep \/ Crash
  BY <1>7 DEF BootStep, Boot, SweepMessage, SweepReceipts, BootUnchanged, Crash, Awaits
<1>8. ASSUME NEW r \in {"consent-revoked", "hub-restarted"}, Reap(r) PROVE AnswerProves'
  BY <1>5, <1>8 DEF Starting, Reap, runtimeVars
<1>9. ASSUME NEW s \in Session, Disconnect(s) \/ VendorCompletes(s) PROVE AnswerProves'
  BY <1>5, <1>9 DEF Starting, Disconnect, VendorCompletes, runtimeVars
<1>10. ASSUME NEW c \in cancels, CancelArrives(c) PROVE AnswerProves'
  BY <1>5, <1>10 DEF Starting, CancelArrives, hubVars
<1>11. ASSUME NEW n \in Send, LoseFrame(n) PROVE AnswerProves'
  BY <1>5, <1>11 DEF Starting, LoseFrame, RuntimeOnly, hubVars, runtimeVars, Typed, RuntimeTyped
<1>12. ASSUME NEW s \in Session, OtherTurnEnds(s) \/ RuntimeCloses(s) PROVE AnswerProves'
  BY <1>5, <1>12 DEF Starting, OtherTurnEnds, RuntimeCloses, RuntimeOnly, hubVars, Typed, RuntimeTyped
<1>. QED
  BY <1>1, <1>2, <1>3, <1>4, <1>6, <1>7, <1>8, <1>9, <1>10, <1>11, <1>12
     DEF Next, RuntimeStep, StartEnds

\* What a seal, by the end of the turn or by a boot, leaves of the receipts.
SealKeeps ==
    \A a \in Attempt :
        /\ ledger'[a] = "none" <=> ledger[a] = "none"
        /\ ledger'[a] \in {"acceptance-unknown", "unresolved"} <=>
              ledger[a] \in {"acceptance-unknown", "unresolved"}
        /\ ledger'[a] = "not-submitted" => ledger[a] = "not-submitted"

\* Sealing neither forgets a receipt nor turns an unknown outcome into a known one.
LEMMA SealedKeeps ==
    ASSUME Typed, FinishSeal \/ SweepReceipts
    PROVE  SealKeeps
<1>0. ledger \in [Attempt -> OpenState \cup ClosedState]
  BY DEF Typed, HubTyped
<1>1. ledger' = ledger \/ ledger' = Sealed(ledger)
  BY DEF FinishSeal, SweepReceipts
<1>2. CASE ledger' = ledger
  BY <1>2 DEF SealKeeps
<1>3. CASE ledger' = Sealed(ledger)
  <2>1. \A a \in Attempt :
           /\ ledger'[a] \in ClosedState
           /\ ledger'[a] = "none" <=> ledger[a] = "none"
           /\ ledger'[a] = "unresolved" <=> ledger[a] \in {"acceptance-unknown", "unresolved"}
    BY <1>0, <1>3, SealedFields
  <2>. QED
    BY <2>1 DEF SealKeeps, ClosedState
<1>. QED
  BY <1>1, <1>2, <1>3

\* Receipts are written in order, one per attempt.
LEMMA InTurnStep == Typed /\ InTurn /\ [Next]_vars => InTurn'
<1>. SUFFICES ASSUME Typed, InTurn, [Next]_vars PROVE InTurn'
  OBVIOUS
<1>. USE DEF InTurn, LatestIs, Typed, HubTyped, vars, hubVars, runtimeVars, HubStep, LoopOnly, RuntimeOnly, aborted
<1>1. CASE Persist
  BY <1>1 DEF Persist, LoopType
<1>2. CASE Top
  <2>1. loop' = Done(loop, "stopped") \/ (loop.att < MaxAttempt /\ loop' = [loop EXCEPT !.pc = "reacquire"])
        \/ (loop.att < MaxAttempt /\ loop' = [loop EXCEPT !.pc = "insert"])
    BY <1>2 DEF Top
  <2>2. Same(loop', loop) /\ loop'.pc \in {"done", "reacquire", "insert"} /\ loop'.dispatched = loop.dispatched
        /\ loop'.unanswered = loop.unanswered /\ (loop'.pc # "done" => loop.att < MaxAttempt)
    BY <2>1, DoneFields DEF LoopType, Same, Verdict
  <2>. QED
    BY <1>2, <2>2 DEF Top, Same
<1>3. CASE Reacquired
  BY <1>3, DoneFields DEF Reacquired, Verdict, LoopType, Same
<1>4. ASSUME NEW b \in BOOLEAN, ReacquireFails(b) PROVE InTurn'
  BY <1>4, DoneFields DEF ReacquireFails, Verdict, LoopType, Same
<1>5. CASE Insert
  <2>1. loop.att + 1 \in Attempt /\ loop.att \in Nat /\ (\A a \in Attempt : a \in Nat)
    BY <1>5, SubmissionBounds DEF Insert, LoopType, Attempt
  <2>2. /\ loop'.att = loop.att + 1 /\ loop'.pc = "head" /\ loop'.dispatched = FALSE
        /\ loop'.unanswered = FALSE
    BY <1>5 DEF Insert, LoopType
  <2>3. /\ ledger'[loop.att + 1] = "acceptance-unknown"
        /\ \A a \in Attempt : a # loop.att + 1 => ledger'[a] = ledger[a]
    BY <1>5, <2>1 DEF Insert
  <2>. QED
    BY <2>1, <2>2, <2>3
<1>6. CASE InsertFails
  BY <1>6, DoneFields DEF InsertFails, Verdict, LoopType, Same
<1>7. CASE HeadEnds
  BY <1>7, HeadEndsFields DEF HeadEnds, Same
<1>8. CASE SendRequest
  BY <1>8 DEF SendRequest, LoopType
<1>9. CASE Receive
  BY <1>9, ReceiveFields DEF Receive, Judged, Same
<1>10. CASE ReplyLost
  BY <1>10, ReplyLostFields DEF ReplyLost, Same
<1>11. CASE Written
  <2>1. loop.att \in Attempt /\ loop.write.to # "none"
    BY <1>11, SubmissionBounds DEF Written, LoopType, Attempt
  <2>2. \A a \in Attempt : ledger'[a] # "none" <=> ledger[a] # "none"
    BY <1>11, <2>1 DEF Written
  <2>3. ledger[loop.att] \notin loop.write.from => ledger' = ledger
    BY <1>11 DEF Written
  <2>4. hub' = hub
    BY <1>11 DEF Written
  <2>. QED
    BY <1>11, <2>1, <2>2, <2>3, <2>4, WrittenFields DEF Written, Same
<1>12. CASE WriteFails
  BY <1>12, WriteFailsFields DEF WriteFails, Same
<1>13. CASE ApplySubmission
  BY <1>13 DEF ApplySubmission, LoopType
<1>14. CASE FinishFlush
  BY <1>14 DEF FinishFlush, FinishUnchanged
<1>15. CASE FinishMessage
  BY <1>15 DEF FinishMessage, FinishUnchanged
<1>16. CASE FinishSeal
  <2>1. loop.att \in Attempt \/ loop.att = 0
    BY SubmissionBounds DEF LoopType, Attempt
  <2>2. SealKeeps
    BY <1>16, SealedKeeps
  <2>3. loop' = loop /\ (hub' = "serving" => hub = "serving")
    BY <1>16 DEF FinishSeal, FinishUnchanged
  <2>. QED
    BY <2>1, <2>2, <2>3 DEF SealKeeps
<1>17. CASE Boot
  BY <1>17 DEF Boot, BootUnchanged
<1>18. CASE SweepMessage
  BY <1>18 DEF SweepMessage, BootUnchanged
<1>19. CASE SweepReceipts
  <2>1. loop.att \in Attempt \/ loop.att = 0
    BY SubmissionBounds DEF LoopType, Attempt
  <2>2. SealKeeps
    BY <1>19, SealedKeeps
  <2>3. loop' = loop /\ (hub' = "serving" => hub = "serving")
    BY <1>19 DEF SweepReceipts, BootUnchanged
  <2>. QED
    BY <2>1, <2>2, <2>3 DEF SealKeeps
<1>20. ASSUME NEW n \in Send, LoseFrame(n) PROVE InTurn'
  BY <1>20 DEF LoseFrame
<1>21. ASSUME NEW n \in Send, Admit(n) PROVE InTurn'
  BY <1>21 DEF Admit
<1>22. ASSUME NEW s \in Session, StartAccepted(s) PROVE InTurn'
  BY <1>22 DEF StartAccepted
<1>23. ASSUME NEW s \in Session, StartDiscarded(s) PROVE InTurn'
  BY <1>23 DEF StartDiscarded
<1>24. ASSUME NEW s \in Session, StartUnknown(s) PROVE InTurn'
  BY <1>24 DEF StartUnknown
<1>25. ASSUME NEW s \in Session, OtherTurnEnds(s) PROVE InTurn'
  BY <1>25 DEF OtherTurnEnds
<1>26. ASSUME NEW s \in Session, RuntimeCloses(s) PROVE InTurn'
  BY <1>26 DEF RuntimeCloses
<1>27. ASSUME NEW s \in Session, NEW b \in {"absent", "refused", "closed", "nonresumable"}, StartAbsent(s, b)
       PROVE  InTurn'
  BY <1>27 DEF StartAbsent
<1>28. ASSUME NEW c \in cancels, CancelArrives(c) PROVE InTurn'
  BY <1>28 DEF CancelArrives
<1>29. CASE Crash
  BY <1>29 DEF Crash, InitLoop
<1>30. CASE UserStop
  BY <1>30 DEF UserStop
<1>31. ASSUME NEW r \in {"consent-revoked", "hub-restarted"}, Reap(r) PROVE InTurn'
  BY <1>31 DEF Reap
<1>32. ASSUME NEW s \in Session, Disconnect(s) PROVE InTurn'
  BY <1>32 DEF Disconnect
<1>33. ASSUME NEW s \in Session, VendorCompletes(s) PROVE InTurn'
  BY <1>33 DEF VendorCompletes
<1>34. CASE UNCHANGED vars
  BY <1>34
<1>. HIDE DEF InTurn, Typed, HubTyped
<1>. QED
  BY <1>1, <1>2, <1>3, <1>4, <1>5, <1>6, <1>7, <1>8, <1>9, <1>10, <1>11, <1>12, <1>13,
     <1>14, <1>15, <1>16, <1>17, <1>18, <1>19, <1>20, <1>21, <1>22, <1>23, <1>24, <1>25,
     <1>26, <1>27, <1>28, <1>29, <1>30, <1>31, <1>32, <1>33, <1>34
     DEF Next, LoopStep, FinishStep, BootStep, RuntimeStep

\* An answer the hub heard stays heard, and only a new receipt starts an attempt.
LEMMA AnswersStay == Typed /\ ~Insert /\ [Next]_vars => loop'.att = loop.att /\ heard \subseteq heard'
<1>. SUFFICES ASSUME Typed, ~Insert, [Next]_vars
              PROVE  loop'.att = loop.att /\ heard \subseteq heard'
  OBVIOUS
<1>. USE DEF Typed, HubTyped, vars, hubVars, runtimeVars, HubStep, LoopOnly, RuntimeOnly, aborted
<1>1. CASE Persist
  BY <1>1 DEF Persist, LoopType
<1>2. CASE Top
  BY <1>2, DoneFields DEF Top, Verdict, LoopType, Same
<1>3. CASE Reacquired
  BY <1>3, DoneFields DEF Reacquired, Verdict, LoopType, Same
<1>4. ASSUME NEW b \in BOOLEAN, ReacquireFails(b)
      PROVE  loop'.att = loop.att /\ heard \subseteq heard'
  BY <1>4, DoneFields DEF ReacquireFails, Verdict, LoopType, Same
<1>5. CASE Insert
  BY <1>5
<1>6. CASE InsertFails
  BY <1>6, DoneFields DEF InsertFails, Verdict, LoopType, Same
<1>7. CASE HeadEnds
  BY <1>7, HeadEndsFields DEF HeadEnds, Same
<1>8. CASE SendRequest
  BY <1>8 DEF SendRequest, LoopType
<1>9. CASE Receive
  BY <1>9, ReceiveFields DEF Receive, Judged, Same
<1>10. CASE ReplyLost
  BY <1>10, ReplyLostFields DEF ReplyLost, Same
<1>11. CASE Written
  BY <1>11, WrittenFields DEF Written, Same
<1>12. CASE WriteFails
  BY <1>12, WriteFailsFields DEF WriteFails, Same
<1>13. CASE ApplySubmission
  BY <1>13 DEF ApplySubmission, LoopType
<1>14. CASE FinishFlush
  BY <1>14 DEF FinishFlush, FinishUnchanged
<1>15. CASE FinishMessage
  BY <1>15 DEF FinishMessage, FinishUnchanged
<1>16. CASE FinishSeal
  BY <1>16 DEF FinishSeal, FinishUnchanged
<1>17. CASE Boot
  BY <1>17 DEF Boot, BootUnchanged
<1>18. CASE SweepMessage
  BY <1>18 DEF SweepMessage, BootUnchanged
<1>19. CASE SweepReceipts
  BY <1>19 DEF SweepReceipts, BootUnchanged
<1>20. ASSUME NEW n \in Send, LoseFrame(n) PROVE loop'.att = loop.att /\ heard \subseteq heard'
  BY <1>20 DEF LoseFrame
<1>21. ASSUME NEW n \in Send, Admit(n) PROVE loop'.att = loop.att /\ heard \subseteq heard'
  BY <1>21 DEF Admit
<1>22. ASSUME NEW s \in Session, StartAccepted(s)
       PROVE  loop'.att = loop.att /\ heard \subseteq heard'
  BY <1>22 DEF StartAccepted
<1>23. ASSUME NEW s \in Session, StartDiscarded(s)
       PROVE  loop'.att = loop.att /\ heard \subseteq heard'
  BY <1>23 DEF StartDiscarded
<1>24. ASSUME NEW s \in Session, StartUnknown(s)
       PROVE  loop'.att = loop.att /\ heard \subseteq heard'
  BY <1>24 DEF StartUnknown
<1>25. ASSUME NEW s \in Session, OtherTurnEnds(s)
       PROVE  loop'.att = loop.att /\ heard \subseteq heard'
  BY <1>25 DEF OtherTurnEnds
<1>26. ASSUME NEW s \in Session, RuntimeCloses(s)
       PROVE  loop'.att = loop.att /\ heard \subseteq heard'
  BY <1>26 DEF RuntimeCloses
<1>27. ASSUME NEW s \in Session, NEW b \in {"absent", "refused", "closed", "nonresumable"}, StartAbsent(s, b)
       PROVE  loop'.att = loop.att /\ heard \subseteq heard'
  BY <1>27 DEF StartAbsent
<1>28. ASSUME NEW c \in cancels, CancelArrives(c)
       PROVE  loop'.att = loop.att /\ heard \subseteq heard'
  BY <1>28 DEF CancelArrives
<1>29. CASE Crash
  BY <1>29 DEF Crash, InitLoop
<1>30. CASE UserStop
  BY <1>30 DEF UserStop
<1>31. ASSUME NEW r \in {"consent-revoked", "hub-restarted"}, Reap(r)
       PROVE  loop'.att = loop.att /\ heard \subseteq heard'
  BY <1>31 DEF Reap
<1>32. ASSUME NEW s \in Session, Disconnect(s) PROVE loop'.att = loop.att /\ heard \subseteq heard'
  BY <1>32 DEF Disconnect
<1>33. ASSUME NEW s \in Session, VendorCompletes(s)
       PROVE  loop'.att = loop.att /\ heard \subseteq heard'
  BY <1>33 DEF VendorCompletes
<1>34. CASE UNCHANGED vars
  BY <1>34
<1>. HIDE DEF Typed, HubTyped
<1>. QED
  BY <1>1, <1>2, <1>3, <1>4, <1>5, <1>6, <1>7, <1>8, <1>9, <1>10, <1>11, <1>12, <1>13,
     <1>14, <1>15, <1>16, <1>17, <1>18, <1>19, <1>20, <1>21, <1>22, <1>23, <1>24, <1>25,
     <1>26, <1>27, <1>28, <1>29, <1>30, <1>31, <1>32, <1>33, <1>34
     DEF Next, LoopStep, FinishStep, BootStep, RuntimeStep

\* What the hub knows of the latest attempt it keeps knowing, until it sends again.
LEMMA KnownStays == Typed /\ RunOK /\ Known /\ ~SendRequest /\ [Next]_vars => Known'
<1>. SUFFICES ASSUME Typed, RunOK, Known, ~SendRequest, [Next]_vars PROVE Known'
  OBVIOUS
<1>1. CASE Insert
  BY <1>1, NoRunStays DEF Known, Insert, HubStep, RunOK, ProofOfNoRun, Cleared
<1>2. CASE ~Insert
  BY <1>2, NoRunStays, AnswersStay DEF Known
<1>. QED
  BY <1>1, <1>2

\* A step that starts no attempt, judges nothing and writes no receipt but to seal it.
Quiet ==
    /\ loop'.att = loop.att /\ SealKeeps
    /\ hub' = "serving" /\ loop'.pc = "write" =>
          \/ loop'.write.to = "unresolved" /\ loop'.write.then = "unresolved"
          \/ hub = "serving" /\ loop.pc = "write" /\ loop'.write = loop.write

\* Every step but four leaves the receipts as they are, or sealed.
LEMMA QuietSteps == Typed /\ ~Insert /\ ~Written /\ ~HeadEnds /\ ~Receive /\ [Next]_vars => Quiet
<1>. SUFFICES ASSUME Typed, ~Insert, ~Written, ~HeadEnds, ~Receive, [Next]_vars PROVE Quiet
  OBVIOUS
<1>. USE DEF Quiet, Typed, HubTyped, vars, hubVars, runtimeVars, HubStep, LoopOnly, RuntimeOnly, aborted
<1>1. CASE Persist
  BY <1>1 DEF SealKeeps, Persist, LoopType
<1>2. CASE Top
  BY <1>2, DoneFields DEF SealKeeps, Top, Verdict, LoopType, Same
<1>3. CASE Reacquired
  BY <1>3, DoneFields DEF SealKeeps, Reacquired, Verdict, LoopType, Same
<1>4. ASSUME NEW b \in BOOLEAN, ReacquireFails(b) PROVE Quiet
  BY <1>4, DoneFields DEF SealKeeps, ReacquireFails, Verdict, LoopType, Same
<1>5. CASE Insert
  BY <1>5
<1>6. CASE InsertFails
  BY <1>6, DoneFields DEF SealKeeps, InsertFails, Verdict, LoopType, Same
<1>7. CASE HeadEnds
  BY <1>7
<1>8. CASE SendRequest
  BY <1>8 DEF SealKeeps, SendRequest, LoopType
<1>9. CASE Receive
  BY <1>9
<1>10. CASE ReplyLost
  BY <1>10, ReplyLostFields DEF SealKeeps, ReplyLost, Same
<1>11. CASE Written
  BY <1>11
<1>12. CASE WriteFails
  BY <1>12, WriteFailsFields DEF SealKeeps, WriteFails, Same
<1>13. CASE ApplySubmission
  BY <1>13 DEF SealKeeps, ApplySubmission, LoopType
<1>14. CASE FinishFlush
  BY <1>14 DEF SealKeeps, FinishFlush, FinishUnchanged
<1>15. CASE FinishMessage
  BY <1>15 DEF SealKeeps, FinishMessage, FinishUnchanged
<1>16. CASE FinishSeal
  BY <1>16, SealedKeeps DEF FinishSeal, FinishUnchanged
<1>17. CASE Boot
  BY <1>17 DEF SealKeeps, Boot, BootUnchanged
<1>18. CASE SweepMessage
  BY <1>18 DEF SealKeeps, SweepMessage, BootUnchanged
<1>19. CASE SweepReceipts
  BY <1>19, SealedKeeps DEF SweepReceipts, BootUnchanged
<1>20. ASSUME NEW n \in Send, LoseFrame(n) PROVE Quiet
  BY <1>20 DEF SealKeeps, LoseFrame
<1>21. ASSUME NEW n \in Send, Admit(n) PROVE Quiet
  BY <1>21 DEF SealKeeps, Admit
<1>22. ASSUME NEW s \in Session, StartAccepted(s) PROVE Quiet
  BY <1>22 DEF SealKeeps, StartAccepted
<1>23. ASSUME NEW s \in Session, StartDiscarded(s) PROVE Quiet
  BY <1>23 DEF SealKeeps, StartDiscarded
<1>24. ASSUME NEW s \in Session, StartUnknown(s) PROVE Quiet
  BY <1>24 DEF SealKeeps, StartUnknown
<1>25. ASSUME NEW s \in Session, OtherTurnEnds(s) PROVE Quiet
  BY <1>25 DEF SealKeeps, OtherTurnEnds
<1>26. ASSUME NEW s \in Session, RuntimeCloses(s) PROVE Quiet
  BY <1>26 DEF SealKeeps, RuntimeCloses
<1>27. ASSUME NEW s \in Session, NEW b \in {"absent", "refused", "closed", "nonresumable"}, StartAbsent(s, b)
       PROVE  Quiet
  BY <1>27 DEF SealKeeps, StartAbsent
<1>28. ASSUME NEW c \in cancels, CancelArrives(c) PROVE Quiet
  BY <1>28 DEF SealKeeps, CancelArrives
<1>29. CASE Crash
  BY <1>29 DEF SealKeeps, Crash, InitLoop
<1>30. CASE UserStop
  BY <1>30 DEF SealKeeps, UserStop
<1>31. ASSUME NEW r \in {"consent-revoked", "hub-restarted"}, Reap(r) PROVE Quiet
  BY <1>31 DEF SealKeeps, Reap
<1>32. ASSUME NEW s \in Session, Disconnect(s) PROVE Quiet
  BY <1>32 DEF SealKeeps, Disconnect
<1>33. ASSUME NEW s \in Session, VendorCompletes(s) PROVE Quiet
  BY <1>33 DEF SealKeeps, VendorCompletes
<1>34. CASE UNCHANGED vars
  BY <1>34 DEF SealKeeps
<1>. HIDE DEF Quiet, Typed, HubTyped
<1>. QED
  BY <1>1, <1>2, <1>3, <1>4, <1>5, <1>6, <1>7, <1>8, <1>9, <1>10, <1>11, <1>12, <1>13,
     <1>14, <1>15, <1>16, <1>17, <1>18, <1>19, <1>20, <1>21, <1>22, <1>23, <1>24, <1>25,
     <1>26, <1>27, <1>28, <1>29, <1>30, <1>31, <1>32, <1>33, <1>34
     DEF Next, LoopStep, FinishStep, BootStep, RuntimeStep

\* Receipts prove what they say: the downgrade only on proof, the others once the

\* runtime answered or nothing began.
LEMMA ReceiptProvesStep == Typed /\ RunOK /\ LedgerOK /\ [Next]_vars => ReceiptProves'
<1>. SUFFICES ASSUME Typed, RunOK, LedgerOK, [Next]_vars PROVE ReceiptProves'
  OBVIOUS
<1>0. loop.att \in 0 .. MaxAttempt /\ (loop.att > 0 <=> loop.att \in Attempt) /\ loop \in LoopType
  BY SubmissionBounds DEF Typed, HubTyped, LoopType, Attempt
<1>1. CASE SendRequest
  <2>1. loop'.att = loop.att /\ loop'.pc = "awaiting" /\ ledger' = ledger
    BY <1>1 DEF SendRequest, Typed, HubTyped, LoopType
  <2>2. LatestIs({"acceptance-unknown", "unresolved"})
    BY <1>1 DEF SendRequest, HubStep, LedgerOK, InTurn
  <2>. QED
    BY <1>0, <2>1, <2>2 DEF ReceiptProves, LatestIs
<1>2. CASE ~SendRequest
  <2>1. (NoRun => NoRun') /\ (Known => Known')
    BY <1>2, NoRunStays, KnownStays
  <2>2. CASE Insert
    BY <2>1, <2>2 DEF Insert, HubStep, RunOK, ProofOfNoRun, Cleared, ReceiptProves, Known
  <2>3. CASE Written
    <3>1. /\ hub = "serving" /\ loop.pc = "write" /\ hub' = hub /\ loop'.att = loop.att
          /\ loop.att \in Attempt /\ LatestIs({"acceptance-unknown", "unresolved"})
      BY <1>0, <2>3, WrittenFields DEF Written, HubStep, LedgerOK, InTurn, LatestIs, Same
    <3>2. ledger'[loop.att] \in {ledger[loop.att], loop.write.to}
      BY <2>3, <3>1 DEF Written, Typed, HubTyped
    <3>3. loop'.pc = "write" => loop.write.then = "accepted" /\ loop'.write.then = "late"
      BY <1>0, <2>3, WrittenFields
    <3>4. loop.write.to = "not-submitted" => NoRun
      BY <3>1 DEF RunOK, ProofOfNoRun, Cleared
    <3>5. /\ loop.write.to \in {"accepted", "terminal"} => Known
          /\ loop.write.then = "accepted" => loop.write.to = "accepted"
      BY <3>1 DEF LedgerOK, ReceiptProves, InTurn
    <3>. QED
      BY <1>0, <2>1, <3>1, <3>2, <3>3, <3>4, <3>5 DEF ReceiptProves, LatestIs
  <2>4. CASE HeadEnds
    <3>1. /\ hub = "serving" /\ loop.pc = "head" /\ hub' = hub /\ ledger' = ledger
          /\ loop'.att = loop.att
      BY <1>0, <2>4, HeadEndsFields DEF HeadEnds, HubStep, LoopOnly, Same
    <3>2. loop'.write.to = "terminal" => NoRun
      BY <1>0, <2>4, <3>1, HeadEndsFields DEF LedgerOK, InTurn, RunOK, ProofOfNoRun, Cleared
    <3>3. loop'.write.to \in {"unresolved", "terminal"} /\ loop'.write.then \in {"stopped", "unresolved"}
      BY <1>0, <2>4, HeadEndsFields
    <3>. QED
      BY <2>1, <3>1, <3>2, <3>3 DEF LedgerOK, ReceiptProves, LatestIs, Known
  <2>5. CASE Receive
    <3>. DEFINE body == frame[loop.send].st
    <3>1. hub = "serving" /\ loop.pc = "awaiting" /\ hub' = hub /\ ledger' = ledger
      BY <2>5 DEF Receive, HubStep
    <3>2. loop'.att = loop.att /\ body \in Body
      BY <2>5, ReceiveFields DEF Same
    <3>3. body # "not-sent" => loop'.att \in heard'
      BY <2>5, <3>2 DEF Receive
    <3>4. body = "not-sent" /\ loop'.pc = "write" /\ loop'.write.to # "unresolved" => NoRun
      BY <2>5, <3>1, ReceiveFields DEF Judged, Proving, RunOK, AnswerProves
    <3>5. loop'.pc = "write" /\ loop'.write.to = "unresolved" => loop'.write.then = "unresolved"
      BY <2>5, ReceiveFields DEF Judged
    <3>6. LatestIs({"acceptance-unknown", "unresolved"})
      BY <3>1 DEF LedgerOK, InTurn
    <3>. QED
      BY <2>1, <3>1, <3>2, <3>3, <3>4, <3>5, <3>6 DEF ReceiptProves, LatestIs, Known
  <2>6. CASE ~Insert /\ ~Written /\ ~HeadEnds /\ ~Receive
    <3>1. Quiet
      BY <2>6, QuietSteps
    <3>2. LatestIs({"not-submitted"})' => LatestIs({"not-submitted"})
      BY <1>0, <3>1 DEF Quiet, SealKeeps, LatestIs
    <3>3. LatestIs({"accepted", "terminal"})' => LatestIs({"not-submitted"}) \/ LatestIs({"accepted", "terminal"})
      BY <1>0, <3>1 DEF Quiet, SealKeeps, LatestIs, Typed, HubTyped, OpenState, ClosedState
    <3>4. loop'.att = loop.att
      BY <3>1 DEF Quiet
    <3>5. NoRun => Known
      BY DEF Known
    <3>6. hub' = "serving" /\ loop'.pc = "write"
              /\ (loop'.write.to \in {"accepted", "terminal"} \/ loop'.write.then \in {"refused", "session-lost", "unsent"})
          => Known
      BY <3>1 DEF Quiet, LedgerOK, ReceiptProves
    <3>. QED
      BY <2>1, <3>2, <3>3, <3>4, <3>5, <3>6 DEF LedgerOK, ReceiptProves
  <2>. QED
    BY <2>2, <2>3, <2>4, <2>5, <2>6
<1>. QED
  BY <1>1, <1>2

\* What a boot reads in the latest receipt (reasonFromAttempts).
LatestReceipt == ReasonFromAttempts(ledger) = "hub-restarted" =>
                     loop.att = 0 \/ LatestIs({"not-submitted", "accepted", "terminal"})

\* The boot reads the receipt of the last attempt, and no other.
LEMMA LatestReceiptRead == Typed /\ InTurn => LatestReceipt
<1>. SUFFICES ASSUME Typed, InTurn, loop.att # 0, ReasonFromAttempts(ledger) = "hub-restarted"
             PROVE  LatestIs({"not-submitted", "accepted", "terminal"})
  BY DEF LatestReceipt
<1>. DEFINE written == {a \in Attempt : ledger[a] # "none"}
            latest == CHOOSE a \in written : \A b \in written : b <= a
<1>1. loop.att \in Attempt /\ (\A a \in Attempt : a \in Nat) /\ loop.att > 0
  BY SubmissionBounds DEF Typed, HubTyped, LoopType, Attempt
<1>2. loop.att \in written /\ \A b \in written : b <= loop.att
  BY <1>1 DEF InTurn
<1>3. latest \in written /\ \A b \in written : b <= latest
  BY <1>2
<1>4. latest = loop.att
  BY <1>1, <1>2, <1>3
<1>5. ledger[latest] \notin {"acceptance-unknown", "unresolved"}
  BY <1>3 DEF ReasonFromAttempts
<1>6. ledger[loop.att] \in OpenState \cup ClosedState /\ ledger[loop.att] # "none"
  BY <1>1, <1>2 DEF Typed, HubTyped
<1>. QED
  BY <1>1, <1>4, <1>5, <1>6 DEF LatestIs, OpenState, ClosedState

\* A restart is claimed only of a turn whose last answer was heard or that never began.
LEMMA ReasonProvesUnlessSent == Typed /\ RunOK /\ LedgerOK /\ ~SendRequest /\ [Next]_vars => ReasonProves'
<1>. SUFFICES ASSUME Typed, RunOK, LedgerOK, ~SendRequest, [Next]_vars PROVE ReasonProves'
  OBVIOUS
<1>. USE DEF ReasonProves, LedgerOK, Typed, HubTyped, vars, hubVars, runtimeVars, HubStep, LoopOnly, RuntimeOnly, aborted
<1>k. Known => Known'
  BY KnownStays
<1>1. CASE Persist
  BY <1>k, <1>1 DEF Persist, LoopType
<1>2. CASE Top
  BY <1>k, <1>2, DoneFields DEF Top, Verdict, LoopType, Same
<1>3. CASE Reacquired
  BY <1>k, <1>3, DoneFields DEF Reacquired, Verdict, LoopType, Same
<1>4. ASSUME NEW b \in BOOLEAN, ReacquireFails(b) PROVE ReasonProves'
  BY <1>k, <1>4, DoneFields DEF ReacquireFails, Verdict, LoopType, Same
<1>5. CASE Insert
  BY <1>k, <1>5 DEF Insert, LoopType
<1>6. CASE InsertFails
  BY <1>k, <1>6, DoneFields DEF InsertFails, Verdict, LoopType, Same
<1>7. CASE HeadEnds
  BY <1>k, <1>7, HeadEndsFields DEF HeadEnds, Same
<1>8. CASE SendRequest
  BY <1>k, <1>8
<1>9. CASE Receive
  BY <1>k, <1>9, ReceiveFields DEF Receive, Judged, Same
<1>10. CASE ReplyLost
  BY <1>k, <1>10, ReplyLostFields DEF ReplyLost, Same
<1>11. CASE Written
  <2>1. /\ turn'.terminal = turn.terminal /\ turn'.submitting = turn.submitting
        /\ turn'.pending = FALSE => \/ turn.pending = FALSE
                                   \/ loop.write.then \in {"retry", "replace", "refused", "session-lost", "unsent", "accepted"}
    BY <1>11 DEF Written, TurnType
  <2>2. loop.pc = "write" /\ hub = "serving" /\ row' = row /\ hub' = hub
    BY <1>11 DEF Written
  <2>3. loop.write.then \in {"retry", "replace", "refused", "session-lost", "unsent", "accepted"} => Known
    BY <2>2 DEF InTurn, ReceiptProves, RunOK, ProofOfNoRun, Cleared, Known
  <2>4. loop'.pc = "done" /\ loop'.outcome = "accepted" => loop.write.then = "accepted"
    BY <1>11, WrittenFields
  <2>. QED
    BY <1>k, <1>11, <2>1, <2>2, <2>3, <2>4, WrittenFields
<1>12. CASE WriteFails
  BY <1>k, <1>12, WriteFailsFields DEF WriteFails, Same
<1>13. CASE ApplySubmission
  <2>1. /\ turn'.terminal = "hub-restarted" => turn.terminal = "hub-restarted"
        /\ turn.terminal # "none" => turn'.terminal = turn.terminal
        /\ turn'.pending = turn.pending
        /\ turn'.submitting = FALSE => turn.submitting = FALSE \/ loop.outcome = "accepted"
    <3>. DEFINE bound == [turn EXCEPT !.submitting = FALSE]
    <3>1. /\ bound \in TurnType /\ bound.terminal = turn.terminal /\ bound.pending = turn.pending
          /\ bound.submitting = FALSE
      BY DEF TurnType
    <3>2. \/ turn' = turn
          \/ loop.outcome = "accepted" /\ (turn' = bound \/ turn' = Terminated(bound, "runtime-disconnected"))
          \/ \E r \in {"acceptance-unknown", "session-lost", "runtime-disconnected", "vendor-error"} :
                turn' = Terminated(turn, r)
      BY <1>13 DEF ApplySubmission
    <3>3. /\ {"acceptance-unknown", "session-lost", "runtime-disconnected", "vendor-error"} \subseteq Reason
      BY DEF Reason
    <3>4. CASE turn' = turn
      BY <3>4
    <3>5. CASE loop.outcome = "accepted" /\ turn' = bound
      BY <3>1, <3>5
    <3>6. CASE loop.outcome = "accepted" /\ turn' = Terminated(bound, "runtime-disconnected")
      BY <3>1, <3>3, <3>6, TerminatedFields
    <3>7. ASSUME NEW r \in {"acceptance-unknown", "session-lost", "runtime-disconnected", "vendor-error"},
                 turn' = Terminated(turn, r)
          PROVE  /\ turn'.terminal = "hub-restarted" => turn.terminal = "hub-restarted"
                 /\ turn.terminal # "none" => turn'.terminal = turn.terminal
                 /\ turn'.pending = turn.pending /\ turn'.submitting = turn.submitting
      BY <3>3, <3>7, EndsFields
    <3>. QED
      BY <3>2, <3>4, <3>5, <3>6, <3>7
  <2>2. loop'.pc = "applied" /\ row' = row /\ hub' = hub /\ loop.pc = "done"
    BY <1>13 DEF ApplySubmission, LoopType
  <2>. QED
    BY <1>k, <1>13, <2>1, <2>2 DEF ApplySubmission
<1>14. CASE FinishFlush
  BY <1>k, <1>14 DEF FinishFlush, FinishUnchanged, TurnType
<1>15. CASE FinishMessage
  BY <1>k, <1>15 DEF FinishMessage, FinishUnchanged
<1>16. CASE FinishSeal
  BY <1>k, <1>16 DEF FinishSeal, FinishUnchanged
<1>17. CASE Boot
  BY <1>k, <1>17 DEF Boot, BootUnchanged
<1>18. CASE SweepMessage
  <2>1. row.state = "generating" /\ row.reason = "none" /\ row'.reason = "hub-restarted" => Known
    <3>. SUFFICES ASSUME row.state = "generating", row.reason = "none", row'.reason = "hub-restarted"
                 PROVE  Known
      OBVIOUS
    <3>1. ReasonFromAttempts(ledger) = "hub-restarted"
      BY <1>18 DEF SweepMessage
    <3>2. LatestReceipt
      BY LatestReceiptRead
    <3>. QED
      BY <3>1, <3>2 DEF LatestReceipt, LatestIs, ReceiptProves, Known
  <2>2. loop' = loop /\ hub' # "serving" /\ (row'.reason = row.reason \/ (row.state = "generating" /\ row.reason = "none"))
    BY <1>18 DEF SweepMessage, BootUnchanged
  <2>. QED
    BY <1>k, <1>18, <2>1, <2>2
<1>19. CASE SweepReceipts
  BY <1>k, <1>19 DEF SweepReceipts, BootUnchanged
<1>20. ASSUME NEW n \in Send, LoseFrame(n) PROVE ReasonProves'
  BY <1>k, <1>20 DEF LoseFrame
<1>21. ASSUME NEW n \in Send, Admit(n) PROVE ReasonProves'
  BY <1>k, <1>21 DEF Admit
<1>22. ASSUME NEW s \in Session, StartAccepted(s) PROVE ReasonProves'
  BY <1>k, <1>22 DEF StartAccepted
<1>23. ASSUME NEW s \in Session, StartDiscarded(s) PROVE ReasonProves'
  BY <1>k, <1>23 DEF StartDiscarded
<1>24. ASSUME NEW s \in Session, StartUnknown(s) PROVE ReasonProves'
  BY <1>k, <1>24 DEF StartUnknown
<1>25. ASSUME NEW s \in Session, OtherTurnEnds(s) PROVE ReasonProves'
  BY <1>k, <1>25 DEF OtherTurnEnds
<1>26. ASSUME NEW s \in Session, RuntimeCloses(s) PROVE ReasonProves'
  BY <1>k, <1>26 DEF RuntimeCloses
<1>27. ASSUME NEW s \in Session, NEW b \in {"absent", "refused", "closed", "nonresumable"}, StartAbsent(s, b)
       PROVE  ReasonProves'
  BY <1>k, <1>27 DEF StartAbsent
<1>28. ASSUME NEW c \in cancels, CancelArrives(c) PROVE ReasonProves'
  BY <1>k, <1>28 DEF CancelArrives
<1>29. CASE Crash
  BY <1>k, <1>29 DEF Crash, InitLoop
<1>30. CASE UserStop
  <2>1. "cancelled-by-user" \in Reason
    BY <1>30 DEF Reason
  <2>2. turn' = turn \/ turn' = Terminated(turn, "cancelled-by-user")
    BY <1>30 DEF UserStop
  <2>3. /\ turn'.terminal = "hub-restarted" =>
              turn.terminal = "hub-restarted" \/ turn.submitting = FALSE \/ turn.pending = FALSE
        /\ turn.terminal # "none" => turn'.terminal = turn.terminal
        /\ turn'.submitting = turn.submitting /\ turn'.pending = turn.pending
    BY <2>1, <2>2, EndsFields
  <2>4. loop' = loop /\ row' = row /\ hub' = hub /\ (turn' = turn \/ hub = "serving")
    BY <1>30 DEF UserStop
  <2>. QED
    BY <1>k, <2>3, <2>4
<1>31. ASSUME NEW r \in {"consent-revoked", "hub-restarted"}, Reap(r) PROVE ReasonProves'
  <2>1. r \in Reason
    BY <1>31 DEF Reason
  <2>2. turn' = turn \/ turn' = Terminated(turn, r)
    BY <1>31 DEF Reap
  <2>3. /\ turn'.terminal = "hub-restarted" =>
              turn.terminal = "hub-restarted" \/ turn.submitting = FALSE \/ turn.pending = FALSE
        /\ turn.terminal # "none" => turn'.terminal = turn.terminal
        /\ turn'.submitting = turn.submitting /\ turn'.pending = turn.pending
    BY <2>1, <2>2, EndsFields
  <2>4. loop' = loop /\ row' = row /\ hub' = hub /\ (turn' = turn \/ hub = "serving")
    BY <1>31 DEF Reap
  <2>. QED
    BY <1>k, <2>3, <2>4
<1>32. ASSUME NEW s \in Session, Disconnect(s) PROVE ReasonProves'
  <2>1. "runtime-disconnected" \in Reason
    BY <1>32 DEF Reason
  <2>2. turn' = turn \/ turn' = Terminated(turn, "runtime-disconnected")
    BY <1>32 DEF Disconnect
  <2>3. /\ turn'.terminal = "hub-restarted" =>
              turn.terminal = "hub-restarted" \/ turn.submitting = FALSE \/ turn.pending = FALSE
        /\ turn.terminal # "none" => turn'.terminal = turn.terminal
        /\ turn'.submitting = turn.submitting /\ turn'.pending = turn.pending
    BY <2>1, <2>2, EndsFields
  <2>4. loop' = loop /\ row' = row /\ hub' = hub /\ (turn' = turn \/ hub = "serving")
    BY <1>32 DEF Disconnect
  <2>. QED
    BY <1>k, <2>3, <2>4
<1>33. ASSUME NEW s \in Session, VendorCompletes(s) PROVE ReasonProves'
  <2>1. "completed" \in Reason
    BY <1>33 DEF Reason
  <2>2. turn' = turn \/ turn' = Terminated(turn, "completed")
    BY <1>33 DEF VendorCompletes
  <2>3. /\ turn'.terminal = "hub-restarted" =>
              turn.terminal = "hub-restarted" \/ turn.submitting = FALSE \/ turn.pending = FALSE
        /\ turn.terminal # "none" => turn'.terminal = turn.terminal
        /\ turn'.submitting = turn.submitting /\ turn'.pending = turn.pending
    BY <2>1, <2>2, EndsFields
  <2>4. loop' = loop /\ row' = row /\ hub' = hub /\ (turn' = turn \/ hub = "serving")
    BY <1>33 DEF VendorCompletes
  <2>. QED
    BY <1>k, <2>3, <2>4
<1>34. CASE UNCHANGED vars
  BY <1>k, <1>34
<1>. HIDE DEF ReasonProves, Typed, HubTyped, LedgerOK
<1>. QED
  BY <1>1, <1>2, <1>3, <1>4, <1>5, <1>6, <1>7, <1>8, <1>9, <1>10, <1>11, <1>12, <1>13,
     <1>14, <1>15, <1>16, <1>17, <1>18, <1>19, <1>20, <1>21, <1>22, <1>23, <1>24, <1>25,
     <1>26, <1>27, <1>28, <1>29, <1>30, <1>31, <1>32, <1>33, <1>34
     DEF Next, LoopStep, FinishStep, BootStep, RuntimeStep

\* The same, whatever the step.
LEMMA ReasonProvesStep == Typed /\ RunOK /\ LedgerOK /\ [Next]_vars => ReasonProves'
<1>1. ASSUME Typed, RunOK, LedgerOK, SendRequest PROVE ReasonProves'
  <2>1. /\ hub = "serving" /\ turn.terminal = "none" /\ loop.pc = "head" /\ hub' = hub /\ row' = row
        /\ turn'.pending = TRUE /\ turn'.terminal = turn.terminal /\ turn'.submitting = turn.submitting
        /\ loop'.pc = "awaiting"
    BY <1>1 DEF SendRequest, HubStep, aborted, Typed, HubTyped, TurnType, LoopType
  <2>. QED
    BY <1>1, <2>1 DEF LedgerOK, ReasonProves
<1>. QED
  BY <1>1, ReasonProvesUnlessSent

\* What began nothing, and an end that is on record.
LEMMA NoRunSpends == NoRun => Spent
BY DEF NoRun, Spent, Travels

\* Where nothing began, nothing runs.
LEMMA NobodyRuns == RunOK /\ NoRun => running = {}
BY DEF RunOK, RunningBegan, NoRun

\* An acceptance or an end goes on record only when nothing more can begin.
LEMMA WriteSpentStep == Typed /\ RunOK /\ LedgerOK /\ Watched /\ [Next]_vars => WriteSpent'
<1>. SUFFICES ASSUME Typed, RunOK, LedgerOK, Watched, [Next]_vars, hub' = "serving",
                    loop'.pc = "write", loop'.write.to \in {"accepted", "terminal"}
             PROVE  Spent'
  BY DEF WriteSpent
<1>0. loop \in LoopType
  BY DEF Typed, HubTyped
<1>1. ~SendRequest
  BY <1>0 DEF SendRequest, LoopType
<1>2. Spent => Spent'
  BY <1>1, SpentStays
<1>3. CASE Insert
  BY <1>0, <1>3 DEF Insert, LoopType
<1>4. CASE Written
  <2>1. loop.pc = "write" /\ hub = "serving" /\ loop.write.then = "accepted"
    BY <1>0, <1>4, WrittenFields DEF Written, HubStep
  <2>. QED
    BY <1>2, <2>1 DEF LedgerOK, InTurn, Watched, WriteSpent
<1>5. CASE HeadEnds
  <2>1. loop.dispatched = FALSE /\ loop.pc = "head" /\ hub = "serving"
    BY <1>0, <1>5, HeadEndsFields DEF HeadEnds, HubStep
  <2>2. NoRun
    BY <2>1 DEF LedgerOK, InTurn, RunOK, ProofOfNoRun, Cleared
  <2>. QED
    BY <1>2, <2>2, NoRunSpends
<1>6. CASE Receive
  <2>1. loop.pc = "awaiting" /\ hub = "serving"
    BY <1>6 DEF Receive, HubStep
  <2>2. frame[loop.send].st \in {"closed", "nonresumable", "accepted", "detached", "refused"}
    BY <1>6, ReceiveFields DEF Judged
  <2>. QED
    BY <1>2, <2>1, <2>2 DEF RunOK, AnswerProves
<1>7. CASE ~Insert /\ ~Written /\ ~HeadEnds /\ ~Receive
  <2>1. hub = "serving" /\ loop.pc = "write" /\ loop'.write = loop.write
    BY <1>7, QuietSteps DEF Quiet
  <2>. QED
    BY <1>2, <2>1 DEF Watched, WriteSpent
<1>. QED
  BY <1>3, <1>4, <1>5, <1>6, <1>7

\* A receipt that says the outcome is unknown says so until it is written again.
LEMMA UnknownStays == Typed /\ ~Insert /\ ~Written /\ Unknown /\ [Next]_vars => Unknown'
<1>. SUFFICES ASSUME Typed, ~Insert, ~Written, Unknown, [Next]_vars PROVE Unknown'
  OBVIOUS
<1>0. loop.att > 0 /\ loop.att \in Attempt
  BY SubmissionBounds DEF Unknown, LatestIs, Typed, HubTyped, LoopType, Attempt
<1>1. CASE HeadEnds \/ Receive
  <2>1. loop'.att = loop.att
    BY AnswersStay
  <2>2. ledger' = ledger
    BY <1>1 DEF HeadEnds, LoopOnly, Receive
  <2>. QED
    BY <2>1, <2>2 DEF Unknown, LatestIs
<1>2. CASE ~HeadEnds /\ ~Receive
  <2>1. Quiet
    BY <1>2, QuietSteps
  <2>. QED
    BY <1>0, <2>1 DEF Quiet, SealKeeps, Unknown, LatestIs
<1>. QED
  BY <1>1, <1>2

\* What a write leaves behind: an outcome it does not know, or the one it wrote.
WrittenOutcome ==
    \/ Unknown'
    \/ NoRun
    \/ loop.write.to \in {"accepted", "terminal"}

\* The write leaves one of these.
LEMMA WrittenLeaves == ASSUME Typed, RunOK, LedgerOK, Written PROVE WrittenOutcome
<1>1. hub = "serving" /\ loop.pc = "write" /\ loop \in LoopType
  BY DEF Written, HubStep, Typed, HubTyped
<1>2. loop'.att = loop.att
  BY <1>1, WrittenFields DEF Same
<1>3. loop.att > 0 /\ loop.att \in Attempt /\ Unknown
  BY <1>1, SubmissionBounds DEF LedgerOK, InTurn, Unknown, LatestIs, LoopType, Attempt
<1>4. ledger'[loop.att] \in {ledger[loop.att], loop.write.to}
  BY <1>3 DEF Written, Typed, HubTyped
<1>5. loop.write.to \in {"not-submitted", "accepted", "unresolved", "terminal"}
  BY <1>1 DEF LedgerOK, InTurn, LoopType, WriteType
<1>6. loop.write.to = "not-submitted" => NoRun
  BY <1>1 DEF RunOK, ProofOfNoRun, Cleared
<1>. QED
  BY <1>2, <1>3, <1>4, <1>5, <1>6 DEF WrittenOutcome, Unknown, LatestIs

\* A submission that ended leaves nothing on the way, or leaves its receipt open to it.
LEMMA EndSpentStep == Typed /\ RunOK /\ LedgerOK /\ Watched /\ ~SendRequest /\ [Next]_vars => EndSpent'
<1>. SUFFICES ASSUME Typed, RunOK, LedgerOK, Watched, ~SendRequest, [Next]_vars PROVE EndSpent'
  OBVIOUS
<1>. USE DEF EndSpent, Typed, HubTyped, vars, hubVars, runtimeVars, HubStep, LoopOnly, RuntimeOnly, aborted
<1>k. /\ Spent => Spent'
      /\ ~Insert /\ ~Written => (Unknown => Unknown')
      /\ hub = "serving" /\ loop.pc \in {"done", "applied"} => ~Insert /\ ~Written /\ (Unknown \/ Spent)
  BY SpentStays, UnknownStays DEF Watched, Insert, Written
<1>1. CASE Persist
  BY <1>k, <1>1 DEF Persist, LoopType
<1>2. CASE Top
  <2>1. NoRun
    BY <1>2 DEF Top, RunOK, ProofOfNoRun, Cleared
  <2>. QED
    BY <1>k, <2>1, NoRunSpends
<1>3. CASE Reacquired
  <2>1. NoRun
    BY <1>3 DEF Reacquired, RunOK, ProofOfNoRun, Cleared
  <2>. QED
    BY <1>k, <2>1, NoRunSpends
<1>4. ASSUME NEW b \in BOOLEAN, ReacquireFails(b) PROVE EndSpent'
  <2>1. NoRun
    BY <1>4 DEF ReacquireFails, RunOK, ProofOfNoRun, Cleared
  <2>. QED
    BY <1>k, <2>1, NoRunSpends
<1>5. CASE Insert
  BY <1>5 DEF Insert, LoopType
<1>6. CASE InsertFails
  <2>1. NoRun
    BY <1>6 DEF InsertFails, RunOK, ProofOfNoRun, Cleared
  <2>. QED
    BY <1>k, <2>1, NoRunSpends
<1>7. CASE HeadEnds
  BY <1>k, <1>7, HeadEndsFields DEF HeadEnds, Same
<1>8. CASE SendRequest
  BY <1>8
<1>9. CASE Receive
  BY <1>k, <1>9, ReceiveFields DEF Receive, Judged, Same
<1>10. CASE ReplyLost
  BY <1>k, <1>10, ReplyLostFields DEF ReplyLost, Same
<1>11. CASE Written
  <2>1. WrittenOutcome
    BY <1>11, WrittenLeaves
  <2>. QED
    BY <1>k, <1>11, <2>1, NoRunSpends DEF WrittenOutcome, Watched, WriteSpent, Written
<1>12. CASE WriteFails
  <2>1. Unknown
    BY <1>12 DEF WriteFails, LedgerOK, InTurn, Unknown
  <2>2. loop'.att = loop.att /\ ledger' = ledger
    BY <1>12, WriteFailsFields DEF WriteFails, Same
  <2>. QED
    BY <2>1, <2>2 DEF Unknown, LatestIs
<1>13. CASE ApplySubmission
  BY <1>k, <1>13 DEF ApplySubmission, LoopType
<1>14. CASE FinishFlush
  BY <1>k, <1>14 DEF FinishFlush, FinishUnchanged
<1>15. CASE FinishMessage
  BY <1>k, <1>15 DEF FinishMessage, FinishUnchanged
<1>16. CASE FinishSeal
  BY <1>k, <1>16 DEF FinishSeal, FinishUnchanged
<1>17. CASE Boot
  BY <1>k, <1>17 DEF Boot, BootUnchanged
<1>18. CASE SweepMessage
  BY <1>k, <1>18 DEF SweepMessage, BootUnchanged
<1>19. CASE SweepReceipts
  BY <1>k, <1>19 DEF SweepReceipts, BootUnchanged
<1>20. ASSUME NEW n \in Send, LoseFrame(n) PROVE EndSpent'
  BY <1>k, <1>20 DEF LoseFrame
<1>21. ASSUME NEW n \in Send, Admit(n) PROVE EndSpent'
  BY <1>k, <1>21 DEF Admit
<1>22. ASSUME NEW s \in Session, StartAccepted(s) PROVE EndSpent'
  BY <1>k, <1>22 DEF StartAccepted
<1>23. ASSUME NEW s \in Session, StartDiscarded(s) PROVE EndSpent'
  BY <1>k, <1>23 DEF StartDiscarded
<1>24. ASSUME NEW s \in Session, StartUnknown(s) PROVE EndSpent'
  BY <1>k, <1>24 DEF StartUnknown
<1>25. ASSUME NEW s \in Session, OtherTurnEnds(s) PROVE EndSpent'
  BY <1>k, <1>25 DEF OtherTurnEnds
<1>26. ASSUME NEW s \in Session, RuntimeCloses(s) PROVE EndSpent'
  BY <1>k, <1>26 DEF RuntimeCloses
<1>27. ASSUME NEW s \in Session, NEW b \in {"absent", "refused", "closed", "nonresumable"}, StartAbsent(s, b)
       PROVE  EndSpent'
  BY <1>k, <1>27 DEF StartAbsent
<1>28. ASSUME NEW c \in cancels, CancelArrives(c) PROVE EndSpent'
  BY <1>k, <1>28 DEF CancelArrives
<1>29. CASE Crash
  BY <1>k, <1>29 DEF Crash, InitLoop
<1>30. CASE UserStop
  BY <1>k, <1>30 DEF UserStop
<1>31. ASSUME NEW r \in {"consent-revoked", "hub-restarted"}, Reap(r) PROVE EndSpent'
  BY <1>k, <1>31 DEF Reap
<1>32. ASSUME NEW s \in Session, Disconnect(s) PROVE EndSpent'
  BY <1>k, <1>32 DEF Disconnect
<1>33. ASSUME NEW s \in Session, VendorCompletes(s) PROVE EndSpent'
  BY <1>k, <1>33 DEF VendorCompletes
<1>34. CASE UNCHANGED vars
  BY <1>k, <1>34
<1>. HIDE DEF EndSpent, Typed, HubTyped
<1>. QED
  BY <1>1, <1>2, <1>3, <1>4, <1>5, <1>6, <1>7, <1>8, <1>9, <1>10, <1>11, <1>12, <1>13,
     <1>14, <1>15, <1>16, <1>17, <1>18, <1>19, <1>20, <1>21, <1>22, <1>23, <1>24, <1>25,
     <1>26, <1>27, <1>28, <1>29, <1>30, <1>31, <1>32, <1>33, <1>34
     DEF Next, LoopStep, FinishStep, BootStep, RuntimeStep

\* A turn is finished only once it was ended.
LEMMA OverEndedStep == Typed /\ Watched /\ [Next]_vars => OverEnded'
<1>. SUFFICES ASSUME Typed, Watched, [Next]_vars PROVE OverEnded'
  OBVIOUS
<1>. USE DEF OverEnded, Typed, HubTyped, vars, hubVars, runtimeVars, HubStep, LoopOnly, RuntimeOnly, aborted
<1>1. CASE Persist
  BY <1>1 DEF Persist, LoopType, Watched
<1>2. CASE Top
  BY <1>2, DoneFields DEF Top, Verdict, LoopType, Same, Watched
<1>3. CASE Reacquired
  BY <1>3, DoneFields DEF Reacquired, Verdict, LoopType, Same, Watched
<1>4. ASSUME NEW b \in BOOLEAN, ReacquireFails(b) PROVE OverEnded'
  BY <1>4, DoneFields DEF ReacquireFails, Verdict, LoopType, Same, Watched
<1>5. CASE Insert
  BY <1>5 DEF Insert, LoopType, Watched
<1>6. CASE InsertFails
  BY <1>6, DoneFields DEF InsertFails, Verdict, LoopType, Same, Watched
<1>7. CASE HeadEnds
  BY <1>7, HeadEndsFields DEF HeadEnds, Same, Watched
<1>8. CASE SendRequest
  BY <1>8 DEF SendRequest, TurnType, Watched
<1>9. CASE Receive
  BY <1>9, ReceiveFields DEF Receive, Judged, Same, Watched
<1>10. CASE ReplyLost
  BY <1>10, ReplyLostFields DEF ReplyLost, Same, Watched
<1>11. CASE Written
  <2>1. turn'.phase = turn.phase /\ turn'.terminal = turn.terminal
    BY <1>11 DEF Written, TurnType
  <2>. QED
    BY <1>11, <2>1 DEF Written, Watched
<1>12. CASE WriteFails
  BY <1>12, WriteFailsFields DEF WriteFails, Same, Watched
<1>13. CASE ApplySubmission
  <2>1. CASE aborted
    BY <1>13, <2>1 DEF ApplySubmission, Watched
  <2>2. CASE ~aborted
    <3>1. turn.phase = "running"
      BY <1>13, <2>2 DEF ApplySubmission, Watched
    <3>2. turn'.phase = "running"
      BY <1>13, <3>1 DEF ApplySubmission, Terminated, TurnType
    <3>. QED
      BY <3>2
  <2>. QED
    BY <2>1, <2>2
<1>14. CASE FinishFlush
  BY <1>14 DEF FinishFlush, FinishUnchanged, TurnType, Watched
<1>15. CASE FinishMessage
  BY <1>15 DEF FinishMessage, FinishUnchanged, TurnType, Watched
<1>16. CASE FinishSeal
  BY <1>16 DEF FinishSeal, FinishUnchanged, TurnType, Watched
<1>17. CASE Boot
  BY <1>17 DEF Boot, BootUnchanged, Watched
<1>18. CASE SweepMessage
  BY <1>18 DEF SweepMessage, BootUnchanged, Watched
<1>19. CASE SweepReceipts
  BY <1>19 DEF SweepReceipts, BootUnchanged, Watched
<1>20. ASSUME NEW n \in Send, LoseFrame(n) PROVE OverEnded'
  BY <1>20 DEF LoseFrame, Watched
<1>21. ASSUME NEW n \in Send, Admit(n) PROVE OverEnded'
  BY <1>21 DEF Admit, Watched
<1>22. ASSUME NEW s \in Session, StartAccepted(s) PROVE OverEnded'
  BY <1>22 DEF StartAccepted, Watched
<1>23. ASSUME NEW s \in Session, StartDiscarded(s) PROVE OverEnded'
  BY <1>23 DEF StartDiscarded, Watched
<1>24. ASSUME NEW s \in Session, StartUnknown(s) PROVE OverEnded'
  BY <1>24 DEF StartUnknown, Watched
<1>25. ASSUME NEW s \in Session, OtherTurnEnds(s) PROVE OverEnded'
  BY <1>25 DEF OtherTurnEnds, Watched
<1>26. ASSUME NEW s \in Session, RuntimeCloses(s) PROVE OverEnded'
  BY <1>26 DEF RuntimeCloses, Watched
<1>27. ASSUME NEW s \in Session, NEW b \in {"absent", "refused", "closed", "nonresumable"}, StartAbsent(s, b)
       PROVE  OverEnded'
  BY <1>27 DEF StartAbsent, Watched
<1>28. ASSUME NEW c \in cancels, CancelArrives(c) PROVE OverEnded'
  BY <1>28 DEF CancelArrives, Watched
<1>29. CASE Crash
  BY <1>29 DEF Crash, InitLoop, Watched
<1>30. CASE UserStop
  <2>1. "cancelled-by-user" \in Reason
    BY <1>30 DEF Reason
  <2>2. turn' = turn \/ turn' = Terminated(turn, "cancelled-by-user")
    BY <1>30 DEF UserStop
  <2>3. turn'.phase = turn.phase /\ (turn.terminal # "none" => turn'.terminal = turn.terminal)
    BY <2>1, <2>2, EndsFields
  <2>. QED
    BY <1>30, <2>3 DEF UserStop, Watched
<1>31. ASSUME NEW r \in {"consent-revoked", "hub-restarted"}, Reap(r) PROVE OverEnded'
  <2>1. r \in Reason
    BY <1>31 DEF Reason
  <2>2. turn' = turn \/ turn' = Terminated(turn, r)
    BY <1>31 DEF Reap
  <2>3. turn'.phase = turn.phase /\ (turn.terminal # "none" => turn'.terminal = turn.terminal)
    BY <2>1, <2>2, EndsFields
  <2>. QED
    BY <1>31, <2>3 DEF Reap, Watched
<1>32. ASSUME NEW s \in Session, Disconnect(s) PROVE OverEnded'
  <2>1. "runtime-disconnected" \in Reason
    BY <1>32 DEF Reason
  <2>2. turn' = turn \/ turn' = Terminated(turn, "runtime-disconnected")
    BY <1>32 DEF Disconnect
  <2>3. turn'.phase = turn.phase /\ (turn.terminal # "none" => turn'.terminal = turn.terminal)
    BY <2>1, <2>2, EndsFields
  <2>. QED
    BY <1>32, <2>3 DEF Disconnect, Watched
<1>33. ASSUME NEW s \in Session, VendorCompletes(s) PROVE OverEnded'
  <2>1. "completed" \in Reason
    BY <1>33 DEF Reason
  <2>2. turn' = turn \/ turn' = Terminated(turn, "completed")
    BY <1>33 DEF VendorCompletes
  <2>3. turn'.phase = turn.phase /\ (turn.terminal # "none" => turn'.terminal = turn.terminal)
    BY <2>1, <2>2, EndsFields
  <2>. QED
    BY <1>33, <2>3 DEF VendorCompletes, Watched
<1>34. CASE UNCHANGED vars
  BY <1>34 DEF Watched
<1>. HIDE DEF OverEnded, Typed, HubTyped
<1>. QED
  BY <1>1, <1>2, <1>3, <1>4, <1>5, <1>6, <1>7, <1>8, <1>9, <1>10, <1>11, <1>12, <1>13,
     <1>14, <1>15, <1>16, <1>17, <1>18, <1>19, <1>20, <1>21, <1>22, <1>23, <1>24, <1>25,
     <1>26, <1>27, <1>28, <1>29, <1>30, <1>31, <1>32, <1>33, <1>34
     DEF Next, LoopStep, FinishStep, BootStep, RuntimeStep

\* A run on a session the hub holds is watched, cancelled or on record.
LEMMA RunFollowedStep == Typed /\ RunOK /\ LedgerOK /\ Watched /\ [Next]_vars => RunFollowed'
<1>. SUFFICES ASSUME Typed, RunOK, LedgerOK, Watched, [Next]_vars PROVE RunFollowed'
  OBVIOUS
<1>. USE DEF RunFollowed, Typed, HubTyped, vars, hubVars, runtimeVars, HubStep, LoopOnly, RuntimeOnly, aborted
<1>1. CASE Persist
  <2>1. NoRun /\ running' = running
    BY <1>1 DEF Persist, RunOK, ProofOfNoRun, Cleared
  <2>. QED
    BY <2>1, NobodyRuns
<1>2. CASE Top
  <2>1. NoRun /\ running' = running
    BY <1>2 DEF Top, RunOK, ProofOfNoRun, Cleared
  <2>. QED
    BY <2>1, NobodyRuns
<1>3. CASE Reacquired
  <2>1. NoRun /\ running' = running
    BY <1>3 DEF Reacquired, RunOK, ProofOfNoRun, Cleared
  <2>. QED
    BY <2>1, NobodyRuns
<1>4. ASSUME NEW b \in BOOLEAN, ReacquireFails(b) PROVE RunFollowed'
  <2>1. NoRun /\ running' = running
    BY <1>4 DEF ReacquireFails, RunOK, ProofOfNoRun, Cleared
  <2>. QED
    BY <2>1, NobodyRuns
<1>5. CASE Insert
  <2>1. NoRun /\ running' = running
    BY <1>5 DEF Insert, RunOK, ProofOfNoRun, Cleared
  <2>. QED
    BY <2>1, NobodyRuns
<1>6. CASE InsertFails
  <2>1. NoRun /\ running' = running
    BY <1>6 DEF InsertFails, RunOK, ProofOfNoRun, Cleared
  <2>. QED
    BY <2>1, NobodyRuns
<1>7. CASE HeadEnds
  <2>1. loop.dispatched = FALSE => running' = {}
    <3>1. hub = "serving" /\ loop.pc = "head" /\ running' = running
      BY <1>7 DEF HeadEnds
    <3>2. loop.dispatched = FALSE => NoRun
      BY <3>1 DEF LedgerOK, InTurn, RunOK, ProofOfNoRun, Cleared
    <3>. QED
      BY <3>1, <3>2, NobodyRuns
  <2>2. loop'.pc = "write" /\ (loop'.write.to = "unresolved" \/ loop.dispatched = FALSE)
    BY <1>7, HeadEndsFields
  <2>. QED
    BY <2>1, <2>2 DEF Follows
<1>8. CASE SendRequest
  <2>1. loop.send + 1 \in Send
    BY <1>8, SubmissionBounds DEF SendRequest, LoopType, Send
  <2>2. loop'.pc = "awaiting" /\ loop'.send = loop.send + 1
    BY <1>8 DEF SendRequest, LoopType
  <2>3. frame'[loop'.send].st \in {"wire", "not-sent"}
    BY <1>8, <2>1, <2>2 DEF SendRequest, RuntimeTyped
  <2>. QED
    BY <2>2, <2>3 DEF Follows
<1>9. CASE Receive
  <2>. SUFFICES ASSUME NEW s \in link' \cap running', hub' = "serving" PROVE Follows(s)'
    OBVIOUS
  <2>0. hub = "serving" /\ loop.pc = "awaiting" /\ s \in link /\ s \in running /\ turn' = turn
    BY <1>9 DEF Receive
  <2>1. Follows(s) /\ s = loop.handle
    BY <2>0 DEF Watched, RunOK, OneTarget, RuntimeTyped
  <2>2. \/ loop'.pc = "head"
        \/ loop'.pc = "write" /\ loop'.write.to \in {"unresolved", "not-submitted"}
        \/ loop'.pc = "write" /\ loop'.write.to = "terminal" /\ loop'.write.then = "late"
        \/ loop'.pc = "write" /\ loop'.write.to = "accepted" /\ ~aborted
        \/ /\ loop'.pc = "write" /\ loop'.write.to = "terminal"
           /\ frame[loop.send].st \in {"closed", "nonresumable", "refused", "detached"}
    BY <1>9, ReceiveFields DEF Judged
  <2>3. frame[loop.send].st = "detached" => Cancelled(s)'
    BY <1>9, <2>1 DEF Receive, Cancelled
  <2>. QED
    BY <2>0, <2>1, <2>2, <2>3 DEF Follows
<1>10. CASE ReplyLost
  BY <1>10, ReplyLostFields DEF Follows
<1>11. CASE Written
  <2>. SUFFICES ASSUME NEW s \in link' \cap running', hub' = "serving" PROVE Follows(s)'
    OBVIOUS
  <2>0. hub = "serving" /\ loop.pc = "write" /\ s \in link /\ s \in running /\ cancels \subseteq cancels'
    BY <1>11 DEF Written
  <2>1. Follows(s) /\ s = loop.handle
    BY <2>0 DEF Watched, RunOK, OneTarget, RuntimeTyped
  <2>2. turn'.terminal = turn.terminal
    BY <1>11 DEF Written, TurnType
  <2>3. Cancelled(s) => Cancelled(s)'
    BY <2>0 DEF Cancelled
  <2>4. loop.write.then = "late" => Cancelled(s)'
    BY <1>11, <2>0, <2>1 DEF Written, LateCancel, Cancelled
  <2>5. Unknown' \/ NoRun \/ loop.write.to \in {"accepted", "terminal"}
    BY <1>11, WrittenLeaves DEF WrittenOutcome
  <2>6. ~NoRun
    BY <2>0, NobodyRuns
  <2>7. \/ loop'.pc = "top"
        \/ loop'.pc = "write" /\ loop'.write.to = "terminal" /\ loop'.write.then = "late"
        \/ loop'.pc = "done" /\ (loop.write.then = "accepted" => loop'.outcome = "accepted")
    BY <1>11, WrittenFields
  <2>8. loop.write.to = "accepted" => loop.write.then = "accepted"
    BY <2>0 DEF LedgerOK, InTurn
  <2>. QED
    BY <2>0, <2>1, <2>2, <2>3, <2>4, <2>5, <2>6, <2>7, <2>8 DEF Follows
<1>12. CASE WriteFails
  <2>1. Unknown
    BY <1>12 DEF WriteFails, LedgerOK, InTurn, Unknown
  <2>2. loop'.att = loop.att /\ ledger' = ledger
    BY <1>12, WriteFailsFields DEF WriteFails, Same
  <2>3. Unknown'
    BY <2>1, <2>2 DEF Unknown, LatestIs
  <2>. QED
    BY <1>12, <2>3, WriteFailsFields DEF Follows
<1>13. CASE ApplySubmission
  <2>. SUFFICES ASSUME NEW s \in link' \cap running', hub' = "serving" PROVE Follows(s)'
    OBVIOUS
  <2>0. /\ hub = "serving" /\ loop.pc = "done" /\ s \in link /\ s \in running /\ UNCHANGED <<cancels, ledger>>
        /\ loop'.pc = "applied" /\ loop'.outcome = loop.outcome /\ loop'.att = loop.att
    BY <1>13 DEF ApplySubmission, LoopType
  <2>1. Follows(s) /\ s = loop.handle
    BY <2>0 DEF Watched, RunOK, OneTarget, RuntimeTyped
  <2>2. (Unknown => Unknown') /\ (Cancelled(s) => Cancelled(s)')
    BY <2>0 DEF Unknown, LatestIs, Cancelled
  <2>3. loop.outcome = "accepted" /\ ~aborted => ~aborted'
    BY <1>13, <2>0, <2>1 DEF ApplySubmission, TurnType
  <2>. QED
    BY <2>0, <2>1, <2>2, <2>3 DEF Follows
<1>14. CASE FinishFlush
  <2>. SUFFICES ASSUME NEW s \in link' \cap running', hub' = "serving" PROVE Follows(s)'
    OBVIOUS
  <2>0. /\ hub = "serving" /\ s \in link /\ s \in running /\ loop' = loop /\ frame' = frame /\ cancels' = cancels
        /\ turn'.terminal = turn.terminal
    BY <1>14 DEF FinishFlush, FinishUnchanged, TurnType
  <2>1. Follows(s)
    BY <2>0 DEF Watched
  <2>2. Unknown => Unknown'
    BY <1>14, <2>0 DEF FinishFlush, FinishUnchanged, Unknown, LatestIs
  <2>. QED
    BY <2>0, <2>1, <2>2 DEF Follows, Cancelled
<1>15. CASE FinishMessage
  <2>. SUFFICES ASSUME NEW s \in link' \cap running', hub' = "serving" PROVE Follows(s)'
    OBVIOUS
  <2>0. /\ hub = "serving" /\ s \in link /\ s \in running /\ loop' = loop /\ frame' = frame /\ cancels' = cancels
        /\ turn'.terminal = turn.terminal
    BY <1>15 DEF FinishMessage, FinishUnchanged, TurnType
  <2>1. Follows(s)
    BY <2>0 DEF Watched
  <2>2. Unknown => Unknown'
    BY <1>15, <2>0 DEF FinishMessage, FinishUnchanged, Unknown, LatestIs
  <2>. QED
    BY <2>0, <2>1, <2>2 DEF Follows, Cancelled
<1>16. CASE FinishSeal
  <2>. SUFFICES ASSUME NEW s \in link' \cap running', hub' = "serving" PROVE Follows(s)'
    OBVIOUS
  <2>0. /\ hub = "serving" /\ s \in link /\ s \in running /\ loop' = loop /\ frame' = frame /\ cancels' = cancels
        /\ turn'.terminal = turn.terminal
    BY <1>16 DEF FinishSeal, FinishUnchanged, TurnType
  <2>1. Follows(s)
    BY <2>0 DEF Watched
  <2>2. Unknown => Unknown'
    <3>1. loop.att > 0 => loop.att \in Attempt
      BY SubmissionBounds DEF LoopType, Attempt
    <3>. QED
      BY <1>16, <2>0, <3>1, SealedKeeps DEF SealKeeps, Unknown, LatestIs
  <2>. QED
    BY <2>0, <2>1, <2>2 DEF Follows, Cancelled
<1>17. CASE Boot
  BY <1>17 DEF Boot, BootUnchanged
<1>18. CASE SweepMessage
  BY <1>18 DEF SweepMessage, BootUnchanged
<1>19. CASE SweepReceipts
  BY <1>19 DEF SweepReceipts, BootUnchanged
<1>20. ASSUME NEW n \in Send, LoseFrame(n) PROVE RunFollowed'
  <2>. SUFFICES ASSUME NEW s \in link' \cap running', hub' = "serving" PROVE Follows(s)'
    OBVIOUS
  <2>0. /\ hub = "serving" /\ s \in link /\ s \in running /\ UNCHANGED <<loop, turn, cancels, ledger>>
        /\ \A m \in Send : frame'[m].st \in {frame[m].st, "none"}
    BY <1>20 DEF LoseFrame, RuntimeTyped
  <2>1. Follows(s) /\ (loop.pc = "awaiting" => loop.send \in Send)
    BY <2>0 DEF Watched, RunOK, OneTarget
  <2>. QED
    BY <2>0, <2>1 DEF Follows, Cancelled, Unknown, LatestIs
<1>21. ASSUME NEW n \in Send, Admit(n) PROVE RunFollowed'
  <2>. SUFFICES ASSUME NEW s \in link' \cap running', hub' = "serving" PROVE Follows(s)'
    OBVIOUS
  <2>0. /\ hub = "serving" /\ s \in link /\ s \in running /\ s \in open
        /\ UNCHANGED <<loop, turn, cancels, ledger>>
    BY <1>21, AdmitFields DEF RuntimeTyped
  <2>1. Follows(s) /\ (loop.pc = "awaiting" => loop.send \in Send /\ frame[loop.send].to = s) /\ s \in Session
    BY <2>0 DEF Watched, RunOK, OneTarget, RuntimeTyped
  <2>2. loop.pc = "awaiting" /\ n = loop.send =>
           frame'[n].st \notin {"closed", "nonresumable", "refused", "absent"}
    <3>1. receipt[s] # "refused" /\ runs > 0
      BY <2>0, <2>1 DEF RunOK, RunningBegan
    <3>2. frame[n].to = s => receipt[s] # "none"
      BY <1>21, <2>0, <3>1, AdmitFields DEF RunOK, RunSpends, Spent, Used
    <3>. QED
      BY <1>21, <2>0, <2>1, <3>1, <3>2, AdmitFields
  <2>3. \A m \in Send : m # n => frame'[m] = frame[m]
    BY <1>21, AdmitFields
  <2>. QED
    BY <2>0, <2>1, <2>2, <2>3 DEF Follows, Cancelled, Unknown, LatestIs
<1>22. ASSUME NEW s \in Session, StartAccepted(s) PROVE RunFollowed'
  <2>. SUFFICES ASSUME NEW t \in link' \cap running', hub' = "serving" PROVE Follows(t)'
    OBVIOUS
  <2>0. StartEnds(s)
    BY <1>22 DEF StartEnds
  <2>1. UNCHANGED <<hub, loop, turn, cancels, ledger>>
    BY <1>22 DEF StartAccepted
  <2>2. Starting(s) /\ ~Spent /\ ~NoRun /\ running = {}
    BY <2>0, StartEndsFields DEF RunOK, Starting, Spent, NoRun, RunningBegan
  <2>3. loop.pc \in {"done", "applied"} => Unknown
    BY <2>1, <2>2 DEF Watched, EndSpent
  <2>4. ~(loop.pc = "write" /\ loop.write.to \in {"accepted", "terminal"})
    BY <2>1, <2>2 DEF Watched, WriteSpent
  <2>5. loop.pc = "awaiting" => frame'[loop.send].st \notin {"closed", "nonresumable", "refused", "absent"}
    <3>. SUFFICES ASSUME loop.pc = "awaiting"
                 PROVE  frame'[loop.send].st \notin {"closed", "nonresumable", "refused", "absent"}
      OBVIOUS
    <3>1. loop.send \in Send /\ frame[loop.send].to = loop.handle /\ s = loop.handle
      BY <2>1, <2>2 DEF RunOK, OneTarget
    <3>2. frame[loop.send].st \notin {"closed", "nonresumable", "refused", "absent"}
      BY <2>1, <2>2 DEF RunOK, AnswerProves
    <3>3. CASE frame[loop.send].st # "joined"
      BY <2>0, <3>1, <3>2, <3>3, StartEndsFields DEF RunOK
    <3>4. CASE frame[loop.send].st = "joined"
      <4>1. PICK body \in {"accepted", "detached"} : frame' = AnswerJoined(s, body)
        BY <1>22 DEF StartAccepted
      <4>2. frame'[loop.send].st = Reply(loop.send, body)
        <5>1. body \in Body
          BY DEF Body
        <5>. QED
          BY <3>1, <3>4, <4>1, <5>1, AnswerJoinedFields
      <4>. QED
        BY <4>2, ReplyFields
    <3>. QED
      BY <3>3, <3>4
  <2>. QED
    BY <2>1, <2>3, <2>4, <2>5 DEF Follows, Unknown, LatestIs
<1>23. ASSUME NEW s \in Session, StartDiscarded(s) PROVE RunFollowed'
  <2>1. running' = running /\ StartEnds(s)
    BY <1>23 DEF StartDiscarded, StartEnds
  <2>2. running = {}
    BY <2>1, StartEndsFields DEF RunOK, RunningBegan
  <2>. QED
    BY <2>1, <2>2
<1>24. ASSUME NEW s \in Session, StartUnknown(s) PROVE RunFollowed'
  <2>. SUFFICES ASSUME NEW t \in link' \cap running', hub' = "serving" PROVE Follows(t)'
    OBVIOUS
  <2>0. StartEnds(s)
    BY <1>24 DEF StartEnds
  <2>1. UNCHANGED <<hub, loop, turn, cancels, ledger>>
    BY <1>24 DEF StartUnknown
  <2>2. Starting(s) /\ ~Spent /\ ~NoRun /\ running = {}
    BY <2>0, StartEndsFields DEF RunOK, Starting, Spent, NoRun, RunningBegan
  <2>3. loop.pc \in {"done", "applied"} => Unknown
    BY <2>1, <2>2 DEF Watched, EndSpent
  <2>4. ~(loop.pc = "write" /\ loop.write.to \in {"accepted", "terminal"})
    BY <2>1, <2>2 DEF Watched, WriteSpent
  <2>5. loop.pc = "awaiting" => frame'[loop.send].st \notin {"closed", "nonresumable", "refused", "absent"}
    <3>. SUFFICES ASSUME loop.pc = "awaiting"
                 PROVE  frame'[loop.send].st \notin {"closed", "nonresumable", "refused", "absent"}
      OBVIOUS
    <3>1. loop.send \in Send /\ frame[loop.send].to = loop.handle /\ s = loop.handle
      BY <2>1, <2>2 DEF RunOK, OneTarget
    <3>2. frame[loop.send].st \notin {"closed", "nonresumable", "refused", "absent"}
      BY <2>1, <2>2 DEF RunOK, AnswerProves
    <3>3. CASE frame[loop.send].st # "joined"
      BY <2>0, <3>1, <3>2, <3>3, StartEndsFields DEF RunOK
    <3>4. CASE frame[loop.send].st = "joined"
      <4>1. frame'[loop.send].st = Reply(loop.send, "unknown")
        BY <1>24, <3>1, <3>4, AnswerJoinedFields DEF StartUnknown, Body
      <4>. QED
        BY <4>1, ReplyFields
    <3>. QED
      BY <3>3, <3>4
  <2>. QED
    BY <2>1, <2>3, <2>4, <2>5 DEF Follows, Unknown, LatestIs
<1>25. ASSUME NEW s \in Session, OtherTurnEnds(s) PROVE RunFollowed'
  <2>. SUFFICES ASSUME NEW t \in link' \cap running', hub' = "serving" PROVE Follows(t)'
    OBVIOUS
  <2>0. /\ hub = "serving" /\ t \in link /\ t \in running /\ loop' = loop /\ frame' = frame /\ cancels' = cancels
        /\ turn'.terminal = turn.terminal
    BY <1>25 DEF OtherTurnEnds, TurnType
  <2>1. Follows(t)
    BY <2>0 DEF Watched
  <2>2. Unknown => Unknown'
    BY <1>25, <2>0 DEF OtherTurnEnds, Unknown, LatestIs
  <2>. QED
    BY <2>0, <2>1, <2>2 DEF Follows, Cancelled
<1>26. ASSUME NEW s \in Session, RuntimeCloses(s) PROVE RunFollowed'
  <2>. SUFFICES ASSUME NEW t \in link' \cap running', hub' = "serving" PROVE Follows(t)'
    OBVIOUS
  <2>0. /\ hub = "serving" /\ t \in link /\ t \in running /\ loop' = loop /\ frame' = frame /\ cancels' = cancels
        /\ turn'.terminal = turn.terminal
    BY <1>26 DEF RuntimeCloses, TurnType
  <2>1. Follows(t)
    BY <2>0 DEF Watched
  <2>2. Unknown => Unknown'
    BY <1>26, <2>0 DEF RuntimeCloses, Unknown, LatestIs
  <2>. QED
    BY <2>0, <2>1, <2>2 DEF Follows, Cancelled
<1>27. ASSUME NEW s \in Session, NEW b \in {"absent", "refused", "closed", "nonresumable"}, StartAbsent(s, b)
       PROVE  RunFollowed'
  <2>1. running' = running /\ StartEnds(s)
    BY <1>27 DEF StartAbsent, StartEnds
  <2>2. running = {}
    BY <2>1, StartEndsFields DEF RunOK, RunningBegan
  <2>. QED
    BY <2>1, <2>2
<1>28. ASSUME NEW c \in cancels, CancelArrives(c) PROVE RunFollowed'
  <2>. SUFFICES ASSUME NEW s \in link' \cap running', hub' = "serving" PROVE Follows(s)'
    OBVIOUS
  <2>0. /\ hub = "serving" /\ s \in link /\ s \in running /\ s # c[1]
        /\ UNCHANGED <<loop, turn, frame, ledger>>
    BY <1>28 DEF CancelArrives
  <2>1. Follows(s)
    BY <2>0 DEF Watched
  <2>2. Cancelled(s) => Cancelled(s)'
    BY <1>28, <2>0 DEF CancelArrives, Cancelled
  <2>. QED
    BY <2>0, <2>1, <2>2 DEF Follows, Unknown, LatestIs
<1>29. CASE Crash
  BY <1>29 DEF Crash, InitLoop
<1>30. CASE UserStop
  <2>. SUFFICES ASSUME NEW t \in link' \cap running', hub' = "serving" PROVE Follows(t)'
    OBVIOUS
  <2>0. /\ hub = "serving" /\ t \in link /\ t \in running /\ cancels \subseteq cancels'
        /\ UNCHANGED <<loop, frame, ledger>>
    BY <1>30 DEF UserStop
  <2>1. Follows(t) /\ t = loop.handle
    BY <2>0 DEF Watched, RunOK, OneTarget, RuntimeTyped
  <2>2. Cancelled(t)'
    BY <1>30, <2>0, <2>1 DEF UserStop, Cancelled
  <2>3. Cancelled(t) => Cancelled(t)'
    BY <2>0 DEF Cancelled
  <2>. QED
    BY <2>0, <2>1, <2>2, <2>3 DEF Follows, Unknown, LatestIs
<1>31. ASSUME NEW r \in {"consent-revoked", "hub-restarted"}, Reap(r) PROVE RunFollowed'
  <2>. SUFFICES ASSUME NEW t \in link' \cap running', hub' = "serving" PROVE Follows(t)'
    OBVIOUS
  <2>0. /\ hub = "serving" /\ t \in link /\ t \in running /\ cancels \subseteq cancels'
        /\ UNCHANGED <<loop, frame, ledger>>
    BY <1>31 DEF Reap
  <2>1. Follows(t) /\ t = loop.handle
    BY <2>0 DEF Watched, RunOK, OneTarget, RuntimeTyped
  <2>2. FALSE
    BY <1>31, <2>0, <2>1 DEF Reap, Cancelled
  <2>3. Cancelled(t) => Cancelled(t)'
    BY <2>0 DEF Cancelled
  <2>. QED
    BY <2>0, <2>1, <2>2, <2>3 DEF Follows, Unknown, LatestIs
<1>32. ASSUME NEW s \in Session, Disconnect(s) PROVE RunFollowed'
  <2>. SUFFICES ASSUME NEW t \in link' \cap running', hub' = "serving" PROVE Follows(t)'
    OBVIOUS
  <2>0. /\ hub = "serving" /\ t \in link /\ t \in running /\ cancels \subseteq cancels'
        /\ UNCHANGED <<loop, frame, ledger>>
    BY <1>32 DEF Disconnect
  <2>1. Follows(t) /\ t = loop.handle
    BY <2>0 DEF Watched, RunOK, OneTarget, RuntimeTyped
  <2>2. turn' = turn
    BY <1>32, <2>0, <2>1 DEF Disconnect, Cancelled
  <2>3. Cancelled(t) => Cancelled(t)'
    BY <2>0 DEF Cancelled
  <2>. QED
    BY <2>0, <2>1, <2>2, <2>3 DEF Follows, Unknown, LatestIs
<1>33. ASSUME NEW s \in Session, VendorCompletes(s) PROVE RunFollowed'
  <2>. SUFFICES ASSUME NEW t \in link' \cap running', hub' = "serving" PROVE Follows(t)'
    OBVIOUS
  <2>0. /\ hub = "serving" /\ t \in link /\ t \in running /\ cancels \subseteq cancels'
        /\ UNCHANGED <<loop, frame, ledger>>
    BY <1>33 DEF VendorCompletes
  <2>1. Follows(t) /\ t = loop.handle
    BY <2>0 DEF Watched, RunOK, OneTarget, RuntimeTyped
  <2>2. turn' = turn
    BY <1>33, <2>0, <2>1 DEF VendorCompletes, Cancelled
  <2>3. Cancelled(t) => Cancelled(t)'
    BY <2>0 DEF Cancelled
  <2>. QED
    BY <2>0, <2>1, <2>2, <2>3 DEF Follows, Unknown, LatestIs
<1>34. CASE UNCHANGED vars
  <2>1. UNCHANGED <<hub, loop, turn, frame, ledger, cancels, link, running>>
    BY <1>34
  <2>. QED
    BY <2>1 DEF Watched, Follows, Cancelled, Unknown, LatestIs
<1>. HIDE DEF RunFollowed, Typed, HubTyped
<1>. QED
  BY <1>1, <1>2, <1>3, <1>4, <1>5, <1>6, <1>7, <1>8, <1>9, <1>10, <1>11, <1>12, <1>13,
     <1>14, <1>15, <1>16, <1>17, <1>18, <1>19, <1>20, <1>21, <1>22, <1>23, <1>24, <1>25,
     <1>26, <1>27, <1>28, <1>29, <1>30, <1>31, <1>32, <1>33, <1>34
     DEF Next, LoopStep, FinishStep, BootStep, RuntimeStep

\* A boot that went through left nothing open.
LEMMA SweptStep == Typed /\ Swept /\ [Next]_vars => Swept'
<1>. SUFFICES ASSUME Typed, Swept, [Next]_vars PROVE Swept'
  OBVIOUS
<1>. USE DEF Swept, Typed, HubTyped, vars, hubVars, runtimeVars, HubStep, LoopOnly, RuntimeOnly, aborted
<1>1. CASE Persist
  BY <1>1 DEF Persist
<1>2. CASE Top
  BY <1>2 DEF Top
<1>3. CASE Reacquired
  BY <1>3 DEF Reacquired
<1>4. ASSUME NEW b \in BOOLEAN, ReacquireFails(b) PROVE Swept'
  BY <1>4 DEF ReacquireFails
<1>5. CASE Insert
  BY <1>5 DEF Insert
<1>6. CASE InsertFails
  BY <1>6 DEF InsertFails
<1>7. CASE HeadEnds
  BY <1>7 DEF HeadEnds
<1>8. CASE SendRequest
  BY <1>8 DEF SendRequest
<1>9. CASE Receive
  BY <1>9 DEF Receive
<1>10. CASE ReplyLost
  BY <1>10 DEF ReplyLost
<1>11. CASE Written
  BY <1>11 DEF Written
<1>12. CASE WriteFails
  BY <1>12 DEF WriteFails
<1>13. CASE ApplySubmission
  BY <1>13 DEF ApplySubmission
<1>14. CASE FinishFlush
  BY <1>14 DEF FinishFlush, FinishUnchanged
<1>15. CASE FinishMessage
  BY <1>15 DEF FinishMessage, FinishUnchanged
<1>16. CASE FinishSeal
  BY <1>16 DEF FinishSeal, FinishUnchanged
<1>17. CASE Boot
  BY <1>17 DEF Boot, BootUnchanged
<1>18. CASE SweepMessage
  BY <1>18 DEF SweepMessage, BootUnchanged
<1>19. CASE SweepReceipts
  BY <1>19, SealedFields DEF SweepReceipts, BootUnchanged
<1>20. ASSUME NEW n \in Send, LoseFrame(n) PROVE Swept'
  BY <1>20 DEF LoseFrame
<1>21. ASSUME NEW n \in Send, Admit(n) PROVE Swept'
  BY <1>21 DEF Admit
<1>22. ASSUME NEW s \in Session, StartAccepted(s) PROVE Swept'
  BY <1>22 DEF StartAccepted
<1>23. ASSUME NEW s \in Session, StartDiscarded(s) PROVE Swept'
  BY <1>23 DEF StartDiscarded
<1>24. ASSUME NEW s \in Session, StartUnknown(s) PROVE Swept'
  BY <1>24 DEF StartUnknown
<1>25. ASSUME NEW s \in Session, OtherTurnEnds(s) PROVE Swept'
  BY <1>25 DEF OtherTurnEnds
<1>26. ASSUME NEW s \in Session, RuntimeCloses(s) PROVE Swept'
  BY <1>26 DEF RuntimeCloses
<1>27. ASSUME NEW s \in Session, NEW b \in {"absent", "refused", "closed", "nonresumable"}, StartAbsent(s, b)
       PROVE  Swept'
  BY <1>27 DEF StartAbsent
<1>28. ASSUME NEW c \in cancels, CancelArrives(c) PROVE Swept'
  BY <1>28 DEF CancelArrives
<1>29. CASE Crash
  BY <1>29 DEF Crash
<1>30. CASE UserStop
  BY <1>30 DEF UserStop
<1>31. ASSUME NEW r \in {"consent-revoked", "hub-restarted"}, Reap(r) PROVE Swept'
  BY <1>31 DEF Reap
<1>32. ASSUME NEW s \in Session, Disconnect(s) PROVE Swept'
  BY <1>32 DEF Disconnect
<1>33. ASSUME NEW s \in Session, VendorCompletes(s) PROVE Swept'
  BY <1>33 DEF VendorCompletes
<1>34. CASE UNCHANGED vars
  BY <1>34
<1>. HIDE DEF Swept, Typed, HubTyped
<1>. QED
  BY <1>1, <1>2, <1>3, <1>4, <1>5, <1>6, <1>7, <1>8, <1>9, <1>10, <1>11, <1>12, <1>13,
     <1>14, <1>15, <1>16, <1>17, <1>18, <1>19, <1>20, <1>21, <1>22, <1>23, <1>24, <1>25,
     <1>26, <1>27, <1>28, <1>29, <1>30, <1>31, <1>32, <1>33, <1>34
     DEF Next, LoopStep, FinishStep, BootStep, RuntimeStep

\* The turn before anything happened.
LEMMA SubmissionStarts == Init => BasicInv /\ SubmissionInv
<1>. SUFFICES ASSUME Init PROVE BasicInv /\ SubmissionInv
  OBVIOUS
<1>0. /\ 1 \in Session /\ (\A s \in Session : s \in Nat) /\ 0 \in 0 .. MaxAttempt /\ 0 \in 0 .. MaxSend
      /\ (\A a \in Attempt : ~(a <= 0)) /\ Reviews \subseteq BOOLEAN
  BY SubmissionBounds DEF Session, Attempt
<1>1. HubTyped
  <2>1. loop \in LoopType
    BY <1>0 DEF Init, InitLoop, NoWrite, LoopType, LoopPc, WriteType, Verdict
  <2>2. turn \in TurnType
    BY DEF Init, InitTurn, TurnType, Reason
  <2>3. row \in [state : {"absent", "generating", "done"}, reason : Reason]
    BY DEF Init, Reason
  <2>4. ledger \in [Attempt -> OpenState \cup ClosedState] /\ heard \subseteq Attempt
    BY DEF Init, ClosedState
  <2>5. review \in BOOLEAN /\ faults \in Nat /\ crashes \in Nat
    BY <1>0 DEF Init
  <2>. QED
    BY <2>1, <2>2, <2>3, <2>4, <2>5 DEF HubTyped, Init
<1>2. RuntimeTyped
  <2>1. slot \in [Session -> {"idle", "other", "ours"}]
    BY DEF Init
  <2>. QED
    BY <1>0, <2>1 DEF RuntimeTyped, Init
<1>3. NoRun
  BY DEF NoRun, Travels, Starting, Init
<1>4. RunOK
  BY <1>0, <1>3, NoRunSpends
     DEF RunOK, OneStart, RunSpends, OneTarget, RunningBegan, ProofOfNoRun, ResendIsSafe, AnswerProves,
         Travels, Starting, Init, InitLoop, Body
<1>5. LedgerOK
  BY <1>0, <1>3 DEF LedgerOK, InTurn, ReceiptProves, ReasonProves, Known, LatestIs, Init, InitLoop, InitTurn
<1>6. Watched
  BY DEF Watched, WriteSpent, EndSpent, OverEnded, RunFollowed, Init, InitLoop, InitTurn
<1>7. Swept
  BY DEF Swept, Init
<1>8. Placed
  BY DEF Placed, Init
<1>. QED
  BY <1>1, <1>2, <1>4, <1>5, <1>6, <1>7, <1>8 DEF BasicInv, SubmissionInv, LedgerOK, Typed

\* Every step of the hub, of the runtime and of the wire keeps the invariant.
LEMMA SubmissionStep == InOrder /\ BasicInv' /\ SubmissionInv /\ [Next]_vars => SubmissionInv'
<1>. SUFFICES ASSUME InOrder, BasicInv', SubmissionInv, [Next]_vars PROVE SubmissionInv'
  OBVIOUS
<1>0. Typed /\ RunOK /\ LedgerOK /\ Watched
  BY DEF SubmissionInv
<1>1. Typed' /\ InTurn'
  BY DEF BasicInv
<1>2. RunOK'
  BY <1>0, OneStartStep, RunSpendsStep, OneTargetStep, RunningBeganStep, ProofOfNoRunStep,
     ResendIsSafeStep, AnswerProvesStep
     DEF RunOK
<1>3. LedgerOK'
  BY <1>0, <1>1, ReceiptProvesStep, ReasonProvesStep DEF LedgerOK
<1>4. Watched'
  <2>1. EndSpent'
    <3>1. CASE SendRequest
      BY <1>0, <3>1 DEF SendRequest, EndSpent, Typed, HubTyped, LoopType
    <3>2. CASE ~SendRequest
      BY <1>0, <3>2, EndSpentStep
    <3>. QED
      BY <3>1, <3>2
  <2>. QED
    BY <1>0, <2>1, WriteSpentStep, OverEndedStep, RunFollowedStep DEF Watched
<1>. QED
  BY <1>1, <1>2, <1>3, <1>4 DEF SubmissionInv

-----------------------------------------------------------------------------
(* The theorems.                                                           *)

\* Types, the order of the receipts and the work of a boot, in whatever order requests arrive.
THEOREM SubmissionBasics == Spec => []BasicInv
<1>1. Init => BasicInv
  BY SubmissionStarts
<1>2. BasicInv /\ [Next]_vars => BasicInv'
  BY HubTypedStep, RuntimeTypedStep, PlacedStep, InTurnStep, SweptStep DEF BasicInv, Typed
<1>. QED
  BY <1>1, <1>2, PTL DEF Spec

\* The state of the hub and of the runtime has its types.
THEOREM SubmissionTypes == Spec => []TypeOK
<1>1. BasicInv => TypeOK
  BY DEF BasicInv, Typed, HubTyped, RuntimeTyped, LoopType, LoopPc, TurnType, TypeOK
<1>. QED
  BY <1>1, SubmissionBasics, PTL

\* The inductive invariant of a turn whose requests the runtime admits in order: a request

\* sent after another one's timeout is admitted after it.
THEOREM SubmissionInvariant == InOrder /\ Spec => []SubmissionInv
<1>. SUFFICES ASSUME InOrder PROVE Spec => []SubmissionInv
  OBVIOUS
<1>1. Init => SubmissionInv
  BY SubmissionStarts
<1>2. BasicInv' /\ SubmissionInv /\ [Next]_vars => SubmissionInv'
  BY SubmissionStep
<1>. QED
  BY <1>1, <1>2, SubmissionBasics, PTL DEF Spec

\* Whatever is lost, resent, refused or replayed, the vendor begins the user's turn at most

\* once (runAttempt and classifySubmissionFailure against admit of turns.rs).
THEOREM TheVendorRunsOnce == InOrder /\ Spec => []VendorRunsOnce
<1>1. SubmissionInv => VendorRunsOnce
  BY DEF SubmissionInv, Typed, RuntimeTyped, RunOK, RunSpends, VendorRunsOnce
<1>. QED
  BY <1>1, SubmissionInvariant, PTL

\* A receipt reads not-submitted only while the vendor has not begun the turn and no request

\* on the way can make it (the downgrades of runAttempt).
THEOREM NotSubmittedProves == InOrder /\ Spec => []NotSubmittedIsProof
<1>1. SubmissionInv => NotSubmittedIsProof
  BY DEF SubmissionInv, LedgerOK, ReceiptProves, LatestIs, NoRun, Travels, NotSubmittedIsProof
<1>. QED
  BY <1>1, SubmissionInvariant, PTL

\* A turn the vendor began reads hub-restarted only if the runtime's answer for its latest

\* attempt had reached the hub (terminate, reasonFromAttempts).
THEOREM RestartsAreHonest == InOrder /\ Spec => []RestartIsHonest
<1>1. SubmissionInv => RestartIsHonest
  BY DEF SubmissionInv, LedgerOK, ReasonProves, Known, NoRun, RestartIsHonest
<1>. QED
  BY <1>1, SubmissionInvariant, PTL

\* Once the turn is over and nothing is in transit, a vendor still running it on a live

\* session is on record (recordLateAcceptance, onLateAcceptance).
THEOREM UnwatchedRunsAreOnRecord == InOrder /\ Spec => []UnwatchedRunIsOnRecord
<1>1. SubmissionInv => UnwatchedRunIsOnRecord
  <2>. SUFFICES ASSUME SubmissionInv, NEW s \in link \cap running, hub = "serving",
                      turn.phase = "over", loop.pc = "applied", cancels = {}
               PROVE  \E a \in Attempt : ledger[a] \in {"unresolved", "acceptance-unknown"}
    BY DEF UnwatchedRunIsOnRecord
  <2>1. Follows(s) /\ aborted
    BY DEF SubmissionInv, Watched, RunFollowed, OverEnded
  <2>2. Unknown
    BY <2>1 DEF Follows, Cancelled
  <2>3. loop.att \in Attempt
    BY <2>2, SubmissionBounds DEF SubmissionInv, Typed, HubTyped, LoopType, Unknown, LatestIs, Attempt
  <2>. QED
    BY <2>2, <2>3 DEF Unknown, LatestIs
<1>. QED
  BY <1>1, SubmissionInvariant, PTL

\* After a boot went through its sweeps, whatever crashes cut short, the turn no longer reads

\* as generating and no receipt of it is open (reconcileExternalTurns, sealOrphaned).
THEOREM BootsLeaveNothingOpen == Spec => []BootLeavesNothingOpen
<1>1. BasicInv => BootLeavesNothingOpen
  BY DEF BasicInv, Swept, BootLeavesNothingOpen
<1>. QED
  BY <1>1, SubmissionBasics, PTL

=============================================================================
