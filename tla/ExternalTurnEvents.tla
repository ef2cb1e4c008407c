-------------------------- MODULE ExternalTurnEvents --------------------------
(***************************************************************************)
(* The event stream of one external-agent session, as the hub consumes it  *)
(* (apps/api/src/modules/external-agents): the sequencer that gives every  *)
(* envelope a verdict, the controller that turns verdicts into a           *)
(* transcript and an end, the registry of pending approvals, and steering, *)
(* whose durable record runs ahead of what a live listener is told.        *)
(*                                                                         *)
(* One session runs the turns 1, 2, ... one after the other. A turn's      *)
(* number is the vendor's id of it; its approval request has the same      *)
(* number. Steps that the code takes without an await are one action.      *)
(*                                                                         *)
(* Left out: the text of events and their kinds beyond what ends a turn or *)
(* asks something, envelopes with an idempotency key (nothing produces     *)
(* one), the vendor's `cancelled' marker (it only renames `completed'),    *)
(* the retry loop of the submission (module ExternalSubmission), and       *)
(* answers the registry refuses, which change nothing.                     *)
(***************************************************************************)
EXTENDS Integers, Sequences, SequencesExt, FiniteSets

CONSTANTS MaxTurn,   \* how many turns the session runs
          MaxEvent,  \* how many envelopes the runtime numbers
          MaxFault,  \* how many envelopes are lost or delivered twice
          Budget,    \* events and steers a transcript holds before it is cut off
          Steer,     \* ids of steering messages
          Client     \* the people's windows that may answer an approval

ASSUME TurnEventsAssumption ==
    /\ MaxTurn \in Nat \ {0} /\ MaxEvent \in Nat /\ MaxFault \in Nat /\ Budget \in Nat

Turn == 1..MaxTurn
Request == Turn

VARIABLES
    vendor,    \* per turn: has the vendor been asked for it, does it run it
    log,       \* every envelope the runtime numbered, in its order
    wire,      \* the envelopes on their way to the hub
    faults, lost,  \* repeated deliveries, and the sequence numbers lost
    up,        \* the session is open
    cursor, liveTurn, ended,        \* ExternalEventSequencer
    cur,       \* the hub's turn on this session, 0 between turns
    stage,     \* how far it is: "run", "closing", "settled", "sealing" or "idle"
    reason,    \* terminalReason
    bound,     \* the turns whose native id the hub learned while they ran
    parts, sealed,                  \* the transcript and its `terminated'
    live, deferred,                 \* what the observer was told, what waits
    lapsed,    \* the grace given to unfinished steers ran out
    steer, writes,                  \* steering attempts and the queue of their writes
    asked, registry, decision,      \* deferredApprovals, the registry, the cards
    answer, forwards                \* answering calls, and what the vendor was sent

sequencer == <<cursor, liveTurn, ended>>
transcript == <<parts, sealed>>
observed == <<live, deferred, lapsed>>
steering == <<steer, writes>>
approvals == <<registry, answer, forwards>>
cards == <<asked, decision>>
stream == <<vendor, log, wire, faults, lost>>
vars == <<stream, up, sequencer, cur, stage, reason, bound, transcript, observed,
          steering, cards, approvals>>

-----------------------------------------------------------------------------
Types == {"text", "ask", "resolved", "completed", "error"}
Ends == {"completed", "error"}
Envelope == [k : {"event"}, seq : 1..MaxEvent, turn : Turn, type : Types]
SteerPart == [k : {"steer"}, id : Steer]
Reasons == {"none", "completed", "vendor-error", "limit-exceeded", "sequence-gap",
            "cancelled-by-user", "runtime-disconnected", "acceptance-unknown"}
Busy == {"write", "call", "fix"}

TypeOK ==
    /\ vendor \in [Turn -> {"unasked", "asked", "run", "over", "refused"}]
    /\ Range(log) \subseteq Envelope /\ Len(log) <= MaxEvent
    /\ Range(wire) \subseteq Range(log)
    /\ faults \in 0..MaxFault /\ lost \subseteq 1..MaxEvent /\ up \in BOOLEAN
    /\ cursor \in 0..MaxEvent /\ liveTurn \in 0..MaxTurn /\ ended \subseteq Turn
    /\ cur \in 0..MaxTurn
    /\ stage \in {"idle", "run", "closing", "settled", "sealing"}
    /\ (stage = "idle") = (cur = 0)
    /\ reason \in Reasons /\ (stage \in {"idle", "run"}) = (reason = "none")
    /\ bound \subseteq Turn
    /\ Range(parts) \subseteq Envelope \cup SteerPart /\ sealed \in BOOLEAN
    /\ Range(live) \cup Range(deferred) \subseteq Envelope \cup SteerPart
    /\ lapsed \in BOOLEAN
    /\ steer \in [Steer -> [at : {"none", "done", "silent"} \cup Busy, turn : 0..MaxTurn,
                            over : BOOLEAN]]
    /\ Range(writes) \subseteq Steer
    /\ asked \subseteq Request
    /\ registry \in [Request -> [turn : 0..MaxTurn, resolved : BOOLEAN]]
    /\ decision \in [Request -> {"none", "open", "user", "vendor", "abandoned"}]
    /\ answer \in [Client -> [req : 0..MaxTurn, turn : 0..MaxTurn]]
    /\ forwards \subseteq [by : Client, req : Request]

Init ==
    /\ vendor = [t \in Turn |-> "unasked"] /\ log = <<>> /\ wire = <<>> /\ faults = 0 /\ lost = {}
    /\ up = TRUE /\ cursor = 0 /\ liveTurn = 0 /\ ended = {}
    /\ cur = 0 /\ stage = "idle" /\ reason = "none" /\ bound = {}
    /\ parts = <<>> /\ sealed = FALSE /\ live = <<>> /\ deferred = <<>> /\ lapsed = FALSE
    /\ steer = [s \in Steer |-> [at |-> "none", turn |-> 0, over |-> FALSE]] /\ writes = <<>>
    /\ asked = {} /\ registry = [r \in Request |-> [turn |-> 0, resolved |-> FALSE]]
    /\ decision = [r \in Request |-> "none"]
    /\ answer = [c \in Client |-> [req |-> 0, turn |-> 0]] /\ forwards = {}

-----------------------------------------------------------------------------
(* The end of a turn. *)

\* terminate: the first reason wins; steers still out get a bounded grace.
Terminate(r) == reason' = r /\ stage' = "closing"

\* registerActiveTurn's abort, and onTeardown of a turn that is not submitting.
Stop ==
    /\ stage = "run"
    /\ Terminate("cancelled-by-user")
    /\ UNCHANGED <<stream, up, sequencer, cur, bound, transcript, observed, steering, cards, approvals>>

\* The session goes away: its subscription ends. A turn still submitting leaves the
\* verdict to the submission; any other ends now.
Disconnect ==
    /\ up /\ up' = FALSE
    /\ IF stage = "run" /\ cur \in bound
         THEN Terminate("runtime-disconnected") ELSE UNCHANGED <<stage, reason>>
    /\ UNCHANGED <<stream, sequencer, cur, bound, transcript, observed, steering, cards, approvals>>

Pending == {s \in Steer : steer[s].turn = cur /\ steer[s].at \in Busy}

\* Mutant: the end waits for every steering call.
SettledWithoutGrace ==
    /\ stage = "closing" /\ Pending = {} /\ stage' = "settled"
    /\ live' = live \o deferred /\ deferred' = <<>> /\ sealed' = TRUE
    /\ UNCHANGED <<stream, up, sequencer, cur, reason, bound, parts, lapsed, steering, cards, approvals>>

\* The race of the unfinished steers against the grace, and what follows it.
Settled ==
    /\ stage = "closing" /\ stage' = "settled"
    /\ live' = live \o deferred /\ deferred' = <<>>
    /\ lapsed' = (lapsed \/ Pending # {})
    /\ sealed' = TRUE
    /\ UNCHANGED <<stream, up, sequencer, cur, reason, bound, parts, steering, cards, approvals>>

\* Mutant: a turn that ended is not remembered.
EndTurnForgotten(t) ==
    /\ liveTurn' = IF liveTurn = t THEN 0 ELSE liveTurn
    /\ UNCHANGED <<cursor, ended>>

\* endTurn of the sequencer.
EndTurn(t) ==
    /\ ended' = ended \cup {t}
    /\ liveTurn' = IF liveTurn = t THEN 0 ELSE liveTurn
    /\ UNCHANGED cursor

\* finish, once the end is recorded on the conversation: the sequencer and the
\* registry forget a turn whose id is known, and every open card is closed.
FinishMark ==
    /\ stage = "settled" /\ stage' = "sealing"
    /\ IF cur \in bound
         THEN /\ EndTurn(cur)
              /\ registry' = [r \in Request |->
                     IF registry[r].turn = cur THEN [turn |-> 0, resolved |-> FALSE]
                                               ELSE registry[r]]
         ELSE UNCHANGED <<sequencer, registry>>
    /\ decision' = [r \in Request |-> IF decision[r] = "open" THEN "abandoned" ELSE decision[r]]
    /\ UNCHANGED <<stream, up, cur, reason, bound, transcript, observed, steering, asked,
                   answer, forwards>>

\* The rest of finish, after writer.flush, and the finally of start.
FinishRow ==
    /\ stage = "sealing" /\ \A s \in Range(writes) : steer[s].turn # cur
    /\ stage' = "idle" /\ cur' = 0 /\ reason' = "none"
    /\ parts' = <<>> /\ sealed' = FALSE /\ live' = <<>> /\ deferred' = <<>> /\ lapsed' = FALSE
    /\ asked' = {} /\ decision' = [r \in Request |-> "none"]
    /\ UNCHANGED <<stream, up, sequencer, bound, steering, approvals>>

-----------------------------------------------------------------------------
(* The start of a turn: the consumer subscribes before the request is sent. *)

Start(t) ==
    /\ stage = "idle" /\ up /\ vendor[t] = "unasked" /\ \A u \in 1..(t - 1) : vendor[u] # "unasked"
    /\ cur' = t /\ stage' = "run" /\ vendor' = [vendor EXCEPT ![t] = "asked"]
    /\ UNCHANGED <<log, wire, faults, lost, up, sequencer, reason, bound, transcript, observed,
                   steering, cards, approvals>>

\* registry.register of the card of request r, for the turn the hub runs.
Registered(reg, rs) == [r \in Request |->
    IF r \in rs THEN [turn |-> cur, resolved |-> FALSE] ELSE reg[r]]

\* The reply that accepts turn t: applySubmission, bindAccepted. A turn that ended
\* meanwhile only has its vendor turn cancelled (onLateAcceptance).
Accepted(t) ==
    /\ vendor[t] \in {"run", "over"} /\ t \notin bound
    /\ stage = "run" /\ cur = t
    /\ bound' = bound \cup {t} /\ liveTurn' = t /\ ended' = ended \ {t}
    /\ registry' = Registered(registry, asked) /\ asked' = {}
    /\ IF up THEN UNCHANGED <<stage, reason>> ELSE Terminate("runtime-disconnected")
    /\ UNCHANGED <<stream, up, cursor, cur, transcript, observed, steering, decision, answer, forwards>>

\* Any other outcome of the submission ends the turn: a refusal, or an answer that
\* never came, after which the vendor may still run it.
StartFails ==
    /\ stage = "run" /\ cur \notin bound
    /\ \/ /\ vendor[cur] = "asked" /\ vendor' = [vendor EXCEPT ![cur] = "refused"]
          /\ Terminate("vendor-error")
       \/ Terminate("acceptance-unknown") /\ UNCHANGED vendor
    /\ UNCHANGED <<log, wire, faults, lost, up, sequencer, cur, bound, transcript, observed,
                   steering, cards, approvals>>

-----------------------------------------------------------------------------
(* The vendor and the runtime: one turn at a time, events numbered for the session. *)

VendorAccepts(t) ==
    /\ vendor[t] = "asked" /\ \A u \in Turn : vendor[u] # "run"
    /\ vendor' = [vendor EXCEPT ![t] = "run"]
    /\ UNCHANGED <<log, wire, faults, lost, up, sequencer, cur, stage, reason, bound, transcript,
                   observed, steering, cards, approvals>>

Sent(t, type) == \E e \in Range(log) : e.turn = t /\ e.type = type

\* A vendor may keep talking after it said that it was done.
VendorEmits(t, type) ==
    /\ Len(log) < MaxEvent
    /\ vendor[t] = "run" \/ (vendor[t] = "over" /\ type = "text")
    /\ type = "ask" => ~Sent(t, "ask")
    /\ type = "resolved" => Sent(t, "ask") /\ ~Sent(t, "resolved")
    /\ LET e == [k |-> "event", seq |-> Len(log) + 1, turn |-> t, type |-> type]
       IN log' = Append(log, e) /\ wire' = Append(wire, e)
    /\ vendor' = IF type \in Ends THEN [vendor EXCEPT ![t] = "over"] ELSE vendor
    /\ UNCHANGED <<faults, lost, up, sequencer, cur, stage, reason, bound, transcript, observed,
                   steering, cards, approvals>>

FaultsLeft == faults + Cardinality(lost) < MaxFault

Lose ==
    /\ wire # <<>> /\ FaultsLeft
    /\ wire' = Tail(wire) /\ lost' = lost \cup {Head(wire).seq}
    /\ UNCHANGED <<vendor, log, faults, up, sequencer, cur, stage, reason, bound, transcript, observed,
                   steering, cards, approvals>>

-----------------------------------------------------------------------------
(* One envelope arrives. *)

\* Mutant: a skipped sequence number passes.
VerdictTolerant(e) ==
    CASE e.seq <= cursor -> "duplicate"
      [] e.seq > cursor /\ e.turn \in ended -> "after-terminal"
      [] e.seq > cursor /\ e.turn \notin ended /\ liveTurn # 0 /\ e.turn # liveTurn -> "foreign-turn"
      [] OTHER -> "apply"

\* admit: what the envelope is to the sequencer.
Verdict(e) ==
    CASE e.seq <= cursor -> "duplicate"
      [] e.seq > cursor + 1 -> "gap"
      [] e.seq = cursor + 1 /\ e.turn \in ended -> "after-terminal"
      [] e.seq = cursor + 1 /\ e.turn \notin ended /\ liveTurn # 0 /\ e.turn # liveTurn
           -> "foreign-turn"
      [] OTHER -> "apply"

\* Mutant: only an applied envelope moves the cursor.
AdvanceOnApply(v, e) == IF v = "apply" THEN e.seq ELSE cursor

\* The cursor moves past every envelope that is in order, applied or dropped.
Advance(v, e) == IF v \in {"duplicate", "gap"} THEN cursor ELSE e.seq

\* What the transcript's apply reports: the reason the event ends the turn with.
Ending(e) ==
    CASE sealed -> "none"
      [] ~sealed /\ e.type = "completed" -> "completed"
      [] ~sealed /\ e.type = "error" -> "vendor-error"
      [] ~sealed /\ e.type \notin Ends /\ Len(parts) >= Budget -> "limit-exceeded"
      [] OTHER -> "none"

\* Mutant: events are reported as they come.
ReportAtOnce(e) == live' = Append(live, e) /\ UNCHANGED deferred

\* Reporting an event waits while a steer ahead of it has not been reported.
Report(e) ==
    IF Pending # {} THEN deferred' = Append(deferred, e) /\ UNCHANGED live
                    ELSE live' = Append(live, e) /\ UNCHANGED deferred

\* transcript.apply and bindApproval for the card an event asks for or closes.
Card(e) ==
    CASE ~sealed /\ e.type = "ask" ->
           /\ decision' = [decision EXCEPT ![e.turn] = "open"]
           /\ IF cur \in bound
                THEN registry' = Registered(registry, {e.turn}) /\ UNCHANGED asked
                ELSE asked' = asked \cup {e.turn} /\ UNCHANGED registry
      [] ~sealed /\ e.type = "resolved" ->
           /\ decision' = IF decision[e.turn] = "open"
                            THEN [decision EXCEPT ![e.turn] = "vendor"] ELSE decision
           /\ UNCHANGED <<asked, registry>>
      [] OTHER -> UNCHANGED <<decision, asked, registry>>

\* onEnvelope for an envelope to apply.
Apply(e) ==
    /\ parts' = IF sealed THEN parts ELSE Append(parts, e)
    /\ Report(e) /\ Card(e)
    /\ IF Ending(e) = "none" THEN UNCHANGED <<sealed, stage, reason>>
                             ELSE sealed' = TRUE /\ Terminate(Ending(e))

\* onEvent: the sequencer's verdict, then the consumer, which is deaf once its turn
\* has a reason. A transport that repeats itself delivers the same envelope twice.
Deliver(again) ==
    /\ up /\ wire # <<>>
    /\ again => FaultsLeft
    /\ faults' = IF again THEN faults + 1 ELSE faults
    /\ wire' = IF again THEN wire ELSE Tail(wire)
    /\ LET e == Head(wire)
           v == Verdict(e)
       IN /\ cursor' = Advance(v, e)
          /\ IF stage = "run" /\ v = "apply" THEN Apply(e)
             ELSE /\ IF stage = "run" /\ v = "gap" THEN Terminate("sequence-gap")
                                                   ELSE UNCHANGED <<stage, reason>>
                  /\ UNCHANGED <<transcript, live, deferred, cards, registry>>
    /\ UNCHANGED <<vendor, log, lost, up, liveTurn, ended, cur, bound, lapsed, steering, answer, forwards>>

-----------------------------------------------------------------------------
(* Steering: recorded, written, sent, corrected, reported. *)

At(s, at) == steer' = [steer EXCEPT ![s].at = at]

\* The queue of required writes of one transcript is served in order.
NextWrite(s) == \E i \in DOMAIN writes :
    writes[i] = s /\ \A j \in 1..(i - 1) : steer[writes[j]].turn # steer[s].turn

\* The finally of an attempt: the last one out reports what waited.
Leave(s, at, told) ==
    /\ At(s, at)
    /\ LET heard == IF told THEN Append(live, [k |-> "steer", id |-> s]) ELSE live
       IN IF steer[s].turn # cur THEN UNCHANGED <<live, deferred>>
          ELSE IF Pending = {s} THEN live' = heard \o deferred /\ deferred' = <<>>
                                ELSE live' = heard /\ UNCHANGED deferred

\* steer: the record goes into the transcript before anything else happens.
SteerTurn(s) ==
    /\ steer[s].at = "none" /\ stage = "run" /\ ~sealed
    /\ LET over == Len(parts) >= Budget
       IN /\ steer' = [steer EXCEPT ![s] = [at |-> "write", turn |-> cur, over |-> over]]
          /\ sealed' = over
    /\ parts' = Append(parts, [k |-> "steer", id |-> s])
    /\ writes' = Append(writes, s)
    /\ UNCHANGED <<stream, up, sequencer, cur, stage, reason, bound, observed, cards, approvals>>

HasEnded(s) == steer[s].turn # cur \/ reason # "none" \/ sealed

\* The first write of the record is on disk.
SteerWritten(s) ==
    /\ steer[s].at = "write" /\ NextWrite(s)
    /\ \/ /\ steer[s].over
          /\ IF steer[s].turn = cur /\ stage = "run"
               THEN Terminate("limit-exceeded") ELSE UNCHANGED <<stage, reason>>
          /\ Leave(s, "silent", FALSE) /\ writes' = SelectSeq(writes, LAMBDA x : x # s)
       \/ /\ ~steer[s].over /\ HasEnded(s)
          /\ Leave(s, "done", TRUE) /\ writes' = SelectSeq(writes, LAMBDA x : x # s)
          /\ UNCHANGED <<stage, reason>>
       \/ /\ ~steer[s].over /\ ~HasEnded(s) /\ cur \in bound
          /\ At(s, "call") /\ writes' = SelectSeq(writes, LAMBDA x : x # s)
          /\ UNCHANGED <<stage, reason, live, deferred>>
       \/ /\ ~steer[s].over /\ ~HasEnded(s)   \* no native id yet, or no steering at all
          /\ At(s, "fix") /\ writes' = Append(SelectSeq(writes, LAMBDA x : x # s), s)
          /\ UNCHANGED <<stage, reason, live, deferred>>
    /\ UNCHANGED <<stream, up, sequencer, cur, bound, transcript, lapsed, cards, approvals>>

\* The vendor's answer: accepted is reported, refused is corrected on disk first, and
\* a call whose delivery is unknown is reported to nobody.
SteerAnswered(s) ==
    /\ steer[s].at = "call"
    /\ \/ Leave(s, "done", TRUE) /\ UNCHANGED writes
       \/ Leave(s, "silent", FALSE) /\ UNCHANGED writes
       \/ At(s, "fix") /\ writes' = Append(writes, s) /\ UNCHANGED <<live, deferred>>
    /\ UNCHANGED <<stream, up, sequencer, cur, stage, reason, bound, transcript, lapsed,
                   cards, approvals>>

\* The corrected record is on disk.
SteerFixed(s) ==
    /\ steer[s].at = "fix" /\ NextWrite(s)
    /\ Leave(s, "done", TRUE) /\ writes' = SelectSeq(writes, LAMBDA x : x # s)
    /\ UNCHANGED <<stream, up, sequencer, cur, stage, reason, bound, transcript, lapsed,
                   cards, approvals>>

\* A required write fails: the attempt rejects without a report.
SteerWriteFails(s) ==
    /\ steer[s].at \in {"write", "fix"} /\ NextWrite(s)
    /\ Leave(s, "silent", FALSE) /\ writes' = SelectSeq(writes, LAMBDA x : x # s)
    /\ UNCHANGED <<stream, up, sequencer, cur, stage, reason, bound, transcript, lapsed,
                   cards, approvals>>

-----------------------------------------------------------------------------
(* Approvals. *)

\* Mutant: the answer is recorded only by the card, once the vendor has replied.
RecordAfterForward(r) == UNCHANGED registry

\* The registry marks the request resolved in the same step that calls the vendor.
Record(r) == registry' = [registry EXCEPT ![r].resolved = TRUE]

\* answerApproval up to the call it awaits.
Answer(c, r) ==
    /\ stage # "idle" /\ answer[c].req = 0
    /\ registry[r].turn # 0 /\ ~registry[r].resolved
    /\ cur \in bound => registry[r].turn = cur
    /\ Record(r)
    /\ answer' = [answer EXCEPT ![c] = [req |-> r, turn |-> cur]]
    /\ forwards' = forwards \cup {[by |-> c, req |-> r]}
    /\ UNCHANGED <<stream, up, sequencer, cur, stage, reason, bound, transcript, observed,
                   steering, cards>>

\* The vendor took the answer: the card of the turn it was read from is closed.
Forwarded(c) ==
    /\ answer[c].req # 0
    /\ decision' = IF answer[c].turn = cur /\ decision[answer[c].req] = "open"
                     THEN [decision EXCEPT ![answer[c].req] = "user"] ELSE decision
    /\ answer' = [answer EXCEPT ![c] = [req |-> 0, turn |-> 0]]
    /\ UNCHANGED <<stream, up, sequencer, cur, stage, reason, bound, transcript, observed,
                   steering, asked, registry, forwards>>

\* The call failed: the registry keeps the answer.
ForwardFails(c) ==
    /\ answer[c].req # 0
    /\ answer' = [answer EXCEPT ![c] = [req |-> 0, turn |-> 0]]
    /\ UNCHANGED <<stream, up, sequencer, cur, stage, reason, bound, transcript, observed,
                   steering, cards, registry, forwards>>

-----------------------------------------------------------------------------
VendorStep ==
    \/ \E t \in Turn : VendorAccepts(t) \/ \E type \in Types : VendorEmits(t, type)
    \/ Lose \/ Disconnect
HubStep ==
    \/ \E t \in Turn : Start(t) \/ Accepted(t)
    \/ StartFails \/ Stop
    \/ \E again \in BOOLEAN : Deliver(again)
SteerStep == \E s \in Steer : SteerTurn(s) \/ SteerAnswered(s)
WriteStep == \E s \in Steer : SteerWritten(s) \/ SteerFixed(s) \/ SteerWriteFails(s)
AnswerStep == \E c \in Client : Forwarded(c) \/ ForwardFails(c) \/ \E r \in Request : Answer(c, r)

Next ==
    \/ VendorStep \/ HubStep \/ SteerStep \/ WriteStep \/ AnswerStep
    \/ Settled \/ FinishMark \/ FinishRow

Spec == Init /\ [][Next]_vars

\* The grace is a timer, the writes are the hub's own database, finish waits for
\* nothing else. No fairness for the vendor, for calls to it or for people.
FairSpec == Spec /\ WF_vars(Settled) /\ WF_vars(FinishMark) /\ WF_vars(FinishRow) /\ WF_vars(WriteStep)

-----------------------------------------------------------------------------
(* What the stream promises. *)

IsEvent(p) == p.k = "event"

\* An event of another turn gets into a transcript only when the hub never learned
\* that turn's native id: the sequencer's terminal set keeps every other one out,
\* also while the next turn has no id yet and `liveTurnId' is undefined (admit, endTurn).
StrayEventsAreUnbound ==
    \A i \in DOMAIN parts : IsEvent(parts[i]) /\ parts[i].turn # cur => parts[i].turn \notin bound

\* Sequencer: "Foreign turns are not this turn's business." No transcript holds an
\* event of another turn (admit, onEnvelope).
TurnOwnEventsOnly == \A i \in DOMAIN parts : IsEvent(parts[i]) => parts[i].turn = cur

\* A turn is ended for a sequence gap only when an envelope was lost: what the
\* sequencer drops (after the end, foreign, delivered twice) never looks like loss (#advance).
NoFalseLoss == reason = "sequence-gap" => lost # {}

\* The events of the transcript are the log's, in its order, once.
InLogOrder ==
    /\ \A p \in DOMAIN parts : IsEvent(parts[p]) =>
          parts[p].seq <= cursor /\ parts[p] = log[parts[p].seq]
    /\ \A p, q \in DOMAIN parts : p < q /\ IsEvent(parts[p]) /\ IsEvent(parts[q]) =>
          parts[p].seq < parts[q].seq

\* An event of the turn is in the transcript with every earlier one of the turn.
OwnEventsWhole ==
    \A p \in DOMAIN parts : IsEvent(parts[p]) /\ parts[p].turn = cur =>
        \A j \in DOMAIN log : j <= parts[p].seq /\ log[j].turn = cur =>
            \E q \in DOMAIN parts : parts[q] = log[j]

\* The events in a transcript are the vendor's, in its order and once, and where one
\* of the turn's own stands, its `completed' too, none of the turn's earlier ones is
\* missing: no loss goes unnoticed (admit, apply).
TranscriptIsWhole == InLogOrder /\ OwnEventsWhole

\* A live listener never hears of an event before the steer that is durably ahead of
\* it, unless the turn's end cut that steer short or its outcome is unknown
\* (steer, the deferred reports of onEnvelope).
NoEventBeforeItsSteer ==
    lapsed \/ \A i \in DOMAIN live, p, q \in DOMAIN parts :
        q < p /\ parts[p] = live[i] /\ IsEvent(live[i]) /\ ~IsEvent(parts[q]) =>
            steer[parts[q].id].at = "silent" \/ \E j \in 1..(i - 1) : live[j] = parts[q]

\* One approval is put to the vendor at most once, however many windows answer it and
\* however slow or broken the vendor is (answer of the approval registry).
AuthorizedOnce == \A f, g \in forwards : f.req = g.req => f = g

\* A turn that has a reason to end does end, even when a steering call never returns
\* (terminate's grace, finish).
TurnEnds == (reason # "none") ~> (stage = "idle")

-----------------------------------------------------------------------------
(* What a comment or a document says and the code does not keep (README,   *)
(* "Divergences"): no run checks these.                                    *)

\* Controller: "held back until `steer' ... flushes it, so live and reload always
\* agree." What a listener heard is the durable transcript in the durable order.
LiveAndReloadAgree ==
    lapsed \/ \A i, j \in DOMAIN live, p, q \in DOMAIN parts :
        i < j /\ live[i] = parts[p] /\ live[j] = parts[q] => p < q
=============================================================================
