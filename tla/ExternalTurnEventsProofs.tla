----------------------- MODULE ExternalTurnEventsProofs -----------------------
(***************************************************************************)
(* Proofs about ExternalTurnEvents, for every number of turns, events,     *)
(* faults, steers and answering clients and every budget.                  *)
(***************************************************************************)
EXTENDS ExternalTurnEvents, TLAPS

Part == Envelope \cup SteerPart

\* What the argument needs of the types.
StreamTypes ==
    /\ log \in Seq(Envelope) /\ Len(log) <= MaxEvent
    /\ wire \in Seq(Envelope) /\ parts \in Seq(Part)
    /\ cursor \in Nat /\ cur \in 0..MaxTurn /\ liveTurn \in 0..MaxTurn /\ bound \subseteq Turn
    /\ vendor \in [Turn -> {"unasked", "asked", "run", "over", "refused"}]

\* Between turns there is no transcript.
IdleIsEmpty == stage = "idle" => cur = 0 /\ parts = <<>>

\* A turn whose id the hub learned is the one it runs or is known to have ended.
BoundIsKnown ==
    /\ \A t \in bound : t = cur \/ t \in ended
    /\ \A t \in bound : vendor[t] # "unasked"

\* The id of the running turn is the sequencer's, until finish ends it there.
LiveIsCurrent ==
    /\ cur \in bound /\ stage \in {"run", "closing", "settled"} => liveTurn = cur
    /\ cur \in bound /\ stage = "sealing" => cur \in ended

Stages == stage \in {"idle", "run", "closing", "settled", "sealing"} /\ (cur = 0 => stage = "idle")

StrayInv ==
    /\ StreamTypes /\ Stages /\ IdleIsEmpty /\ BoundIsKnown /\ LiveIsCurrent
    /\ StrayEventsAreUnbound

\* The invariant holds before the first turn.
LEMMA StrayInit == Init => StrayInv
<1>. SUFFICES ASSUME Init PROVE StrayInv
  OBVIOUS
<1>1. 0 \in 0..MaxTurn
  BY TurnEventsAssumption
<1>. QED
  BY <1>1, TurnEventsAssumption DEF Init, StrayInv, StreamTypes, Stages, IdleIsEmpty, BoundIsKnown, LiveIsCurrent,
     StrayEventsAreUnbound

\* An envelope that the sequencer lets through to a running turn is that turn's, or
\* of a turn whose id the hub never learned (admit).
LEMMA AppliedEventIsOwnOrUnbound ==
    ASSUME StrayInv, stage = "run", NEW e \in Envelope, Verdict(e) = "apply"
    PROVE  e.turn = cur \/ e.turn \notin bound
<1>1. e.turn \notin ended /\ (liveTurn = 0 \/ e.turn = liveTurn)
  BY DEF Verdict, StrayInv, StreamTypes, Envelope, Turn
<1>. QED
  BY <1>1 DEF StrayInv, StreamTypes, BoundIsKnown, LiveIsCurrent, Stages, Turn

\* An event added to a transcript keeps it free of bound turns' events.
LEMMA AppendKeepsStray ==
    ASSUME StrayInv, NEW e \in Part, parts' = Append(parts, e), cur' = cur, bound' = bound,
           IsEvent(e) => e.turn = cur \/ e.turn \notin bound
    PROVE  StrayEventsAreUnbound' /\ parts' \in Seq(Part)
<1>1. parts \in Seq(Part)
  BY DEF StrayInv, StreamTypes
<1>2. parts' \in Seq(Part)
  BY <1>1
<1>3. ASSUME NEW i \in DOMAIN parts'
      PROVE  (i \in DOMAIN parts /\ parts'[i] = parts[i]) \/ parts'[i] = e
  BY <1>1, <1>3
<1>. QED
  BY <1>2, <1>3 DEF StrayInv, StrayEventsAreUnbound

\* A step that leaves these variables alone keeps the invariant.
LEMMA StrayFrame ==
    ASSUME StrayInv, UNCHANGED <<log, wire, parts, cursor, liveTurn, ended, cur, bound, vendor>>,
           stage' = stage \/ (stage = "run" /\ stage' = "closing") \/ (stage = "closing" /\ stage' = "settled")
    PROVE  StrayInv'
BY DEF StrayInv, StreamTypes, Stages, IdleIsEmpty, BoundIsKnown, LiveIsCurrent, StrayEventsAreUnbound

\* One envelope: dropped, applied, or the end of the turn (onEnvelope, admit).
LEMMA DeliverKeepsStray ==
    ASSUME StrayInv, NEW again \in BOOLEAN, Deliver(again)
    PROVE  StrayInv'
<1>. DEFINE e == Head(wire)
<1>1. e \in Envelope /\ wire' \in Seq(Envelope)
  BY DEF Deliver, StrayInv, StreamTypes
<1>2. cursor' \in Nat
  BY <1>1 DEF Deliver, Advance, StrayInv, StreamTypes, Envelope
<1>3. UNCHANGED <<log, liveTurn, ended, cur, bound, vendor>>
  BY DEF Deliver
<1>4. stage' = stage \/ (stage = "run" /\ stage' = "closing")
  BY DEF Deliver, Apply, Terminate
<1>5. StrayEventsAreUnbound' /\ parts' \in Seq(Part) /\ (stage = "idle" => parts' = parts)
  <2>1. CASE parts' = parts
    BY <1>3, <2>1 DEF StrayInv, StreamTypes, StrayEventsAreUnbound
  <2>2. CASE stage = "run" /\ Verdict(e) = "apply" /\ parts' = Append(parts, e)
    BY <1>1, <1>3, <2>2, AppliedEventIsOwnOrUnbound, AppendKeepsStray DEF Part
  <2>. QED
    BY <2>1, <2>2 DEF Deliver, Apply, transcript
<1>. QED
  BY <1>1, <1>2, <1>3, <1>4, <1>5
     DEF StrayInv, StreamTypes, Stages, IdleIsEmpty, BoundIsKnown, LiveIsCurrent

\* The start, the acceptance and the end of a turn.
LEMMA LifecycleKeepsStray ==
    ASSUME StrayInv,
           \/ \E t \in Turn : Start(t) \/ Accepted(t)
           \/ FinishMark \/ FinishRow
    PROVE  StrayInv'
<1>. USE DEF StrayInv, StreamTypes, Stages, IdleIsEmpty, BoundIsKnown, LiveIsCurrent, StrayEventsAreUnbound
<1>1. ASSUME NEW t \in Turn, Start(t) PROVE StrayInv'
  BY <1>1, TurnEventsAssumption DEF Start, sequencer, transcript, Turn
<1>2. ASSUME NEW t \in Turn, Accepted(t) PROVE StrayInv'
  BY <1>2, TurnEventsAssumption DEF Accepted, stream, transcript, Terminate, Turn
<1>3. CASE FinishMark
  BY <1>3, TurnEventsAssumption DEF FinishMark, EndTurn, stream, sequencer, transcript, Turn
<1>4. CASE FinishRow
  BY <1>4, TurnEventsAssumption DEF FinishRow, stream, sequencer, Turn
<1>. QED
  BY <1>1, <1>2, <1>3, <1>4

\* The vendor and the runtime.
LEMMA VendorKeepsStray ==
    ASSUME StrayInv, VendorStep \/ StartFails
    PROVE  StrayInv'
<1>1. ASSUME NEW t \in Turn, VendorAccepts(t) PROVE StrayInv'
  BY <1>1 DEF VendorAccepts, sequencer, transcript, StrayInv, StreamTypes, Stages, IdleIsEmpty,
     BoundIsKnown, LiveIsCurrent, StrayEventsAreUnbound
<1>2. ASSUME NEW t \in Turn, NEW type \in Types, VendorEmits(t, type) PROVE StrayInv'
  <2>. DEFINE e == [k |-> "event", seq |-> Len(log) + 1, turn |-> t, type |-> type]
  <2>1. Len(log) \in Nat /\ Len(log) + 1 \in 1..MaxEvent
    BY <1>2, TurnEventsAssumption DEF VendorEmits, StrayInv, StreamTypes
  <2>2. e \in Envelope
    BY <2>1 DEF Envelope
  <2>3. log' = Append(log, e) /\ wire' = Append(wire, e)
    BY <1>2 DEF VendorEmits
  <2>. HIDE DEF e
  <2>4. log' \in Seq(Envelope) /\ wire' \in Seq(Envelope) /\ Len(log') <= MaxEvent
    BY <2>1, <2>2, <2>3 DEF StrayInv, StreamTypes
  <2>. QED
    BY <1>2, <2>4 DEF VendorEmits, sequencer, transcript, StrayInv, StreamTypes, Stages, IdleIsEmpty,
       BoundIsKnown, LiveIsCurrent, StrayEventsAreUnbound
<1>3. CASE Lose
  BY <1>3 DEF Lose, sequencer, transcript, StrayInv, StreamTypes, Stages, IdleIsEmpty,
     BoundIsKnown, LiveIsCurrent, StrayEventsAreUnbound
<1>4. CASE Disconnect
  BY <1>4, StrayFrame DEF Disconnect, Terminate, stream, sequencer, transcript
<1>5. CASE StartFails
  BY <1>5 DEF StartFails, Terminate, sequencer, transcript, StrayInv, StreamTypes, Stages, IdleIsEmpty,
     BoundIsKnown, LiveIsCurrent, StrayEventsAreUnbound, Turn
<1>. QED
  BY <1>1, <1>2, <1>3, <1>4, <1>5 DEF VendorStep

\* Steering adds a part that is no event, and may end the turn.
LEMMA SteeringKeepsStray ==
    ASSUME StrayInv, SteerStep \/ WriteStep
    PROVE  StrayInv'
<1>1. ASSUME NEW s \in Steer, SteerTurn(s) PROVE StrayInv'
  <2>1. StrayEventsAreUnbound' /\ parts' \in Seq(Part)
    BY <1>1, AppendKeepsStray DEF SteerTurn, Part, SteerPart, IsEvent
  <2>. QED
    BY <1>1, <2>1 DEF SteerTurn, stream, sequencer, StrayInv, StreamTypes, Stages, IdleIsEmpty,
       BoundIsKnown, LiveIsCurrent
<1>2. ASSUME NEW s \in Steer, SteerWritten(s) PROVE StrayInv'
  BY <1>2, StrayFrame DEF SteerWritten, Terminate, stream, sequencer, transcript
<1>3. ASSUME NEW s \in Steer, SteerAnswered(s) \/ SteerFixed(s) \/ SteerWriteFails(s) PROVE StrayInv'
  BY <1>3, StrayFrame DEF SteerAnswered, SteerFixed, SteerWriteFails, stream, sequencer, transcript
<1>. QED
  BY <1>1, <1>2, <1>3 DEF SteerStep, WriteStep

\* Every step keeps the invariant.
LEMMA StrayStep == StrayInv /\ [Next]_vars => StrayInv'
<1>. SUFFICES ASSUME StrayInv, [Next]_vars PROVE StrayInv'
  OBVIOUS
<1>1. CASE HubStep
  <2>1. CASE Stop
    BY <2>1, StrayFrame DEF Stop, Terminate, stream, sequencer, transcript
  <2>. QED
    BY <1>1, <2>1, LifecycleKeepsStray, VendorKeepsStray, DeliverKeepsStray DEF HubStep
<1>2. CASE VendorStep
  BY <1>2, VendorKeepsStray
<1>3. CASE SteerStep \/ WriteStep
  BY <1>3, SteeringKeepsStray
<1>4. CASE AnswerStep
  BY <1>4, StrayFrame DEF AnswerStep, Answer, Forwarded, ForwardFails, stream, sequencer, transcript
<1>5. CASE Settled
  BY <1>5, StrayFrame DEF Settled, stream, sequencer
<1>6. CASE FinishMark \/ FinishRow
  BY <1>6, LifecycleKeepsStray
<1>7. CASE UNCHANGED vars
  BY <1>7, StrayFrame DEF vars, stream, sequencer, transcript
<1>. QED
  BY <1>1, <1>2, <1>3, <1>4, <1>5, <1>6, <1>7 DEF Next

\* For every number of turns, events, faults and steers a transcript holds no event
\* of another turn whose id the hub had learned (ExternalEventSequencer, finish).
THEOREM StrayEventsUnbound == Spec => []StrayEventsAreUnbound
<1>1. StrayInv => StrayEventsAreUnbound
  BY DEF StrayInv
<1>. QED
  BY <1>1, StrayInit, StrayStep, PTL DEF Spec
-----------------------------------------------------------------------------
(* The envelopes, in the order the runtime numbered them.                  *)

SteerType == [at : {"none", "done", "silent"} \cup Busy, turn : 0..MaxTurn, over : BOOLEAN]
RegistryType == [turn : 0..MaxTurn, resolved : BOOLEAN]

EventTypes ==
    /\ live \in Seq(Part) /\ deferred \in Seq(Part)
    /\ steer \in [Steer -> SteerType]
    /\ asked \subseteq Request /\ registry \in [Request -> RegistryType]
    /\ forwards \subseteq [by : Client, req : Request]
    /\ ended \subseteq Turn /\ sealed \in BOOLEAN

\* The log is numbered, and what arrives comes from it.
Numbered ==
    /\ \A i \in DOMAIN log : log[i].seq = i
    /\ \A i \in DOMAIN wire : wire[i].seq <= Len(log) /\ wire[i] = log[wire[i].seq]
    /\ cursor <= Len(log)

\* Only turns the vendor was asked for have events, or have ended.
AskedFirst ==
    /\ \A i \in DOMAIN log : vendor[log[i].turn] # "unasked"
    /\ \A t \in ended : vendor[t] # "unasked"
    /\ cur # 0 => vendor[cur] # "unasked"
    /\ \A s \in Steer : steer[s].at # "none" => steer[s].turn # 0 /\ vendor[steer[s].turn] # "unasked"

\* The sequencer's turn is the hub's, and a running turn has not ended.
OneLiveTurn ==
    /\ liveTurn # 0 => liveTurn = cur /\ cur \in bound /\ stage \in {"run", "closing", "settled"}
    /\ stage = "run" => cur \notin ended

-----------------------------------------------------------------------------
(* Loss.                                                                   *)

\* Without a loss the wire holds what the sequencer has not seen, and perhaps
\* what it has.
NothingMissing ==
    lost = {} => /\ \A i \in DOMAIN wire : wire[i].seq = Len(log) - Len(wire) + i
                 /\ cursor >= Len(log) - Len(wire)

-----------------------------------------------------------------------------
(* Approvals.                                                              *)

\* A request that the sequencer has let through.
Seen(r) == \E i \in DOMAIN log : i <= cursor /\ log[i].type = "ask" /\ log[i].turn = r

AsksAreOne ==
    \A i, j \in DOMAIN log :
        log[i].type = "ask" /\ log[j].type = "ask" /\ log[i].turn = log[j].turn => i = j

\* A request put to the vendor cannot be registered again.
ForwardedIsSpent ==
    /\ \A r \in asked : Seen(r) /\ registry[r].turn = 0
    /\ \A r \in Request : registry[r].turn # 0 => Seen(r)
    /\ \A f \in forwards : /\ Seen(f.req) /\ f.req \notin asked
                           /\ registry[f.req].turn = 0 \/ registry[f.req].resolved

ApprovalsInv == AsksAreOne /\ ForwardedIsSpent /\ AuthorizedOnce

-----------------------------------------------------------------------------
(* The transcript.                                                         *)

\* While the transcript is open it has all that was let through.
OpenIsUpToDate ==
    stage = "run" /\ ~sealed =>
        \A j \in DOMAIN log : j <= cursor /\ log[j].turn = cur =>
            \E q \in DOMAIN parts : parts[q] = log[j]

TranscriptInv == InLogOrder /\ OwnEventsWhole /\ OpenIsUpToDate

-----------------------------------------------------------------------------
(* Steers and what a live listener hears.                                  *)

\* Reports are of events let through, and of steers.
ReportsAreSeen ==
    /\ \A i \in DOMAIN live : IsEvent(live[i]) => live[i].seq <= cursor
    /\ \A i \in DOMAIN deferred : IsEvent(deferred[i]) /\ deferred[i].seq <= cursor

\* A steer of the transcript is of this turn.
SteersAreOwn ==
    \A q \in DOMAIN parts : ~IsEvent(parts[q]) =>
        steer[parts[q].id].at # "none" /\ steer[parts[q].id].turn = cur

SteerOf(s) == [k |-> "steer", id |-> s]
Told(s) == \E j \in DOMAIN live : live[j] = SteerOf(s)

\* Events behind an unfinished steer are held back; a finished one was reported.
HeldBack ==
    \/ lapsed
    \/ \A q \in DOMAIN parts : ~IsEvent(parts[q]) =>
          /\ steer[parts[q].id].at \in Busy =>
                \A p \in DOMAIN parts, i \in DOMAIN live :
                    q < p /\ IsEvent(parts[p]) => live[i] # parts[p]
          /\ steer[parts[q].id].at = "done" => Told(parts[q].id)

ListenerInv == ReportsAreSeen /\ SteersAreOwn /\ HeldBack /\ NoEventBeforeItsSteer

\* What holds of the stream, the transcript, the approvals and the listener together.
EventsInv ==
    /\ StrayInv /\ EventTypes /\ Numbered /\ AskedFirst /\ OneLiveTurn
    /\ NothingMissing /\ NoFalseLoss
    /\ ApprovalsInv /\ TranscriptInv /\ ListenerInv

-----------------------------------------------------------------------------
(* What the pieces of the handlers change.                                 *)

\* One attempt at steering moves on (At).
LEMMA AtFields ==
    ASSUME EventTypes, NEW s \in Steer, NEW at \in {"none", "done", "silent"} \cup Busy, At(s, at)
    PROVE  /\ steer' \in [Steer -> SteerType]
           /\ \A x \in Steer : x # s => steer'[x] = steer[x]
           /\ steer'[s].at = at /\ steer'[s].turn = steer[s].turn
<1>. DEFINE n == [steer[s] EXCEPT !.at = at]
<1>1. steer[s] \in SteerType
  BY DEF EventTypes
<1>2. n \in SteerType /\ n.at = at /\ n.turn = steer[s].turn
  BY <1>1 DEF SteerType
<1>3. steer' = [steer EXCEPT ![s] = n]
  BY DEF At, EventTypes
<1>. HIDE DEF n
<1>. QED
  BY <1>2, <1>3 DEF EventTypes

\* It ends, and the last one out reports what waited (the finally of steer).
LEMMA LeaveFields ==
    ASSUME EventTypes, NEW s \in Steer, NEW at \in {"done", "silent"}, NEW told \in BOOLEAN,
           Leave(s, at, told)
    PROVE  /\ steer' \in [Steer -> SteerType]
           /\ \A x \in Steer : x # s => steer'[x] = steer[x]
           /\ steer'[s].at = at /\ steer'[s].turn = steer[s].turn
           /\ live' \in Seq(Part) /\ deferred' \in Seq(Part)
<1>1. At(s, at) /\ at \in {"none", "done", "silent"} \cup Busy
  BY DEF Leave
<1>. DEFINE heard == IF told THEN Append(live, [k |-> "steer", id |-> s]) ELSE live
<1>2. [k |-> "steer", id |-> s] \in Part
  BY DEF Part, SteerPart
<1>3. heard \in Seq(Part) /\ live \in Seq(Part) /\ deferred \in Seq(Part)
  BY <1>2 DEF EventTypes
<1>4. \/ live' = live /\ deferred' = deferred
      \/ live' = heard \o deferred /\ deferred' = <<>>
      \/ live' = heard /\ deferred' = deferred
  BY DEF Leave
<1>. HIDE DEF heard
<1>5. live' \in Seq(Part) /\ deferred' \in Seq(Part)
  <2>1. heard \o deferred \in Seq(Part) /\ <<>> \in Seq(Part)
    BY <1>3
  <2>. QED
    BY <1>3, <1>4, <2>1
<1>. QED
  BY <1>1, <1>5, AtFields

\* A request is registered for the turn the hub runs.
LEMMA RegisteredFields ==
    ASSUME StrayInv, EventTypes, NEW rs \in SUBSET Request
    PROVE  /\ Registered(registry, rs) \in [Request -> RegistryType]
           /\ \A r \in Request : r \notin rs => Registered(registry, rs)[r] = registry[r]
<1>1. [turn |-> cur, resolved |-> FALSE] \in RegistryType
  BY DEF StrayInv, StreamTypes, RegistryType
<1>. QED
  BY <1>1 DEF Registered, EventTypes

\* An envelope on its way is the log's at its number.
LEMMA HeadOfWire ==
    ASSUME StrayInv, Numbered, wire # <<>>
    PROVE  LET e == Head(wire) IN
           /\ e \in Envelope /\ IsEvent(e) /\ e \in Part
           /\ e.seq \in 1..Len(log) /\ e = log[e.seq] /\ e.turn \in Turn
<1>1. wire \in Seq(Envelope) /\ log \in Seq(Envelope)
  BY DEF StrayInv, StreamTypes
<1>2. 1 \in DOMAIN wire /\ Head(wire) = wire[1] /\ wire[1] \in Envelope
  BY <1>1
<1>3. wire[1].seq <= Len(log) /\ wire[1] = log[wire[1].seq]
  BY <1>2 DEF Numbered
<1>4. wire[1].k = "event" /\ wire[1].seq \in 1..MaxEvent /\ wire[1].turn \in Turn
  BY <1>2 DEF Envelope
<1>5. wire[1].seq \in 1..Len(log)
  BY <1>1, <1>3, <1>4, TurnEventsAssumption
<1>. QED
  BY <1>2, <1>3, <1>4, <1>5 DEF IsEvent, Part

\* What one envelope does to the cursor.
LEMMA CursorFields ==
    ASSUME StrayInv, Numbered, NEW again \in BOOLEAN, Deliver(again)
    PROVE  LET e == Head(wire) IN
           /\ wire # <<>> /\ log' = log
           /\ cursor' \in Nat /\ cursor <= cursor' /\ (e.seq <= cursor' \/ Verdict(e) = "gap")
           /\ Verdict(e) \in {"duplicate", "gap"} => cursor' = cursor
           /\ Verdict(e) \notin {"duplicate", "gap"} => e.seq = cursor + 1 /\ cursor' = cursor + 1
           /\ Verdict(e) = "gap" => e.seq > cursor + 1
           /\ Verdict(e) \in {"duplicate", "gap", "after-terminal", "foreign-turn", "apply"}
<1>. DEFINE e == Head(wire)
<1>1. wire # <<>> /\ log' = log /\ cursor' = Advance(Verdict(e), e)
  BY DEF Deliver
<1>2. e.seq \in Nat /\ cursor \in Nat
  BY <1>1, HeadOfWire DEF StrayInv, StreamTypes
<1>3. \/ Verdict(e) = "duplicate" /\ e.seq <= cursor
      \/ Verdict(e) = "gap" /\ e.seq > cursor + 1
      \/ Verdict(e) \in {"after-terminal", "foreign-turn", "apply"} /\ e.seq = cursor + 1
  BY <1>2 DEF Verdict
<1>. HIDE DEF e
<1>4. Verdict(e) \in {"duplicate", "gap"} => cursor' = cursor
  BY <1>1 DEF Advance
<1>5. Verdict(e) \notin {"duplicate", "gap"} => cursor' = e.seq
  BY <1>1 DEF Advance
<1>. QED
  BY <1>1, <1>2, <1>3, <1>4, <1>5 DEF e

\* Every step keeps the types.
LEMMA EventTypesStep == StrayInv /\ EventTypes /\ Numbered /\ [Next]_vars => EventTypes'
<1>. SUFFICES ASSUME StrayInv, EventTypes, Numbered, [Next]_vars PROVE EventTypes'
  OBVIOUS
<1>1. ASSUME NEW t \in Turn, VendorAccepts(t) PROVE EventTypes'
  <2>1. UNCHANGED <<live, deferred, steer, asked, registry, forwards, ended, sealed>>
    BY <1>1 DEF VendorAccepts, sequencer, transcript, observed, steering, approvals, cards
  <2>. QED
    BY <2>1 DEF EventTypes
<1>2. ASSUME NEW t \in Turn, NEW type \in Types, VendorEmits(t, type) PROVE EventTypes'
  <2>1. UNCHANGED <<live, deferred, steer, asked, registry, forwards, ended, sealed>>
    BY <1>2 DEF VendorEmits, sequencer, transcript, observed, steering, approvals, cards
  <2>. QED
    BY <2>1 DEF EventTypes
<1>3. CASE Lose
  <2>1. UNCHANGED <<live, deferred, steer, asked, registry, forwards, ended, sealed>>
    BY <1>3 DEF Lose, sequencer, transcript, observed, steering, approvals, cards
  <2>. QED
    BY <2>1 DEF EventTypes
<1>4. CASE Disconnect
  <2>1. UNCHANGED <<live, deferred, steer, asked, registry, forwards, ended, sealed>>
    BY <1>4 DEF Disconnect, stream, sequencer, transcript, observed, steering, approvals, cards, Terminate
  <2>. QED
    BY <2>1 DEF EventTypes
<1>5. ASSUME NEW t \in Turn, Start(t) PROVE EventTypes'
  <2>1. UNCHANGED <<live, deferred, steer, asked, registry, forwards, ended, sealed>>
    BY <1>5 DEF Start, sequencer, transcript, observed, steering, approvals, cards
  <2>. QED
    BY <2>1 DEF EventTypes
<1>6. ASSUME NEW t \in Turn, Accepted(t) PROVE EventTypes'
  <2>1. asked \in SUBSET Request
    BY DEF EventTypes
  <2>2. registry' \in [Request -> RegistryType]
    BY <1>6, <2>1, RegisteredFields DEF Accepted
  <2>3. asked' = {} /\ ended' = ended \ {t} /\ UNCHANGED <<live, deferred, steer, forwards, sealed>>
    BY <1>6 DEF Accepted, stream, transcript, observed, steering, Terminate
  <2>. QED
    BY <2>2, <2>3 DEF EventTypes
<1>7. CASE StartFails
  <2>1. UNCHANGED <<live, deferred, steer, asked, registry, forwards, ended, sealed>>
    BY <1>7 DEF StartFails, sequencer, transcript, observed, steering, approvals, cards, Terminate
  <2>. QED
    BY <2>1 DEF EventTypes
<1>8. CASE Stop
  <2>1. UNCHANGED <<live, deferred, steer, asked, registry, forwards, ended, sealed>>
    BY <1>8 DEF Stop, stream, sequencer, transcript, observed, steering, approvals, cards, Terminate
  <2>. QED
    BY <2>1 DEF EventTypes
<1>9. ASSUME NEW again \in BOOLEAN, Deliver(again) PROVE EventTypes'
  <2>. DEFINE e == Head(wire)
  <2>0. wire # <<>> /\ UNCHANGED <<steer, forwards, ended>>
    BY <1>9 DEF Deliver, transcript, steering, cards, Terminate
  <2>1. e \in Part /\ e.turn \in Turn
    BY <2>0, HeadOfWire
  <2>2. CASE stage = "run" /\ Verdict(e) = "apply"
    <3>1. Apply(e)
      BY <1>9, <2>2 DEF Deliver
    <3>2. live' \in Seq(Part) /\ deferred' \in Seq(Part)
      <4>1. live' \in {live, Append(live, e)} /\ deferred' \in {deferred, Append(deferred, e)}
        BY <3>1 DEF Apply, Report
      <4>. HIDE DEF e
      <4>2. live \in Seq(Part) /\ deferred \in Seq(Part)
        BY DEF EventTypes
      <4>3. Append(live, e) \in Seq(Part) /\ Append(deferred, e) \in Seq(Part)
        BY <2>1, <4>2
      <4>. QED
        BY <4>1, <4>2, <4>3
    <3>3. asked' \subseteq Request /\ registry' \in [Request -> RegistryType]
      <4>1. {e.turn} \in SUBSET Request
        BY <2>1 DEF Request
      <4>2. asked' \in {asked, asked \cup {e.turn}} /\ registry' \in {registry, Registered(registry, {e.turn})}
        BY <3>1 DEF Apply, Card
      <4>. HIDE DEF e
      <4>. QED
        BY <4>1, <4>2, RegisteredFields DEF EventTypes
    <3>4. sealed' \in BOOLEAN
      BY <3>1 DEF Apply, EventTypes
    <3>. QED
      BY <2>0, <3>2, <3>3, <3>4 DEF EventTypes
  <2>3. CASE ~(stage = "run" /\ Verdict(e) = "apply")
    <3>1. UNCHANGED <<sealed, live, deferred, asked, registry>>
      BY <1>9, <2>3 DEF Deliver, transcript, cards
    <3>. QED
      BY <2>0, <3>1 DEF EventTypes
  <2>. QED
    BY <2>2, <2>3
<1>10. ASSUME NEW s \in Steer, SteerTurn(s) PROVE EventTypes'
  <2>. DEFINE over == Len(parts) >= Budget
              n == [at |-> "write", turn |-> cur, over |-> over]
  <2>1. steer' = [steer EXCEPT ![s] = n] /\ sealed' = over /\ UNCHANGED <<live, deferred, asked, registry, forwards, ended>>
    BY <1>10 DEF SteerTurn, stream, sequencer, observed, approvals, cards
  <2>2. over \in BOOLEAN
    OBVIOUS
  <2>. HIDE DEF over
  <2>3. n \in SteerType
    BY <2>2 DEF SteerType, Busy, StrayInv, StreamTypes
  <2>. HIDE DEF n
  <2>. QED
    BY <2>1, <2>2, <2>3 DEF EventTypes
<1>11. ASSUME NEW s \in Steer, SteerAnswered(s) PROVE EventTypes'
  <2>1. Leave(s, "done", TRUE) \/ Leave(s, "silent", FALSE) \/ (At(s, "fix") /\ UNCHANGED <<live, deferred>>)
    BY <1>11 DEF SteerAnswered
  <2>2. UNCHANGED <<asked, registry, forwards, ended, sealed>>
    BY <1>11 DEF SteerAnswered, stream, sequencer, transcript, approvals, cards
  <2>3. steer' \in [Steer -> SteerType] /\ live' \in Seq(Part) /\ deferred' \in Seq(Part)
    BY <2>1, AtFields, LeaveFields DEF EventTypes, Busy
  <2>. QED
    BY <2>2, <2>3 DEF EventTypes
<1>12. ASSUME NEW s \in Steer, SteerWritten(s) PROVE EventTypes'
  <2>1. Leave(s, "done", TRUE) \/ Leave(s, "silent", FALSE) \/ (At(s, "fix") /\ UNCHANGED <<live, deferred>>)
          \/ (At(s, "call") /\ UNCHANGED <<live, deferred>>)
    BY <1>12 DEF SteerWritten
  <2>2. UNCHANGED <<asked, registry, forwards, ended, sealed>>
    BY <1>12 DEF SteerWritten, stream, sequencer, transcript, approvals, cards, Terminate
  <2>3. steer' \in [Steer -> SteerType] /\ live' \in Seq(Part) /\ deferred' \in Seq(Part)
    BY <2>1, AtFields, LeaveFields DEF EventTypes, Busy
  <2>. QED
    BY <2>2, <2>3 DEF EventTypes
<1>13. ASSUME NEW s \in Steer, SteerFixed(s) PROVE EventTypes'
  <2>1. Leave(s, "done", TRUE)
    BY <1>13 DEF SteerFixed
  <2>2. UNCHANGED <<asked, registry, forwards, ended, sealed>>
    BY <1>13 DEF SteerFixed, stream, sequencer, transcript, approvals, cards
  <2>3. steer' \in [Steer -> SteerType] /\ live' \in Seq(Part) /\ deferred' \in Seq(Part)
    BY <2>1, AtFields, LeaveFields DEF EventTypes, Busy
  <2>. QED
    BY <2>2, <2>3 DEF EventTypes
<1>14. ASSUME NEW s \in Steer, SteerWriteFails(s) PROVE EventTypes'
  <2>1. Leave(s, "silent", FALSE)
    BY <1>14 DEF SteerWriteFails
  <2>2. UNCHANGED <<asked, registry, forwards, ended, sealed>>
    BY <1>14 DEF SteerWriteFails, stream, sequencer, transcript, approvals, cards
  <2>3. steer' \in [Steer -> SteerType] /\ live' \in Seq(Part) /\ deferred' \in Seq(Part)
    BY <2>1, AtFields, LeaveFields DEF EventTypes, Busy
  <2>. QED
    BY <2>2, <2>3 DEF EventTypes
<1>15. ASSUME NEW c \in Client, Forwarded(c) PROVE EventTypes'
  <2>1. UNCHANGED <<live, deferred, steer, asked, registry, forwards, ended, sealed>>
    BY <1>15 DEF Forwarded, stream, sequencer, transcript, observed, steering
  <2>. QED
    BY <2>1 DEF EventTypes
<1>16. ASSUME NEW c \in Client, ForwardFails(c) PROVE EventTypes'
  <2>1. UNCHANGED <<live, deferred, steer, asked, registry, forwards, ended, sealed>>
    BY <1>16 DEF ForwardFails, stream, sequencer, transcript, observed, steering, cards
  <2>. QED
    BY <2>1 DEF EventTypes
<1>17. ASSUME NEW c \in Client, NEW r \in Request, Answer(c, r) PROVE EventTypes'
  <2>1. registry' = [registry EXCEPT ![r].resolved = TRUE] /\ forwards' = forwards \cup {[by |-> c, req |-> r]}
    BY <1>17 DEF Answer, Record
  <2>2. registry' \in [Request -> RegistryType]
    BY <2>1 DEF EventTypes, RegistryType
  <2>3. UNCHANGED <<live, deferred, steer, asked, ended, sealed>>
    BY <1>17 DEF Answer, stream, sequencer, transcript, observed, steering, cards
  <2>. QED
    BY <2>1, <2>2, <2>3 DEF EventTypes
<1>18. CASE Settled
  <2>1. live' = live \o deferred /\ deferred' = <<>> /\ sealed' = TRUE
    BY <1>18 DEF Settled
  <2>2. live' \in Seq(Part) /\ deferred' \in Seq(Part)
    BY <2>1 DEF EventTypes
  <2>3. UNCHANGED <<steer, asked, registry, forwards, ended>>
    BY <1>18 DEF Settled, stream, sequencer, steering, approvals, cards
  <2>. QED
    BY <2>1, <2>2, <2>3 DEF EventTypes
<1>19. CASE FinishMark
  <2>1. [turn |-> 0, resolved |-> FALSE] \in RegistryType
    BY TurnEventsAssumption DEF RegistryType
  <2>2. registry' \in [Request -> RegistryType]
    BY <1>19, <2>1 DEF FinishMark, EventTypes
  <2>3. ended' \subseteq Turn
    BY <1>19 DEF FinishMark, EndTurn, sequencer, EventTypes, StrayInv, StreamTypes
  <2>4. UNCHANGED <<live, deferred, steer, asked, forwards, sealed>>
    BY <1>19 DEF FinishMark, stream, sequencer, transcript, observed, steering, EndTurn
  <2>. QED
    BY <2>2, <2>3, <2>4 DEF EventTypes
<1>20. CASE FinishRow
  <2>1. live' = <<>> /\ deferred' = <<>> /\ sealed' = FALSE /\ asked' = {} /\ UNCHANGED <<steer, registry, forwards, ended>>
    BY <1>20 DEF FinishRow, stream, sequencer, steering, approvals
  <2>2. live' \in Seq(Part) /\ deferred' \in Seq(Part)
    BY <2>1
  <2>. QED
    BY <2>1, <2>2 DEF EventTypes
<1>21. CASE UNCHANGED vars
  <2>1. UNCHANGED <<live, deferred, steer, asked, registry, forwards, ended, sealed>>
    BY <1>21 DEF vars, stream, sequencer, transcript, observed, steering, approvals, cards
  <2>. QED
    BY <2>1 DEF EventTypes
<1>. QED
  BY <1>1, <1>2, <1>3, <1>4, <1>5, <1>6, <1>7, <1>8, <1>9, <1>10, <1>11, <1>12, <1>13,
     <1>14, <1>15, <1>16, <1>17, <1>18, <1>19, <1>20, <1>21
     DEF Next, VendorStep, HubStep, SteerStep, WriteStep, AnswerStep

\* The log stays numbered.
LEMMA NumberedStep == StrayInv /\ Numbered /\ [Next]_vars => Numbered'
<1>. SUFFICES ASSUME StrayInv, Numbered, [Next]_vars PROVE Numbered'
  OBVIOUS
<1>1. ASSUME NEW t \in Turn, VendorAccepts(t) PROVE Numbered'
  <2>1. UNCHANGED <<log, wire, cursor>>
    BY <1>1 DEF VendorAccepts, sequencer, transcript, observed, steering, approvals, cards
  <2>. QED
    BY <2>1 DEF Numbered
<1>2. ASSUME NEW t \in Turn, NEW type \in Types, VendorEmits(t, type) PROVE Numbered'
  <2>. DEFINE e == [k |-> "event", seq |-> Len(log) + 1, turn |-> t, type |-> type]
  <2>1. log' = Append(log, e) /\ wire' = Append(wire, e) /\ cursor' = cursor
    BY <1>2 DEF VendorEmits, sequencer, transcript, observed, steering, approvals, cards
  <2>2. e.seq = Len(log) + 1 /\ log \in Seq(Envelope) /\ wire \in Seq(Envelope) /\ cursor \in Nat
    BY DEF StrayInv, StreamTypes
  <2>. HIDE DEF e
  <2>3. Len(log') = Len(log) + 1 /\ DOMAIN log' = 1..(Len(log) + 1) /\ Len(log) \in Nat /\ DOMAIN log = 1..Len(log)
    BY <2>1, <2>2
  <2>4. \A i \in DOMAIN log' : (i \in DOMAIN log /\ log'[i] = log[i]) \/ (i = Len(log) + 1 /\ log'[i] = e)
    BY <2>1, <2>2
  <2>5. \A i \in DOMAIN wire' : (i \in DOMAIN wire /\ wire'[i] = wire[i]) \/ wire'[i] = e
    BY <2>1, <2>2
  <2>6. \A i \in DOMAIN log' : log'[i].seq = i
    BY <2>2, <2>4 DEF Numbered
  <2>7. ASSUME NEW i \in DOMAIN wire' PROVE wire'[i].seq <= Len(log') /\ wire'[i] = log'[wire'[i].seq]
    <3>1. CASE wire'[i] = e
      <4>1. log'[Len(log) + 1] = e
        BY <2>1, <2>2
      <4>. QED
        BY <2>2, <2>3, <3>1, <4>1
    <3>2. CASE i \in DOMAIN wire /\ wire'[i] = wire[i]
      <4>1. wire[i] \in Envelope
        BY <2>2, <3>2
      <4>2. wire[i].seq \in Nat /\ wire[i].seq >= 1
        BY <4>1, TurnEventsAssumption DEF Envelope
      <4>3. wire[i].seq <= Len(log) /\ wire[i] = log[wire[i].seq]
        BY <3>2 DEF Numbered
      <4>4. wire[i].seq \in DOMAIN log
        BY <2>3, <4>2, <4>3
      <4>5. log'[wire[i].seq] = log[wire[i].seq]
        BY <2>1, <2>2, <4>4
      <4>. QED
        BY <2>3, <3>2, <4>2, <4>3, <4>5
    <3>. QED
      BY <2>5, <3>1, <3>2
  <2>8. cursor' <= Len(log')
    BY <2>1, <2>2, <2>3 DEF Numbered
  <2>. QED
    BY <2>6, <2>7, <2>8 DEF Numbered
<1>3. CASE Lose
  <2>1. wire # <<>> /\ wire' = Tail(wire) /\ UNCHANGED <<log, cursor>>
    BY <1>3 DEF Lose, sequencer, transcript, observed, steering, approvals, cards
  <2>2. \A i \in DOMAIN Tail(wire) : i + 1 \in DOMAIN wire /\ Tail(wire)[i] = wire[i + 1]
    BY <2>1 DEF StrayInv, StreamTypes
  <2>. QED
    BY <2>1, <2>2 DEF Numbered
<1>4. CASE Disconnect
  <2>1. UNCHANGED <<log, wire, cursor>>
    BY <1>4 DEF Disconnect, stream, sequencer, transcript, observed, steering, approvals, cards, Terminate
  <2>. QED
    BY <2>1 DEF Numbered
<1>5. ASSUME NEW t \in Turn, Start(t) PROVE Numbered'
  <2>1. UNCHANGED <<log, wire, cursor>>
    BY <1>5 DEF Start, sequencer, transcript, observed, steering, approvals, cards
  <2>. QED
    BY <2>1 DEF Numbered
<1>6. ASSUME NEW t \in Turn, Accepted(t) PROVE Numbered'
  <2>1. UNCHANGED <<log, wire, cursor>>
    BY <1>6 DEF Accepted, stream, transcript, observed, steering, Terminate
  <2>. QED
    BY <2>1 DEF Numbered
<1>7. CASE StartFails
  <2>1. UNCHANGED <<log, wire, cursor>>
    BY <1>7 DEF StartFails, sequencer, transcript, observed, steering, approvals, cards, Terminate
  <2>. QED
    BY <2>1 DEF Numbered
<1>8. CASE Stop
  <2>1. UNCHANGED <<log, wire, cursor>>
    BY <1>8 DEF Stop, stream, sequencer, transcript, observed, steering, approvals, cards, Terminate
  <2>. QED
    BY <2>1 DEF Numbered
<1>9. ASSUME NEW again \in BOOLEAN, Deliver(again) PROVE Numbered'
  <2>. DEFINE e == Head(wire)
  <2>1. wire # <<>> /\ wire' \in {wire, Tail(wire)} /\ UNCHANGED log
    BY <1>9 DEF Deliver, transcript, steering, cards, Terminate
  <2>2. \A i \in DOMAIN Tail(wire) : i + 1 \in DOMAIN wire /\ Tail(wire)[i] = wire[i + 1]
    BY <2>1 DEF StrayInv, StreamTypes
  <2>3. e.seq \in Nat /\ e.seq <= Len(log) /\ cursor <= Len(log)
    BY <2>1, HeadOfWire DEF Numbered
  <2>4. cursor' = cursor \/ cursor' = e.seq
    BY <1>9 DEF Deliver, Advance
  <2>5. cursor' <= Len(log')
    BY <2>1, <2>3, <2>4
  <2>6. \A i \in DOMAIN wire' : \E j \in DOMAIN wire : wire'[i] = wire[j]
    BY <2>1, <2>2
  <2>. QED
    BY <2>1, <2>5, <2>6 DEF Numbered
<1>10. ASSUME NEW s \in Steer, SteerTurn(s) PROVE Numbered'
  <2>1. UNCHANGED <<log, wire, cursor>>
    BY <1>10 DEF SteerTurn, stream, sequencer, observed, approvals, cards
  <2>. QED
    BY <2>1 DEF Numbered
<1>11. ASSUME NEW s \in Steer, SteerAnswered(s) PROVE Numbered'
  <2>1. UNCHANGED <<log, wire, cursor>>
    BY <1>11 DEF SteerAnswered, stream, sequencer, transcript, approvals, cards
  <2>. QED
    BY <2>1 DEF Numbered
<1>12. ASSUME NEW s \in Steer, SteerWritten(s) PROVE Numbered'
  <2>1. UNCHANGED <<log, wire, cursor>>
    BY <1>12 DEF SteerWritten, stream, sequencer, transcript, approvals, cards, Terminate
  <2>. QED
    BY <2>1 DEF Numbered
<1>13. ASSUME NEW s \in Steer, SteerFixed(s) PROVE Numbered'
  <2>1. UNCHANGED <<log, wire, cursor>>
    BY <1>13 DEF SteerFixed, stream, sequencer, transcript, approvals, cards
  <2>. QED
    BY <2>1 DEF Numbered
<1>14. ASSUME NEW s \in Steer, SteerWriteFails(s) PROVE Numbered'
  <2>1. UNCHANGED <<log, wire, cursor>>
    BY <1>14 DEF SteerWriteFails, stream, sequencer, transcript, approvals, cards
  <2>. QED
    BY <2>1 DEF Numbered
<1>15. ASSUME NEW c \in Client, Forwarded(c) PROVE Numbered'
  <2>1. UNCHANGED <<log, wire, cursor>>
    BY <1>15 DEF Forwarded, stream, sequencer, transcript, observed, steering
  <2>. QED
    BY <2>1 DEF Numbered
<1>16. ASSUME NEW c \in Client, ForwardFails(c) PROVE Numbered'
  <2>1. UNCHANGED <<log, wire, cursor>>
    BY <1>16 DEF ForwardFails, stream, sequencer, transcript, observed, steering, cards
  <2>. QED
    BY <2>1 DEF Numbered
<1>17. ASSUME NEW c \in Client, NEW r \in Request, Answer(c, r) PROVE Numbered'
  <2>1. UNCHANGED <<log, wire, cursor>>
    BY <1>17 DEF Answer, stream, sequencer, transcript, observed, steering, cards
  <2>. QED
    BY <2>1 DEF Numbered
<1>18. CASE Settled
  <2>1. UNCHANGED <<log, wire, cursor>>
    BY <1>18 DEF Settled, stream, sequencer, steering, approvals, cards
  <2>. QED
    BY <2>1 DEF Numbered
<1>19. CASE FinishMark
  <2>1. UNCHANGED <<log, wire, cursor>>
    BY <1>19 DEF FinishMark, stream, sequencer, transcript, observed, steering, EndTurn
  <2>. QED
    BY <2>1 DEF Numbered
<1>20. CASE FinishRow
  <2>1. UNCHANGED <<log, wire, cursor>>
    BY <1>20 DEF FinishRow, stream, sequencer, steering, approvals
  <2>. QED
    BY <2>1 DEF Numbered
<1>21. CASE UNCHANGED vars
  <2>1. UNCHANGED <<log, wire, cursor>>
    BY <1>21 DEF vars, stream, sequencer, transcript, observed, steering, approvals, cards
  <2>. QED
    BY <2>1 DEF Numbered
<1>. QED
  BY <1>1, <1>2, <1>3, <1>4, <1>5, <1>6, <1>7, <1>8, <1>9, <1>10, <1>11, <1>12, <1>13,
     <1>14, <1>15, <1>16, <1>17, <1>18, <1>19, <1>20, <1>21
     DEF Next, VendorStep, HubStep, SteerStep, WriteStep, AnswerStep

\* Turns asked for stay asked for.
LEMMA AskedFrame ==
    ASSUME StrayInv, EventTypes, AskedFirst,
           \A u \in Turn : vendor[u] # "unasked" => vendor'[u] # "unasked",
           \A i \in DOMAIN log' : (i \in DOMAIN log /\ log'[i] = log[i]) \/ vendor'[log'[i].turn] # "unasked",
           \A u \in ended' : u \in ended \/ vendor'[u] # "unasked",
           cur' = cur \/ cur' = 0 \/ vendor'[cur'] # "unasked",
           \A x \in Steer : steer'[x].at # "none" =>
               \/ steer'[x].turn = steer[x].turn /\ steer[x].at # "none"
               \/ steer'[x].turn # 0 /\ vendor'[steer'[x].turn] # "unasked"
    PROVE  AskedFirst'
<1>1. \A i \in DOMAIN log : log[i].turn \in Turn
  <2>1. \A i \in DOMAIN log : log[i] \in Envelope
    BY DEF StrayInv, StreamTypes
  <2>. QED
    BY <2>1 DEF Envelope
<1>2. ended \subseteq Turn /\ \A x \in Steer : steer[x].turn \in 0..MaxTurn
  BY DEF EventTypes, SteerType
<1>3. \A x \in Steer : steer[x].turn # 0 => steer[x].turn \in Turn
  BY <1>2, TurnEventsAssumption DEF Turn
<1>4. cur # 0 => cur \in Turn
  BY TurnEventsAssumption DEF Turn, StrayInv, StreamTypes
<1>5. \A i \in DOMAIN log' : vendor'[log'[i].turn] # "unasked"
  BY <1>1 DEF AskedFirst
<1>6. \A u \in ended' : vendor'[u] # "unasked"
  BY <1>2 DEF AskedFirst
<1>7. cur' # 0 => vendor'[cur'] # "unasked"
  BY <1>4 DEF AskedFirst
<1>8. \A x \in Steer : steer'[x].at # "none" => steer'[x].turn # 0 /\ vendor'[steer'[x].turn] # "unasked"
  BY <1>3 DEF AskedFirst
<1>. QED
  BY <1>5, <1>6, <1>7, <1>8 DEF AskedFirst

\* Only turns that were asked for have events or an end.
LEMMA AskedStep == StrayInv /\ EventTypes /\ AskedFirst /\ [Next]_vars => AskedFirst'
<1>. SUFFICES ASSUME StrayInv, EventTypes, AskedFirst, [Next]_vars PROVE AskedFirst'
  OBVIOUS
<1>1. ASSUME NEW t \in Turn, VendorAccepts(t) PROVE AskedFirst'
  <2>1. UNCHANGED <<log, ended, cur, steer>> /\ vendor' = [vendor EXCEPT ![t] = "run"]
    BY <1>1 DEF VendorAccepts, sequencer, transcript, observed, steering, approvals, cards
  <2>2. \A u \in Turn : vendor[u] # "unasked" => vendor'[u] # "unasked"
    BY <2>1 DEF StrayInv, StreamTypes
  <2>. QED
    BY <2>1, <2>2, AskedFrame
<1>2. ASSUME NEW t \in Turn, NEW type \in Types, VendorEmits(t, type) PROVE AskedFirst'
  <2>. DEFINE e == [k |-> "event", seq |-> Len(log) + 1, turn |-> t, type |-> type]
  <2>1. /\ UNCHANGED <<ended, cur, steer>> /\ vendor[t] \in {"run", "over"}
        /\ vendor' = vendor \/ vendor' = [vendor EXCEPT ![t] = "over"]
    BY <1>2 DEF VendorEmits, sequencer, transcript, observed, steering, approvals, cards
  <2>2. \A u \in Turn : vendor[u] # "unasked" => vendor'[u] # "unasked"
    BY <2>1 DEF StrayInv, StreamTypes
  <2>3. log' = Append(log, e) /\ e.turn = t /\ vendor'[t] # "unasked"
    BY <1>2, <2>1, <2>2 DEF VendorEmits
  <2>. HIDE DEF e
  <2>4. \A i \in DOMAIN log' : (i \in DOMAIN log /\ log'[i] = log[i]) \/ log'[i] = e
    BY <2>3 DEF StrayInv, StreamTypes
  <2>. QED
    BY <2>1, <2>2, <2>3, <2>4, AskedFrame
<1>3. CASE Lose
  <2>1. UNCHANGED <<log, vendor, ended, cur, steer>>
    BY <1>3 DEF Lose, sequencer, transcript, observed, steering, approvals, cards
  <2>. QED
    BY <2>1 DEF AskedFirst
<1>4. CASE Disconnect
  <2>1. UNCHANGED <<log, vendor, ended, cur, steer>>
    BY <1>4 DEF Disconnect, stream, sequencer, transcript, observed, steering, approvals, cards, Terminate
  <2>. QED
    BY <2>1 DEF AskedFirst
<1>5. ASSUME NEW t \in Turn, Start(t) PROVE AskedFirst'
  <2>1. UNCHANGED <<log, ended, steer>> /\ vendor' = [vendor EXCEPT ![t] = "asked"] /\ cur' = t
    BY <1>5 DEF Start, sequencer, transcript, observed, steering, approvals, cards
  <2>2. (\A u \in Turn : vendor[u] # "unasked" => vendor'[u] # "unasked") /\ vendor'[t] # "unasked"
    BY <2>1 DEF StrayInv, StreamTypes
  <2>. QED
    BY <2>1, <2>2, AskedFrame
<1>6. ASSUME NEW t \in Turn, Accepted(t) PROVE AskedFirst'
  <2>1. UNCHANGED <<log, vendor, cur, steer>> /\ ended' \subseteq ended
    BY <1>6 DEF Accepted, stream, transcript, observed, steering, Terminate
  <2>. QED
    BY <2>1, AskedFrame
<1>7. CASE StartFails
  <2>1. UNCHANGED <<log, ended, cur, steer>> /\ (vendor' = vendor \/ vendor' = [vendor EXCEPT ![cur] = "refused"])
    BY <1>7 DEF StartFails, sequencer, transcript, observed, steering, approvals, cards, Terminate
  <2>2. \A u \in Turn : vendor[u] # "unasked" => vendor'[u] # "unasked"
    BY <2>1 DEF StrayInv, StreamTypes
  <2>. QED
    BY <2>1, <2>2, AskedFrame
<1>8. CASE Stop
  <2>1. UNCHANGED <<log, vendor, ended, cur, steer>>
    BY <1>8 DEF Stop, stream, sequencer, transcript, observed, steering, approvals, cards, Terminate
  <2>. QED
    BY <2>1 DEF AskedFirst
<1>9. ASSUME NEW again \in BOOLEAN, Deliver(again) PROVE AskedFirst'
  <2>1. UNCHANGED <<log, vendor, ended, cur, steer>>
    BY <1>9 DEF Deliver, transcript, steering, cards, Terminate
  <2>. QED
    BY <2>1 DEF AskedFirst
<1>10. ASSUME NEW s \in Steer, SteerTurn(s) PROVE AskedFirst'
  <2>. DEFINE n == [at |-> "write", turn |-> cur, over |-> Len(parts) >= Budget]
  <2>1. UNCHANGED <<log, vendor, ended, cur>> /\ steer' = [steer EXCEPT ![s] = n] /\ stage = "run" /\ n.turn = cur
    BY <1>10 DEF SteerTurn, stream, sequencer, observed, approvals, cards
  <2>. HIDE DEF n
  <2>2. cur # 0 /\ vendor[cur] # "unasked"
    BY <2>1 DEF StrayInv, Stages, AskedFirst
  <2>3. \A x \in Steer : steer'[x] = steer[x] \/ steer'[x] = n
    BY <2>1 DEF EventTypes
  <2>4. \A x \in Steer : steer'[x].at # "none" => steer'[x].turn # 0 /\ vendor[steer'[x].turn] # "unasked"
    BY <2>1, <2>2, <2>3 DEF AskedFirst
  <2>. QED
    BY <2>1, <2>4, AskedFrame
<1>11. ASSUME NEW s \in Steer, SteerAnswered(s) PROVE AskedFirst'
  <2>1. Leave(s, "done", TRUE) \/ Leave(s, "silent", FALSE) \/ At(s, "fix")
    BY <1>11 DEF SteerAnswered
  <2>2. UNCHANGED <<log, vendor, ended, cur>> /\ steer[s].at # "none"
    BY <1>11 DEF SteerAnswered, stream, sequencer, transcript, approvals, cards
  <2>3. /\ \A x \in Steer : x # s => steer'[x] = steer[x]
        /\ steer'[s].turn = steer[s].turn
    BY <2>1, AtFields, LeaveFields DEF Busy
  <2>4. \A x \in Steer : steer'[x].at # "none" => steer[x].at # "none" /\ steer'[x].turn = steer[x].turn
    BY <2>2, <2>3
  <2>. QED
    BY <2>2, <2>4, AskedFrame DEF AskedFirst
<1>12. ASSUME NEW s \in Steer, SteerWritten(s) PROVE AskedFirst'
  <2>1. Leave(s, "done", TRUE) \/ Leave(s, "silent", FALSE) \/ At(s, "fix") \/ At(s, "call")
    BY <1>12 DEF SteerWritten
  <2>2. UNCHANGED <<log, vendor, ended, cur>> /\ steer[s].at # "none"
    BY <1>12 DEF SteerWritten, stream, sequencer, transcript, approvals, cards, Terminate
  <2>3. /\ \A x \in Steer : x # s => steer'[x] = steer[x]
        /\ steer'[s].turn = steer[s].turn
    BY <2>1, AtFields, LeaveFields DEF Busy
  <2>4. \A x \in Steer : steer'[x].at # "none" => steer[x].at # "none" /\ steer'[x].turn = steer[x].turn
    BY <2>2, <2>3
  <2>. QED
    BY <2>2, <2>4, AskedFrame DEF AskedFirst
<1>13. ASSUME NEW s \in Steer, SteerFixed(s) PROVE AskedFirst'
  <2>1. Leave(s, "done", TRUE)
    BY <1>13 DEF SteerFixed
  <2>2. UNCHANGED <<log, vendor, ended, cur>> /\ steer[s].at # "none"
    BY <1>13 DEF SteerFixed, stream, sequencer, transcript, approvals, cards
  <2>3. /\ \A x \in Steer : x # s => steer'[x] = steer[x]
        /\ steer'[s].turn = steer[s].turn
    BY <2>1, AtFields, LeaveFields DEF Busy
  <2>4. \A x \in Steer : steer'[x].at # "none" => steer[x].at # "none" /\ steer'[x].turn = steer[x].turn
    BY <2>2, <2>3
  <2>. QED
    BY <2>2, <2>4, AskedFrame DEF AskedFirst
<1>14. ASSUME NEW s \in Steer, SteerWriteFails(s) PROVE AskedFirst'
  <2>1. Leave(s, "silent", FALSE)
    BY <1>14 DEF SteerWriteFails
  <2>2. UNCHANGED <<log, vendor, ended, cur>> /\ steer[s].at # "none"
    BY <1>14 DEF SteerWriteFails, stream, sequencer, transcript, approvals, cards
  <2>3. /\ \A x \in Steer : x # s => steer'[x] = steer[x]
        /\ steer'[s].turn = steer[s].turn
    BY <2>1, AtFields, LeaveFields DEF Busy
  <2>4. \A x \in Steer : steer'[x].at # "none" => steer[x].at # "none" /\ steer'[x].turn = steer[x].turn
    BY <2>2, <2>3
  <2>. QED
    BY <2>2, <2>4, AskedFrame DEF AskedFirst
<1>15. ASSUME NEW c \in Client, Forwarded(c) PROVE AskedFirst'
  <2>1. UNCHANGED <<log, vendor, ended, cur, steer>>
    BY <1>15 DEF Forwarded, stream, sequencer, transcript, observed, steering
  <2>. QED
    BY <2>1 DEF AskedFirst
<1>16. ASSUME NEW c \in Client, ForwardFails(c) PROVE AskedFirst'
  <2>1. UNCHANGED <<log, vendor, ended, cur, steer>>
    BY <1>16 DEF ForwardFails, stream, sequencer, transcript, observed, steering, cards
  <2>. QED
    BY <2>1 DEF AskedFirst
<1>17. ASSUME NEW c \in Client, NEW r \in Request, Answer(c, r) PROVE AskedFirst'
  <2>1. UNCHANGED <<log, vendor, ended, cur, steer>>
    BY <1>17 DEF Answer, stream, sequencer, transcript, observed, steering, cards
  <2>. QED
    BY <2>1 DEF AskedFirst
<1>18. CASE Settled
  <2>1. UNCHANGED <<log, vendor, ended, cur, steer>>
    BY <1>18 DEF Settled, stream, sequencer, steering, approvals, cards
  <2>. QED
    BY <2>1 DEF AskedFirst
<1>19. CASE FinishMark
  <2>1. UNCHANGED <<log, vendor, cur, steer>>
    BY <1>19 DEF FinishMark, stream, sequencer, transcript, observed, steering, EndTurn
  <2>2. ended' \subseteq ended \cup {cur} /\ cur # 0
    BY <1>19 DEF FinishMark, EndTurn, sequencer, StrayInv, Stages
  <2>3. \A u \in ended' : vendor'[u] # "unasked"
    BY <2>1, <2>2 DEF AskedFirst
  <2>. QED
    BY <2>1, <2>3, AskedFrame
<1>20. CASE FinishRow
  <2>1. UNCHANGED <<log, vendor, ended, steer>> /\ cur' = 0
    BY <1>20 DEF FinishRow, stream, sequencer, steering, approvals
  <2>. QED
    BY <2>1, AskedFrame
<1>21. CASE UNCHANGED vars
  <2>1. UNCHANGED <<log, vendor, ended, cur, steer>>
    BY <1>21 DEF vars, stream, sequencer, transcript, observed, steering, approvals, cards
  <2>. QED
    BY <2>1 DEF AskedFirst
<1>. QED
  BY <1>1, <1>2, <1>3, <1>4, <1>5, <1>6, <1>7, <1>8, <1>9, <1>10, <1>11, <1>12, <1>13,
     <1>14, <1>15, <1>16, <1>17, <1>18, <1>19, <1>20, <1>21
     DEF Next, VendorStep, HubStep, SteerStep, WriteStep, AnswerStep

\* The sequencer's turn is the hub's.
LEMMA LiveTurnStep == StrayInv /\ AskedFirst /\ OneLiveTurn /\ [Next]_vars => OneLiveTurn'
<1>. SUFFICES ASSUME StrayInv, AskedFirst, OneLiveTurn, [Next]_vars PROVE OneLiveTurn'
  OBVIOUS
<1>1. ASSUME NEW t \in Turn, VendorAccepts(t) PROVE OneLiveTurn'
  <2>1. UNCHANGED <<liveTurn, ended, cur, bound, stage>>
    BY <1>1 DEF VendorAccepts, sequencer, transcript, observed, steering, approvals, cards
  <2>. QED
    BY <2>1 DEF OneLiveTurn
<1>2. ASSUME NEW t \in Turn, NEW type \in Types, VendorEmits(t, type) PROVE OneLiveTurn'
  <2>1. UNCHANGED <<liveTurn, ended, cur, bound, stage>>
    BY <1>2 DEF VendorEmits, sequencer, transcript, observed, steering, approvals, cards
  <2>. QED
    BY <2>1 DEF OneLiveTurn
<1>3. CASE Lose
  <2>1. UNCHANGED <<liveTurn, ended, cur, bound, stage>>
    BY <1>3 DEF Lose, sequencer, transcript, observed, steering, approvals, cards
  <2>. QED
    BY <2>1 DEF OneLiveTurn
<1>4. CASE Disconnect
  <2>1. /\ UNCHANGED <<liveTurn, ended, cur, bound>>
        /\ \/ stage' = stage
           \/ stage = "run" /\ stage' = "closing"
           \/ stage = "closing" /\ stage' = "settled"
    BY <1>4 DEF Disconnect, stream, sequencer, transcript, observed, steering, approvals, cards, Terminate
  <2>. QED
    BY <2>1 DEF OneLiveTurn
<1>5. ASSUME NEW t \in Turn, Start(t) PROVE OneLiveTurn'
  <2>1. UNCHANGED <<liveTurn, ended, bound>> /\ cur' = t /\ stage = "idle" /\ vendor[t] = "unasked"
    BY <1>5 DEF Start, sequencer, transcript, observed, steering, approvals, cards
  <2>. QED
    BY <2>1 DEF OneLiveTurn, AskedFirst
<1>6. ASSUME NEW t \in Turn, Accepted(t) PROVE OneLiveTurn'
  BY <1>6 DEF Accepted, stream, transcript, observed, steering, Terminate, OneLiveTurn
<1>7. CASE StartFails
  <2>1. /\ UNCHANGED <<liveTurn, ended, cur, bound>>
        /\ \/ stage' = stage
           \/ stage = "run" /\ stage' = "closing"
           \/ stage = "closing" /\ stage' = "settled"
    BY <1>7 DEF StartFails, sequencer, transcript, observed, steering, approvals, cards, Terminate
  <2>. QED
    BY <2>1 DEF OneLiveTurn
<1>8. CASE Stop
  <2>1. /\ UNCHANGED <<liveTurn, ended, cur, bound>>
        /\ \/ stage' = stage
           \/ stage = "run" /\ stage' = "closing"
           \/ stage = "closing" /\ stage' = "settled"
    BY <1>8 DEF Stop, stream, sequencer, transcript, observed, steering, approvals, cards, Terminate
  <2>. QED
    BY <2>1 DEF OneLiveTurn
<1>9. ASSUME NEW again \in BOOLEAN, Deliver(again) PROVE OneLiveTurn'
  <2>1. /\ UNCHANGED <<liveTurn, ended, cur, bound>>
        /\ \/ stage' = stage
           \/ stage = "run" /\ stage' = "closing"
           \/ stage = "closing" /\ stage' = "settled"
    BY <1>9 DEF Deliver, transcript, steering, cards, Terminate, Apply, Terminate
  <2>. QED
    BY <2>1 DEF OneLiveTurn
<1>10. ASSUME NEW s \in Steer, SteerTurn(s) PROVE OneLiveTurn'
  <2>1. UNCHANGED <<liveTurn, ended, cur, bound, stage>>
    BY <1>10 DEF SteerTurn, stream, sequencer, observed, approvals, cards
  <2>. QED
    BY <2>1 DEF OneLiveTurn
<1>11. ASSUME NEW s \in Steer, SteerAnswered(s) PROVE OneLiveTurn'
  <2>1. UNCHANGED <<liveTurn, ended, cur, bound, stage>>
    BY <1>11 DEF SteerAnswered, stream, sequencer, transcript, approvals, cards
  <2>. QED
    BY <2>1 DEF OneLiveTurn
<1>12. ASSUME NEW s \in Steer, SteerWritten(s) PROVE OneLiveTurn'
  <2>1. /\ UNCHANGED <<liveTurn, ended, cur, bound>>
        /\ \/ stage' = stage
           \/ stage = "run" /\ stage' = "closing"
           \/ stage = "closing" /\ stage' = "settled"
    BY <1>12 DEF SteerWritten, stream, sequencer, transcript, approvals, cards, Terminate
  <2>. QED
    BY <2>1 DEF OneLiveTurn
<1>13. ASSUME NEW s \in Steer, SteerFixed(s) PROVE OneLiveTurn'
  <2>1. UNCHANGED <<liveTurn, ended, cur, bound, stage>>
    BY <1>13 DEF SteerFixed, stream, sequencer, transcript, approvals, cards
  <2>. QED
    BY <2>1 DEF OneLiveTurn
<1>14. ASSUME NEW s \in Steer, SteerWriteFails(s) PROVE OneLiveTurn'
  <2>1. UNCHANGED <<liveTurn, ended, cur, bound, stage>>
    BY <1>14 DEF SteerWriteFails, stream, sequencer, transcript, approvals, cards
  <2>. QED
    BY <2>1 DEF OneLiveTurn
<1>15. ASSUME NEW c \in Client, Forwarded(c) PROVE OneLiveTurn'
  <2>1. UNCHANGED <<liveTurn, ended, cur, bound, stage>>
    BY <1>15 DEF Forwarded, stream, sequencer, transcript, observed, steering
  <2>. QED
    BY <2>1 DEF OneLiveTurn
<1>16. ASSUME NEW c \in Client, ForwardFails(c) PROVE OneLiveTurn'
  <2>1. UNCHANGED <<liveTurn, ended, cur, bound, stage>>
    BY <1>16 DEF ForwardFails, stream, sequencer, transcript, observed, steering, cards
  <2>. QED
    BY <2>1 DEF OneLiveTurn
<1>17. ASSUME NEW c \in Client, NEW r \in Request, Answer(c, r) PROVE OneLiveTurn'
  <2>1. UNCHANGED <<liveTurn, ended, cur, bound, stage>>
    BY <1>17 DEF Answer, stream, sequencer, transcript, observed, steering, cards
  <2>. QED
    BY <2>1 DEF OneLiveTurn
<1>18. CASE Settled
  <2>1. /\ UNCHANGED <<liveTurn, ended, cur, bound>>
        /\ \/ stage' = stage
           \/ stage = "run" /\ stage' = "closing"
           \/ stage = "closing" /\ stage' = "settled"
    BY <1>18 DEF Settled, stream, sequencer, steering, approvals, cards
  <2>. QED
    BY <2>1 DEF OneLiveTurn
<1>19. CASE FinishMark
  BY <1>19 DEF FinishMark, stream, sequencer, transcript, observed, steering, EndTurn, OneLiveTurn
<1>20. CASE FinishRow
  BY <1>20 DEF FinishRow, stream, sequencer, steering, approvals, OneLiveTurn
<1>21. CASE UNCHANGED vars
  <2>1. UNCHANGED <<liveTurn, ended, cur, bound, stage>>
    BY <1>21 DEF vars, stream, sequencer, transcript, observed, steering, approvals, cards
  <2>. QED
    BY <2>1 DEF OneLiveTurn
<1>. QED
  BY <1>1, <1>2, <1>3, <1>4, <1>5, <1>6, <1>7, <1>8, <1>9, <1>10, <1>11, <1>12, <1>13,
     <1>14, <1>15, <1>16, <1>17, <1>18, <1>19, <1>20, <1>21
     DEF Next, VendorStep, HubStep, SteerStep, WriteStep, AnswerStep

\* What the sequencer drops never looks like loss.
LEMMA LossStep ==
    StrayInv /\ Numbered /\ NothingMissing /\ NoFalseLoss /\ [Next]_vars => (NothingMissing /\ NoFalseLoss)'
<1>. SUFFICES ASSUME StrayInv, Numbered, NothingMissing, NoFalseLoss, [Next]_vars PROVE (NothingMissing /\ NoFalseLoss)'
  OBVIOUS
<1>1. ASSUME NEW t \in Turn, VendorAccepts(t) PROVE (NothingMissing /\ NoFalseLoss)'
  <2>1. UNCHANGED <<log, wire, cursor, lost, reason>>
    BY <1>1 DEF VendorAccepts, sequencer, transcript, observed, steering, approvals, cards
  <2>. QED
    BY <2>1 DEF NothingMissing, NoFalseLoss
<1>2. ASSUME NEW t \in Turn, NEW type \in Types, VendorEmits(t, type) PROVE (NothingMissing /\ NoFalseLoss)'
  <2>. DEFINE e == [k |-> "event", seq |-> Len(log) + 1, turn |-> t, type |-> type]
  <2>1. log' = Append(log, e) /\ wire' = Append(wire, e) /\ UNCHANGED <<cursor, lost, reason>>
    BY <1>2 DEF VendorEmits, sequencer, transcript, observed, steering, approvals, cards
  <2>2. e.seq = Len(log) + 1 /\ log \in Seq(Envelope) /\ wire \in Seq(Envelope) /\ cursor \in Nat
    BY DEF StrayInv, StreamTypes
  <2>. HIDE DEF e
  <2>3. Len(log') = Len(log) + 1 /\ Len(wire') = Len(wire) + 1 /\ Len(log) \in Nat /\ Len(wire) \in Nat
    BY <2>1, <2>2
  <2>4. \A i \in DOMAIN wire' : i \in Nat /\ ((i \in DOMAIN wire /\ wire'[i] = wire[i]) \/ (i = Len(wire) + 1 /\ wire'[i] = e))
    BY <2>1, <2>2
  <2>5. Len(log') - Len(wire') = Len(log) - Len(wire)
    BY <2>3
  <2>6. lost = {} => \A i \in DOMAIN wire' : wire'[i].seq = Len(log) - Len(wire) + i
    <3>1. lost = {} => \A i \in DOMAIN wire : wire[i].seq = Len(log) - Len(wire) + i
      BY DEF NothingMissing
    <3>2. e.seq = Len(log) - Len(wire) + (Len(wire) + 1)
      BY <2>2, <2>3
    <3>. QED
      BY <2>4, <3>1, <3>2
  <2>. QED
    BY <2>1, <2>5, <2>6 DEF NothingMissing, NoFalseLoss
<1>3. CASE Lose
  <2>1. lost' = lost \cup {Head(wire).seq} /\ reason' = reason
    BY <1>3 DEF Lose, sequencer, transcript, observed, steering, approvals, cards
  <2>2. lost' # {}
    BY <2>1
  <2>. QED
    BY <2>2 DEF NothingMissing, NoFalseLoss
<1>4. CASE Disconnect
  <2>1. UNCHANGED <<log, wire, cursor, lost>> /\ (reason' = reason \/ reason' # "sequence-gap")
    BY <1>4 DEF Disconnect, stream, sequencer, transcript, observed, steering, approvals, cards, Terminate
  <2>. QED
    BY <2>1 DEF NothingMissing, NoFalseLoss
<1>5. ASSUME NEW t \in Turn, Start(t) PROVE (NothingMissing /\ NoFalseLoss)'
  <2>1. UNCHANGED <<log, wire, cursor, lost, reason>>
    BY <1>5 DEF Start, sequencer, transcript, observed, steering, approvals, cards
  <2>. QED
    BY <2>1 DEF NothingMissing, NoFalseLoss
<1>6. ASSUME NEW t \in Turn, Accepted(t) PROVE (NothingMissing /\ NoFalseLoss)'
  <2>1. UNCHANGED <<log, wire, cursor, lost>> /\ (reason' = reason \/ reason' # "sequence-gap")
    BY <1>6 DEF Accepted, stream, transcript, observed, steering, Terminate
  <2>. QED
    BY <2>1 DEF NothingMissing, NoFalseLoss
<1>7. CASE StartFails
  <2>1. UNCHANGED <<log, wire, cursor, lost>> /\ (reason' = reason \/ reason' # "sequence-gap")
    BY <1>7 DEF StartFails, sequencer, transcript, observed, steering, approvals, cards, Terminate
  <2>. QED
    BY <2>1 DEF NothingMissing, NoFalseLoss
<1>8. CASE Stop
  <2>1. UNCHANGED <<log, wire, cursor, lost>> /\ (reason' = reason \/ reason' # "sequence-gap")
    BY <1>8 DEF Stop, stream, sequencer, transcript, observed, steering, approvals, cards, Terminate
  <2>. QED
    BY <2>1 DEF NothingMissing, NoFalseLoss
<1>9. ASSUME NEW again \in BOOLEAN, Deliver(again) PROVE (NothingMissing /\ NoFalseLoss)'
  <2>. DEFINE e == Head(wire)
  <2>1. wire # <<>> /\ wire' = (IF again THEN wire ELSE Tail(wire)) /\ UNCHANGED <<log, lost>>
    BY <1>9 DEF Deliver, transcript, steering, cards, Terminate
  <2>2. wire \in Seq(Envelope) /\ Len(log) \in Nat /\ Len(wire) \in Nat /\ cursor \in Nat /\ Len(wire) >= 1
    BY <2>1 DEF StrayInv, StreamTypes
  <2>3. e = wire[1] /\ 1 \in DOMAIN wire /\ e.seq \in Nat
    BY <2>1, <2>2, HeadOfWire
  <2>4. lost = {} => e.seq = Len(log) - Len(wire) + 1 /\ cursor >= Len(log) - Len(wire)
    BY <2>3 DEF NothingMissing
  <2>5. lost = {} => e.seq <= cursor + 1
    BY <2>2, <2>4
  <2>6. /\ cursor' \in Nat /\ cursor <= cursor' /\ (e.seq <= cursor' \/ Verdict(e) = "gap")
        /\ Verdict(e) = "gap" => e.seq > cursor + 1
    BY <1>9, CursorFields
  <2>. HIDE DEF e
  <2>7. lost = {} => Verdict(e) # "gap" /\ e.seq <= cursor'
    BY <2>2, <2>3, <2>5, <2>6
  <2>8. reason' = "sequence-gap" => reason = "sequence-gap" \/ Verdict(e) = "gap"
    BY <1>9 DEF Deliver, Apply, Terminate, Ending, e
  <2>9. CASE again
    <3>1. lost = {} => cursor' >= Len(log) - Len(wire)
      BY <2>2, <2>4, <2>6
    <3>. QED
      BY <2>1, <2>7, <2>8, <2>9, <3>1 DEF NothingMissing, NoFalseLoss
  <2>10. CASE ~again
    <3>1. Len(Tail(wire)) = Len(wire) - 1
      BY <2>1, <2>2
    <3>2. \A i \in DOMAIN Tail(wire) : i \in Nat /\ i + 1 \in DOMAIN wire /\ Tail(wire)[i] = wire[i + 1]
      BY <2>1, <2>2
    <3>3. lost = {} => \A i \in DOMAIN Tail(wire) : Tail(wire)[i].seq = Len(log) - Len(wire) + (i + 1)
      BY <3>2 DEF NothingMissing
    <3>4. lost = {} => \A i \in DOMAIN Tail(wire) : Tail(wire)[i].seq = Len(log) - Len(Tail(wire)) + i
      BY <2>2, <3>1, <3>2, <3>3
    <3>5. lost = {} => cursor' >= Len(log) - Len(Tail(wire))
      BY <2>2, <2>4, <2>6, <2>7, <3>1
    <3>. QED
      BY <2>1, <2>7, <2>8, <2>10, <3>4, <3>5 DEF NothingMissing, NoFalseLoss
  <2>. QED
    BY <2>9, <2>10
<1>10. ASSUME NEW s \in Steer, SteerTurn(s) PROVE (NothingMissing /\ NoFalseLoss)'
  <2>1. UNCHANGED <<log, wire, cursor, lost, reason>>
    BY <1>10 DEF SteerTurn, stream, sequencer, observed, approvals, cards
  <2>. QED
    BY <2>1 DEF NothingMissing, NoFalseLoss
<1>11. ASSUME NEW s \in Steer, SteerAnswered(s) PROVE (NothingMissing /\ NoFalseLoss)'
  <2>1. UNCHANGED <<log, wire, cursor, lost, reason>>
    BY <1>11 DEF SteerAnswered, stream, sequencer, transcript, approvals, cards
  <2>. QED
    BY <2>1 DEF NothingMissing, NoFalseLoss
<1>12. ASSUME NEW s \in Steer, SteerWritten(s) PROVE (NothingMissing /\ NoFalseLoss)'
  <2>1. UNCHANGED <<log, wire, cursor, lost>> /\ (reason' = reason \/ reason' # "sequence-gap")
    BY <1>12 DEF SteerWritten, stream, sequencer, transcript, approvals, cards, Terminate
  <2>. QED
    BY <2>1 DEF NothingMissing, NoFalseLoss
<1>13. ASSUME NEW s \in Steer, SteerFixed(s) PROVE (NothingMissing /\ NoFalseLoss)'
  <2>1. UNCHANGED <<log, wire, cursor, lost, reason>>
    BY <1>13 DEF SteerFixed, stream, sequencer, transcript, approvals, cards
  <2>. QED
    BY <2>1 DEF NothingMissing, NoFalseLoss
<1>14. ASSUME NEW s \in Steer, SteerWriteFails(s) PROVE (NothingMissing /\ NoFalseLoss)'
  <2>1. UNCHANGED <<log, wire, cursor, lost, reason>>
    BY <1>14 DEF SteerWriteFails, stream, sequencer, transcript, approvals, cards
  <2>. QED
    BY <2>1 DEF NothingMissing, NoFalseLoss
<1>15. ASSUME NEW c \in Client, Forwarded(c) PROVE (NothingMissing /\ NoFalseLoss)'
  <2>1. UNCHANGED <<log, wire, cursor, lost, reason>>
    BY <1>15 DEF Forwarded, stream, sequencer, transcript, observed, steering
  <2>. QED
    BY <2>1 DEF NothingMissing, NoFalseLoss
<1>16. ASSUME NEW c \in Client, ForwardFails(c) PROVE (NothingMissing /\ NoFalseLoss)'
  <2>1. UNCHANGED <<log, wire, cursor, lost, reason>>
    BY <1>16 DEF ForwardFails, stream, sequencer, transcript, observed, steering, cards
  <2>. QED
    BY <2>1 DEF NothingMissing, NoFalseLoss
<1>17. ASSUME NEW c \in Client, NEW r \in Request, Answer(c, r) PROVE (NothingMissing /\ NoFalseLoss)'
  <2>1. UNCHANGED <<log, wire, cursor, lost, reason>>
    BY <1>17 DEF Answer, stream, sequencer, transcript, observed, steering, cards
  <2>. QED
    BY <2>1 DEF NothingMissing, NoFalseLoss
<1>18. CASE Settled
  <2>1. UNCHANGED <<log, wire, cursor, lost, reason>>
    BY <1>18 DEF Settled, stream, sequencer, steering, approvals, cards
  <2>. QED
    BY <2>1 DEF NothingMissing, NoFalseLoss
<1>19. CASE FinishMark
  <2>1. UNCHANGED <<log, wire, cursor, lost, reason>>
    BY <1>19 DEF FinishMark, stream, sequencer, transcript, observed, steering, EndTurn
  <2>. QED
    BY <2>1 DEF NothingMissing, NoFalseLoss
<1>20. CASE FinishRow
  <2>1. UNCHANGED <<log, wire, cursor, lost>> /\ (reason' = reason \/ reason' # "sequence-gap")
    BY <1>20 DEF FinishRow, stream, sequencer, steering, approvals
  <2>. QED
    BY <2>1 DEF NothingMissing, NoFalseLoss
<1>21. CASE UNCHANGED vars
  <2>1. UNCHANGED <<log, wire, cursor, lost, reason>>
    BY <1>21 DEF vars, stream, sequencer, transcript, observed, steering, approvals, cards
  <2>. QED
    BY <2>1 DEF NothingMissing, NoFalseLoss
<1>. QED
  BY <1>1, <1>2, <1>3, <1>4, <1>5, <1>6, <1>7, <1>8, <1>9, <1>10, <1>11, <1>12, <1>13,
     <1>14, <1>15, <1>16, <1>17, <1>18, <1>19, <1>20, <1>21
     DEF Next, VendorStep, HubStep, SteerStep, WriteStep, AnswerStep

\* The elements of a sequence.
LEMMA RangeIndex == ASSUME NEW x \in DOMAIN log PROVE log[x] \in Range(log)
BY DEF Range

\* A request is registered once, and put to the vendor once.
LEMMA AnswerStepOnce ==
    StrayInv /\ EventTypes /\ Numbered /\ ApprovalsInv /\ [Next]_vars => ApprovalsInv'
<1>. SUFFICES ASSUME StrayInv, EventTypes, Numbered, ApprovalsInv, [Next]_vars PROVE ApprovalsInv'
  OBVIOUS
<1>. USE DEF ApprovalsInv
<1>1. ASSUME NEW t \in Turn, VendorAccepts(t) PROVE ApprovalsInv'
  <2>1. UNCHANGED <<log, cursor, asked, registry, forwards>>
    BY <1>1 DEF VendorAccepts, sequencer, transcript, observed, steering, approvals, cards
  <2>. QED
    BY <2>1 DEF AsksAreOne, ForwardedIsSpent, AuthorizedOnce, Seen
<1>2. ASSUME NEW t \in Turn, NEW type \in Types, VendorEmits(t, type) PROVE ApprovalsInv'
  <2>. DEFINE e == [k |-> "event", seq |-> Len(log) + 1, turn |-> t, type |-> type]
  <2>1. log' = Append(log, e) /\ UNCHANGED <<cursor, asked, registry, forwards>>
    BY <1>2 DEF VendorEmits, sequencer, transcript, observed, steering, approvals, cards
  <2>2. type = "ask" => \A i \in DOMAIN log : ~(log[i].turn = t /\ log[i].type = "ask")
    BY <1>2, RangeIndex DEF VendorEmits, Sent
  <2>3. e.turn = t /\ e.type = type /\ log \in Seq(Envelope)
    BY DEF StrayInv, StreamTypes
  <2>. HIDE DEF e
  <2>4. \A i \in DOMAIN log' : (i \in DOMAIN log /\ log'[i] = log[i]) \/ (i = Len(log) + 1 /\ log'[i] = e)
    BY <2>1, <2>3
  <2>5. \A i \in DOMAIN log : i \in DOMAIN log' /\ log'[i] = log[i]
    BY <2>1, <2>3
  <2>6. AsksAreOne'
    BY <2>2, <2>3, <2>4 DEF AsksAreOne
  <2>7. \A r : Seen(r) => Seen(r)'
    BY <2>1, <2>5 DEF Seen
  <2>. QED
    BY <2>1, <2>6, <2>7 DEF ForwardedIsSpent, AuthorizedOnce
<1>3. CASE Lose
  <2>1. UNCHANGED <<log, cursor, asked, registry, forwards>>
    BY <1>3 DEF Lose, sequencer, transcript, observed, steering, approvals, cards
  <2>. QED
    BY <2>1 DEF AsksAreOne, ForwardedIsSpent, AuthorizedOnce, Seen
<1>4. CASE Disconnect
  <2>1. UNCHANGED <<log, cursor, asked, registry, forwards>>
    BY <1>4 DEF Disconnect, stream, sequencer, transcript, observed, steering, approvals, cards, Terminate
  <2>. QED
    BY <2>1 DEF AsksAreOne, ForwardedIsSpent, AuthorizedOnce, Seen
<1>5. ASSUME NEW t \in Turn, Start(t) PROVE ApprovalsInv'
  <2>1. UNCHANGED <<log, cursor, asked, registry, forwards>>
    BY <1>5 DEF Start, sequencer, transcript, observed, steering, approvals, cards
  <2>. QED
    BY <2>1 DEF AsksAreOne, ForwardedIsSpent, AuthorizedOnce, Seen
<1>6. ASSUME NEW t \in Turn, Accepted(t) PROVE ApprovalsInv'
  <2>1. UNCHANGED <<log, cursor, forwards>> /\ asked' = {} /\ registry' = Registered(registry, asked)
    BY <1>6 DEF Accepted, stream, transcript, observed, steering, Terminate
  <2>2. \A r : Seen(r)' <=> Seen(r)
    BY <2>1 DEF Seen
  <2>3. asked \in SUBSET Request
    BY DEF EventTypes
  <2>4. \A r \in Request : r \notin asked => registry'[r] = registry[r]
    BY <2>1, <2>3, RegisteredFields
  <2>5. \A r \in Request : registry'[r].turn # 0 => Seen(r)
    BY <2>3, <2>4 DEF ForwardedIsSpent
  <2>6. \A f \in forwards : f.req \in Request
    BY DEF EventTypes
  <2>7. \A f \in forwards : registry'[f.req].turn = 0 \/ registry'[f.req].resolved
    BY <2>4, <2>6 DEF ForwardedIsSpent
  <2>. QED
    BY <2>1, <2>2, <2>5, <2>7 DEF AsksAreOne, ForwardedIsSpent, AuthorizedOnce
<1>7. CASE StartFails
  <2>1. UNCHANGED <<log, cursor, asked, registry, forwards>>
    BY <1>7 DEF StartFails, sequencer, transcript, observed, steering, approvals, cards, Terminate
  <2>. QED
    BY <2>1 DEF AsksAreOne, ForwardedIsSpent, AuthorizedOnce, Seen
<1>8. CASE Stop
  <2>1. UNCHANGED <<log, cursor, asked, registry, forwards>>
    BY <1>8 DEF Stop, stream, sequencer, transcript, observed, steering, approvals, cards, Terminate
  <2>. QED
    BY <2>1 DEF AsksAreOne, ForwardedIsSpent, AuthorizedOnce, Seen
<1>9. ASSUME NEW again \in BOOLEAN, Deliver(again) PROVE ApprovalsInv'
  <2>. DEFINE e == Head(wire)
  <2>0. wire # <<>> /\ UNCHANGED <<log, forwards>>
    BY <1>9 DEF Deliver, transcript, steering, cards, Terminate
  <2>1. cursor <= cursor' /\ cursor \in Nat /\ cursor' \in Nat
    BY <1>9, CursorFields DEF StrayInv, StreamTypes
  <2>2. \A r : Seen(r) => Seen(r)'
    <3>1. \A i \in DOMAIN log : i \in Nat
      BY DEF StrayInv, StreamTypes
    <3>. QED
      BY <2>0, <2>1, <3>1 DEF Seen
  <2>3. CASE UNCHANGED <<asked, registry>>
    BY <2>0, <2>2, <2>3 DEF AsksAreOne, ForwardedIsSpent, AuthorizedOnce
  <2>4. CASE stage = "run" /\ Verdict(e) = "apply" /\ e.type = "ask"
    <3>1. /\ e.turn \in Request /\ e.seq \in DOMAIN log /\ log[e.seq] = e /\ log \in Seq(Envelope)
      BY <2>0, HeadOfWire DEF Request, StrayInv, StreamTypes
    <3>2. e.seq = cursor + 1 /\ cursor' = cursor + 1
      BY <1>9, <2>4, CursorFields
    <3>3. Apply(e)
      BY <1>9, <2>4 DEF Deliver
    <3>4. asked' \in {asked, asked \cup {e.turn}} /\ registry' \in {registry, Registered(registry, {e.turn})}
      BY <3>3 DEF Apply, Card
    <3>. HIDE DEF e
    <3>5. \A r : r = e.turn => Seen(r)'
      BY <2>0, <2>1, <2>4, <3>1, <3>2 DEF Seen
    <3>6. ~Seen(e.turn)
      <4>. SUFFICES ASSUME NEW i \in DOMAIN log, i <= cursor, log[i].type = "ask", log[i].turn = e.turn PROVE FALSE
        BY DEF Seen
      <4>1. i = e.seq
        BY <2>4, <3>1 DEF AsksAreOne
      <4>2. i \in Nat
        BY <3>1
      <4>. QED
        BY <2>1, <3>2, <4>1, <4>2
    <3>7. \A f \in forwards : f.req \in Request /\ f.req # e.turn
      BY <3>6 DEF EventTypes, ForwardedIsSpent
    <3>8. {e.turn} \in SUBSET Request
      BY <3>1
    <3>9. \A r \in Request : r # e.turn => registry'[r] = registry[r]
      BY <3>4, <3>8, RegisteredFields
    <3>14. registry[e.turn].turn = 0 /\ e.turn \notin asked
      BY <3>1, <3>6 DEF ForwardedIsSpent
    <3>15. asked' = asked \/ registry' = registry
      BY <3>3 DEF Apply, Card
    <3>10. \A r \in asked' : Seen(r)' /\ registry'[r].turn = 0
      <4>1. asked \subseteq Request
        BY DEF EventTypes
      <4>. QED
        BY <2>2, <3>1, <3>4, <3>5, <3>9, <3>14, <3>15, <4>1 DEF ForwardedIsSpent
    <3>11. \A r \in Request : registry'[r].turn # 0 => Seen(r)'
      BY <2>2, <3>5, <3>9 DEF ForwardedIsSpent
    <3>12. \A f \in forwards' : /\ Seen(f.req)' /\ f.req \notin asked'
                               /\ (registry'[f.req].turn = 0 \/ registry'[f.req].resolved)
      BY <2>0, <2>2, <3>4, <3>7, <3>9 DEF ForwardedIsSpent
    <3>. QED
      BY <2>0, <3>10, <3>11, <3>12 DEF AsksAreOne, ForwardedIsSpent, AuthorizedOnce
  <2>. QED
    BY <1>9, <2>3, <2>4 DEF Deliver, Apply, Card, cards
<1>10. ASSUME NEW s \in Steer, SteerTurn(s) PROVE ApprovalsInv'
  <2>1. UNCHANGED <<log, cursor, asked, registry, forwards>>
    BY <1>10 DEF SteerTurn, stream, sequencer, observed, approvals, cards
  <2>. QED
    BY <2>1 DEF AsksAreOne, ForwardedIsSpent, AuthorizedOnce, Seen
<1>11. ASSUME NEW s \in Steer, SteerAnswered(s) PROVE ApprovalsInv'
  <2>1. UNCHANGED <<log, cursor, asked, registry, forwards>>
    BY <1>11 DEF SteerAnswered, stream, sequencer, transcript, approvals, cards
  <2>. QED
    BY <2>1 DEF AsksAreOne, ForwardedIsSpent, AuthorizedOnce, Seen
<1>12. ASSUME NEW s \in Steer, SteerWritten(s) PROVE ApprovalsInv'
  <2>1. UNCHANGED <<log, cursor, asked, registry, forwards>>
    BY <1>12 DEF SteerWritten, stream, sequencer, transcript, approvals, cards, Terminate
  <2>. QED
    BY <2>1 DEF AsksAreOne, ForwardedIsSpent, AuthorizedOnce, Seen
<1>13. ASSUME NEW s \in Steer, SteerFixed(s) PROVE ApprovalsInv'
  <2>1. UNCHANGED <<log, cursor, asked, registry, forwards>>
    BY <1>13 DEF SteerFixed, stream, sequencer, transcript, approvals, cards
  <2>. QED
    BY <2>1 DEF AsksAreOne, ForwardedIsSpent, AuthorizedOnce, Seen
<1>14. ASSUME NEW s \in Steer, SteerWriteFails(s) PROVE ApprovalsInv'
  <2>1. UNCHANGED <<log, cursor, asked, registry, forwards>>
    BY <1>14 DEF SteerWriteFails, stream, sequencer, transcript, approvals, cards
  <2>. QED
    BY <2>1 DEF AsksAreOne, ForwardedIsSpent, AuthorizedOnce, Seen
<1>15. ASSUME NEW c \in Client, Forwarded(c) PROVE ApprovalsInv'
  <2>1. UNCHANGED <<log, cursor, asked, registry, forwards>>
    BY <1>15 DEF Forwarded, stream, sequencer, transcript, observed, steering
  <2>. QED
    BY <2>1 DEF AsksAreOne, ForwardedIsSpent, AuthorizedOnce, Seen
<1>16. ASSUME NEW c \in Client, ForwardFails(c) PROVE ApprovalsInv'
  <2>1. UNCHANGED <<log, cursor, asked, registry, forwards>>
    BY <1>16 DEF ForwardFails, stream, sequencer, transcript, observed, steering, cards
  <2>. QED
    BY <2>1 DEF AsksAreOne, ForwardedIsSpent, AuthorizedOnce, Seen
<1>17. ASSUME NEW c \in Client, NEW r \in Request, Answer(c, r) PROVE ApprovalsInv'
  <2>1. /\ UNCHANGED <<log, cursor, asked>> /\ forwards' = forwards \cup {[by |-> c, req |-> r]}
        /\ registry' = [registry EXCEPT ![r].resolved = TRUE]
        /\ registry[r].turn # 0 /\ ~registry[r].resolved
    BY <1>17 DEF Answer, stream, sequencer, transcript, observed, steering, cards, Record
  <2>. DEFINE n == [by |-> c, req |-> r]
  <2>2. \A x : Seen(x)' <=> Seen(x)
    BY <2>1 DEF Seen
  <2>3. /\ \A x \in Request : x # r => registry'[x] = registry[x]
        /\ registry'[r].turn = registry[r].turn /\ registry'[r].resolved
    <3>. DEFINE m == [registry[r] EXCEPT !.resolved = TRUE]
    <3>1. registry[r] \in RegistryType
      BY DEF EventTypes
    <3>2. m.turn = registry[r].turn /\ m.resolved
      BY <3>1 DEF RegistryType
    <3>3. registry' = [registry EXCEPT ![r] = m]
      BY <2>1
    <3>. HIDE DEF m
    <3>. QED
      BY <3>2, <3>3 DEF EventTypes
  <2>4. Seen(r)
    BY <2>1 DEF ForwardedIsSpent
  <2>5. \A f \in forwards : f.req \in Request /\ f.req # r
    BY <2>1 DEF EventTypes, ForwardedIsSpent
  <2>6. n.req = r /\ forwards' = forwards \cup {n}
    BY <2>1
  <2>. HIDE DEF n
  <2>7. r \notin asked
    BY <2>1 DEF ForwardedIsSpent
  <2>8. AuthorizedOnce'
    BY <2>5, <2>6 DEF AuthorizedOnce
  <2>9. ForwardedIsSpent'
    <3>1. \A x \in asked' : Seen(x)' /\ registry'[x].turn = 0
      BY <2>1, <2>2, <2>3, <2>7 DEF ForwardedIsSpent, EventTypes
    <3>2. \A x \in Request : registry'[x].turn # 0 => Seen(x)'
      BY <2>2, <2>3, <2>4 DEF ForwardedIsSpent
    <3>3. \A f \in forwards' : /\ Seen(f.req)' /\ f.req \notin asked'
                               /\ (registry'[f.req].turn = 0 \/ registry'[f.req].resolved)
      BY <2>1, <2>2, <2>3, <2>4, <2>5, <2>6, <2>7 DEF ForwardedIsSpent
    <3>. QED
      BY <3>1, <3>2, <3>3 DEF ForwardedIsSpent
  <2>. QED
    BY <2>1, <2>8, <2>9 DEF AsksAreOne
<1>18. CASE Settled
  <2>1. UNCHANGED <<log, cursor, asked, registry, forwards>>
    BY <1>18 DEF Settled, stream, sequencer, steering, approvals, cards
  <2>. QED
    BY <2>1 DEF AsksAreOne, ForwardedIsSpent, AuthorizedOnce, Seen
<1>19. CASE FinishMark
  <2>1. UNCHANGED <<log, cursor, asked, forwards>>
    BY <1>19 DEF FinishMark, stream, sequencer, transcript, observed, steering, EndTurn
  <2>2. \A r : Seen(r)' <=> Seen(r)
    BY <2>1 DEF Seen
  <2>3. \A r \in Request : registry'[r] = registry[r] \/ registry'[r].turn = 0
    BY <1>19 DEF FinishMark, sequencer
  <2>4. \A f \in forwards : f.req \in Request
    BY DEF EventTypes
  <2>. QED
    BY <2>1, <2>2, <2>3, <2>4 DEF AsksAreOne, ForwardedIsSpent, AuthorizedOnce, EventTypes
<1>20. CASE FinishRow
  <2>1. UNCHANGED <<log, cursor, registry, forwards>> /\ asked' = {}
    BY <1>20 DEF FinishRow, stream, sequencer, steering, approvals
  <2>2. \A r : Seen(r)' <=> Seen(r)
    BY <2>1 DEF Seen
  <2>. QED
    BY <2>1, <2>2 DEF AsksAreOne, ForwardedIsSpent, AuthorizedOnce
<1>21. CASE UNCHANGED vars
  <2>1. UNCHANGED <<log, cursor, asked, registry, forwards>>
    BY <1>21 DEF vars, stream, sequencer, transcript, observed, steering, approvals, cards
  <2>. QED
    BY <2>1 DEF AsksAreOne, ForwardedIsSpent, AuthorizedOnce, Seen
<1>. QED
  BY <1>1, <1>2, <1>3, <1>4, <1>5, <1>6, <1>7, <1>8, <1>9, <1>10, <1>11, <1>12, <1>13,
     <1>14, <1>15, <1>16, <1>17, <1>18, <1>19, <1>20, <1>21
     DEF Next, VendorStep, HubStep, SteerStep, WriteStep, AnswerStep

\* What a transcript that grew by one part holds.
LEMMA PartsGrow ==
    ASSUME parts \in Seq(Part), NEW e \in Part, parts' = Append(parts, e)
    PROVE  /\ \A p \in DOMAIN parts : p \in DOMAIN parts' /\ parts'[p] = parts[p]
           /\ \A p \in DOMAIN parts' : (p \in DOMAIN parts /\ parts'[p] = parts[p])
                                        \/ (p = Len(parts) + 1 /\ parts'[p] = e)
           /\ Len(parts) + 1 \in DOMAIN parts' /\ parts'[Len(parts) + 1] = e
           /\ \A p \in DOMAIN parts : p \in Nat /\ p < Len(parts) + 1
           /\ Len(parts) \in Nat
OBVIOUS

\* The events of a transcript are envelopes, its steers are steers.
LEMMA PartFields ==
    ASSUME parts \in Seq(Part), NEW p \in DOMAIN parts
    PROVE  /\ IsEvent(parts[p]) => parts[p].seq \in Nat /\ parts[p].turn \in Turn
           /\ ~IsEvent(parts[p]) => parts[p].id \in Steer /\ parts[p] = [k |-> "steer", id |-> parts[p].id]
<1>1. parts[p] \in Part
  OBVIOUS
<1>. QED
  BY <1>1 DEF Part, Envelope, SteerPart, IsEvent

\* Where the transcript, the log and the cursor stay, it is enough that it does not reopen.
LEMMA TranscriptFrame ==
    ASSUME InLogOrder, OwnEventsWhole, OpenIsUpToDate, UNCHANGED <<parts, log, cursor, cur>>,
           stage' = "run" /\ ~sealed' => stage = "run" /\ ~sealed
    PROVE  (InLogOrder /\ OwnEventsWhole /\ OpenIsUpToDate)'
BY DEF InLogOrder, OwnEventsWhole, OpenIsUpToDate

\* A running turn's own event that is next in order is let through (admit).
LEMMA OwnIsApplied ==
    ASSUME StrayInv, OneLiveTurn, stage = "run", NEW e \in Envelope, e.turn = cur
    PROVE  Verdict(e) \in {"duplicate", "gap", "apply"}
<1>1. cur \notin ended /\ (liveTurn = 0 \/ liveTurn = cur)
  BY DEF OneLiveTurn
<1>2. e.seq \in Nat /\ cursor \in Nat
  BY TurnEventsAssumption DEF Envelope, StrayInv, StreamTypes
<1>. QED
  BY <1>1, <1>2 DEF Verdict

\* The transcript takes the log's events in order and misses none of its own.
LEMMA TranscriptStep ==
    StrayInv /\ Numbered /\ AskedFirst /\ OneLiveTurn /\ TranscriptInv /\ [Next]_vars => TranscriptInv'
<1>. SUFFICES ASSUME StrayInv, Numbered, AskedFirst, OneLiveTurn, TranscriptInv, [Next]_vars PROVE TranscriptInv'
  OBVIOUS
<1>. USE DEF TranscriptInv
<1>1. ASSUME NEW t \in Turn, VendorAccepts(t) PROVE TranscriptInv'
  <2>1. UNCHANGED <<parts, log, cursor, cur>> /\ (stage' = "run" /\ ~sealed' => stage = "run" /\ ~sealed)
    BY <1>1 DEF VendorAccepts, sequencer, transcript, observed, steering, approvals, cards
  <2>. QED
    BY <2>1, TranscriptFrame
<1>2. ASSUME NEW t \in Turn, NEW type \in Types, VendorEmits(t, type) PROVE TranscriptInv'
  <2>. DEFINE e == [k |-> "event", seq |-> Len(log) + 1, turn |-> t, type |-> type]
  <2>1. log' = Append(log, e) /\ UNCHANGED <<parts, cursor, cur, stage, sealed>>
    BY <1>2 DEF VendorEmits, sequencer, transcript, observed, steering, approvals, cards
  <2>2. log \in Seq(Envelope) /\ parts \in Seq(Part) /\ cursor \in Nat /\ cursor <= Len(log) /\ Len(log) \in Nat
    BY DEF StrayInv, StreamTypes, Numbered
  <2>. HIDE DEF e
  <2>3. \A i \in Nat : i <= cursor /\ i \in DOMAIN log' => i \in DOMAIN log /\ log'[i] = log[i]
    BY <2>1, <2>2
  <2>4. \A i \in DOMAIN log' : i \in Nat
    BY <2>1, <2>2
  <2>5. \A p \in DOMAIN parts : IsEvent(parts[p]) => parts[p].seq \in DOMAIN log /\ parts[p].seq <= cursor
    <3>1. \A p \in DOMAIN parts : IsEvent(parts[p]) => parts[p].seq \in 1..MaxEvent /\ parts[p].seq <= cursor
      BY <2>2 DEF InLogOrder, Part, Envelope, SteerPart, IsEvent
    <3>. QED
      BY <2>2, <3>1, TurnEventsAssumption
  <2>7. InLogOrder'
    <3>1. \A p \in DOMAIN parts : IsEvent(parts[p]) => parts[p] = log'[parts[p].seq]
      <4>1. \A i \in DOMAIN log : log'[i] = log[i]
        BY <2>1, <2>2
      <4>. QED
        BY <2>5, <4>1 DEF InLogOrder
    <3>. QED
      BY <2>1, <3>1 DEF InLogOrder
  <2>8. OwnEventsWhole'
    <3>. SUFFICES ASSUME NEW p \in DOMAIN parts, IsEvent(parts[p]), parts[p].turn = cur,
                         NEW j \in DOMAIN log', j <= parts[p].seq, log'[j].turn = cur
                  PROVE  \E q \in DOMAIN parts : parts[q] = log'[j]
      BY <2>1 DEF OwnEventsWhole
    <3>1. parts[p].seq \in Nat /\ j \in Nat
      BY <2>2, <2>4, PartFields
    <3>2. j <= cursor
      BY <2>2, <2>5, <3>1
    <3>3. j \in DOMAIN log /\ log'[j] = log[j]
      BY <2>3, <3>1, <3>2
    <3>. QED
      BY <3>3 DEF OwnEventsWhole
  <2>9. OpenIsUpToDate'
    BY <2>1, <2>3, <2>4 DEF OpenIsUpToDate
  <2>. QED
    BY <2>7, <2>8, <2>9
<1>3. CASE Lose
  <2>1. UNCHANGED <<parts, log, cursor, cur>> /\ (stage' = "run" /\ ~sealed' => stage = "run" /\ ~sealed)
    BY <1>3 DEF Lose, sequencer, transcript, observed, steering, approvals, cards
  <2>. QED
    BY <2>1, TranscriptFrame
<1>4. CASE Disconnect
  <2>1. UNCHANGED <<parts, log, cursor, cur>> /\ (stage' = "run" /\ ~sealed' => stage = "run" /\ ~sealed)
    BY <1>4 DEF Disconnect, stream, sequencer, transcript, observed, steering, approvals, cards, Terminate
  <2>. QED
    BY <2>1, TranscriptFrame
<1>5. ASSUME NEW t \in Turn, Start(t) PROVE TranscriptInv'
  <2>1. /\ UNCHANGED <<parts, log, cursor, sealed>> /\ cur' = t /\ vendor[t] = "unasked" /\ stage = "idle"
    BY <1>5 DEF Start, sequencer, transcript, observed, steering, approvals, cards
  <2>2. parts = <<>>
    BY <2>1 DEF StrayInv, IdleIsEmpty
  <2>3. \A j \in DOMAIN log : log[j].turn # t
    BY <2>1 DEF AskedFirst
  <2>. QED
    BY <2>1, <2>2, <2>3 DEF InLogOrder, OwnEventsWhole, OpenIsUpToDate
<1>6. ASSUME NEW t \in Turn, Accepted(t) PROVE TranscriptInv'
  <2>1. UNCHANGED <<parts, log, cursor, cur>> /\ (stage' = "run" /\ ~sealed' => stage = "run" /\ ~sealed)
    BY <1>6 DEF Accepted, stream, transcript, observed, steering, Terminate
  <2>. QED
    BY <2>1, TranscriptFrame
<1>7. CASE StartFails
  <2>1. UNCHANGED <<parts, log, cursor, cur>> /\ (stage' = "run" /\ ~sealed' => stage = "run" /\ ~sealed)
    BY <1>7 DEF StartFails, sequencer, transcript, observed, steering, approvals, cards, Terminate
  <2>. QED
    BY <2>1, TranscriptFrame
<1>8. CASE Stop
  <2>1. UNCHANGED <<parts, log, cursor, cur>> /\ (stage' = "run" /\ ~sealed' => stage = "run" /\ ~sealed)
    BY <1>8 DEF Stop, stream, sequencer, transcript, observed, steering, approvals, cards, Terminate
  <2>. QED
    BY <2>1, TranscriptFrame
<1>9. ASSUME NEW again \in BOOLEAN, Deliver(again) PROVE TranscriptInv'
  <2>. DEFINE e == Head(wire)
  <2>0. wire # <<>> /\ UNCHANGED <<log, cur>>
    BY <1>9 DEF Deliver, transcript, steering, cards, Terminate
  <2>1. cursor <= cursor' /\ cursor \in Nat /\ cursor' \in Nat
    BY <1>9, CursorFields DEF StrayInv, StreamTypes
  <2>2. e \in Envelope /\ IsEvent(e) /\ e \in Part /\ e.seq \in DOMAIN log /\ e = log[e.seq]
    BY <2>0, HeadOfWire DEF StrayInv, StreamTypes
  <2>3. parts \in Seq(Part) /\ \A j \in DOMAIN log : j \in Nat
    BY DEF StrayInv, StreamTypes
  <2>4. CASE stage = "run" /\ Verdict(e) = "apply" /\ ~sealed
    <3>1. parts' = Append(parts, e) /\ e.seq = cursor + 1 /\ cursor' = cursor + 1
      BY <1>9, <2>4, CursorFields DEF Deliver, Apply
    <3>. HIDE DEF e
    <3>2. /\ \A p \in DOMAIN parts : p \in DOMAIN parts' /\ parts'[p] = parts[p]
          /\ \A p \in DOMAIN parts' : (p \in DOMAIN parts /\ parts'[p] = parts[p]) \/ (p = Len(parts) + 1 /\ parts'[p] = e)
          /\ Len(parts) + 1 \in DOMAIN parts' /\ parts'[Len(parts) + 1] = e
          /\ \A p \in DOMAIN parts : p \in Nat /\ p < Len(parts) + 1
          /\ Len(parts) \in Nat
      BY <2>2, <2>3, <3>1, PartsGrow
    <3>3. \A p \in DOMAIN parts : IsEvent(parts[p]) => parts[p].seq \in Nat /\ parts[p].seq < e.seq
      <4>1. \A p \in DOMAIN parts : IsEvent(parts[p]) => parts[p].seq \in Nat /\ parts[p].seq <= cursor
        BY <2>3, PartFields DEF InLogOrder
      <4>. QED
        BY <2>1, <3>1, <4>1
    <3>4. ASSUME NEW j \in DOMAIN log, j <= cursor', log[j].turn = cur
          PROVE  \E q \in DOMAIN parts' : parts'[q] = log[j]
      <4>1. CASE j <= cursor
        <5>1. PICK q \in DOMAIN parts : parts[q] = log[j]
          BY <2>4, <3>4, <4>1 DEF OpenIsUpToDate
        <5>. QED
          BY <3>2, <5>1
      <4>2. CASE ~(j <= cursor)
        <5>1. j = e.seq
          BY <2>1, <2>3, <3>1, <3>4, <4>2
        <5>. QED
          BY <2>2, <3>2, <5>1
      <4>. QED
        BY <4>1, <4>2
    <3>5. InLogOrder'
      <4>1. \A p \in DOMAIN parts' : IsEvent(parts'[p]) => parts'[p].seq <= cursor' /\ parts'[p] = log[parts'[p].seq]
        <5>1. \A p \in DOMAIN parts : IsEvent(parts[p]) => parts[p].seq <= cursor' /\ parts[p] = log[parts[p].seq]
          BY <2>1, <3>1, <3>3 DEF InLogOrder
        <5>2. e.seq <= cursor'
          BY <2>1, <3>1
        <5>. QED
          BY <2>2, <3>2, <5>1, <5>2
      <4>2. ASSUME NEW p \in DOMAIN parts', NEW q \in DOMAIN parts', p < q, IsEvent(parts'[p]), IsEvent(parts'[q])
            PROVE  parts'[p].seq < parts'[q].seq
        <5>1. p \in DOMAIN parts /\ parts'[p] = parts[p]
          BY <3>2, <4>2
        <5>2. CASE q \in DOMAIN parts /\ parts'[q] = parts[q]
          BY <4>2, <5>1, <5>2 DEF InLogOrder
        <5>3. CASE parts'[q] = e
          BY <3>3, <4>2, <5>1, <5>3
        <5>. QED
          BY <3>2, <5>2, <5>3
      <4>. QED
        BY <2>0, <4>1, <4>2 DEF InLogOrder
    <3>6. OwnEventsWhole'
      <4>. SUFFICES ASSUME NEW p \in DOMAIN parts', IsEvent(parts'[p]), parts'[p].turn = cur,
                           NEW j \in DOMAIN log, j <= parts'[p].seq, log[j].turn = cur
                    PROVE  \E q \in DOMAIN parts' : parts'[q] = log[j]
        BY <2>0 DEF OwnEventsWhole
      <4>1. CASE p \in DOMAIN parts /\ parts'[p] = parts[p]
        <5>1. PICK q \in DOMAIN parts : parts[q] = log[j]
          BY <4>1 DEF OwnEventsWhole
        <5>. QED
          BY <3>2, <5>1
      <4>2. CASE parts'[p] = e
        BY <3>1, <3>4, <4>2
      <4>. QED
        BY <3>2, <4>1, <4>2
    <3>7. OpenIsUpToDate'
      BY <2>0, <3>4 DEF OpenIsUpToDate
    <3>. QED
      BY <3>5, <3>6, <3>7
  <2>5. CASE parts' = parts /\ (stage' = "run" /\ ~sealed' => stage = "run" /\ ~sealed /\ Verdict(e) \notin {"apply", "gap"})
    <3>1. InLogOrder'
      <4>1. \A p \in DOMAIN parts : IsEvent(parts[p]) => parts[p].seq \in Nat /\ parts[p].seq <= cursor
        BY <2>3, PartFields DEF InLogOrder
      <4>2. \A p \in DOMAIN parts : IsEvent(parts[p]) => parts[p].seq <= cursor'
        BY <2>1, <4>1
      <4>. QED
        BY <2>0, <2>5, <4>2 DEF InLogOrder
    <3>2. OwnEventsWhole'
      BY <2>0, <2>5 DEF OwnEventsWhole
    <3>3. OpenIsUpToDate'
      <4>. SUFFICES ASSUME stage' = "run", ~sealed', NEW j \in DOMAIN log, j <= cursor', log[j].turn = cur
                    PROVE  \E q \in DOMAIN parts : parts[q] = log[j]
        BY <2>0, <2>5 DEF OpenIsUpToDate
      <4>1. stage = "run" /\ ~sealed /\ Verdict(e) \notin {"apply", "gap"}
        BY <2>5
      <4>2. j <= cursor
        <5>1. CASE cursor' = cursor
          BY <5>1
        <5>2. CASE cursor' # cursor
          <6>1. Verdict(e) \notin {"duplicate", "gap", "apply"} /\ e.seq = cursor + 1 /\ cursor' = cursor + 1
            BY <1>9, <4>1, <5>2, CursorFields
          <6>2. e.turn # cur
            BY <2>2, <4>1, <6>1, OwnIsApplied
          <6>. HIDE DEF e
          <6>3. j # e.seq /\ j \in Nat
            BY <2>2, <2>3, <6>2
          <6>. QED
            BY <2>1, <6>1, <6>3
        <5>. QED
          BY <5>1, <5>2
      <4>. QED
        BY <4>1, <4>2 DEF OpenIsUpToDate
    <3>. QED
      BY <3>1, <3>2, <3>3
  <2>6. parts' = parts \/ (stage = "run" /\ Verdict(e) = "apply" /\ ~sealed)
    BY <1>9 DEF Deliver, Apply, transcript
  <2>7. ~(stage = "run" /\ Verdict(e) = "apply" /\ ~sealed) =>
          (stage' = "run" /\ ~sealed' => stage = "run" /\ ~sealed /\ Verdict(e) \notin {"apply", "gap"})
    <3>1. CASE stage = "run" /\ Verdict(e) = "apply"
      <4>1. Apply(e)
        BY <1>9, <3>1 DEF Deliver
      <4>. QED
        BY <3>1, <4>1 DEF Apply, Ending
    <3>2. CASE ~(stage = "run" /\ Verdict(e) = "apply")
      BY <1>9, <3>2 DEF Deliver, Terminate, transcript
    <3>. QED
      BY <3>1, <3>2
  <2>. QED
    BY <2>4, <2>5, <2>6, <2>7
<1>10. ASSUME NEW s \in Steer, SteerTurn(s) PROVE TranscriptInv'
  <2>. DEFINE e == [k |-> "steer", id |-> s]
  <2>1. /\ UNCHANGED <<log, cursor, cur, stage>> /\ stage = "run" /\ ~sealed /\ parts' = Append(parts, e)
    BY <1>10 DEF SteerTurn, stream, sequencer, observed, approvals, cards
  <2>2. e \in Part /\ ~IsEvent(e) /\ parts \in Seq(Part)
    BY DEF Part, SteerPart, IsEvent, StrayInv, StreamTypes
  <2>. HIDE DEF e
  <2>3. /\ \A p \in DOMAIN parts : p \in DOMAIN parts' /\ parts'[p] = parts[p]
        /\ \A p \in DOMAIN parts' : IsEvent(parts'[p]) => p \in DOMAIN parts /\ parts'[p] = parts[p]
    BY <2>1, <2>2, PartsGrow
  <2>4. InLogOrder'
    BY <2>1, <2>3 DEF InLogOrder
  <2>5. OwnEventsWhole'
    BY <2>1, <2>3 DEF OwnEventsWhole
  <2>6. OpenIsUpToDate'
    BY <2>1, <2>3 DEF OpenIsUpToDate
  <2>. QED
    BY <2>4, <2>5, <2>6
<1>11. ASSUME NEW s \in Steer, SteerAnswered(s) PROVE TranscriptInv'
  <2>1. UNCHANGED <<parts, log, cursor, cur>> /\ (stage' = "run" /\ ~sealed' => stage = "run" /\ ~sealed)
    BY <1>11 DEF SteerAnswered, stream, sequencer, transcript, approvals, cards
  <2>. QED
    BY <2>1, TranscriptFrame
<1>12. ASSUME NEW s \in Steer, SteerWritten(s) PROVE TranscriptInv'
  <2>1. UNCHANGED <<parts, log, cursor, cur>> /\ (stage' = "run" /\ ~sealed' => stage = "run" /\ ~sealed)
    BY <1>12 DEF SteerWritten, stream, sequencer, transcript, approvals, cards, Terminate
  <2>. QED
    BY <2>1, TranscriptFrame
<1>13. ASSUME NEW s \in Steer, SteerFixed(s) PROVE TranscriptInv'
  <2>1. UNCHANGED <<parts, log, cursor, cur>> /\ (stage' = "run" /\ ~sealed' => stage = "run" /\ ~sealed)
    BY <1>13 DEF SteerFixed, stream, sequencer, transcript, approvals, cards
  <2>. QED
    BY <2>1, TranscriptFrame
<1>14. ASSUME NEW s \in Steer, SteerWriteFails(s) PROVE TranscriptInv'
  <2>1. UNCHANGED <<parts, log, cursor, cur>> /\ (stage' = "run" /\ ~sealed' => stage = "run" /\ ~sealed)
    BY <1>14 DEF SteerWriteFails, stream, sequencer, transcript, approvals, cards
  <2>. QED
    BY <2>1, TranscriptFrame
<1>15. ASSUME NEW c \in Client, Forwarded(c) PROVE TranscriptInv'
  <2>1. UNCHANGED <<parts, log, cursor, cur>> /\ (stage' = "run" /\ ~sealed' => stage = "run" /\ ~sealed)
    BY <1>15 DEF Forwarded, stream, sequencer, transcript, observed, steering
  <2>. QED
    BY <2>1, TranscriptFrame
<1>16. ASSUME NEW c \in Client, ForwardFails(c) PROVE TranscriptInv'
  <2>1. UNCHANGED <<parts, log, cursor, cur>> /\ (stage' = "run" /\ ~sealed' => stage = "run" /\ ~sealed)
    BY <1>16 DEF ForwardFails, stream, sequencer, transcript, observed, steering, cards
  <2>. QED
    BY <2>1, TranscriptFrame
<1>17. ASSUME NEW c \in Client, NEW r \in Request, Answer(c, r) PROVE TranscriptInv'
  <2>1. UNCHANGED <<parts, log, cursor, cur>> /\ (stage' = "run" /\ ~sealed' => stage = "run" /\ ~sealed)
    BY <1>17 DEF Answer, stream, sequencer, transcript, observed, steering, cards
  <2>. QED
    BY <2>1, TranscriptFrame
<1>18. CASE Settled
  <2>1. UNCHANGED <<parts, log, cursor, cur>> /\ (stage' = "run" /\ ~sealed' => stage = "run" /\ ~sealed)
    BY <1>18 DEF Settled, stream, sequencer, steering, approvals, cards
  <2>. QED
    BY <2>1, TranscriptFrame
<1>19. CASE FinishMark
  <2>1. UNCHANGED <<parts, log, cursor, cur>> /\ (stage' = "run" /\ ~sealed' => stage = "run" /\ ~sealed)
    BY <1>19 DEF FinishMark, stream, sequencer, transcript, observed, steering, EndTurn
  <2>. QED
    BY <2>1, TranscriptFrame
<1>20. CASE FinishRow
  <2>1. UNCHANGED <<log, cursor>> /\ parts' = <<>> /\ stage' = "idle"
    BY <1>20 DEF FinishRow, stream, sequencer, steering, approvals
  <2>. QED
    BY <2>1 DEF InLogOrder, OwnEventsWhole, OpenIsUpToDate
<1>21. CASE UNCHANGED vars
  <2>1. UNCHANGED <<parts, log, cursor, cur>> /\ (stage' = "run" /\ ~sealed' => stage = "run" /\ ~sealed)
    BY <1>21 DEF vars, stream, sequencer, transcript, observed, steering, approvals, cards
  <2>. QED
    BY <2>1, TranscriptFrame
<1>. QED
  BY <1>1, <1>2, <1>3, <1>4, <1>5, <1>6, <1>7, <1>8, <1>9, <1>10, <1>11, <1>12, <1>13,
     <1>14, <1>15, <1>16, <1>17, <1>18, <1>19, <1>20, <1>21
     DEF Next, VendorStep, HubStep, SteerStep, WriteStep, AnswerStep

\* What a listener heard, once it has heard more.
LEMMA HeardMore ==
    ASSUME NEW a \in Seq(Part), NEW b \in Seq(Part), NEW c, c = a \o b
    PROVE  /\ c \in Seq(Part) /\ Len(a) \in Nat /\ Len(c) = Len(a) + Len(b)
           /\ \A i \in DOMAIN a : i \in Nat /\ i <= Len(a) /\ i \in DOMAIN c /\ c[i] = a[i]
           /\ \A i \in DOMAIN c : i \in Nat /\ ((i \in DOMAIN a /\ c[i] = a[i])
                                   \/ (i > Len(a) /\ i - Len(a) \in DOMAIN b /\ c[i] = b[i - Len(a)]))
OBVIOUS

\* The same for one more.
LEMMA HeardOne ==
    ASSUME NEW a \in Seq(Part), NEW e \in Part, NEW c, c = Append(a, e)
    PROVE  /\ c \in Seq(Part) /\ Len(a) \in Nat /\ Len(c) = Len(a) + 1
           /\ \A i \in DOMAIN a : i \in Nat /\ i <= Len(a) /\ i \in DOMAIN c /\ c[i] = a[i]
           /\ \A i \in DOMAIN c : i \in Nat /\ ((i \in DOMAIN a /\ c[i] = a[i]) \/ (i = Len(a) + 1 /\ c[i] = e))
           /\ Len(a) + 1 \in DOMAIN c /\ c[Len(a) + 1] = e
OBVIOUS

\* Where the transcript stays, reports may be added: events only when every steer of the
\* transcript is finished, and told before them.
LEMMA ListenerKept ==
    ASSUME EventTypes, SteersAreOwn, HeldBack, NoEventBeforeItsSteer, parts' = parts, ~lapsed,
           \A i \in DOMAIN live : i \in DOMAIN live' /\ live'[i] = live[i],
           \A q \in DOMAIN parts : ~IsEvent(parts[q]) =>
              /\ steer[parts[q].id].at = "silent" => steer'[parts[q].id].at = "silent"
              /\ steer'[parts[q].id].at \in Busy =>
                    /\ steer[parts[q].id].at \in Busy
                    /\ \A i \in DOMAIN live' : i \in DOMAIN live \/ ~IsEvent(live'[i])
              /\ steer'[parts[q].id].at = "done" => Told(parts[q].id)'
              /\ \A i \in DOMAIN live' : i \notin DOMAIN live /\ IsEvent(live'[i]) =>
                    steer'[parts[q].id].at = "silent" \/ \E j \in 1..(i - 1) : live'[j] = parts[q]
    PROVE  (HeldBack /\ NoEventBeforeItsSteer)'
<1>1. HeldBack'
  <2>. SUFFICES ASSUME NEW q \in DOMAIN parts, ~IsEvent(parts[q])
                PROVE  /\ steer'[parts[q].id].at \in Busy =>
                            \A p \in DOMAIN parts, i \in DOMAIN live' :
                                q < p /\ IsEvent(parts[p]) => live'[i] # parts[p]
                       /\ steer'[parts[q].id].at = "done" => Told(parts[q].id)'
    BY DEF HeldBack
  <2>1. ASSUME steer'[parts[q].id].at \in Busy, NEW p \in DOMAIN parts, NEW i \in DOMAIN live',
               q < p, IsEvent(parts[p])
        PROVE  live'[i] # parts[p]
    <3>1. steer[parts[q].id].at \in Busy /\ (i \in DOMAIN live \/ ~IsEvent(live'[i]))
      BY <2>1
    <3>2. CASE i \in DOMAIN live
      BY <2>1, <3>1, <3>2 DEF HeldBack
    <3>. QED
      BY <2>1, <3>1, <3>2
  <2>. QED
    BY <2>1
<1>2. NoEventBeforeItsSteer'
  <2>. SUFFICES ASSUME NEW i \in DOMAIN live', NEW p \in DOMAIN parts, NEW q \in DOMAIN parts,
                       q < p, parts[p] = live'[i], IsEvent(live'[i]), ~IsEvent(parts[q])
                PROVE  steer'[parts[q].id].at = "silent" \/ \E j \in 1..(i - 1) : live'[j] = parts[q]
    BY DEF NoEventBeforeItsSteer
  <2>1. CASE i \notin DOMAIN live
    BY <2>1
  <2>2. CASE i \in DOMAIN live
    <3>1. live'[i] = live[i]
      BY <2>2
    <3>2. steer[parts[q].id].at = "silent" \/ \E j \in 1..(i - 1) : live[j] = parts[q]
      BY <2>2, <3>1 DEF NoEventBeforeItsSteer
    <3>3. \A j \in 1..(i - 1) : j \in DOMAIN live
      <4>1. DOMAIN live = 1..Len(live) /\ Len(live) \in Nat
        BY DEF EventTypes
      <4>. QED
        BY <2>2, <4>1
    <3>. QED
      BY <3>2, <3>3
  <2>. QED
    BY <2>1, <2>2
<1>. QED
  BY <1>1, <1>2

\* Unless a steer of the transcript is pending, it was told or has no outcome.
LEMMA NotPendingIsOver ==
    ASSUME StrayInv, EventTypes, SteersAreOwn, HeldBack, ~lapsed, NEW q \in DOMAIN parts,
           ~IsEvent(parts[q]), parts[q].id \notin Pending
    PROVE  \/ steer[parts[q].id].at = "silent"
           \/ steer[parts[q].id].at = "done" /\ \E j \in DOMAIN live : live[j] = parts[q]
<1>1. parts[q].id \in Steer /\ parts[q] = SteerOf(parts[q].id)
  BY PartFields DEF StrayInv, StreamTypes, SteerOf
<1>2. steer[parts[q].id].turn = cur /\ steer[parts[q].id].at # "none"
  BY DEF SteersAreOwn
<1>3. steer[parts[q].id] \in SteerType
  BY <1>1 DEF EventTypes
<1>4. steer[parts[q].id].at \in {"none", "done", "silent"} \cup Busy
  BY <1>3 DEF SteerType
<1>5. steer[parts[q].id].at \in {"done", "silent"}
  BY <1>1, <1>2, <1>4 DEF Pending
<1>6. steer[parts[q].id].at = "done" => Told(parts[q].id)
  BY DEF HeldBack
<1>. QED
  BY <1>1, <1>5, <1>6 DEF Told

\* An attempt that goes on keeps events waiting (At).
LEMMA GoesOnKeeps ==
    ASSUME StrayInv, EventTypes, ReportsAreSeen, SteersAreOwn, HeldBack, NoEventBeforeItsSteer,
           NEW s \in Steer, NEW at \in Busy, At(s, at), steer[s].at \in Busy,
           UNCHANGED <<parts, cursor, cur, live, deferred, lapsed>>
    PROVE  (ReportsAreSeen /\ SteersAreOwn /\ HeldBack /\ NoEventBeforeItsSteer)'
<1>1. /\ \A x \in Steer : x # s => steer'[x] = steer[x]
      /\ steer'[s].at = at /\ steer'[s].turn = steer[s].turn
  BY AtFields
<1>2. \A q \in DOMAIN parts : ~IsEvent(parts[q]) => parts[q].id \in Steer
  BY PartFields DEF StrayInv, StreamTypes
<1>3. at # "none" /\ at # "silent" /\ at # "done" /\ steer[s].at # "silent" /\ steer[s].at # "done"
  BY DEF Busy
<1>4. SteersAreOwn'
  BY <1>1, <1>2, <1>3 DEF SteersAreOwn
<1>5. ReportsAreSeen'
  BY DEF ReportsAreSeen
<1>6. \A q \in DOMAIN parts : ~IsEvent(parts[q]) =>
        /\ steer'[parts[q].id].at = "silent" <=> steer[parts[q].id].at = "silent"
        /\ steer'[parts[q].id].at = "done" <=> steer[parts[q].id].at = "done"
        /\ steer'[parts[q].id].at \in Busy <=> steer[parts[q].id].at \in Busy
  BY <1>1, <1>2, <1>3
<1>7. HeldBack'
  BY <1>6 DEF HeldBack, Told
<1>8. NoEventBeforeItsSteer'
  BY <1>6 DEF NoEventBeforeItsSteer
<1>. QED
  BY <1>4, <1>5, <1>7, <1>8

\* An attempt that ends is told first, and then what waited for it (the finally of steer).
LEMMA LeaveKeeps ==
    ASSUME StrayInv, EventTypes, ReportsAreSeen, SteersAreOwn, HeldBack, NoEventBeforeItsSteer,
           NEW s \in Steer, NEW at \in {"done", "silent"}, NEW told \in BOOLEAN, told <=> at = "done",
           Leave(s, at, told), steer[s].at \in Busy, UNCHANGED <<parts, cursor, cur, lapsed>>
    PROVE  (ReportsAreSeen /\ SteersAreOwn /\ HeldBack /\ NoEventBeforeItsSteer)'
<1>. DEFINE m == [k |-> "steer", id |-> s]
            heard == IF told THEN Append(live, m) ELSE live
<1>1. /\ \A x \in Steer : x # s => steer'[x] = steer[x]
      /\ steer'[s].at = at /\ steer'[s].turn = steer[s].turn
  BY LeaveFields
<1>2. \A q \in DOMAIN parts : ~IsEvent(parts[q]) => parts[q].id \in Steer /\ parts[q] = [k |-> "steer", id |-> parts[q].id]
  BY PartFields DEF StrayInv, StreamTypes
<1>3. SteersAreOwn'
  BY <1>1, <1>2 DEF SteersAreOwn
<1>4. m \in Part /\ ~IsEvent(m) /\ live \in Seq(Part) /\ deferred \in Seq(Part)
  BY DEF Part, SteerPart, IsEvent, EventTypes
<1>5. m = SteerOf(s)
  BY DEF SteerOf
<1>6. \/ steer[s].turn # cur /\ live' = live /\ deferred' = deferred
      \/ steer[s].turn = cur /\ Pending = {s} /\ live' = heard \o deferred /\ deferred' = <<>>
      \/ steer[s].turn = cur /\ live' = heard /\ deferred' = deferred
  BY DEF Leave
<1>. HIDE DEF m
<1>7. /\ heard \in Seq(Part) /\ Len(live) \in Nat /\ Len(heard) \in Nat
      /\ \A i \in DOMAIN live : i \in Nat /\ i <= Len(live) /\ i \in DOMAIN heard /\ heard[i] = live[i]
      /\ \A i \in DOMAIN heard : i \in Nat /\ ((i \in DOMAIN live /\ heard[i] = live[i]) \/ heard[i] = m)
      /\ told => Len(live) + 1 \in DOMAIN heard /\ heard[Len(live) + 1] = m /\ Len(heard) = Len(live) + 1
      /\ Len(live) <= Len(heard)
  <2>1. CASE told
    <3>1. heard = Append(live, m)
      BY <2>1
    <3>. HIDE DEF heard
    <3>2. /\ heard \in Seq(Part) /\ Len(live) \in Nat /\ Len(heard) = Len(live) + 1
          /\ \A i \in DOMAIN live : i \in Nat /\ i <= Len(live) /\ i \in DOMAIN heard /\ heard[i] = live[i]
          /\ \A i \in DOMAIN heard : i \in Nat /\ ((i \in DOMAIN live /\ heard[i] = live[i]) \/ (i = Len(live) + 1 /\ heard[i] = m))
          /\ Len(live) + 1 \in DOMAIN heard /\ heard[Len(live) + 1] = m
      BY <1>4, <3>1, HeardOne
    <3>3. Len(heard) \in Nat /\ Len(live) <= Len(heard)
      BY <3>2
    <3>. QED
      BY <3>2, <3>3
  <2>2. CASE ~told
    <3>1. heard = live
      BY <2>2
    <3>. HIDE DEF heard
    <3>. QED
      BY <1>4, <2>2, <3>1
  <2>. QED
    BY <2>1, <2>2
<1>. HIDE DEF heard
<1>8. CASE steer[s].turn # cur
  <2>1. \A q \in DOMAIN parts : ~IsEvent(parts[q]) => steer'[parts[q].id] = steer[parts[q].id]
    BY <1>1, <1>2, <1>8 DEF SteersAreOwn
  <2>2. UNCHANGED <<live, deferred>>
    BY <1>6, <1>8
  <2>3. HeldBack'
    BY <2>1, <2>2 DEF HeldBack, Told
  <2>4. NoEventBeforeItsSteer'
    BY <2>1, <2>2 DEF NoEventBeforeItsSteer
  <2>5. ReportsAreSeen'
    BY <2>2 DEF ReportsAreSeen
  <2>. QED
    BY <1>3, <2>3, <2>4, <2>5
<1>9. CASE steer[s].turn = cur /\ live' = heard /\ deferred' = deferred
  <2>1. ReportsAreSeen'
    BY <1>4, <1>7, <1>9 DEF ReportsAreSeen
  <2>2. CASE lapsed
    BY <1>3, <2>1, <2>2 DEF HeldBack, NoEventBeforeItsSteer
  <2>3. CASE ~lapsed
    <3>1. \A i \in DOMAIN live : i \in DOMAIN live' /\ live'[i] = live[i]
      BY <1>7, <1>9
    <3>2. \A i \in DOMAIN live' : i \in DOMAIN live \/ ~IsEvent(live'[i])
      BY <1>4, <1>7, <1>9
    <3>3. ASSUME NEW q \in DOMAIN parts, ~IsEvent(parts[q])
          PROVE  /\ steer[parts[q].id].at = "silent" => steer'[parts[q].id].at = "silent"
                 /\ steer'[parts[q].id].at \in Busy => steer[parts[q].id].at \in Busy
                 /\ steer'[parts[q].id].at = "done" => Told(parts[q].id)'
      <4>1. CASE parts[q].id = s
        <5>1. told => \E j \in DOMAIN live' : live'[j] = SteerOf(s)
          BY <1>5, <1>7, <1>9
        <5>2. at = "done" => Told(s)'
          BY <5>1 DEF Told, SteerOf
        <5>. QED
          BY <1>1, <4>1, <5>2 DEF Busy
      <4>2. CASE parts[q].id # s
        <5>1. steer'[parts[q].id] = steer[parts[q].id]
          BY <1>1, <1>2, <3>3, <4>2
        <5>2. steer[parts[q].id].at = "done" => Told(parts[q].id)
          BY <2>3, <3>3 DEF HeldBack
        <5>3. Told(parts[q].id) => Told(parts[q].id)'
          BY <3>1 DEF Told, SteerOf
        <5>. QED
          BY <5>1, <5>2, <5>3
      <4>. QED
        BY <4>1, <4>2
    <3>4. (HeldBack /\ NoEventBeforeItsSteer)'
      BY <2>3, <3>1, <3>2, <3>3, ListenerKept
    <3>. QED
      BY <1>3, <2>1, <3>4
  <2>. QED
    BY <2>2, <2>3
<1>10. CASE steer[s].turn = cur /\ Pending = {s} /\ live' = heard \o deferred /\ deferred' = <<>>
  <2>1. /\ \A i \in DOMAIN heard : i \in Nat /\ i <= Len(heard) /\ i \in DOMAIN live' /\ live'[i] = heard[i]
        /\ \A i \in DOMAIN live' : i \in Nat /\ ((i \in DOMAIN heard /\ live'[i] = heard[i])
              \/ (i > Len(heard) /\ i - Len(heard) \in DOMAIN deferred /\ live'[i] = deferred[i - Len(heard)]))
    BY <1>4, <1>7, <1>10, HeardMore
  <2>2. ReportsAreSeen'
    BY <1>4, <1>7, <1>10, <2>1 DEF ReportsAreSeen
  <2>3. CASE lapsed
    BY <1>3, <2>2, <2>3 DEF HeldBack, NoEventBeforeItsSteer
  <2>4. CASE ~lapsed
    <3>1. \A i \in DOMAIN live : i \in DOMAIN live' /\ live'[i] = live[i] /\ i \in Nat /\ i <= Len(live)
      BY <1>7, <2>1
    <3>2. \A i \in DOMAIN live' : i \notin DOMAIN live /\ IsEvent(live'[i]) => i \in Nat /\ i > Len(heard)
      BY <1>4, <1>7, <2>1
    <3>3. ASSUME NEW q \in DOMAIN parts, ~IsEvent(parts[q])
          PROVE  /\ steer[parts[q].id].at = "silent" => steer'[parts[q].id].at = "silent"
                 /\ steer'[parts[q].id].at \notin Busy
                 /\ steer'[parts[q].id].at = "done" => Told(parts[q].id)'
                 /\ \A i \in DOMAIN live' : i \notin DOMAIN live /\ IsEvent(live'[i]) =>
                      steer'[parts[q].id].at = "silent" \/ \E j \in 1..(i - 1) : live'[j] = parts[q]
      <4>1. CASE parts[q].id = s
        <5>1. told => Len(live) + 1 \in DOMAIN live' /\ live'[Len(live) + 1] = SteerOf(s)
          BY <1>5, <1>7, <2>1
        <5>2. at = "done" => Told(s)'
          BY <5>1 DEF Told, SteerOf
        <5>3. parts[q] = SteerOf(s)
          BY <1>2, <3>3, <4>1 DEF SteerOf
        <5>4. ASSUME NEW i \in DOMAIN live', i \notin DOMAIN live, IsEvent(live'[i]), at = "done"
              PROVE  \E j \in 1..(i - 1) : live'[j] = parts[q]
          <6>1. i \in Nat /\ i > Len(live) + 1 /\ Len(live) \in Nat
            BY <1>7, <3>2, <5>4
          <6>2. Len(live) + 1 \in 1..(i - 1)
            BY <6>1
          <6>. QED
            BY <5>1, <5>3, <5>4, <6>2
        <5>. QED
          BY <1>1, <4>1, <5>2, <5>4 DEF Busy
      <4>2. CASE parts[q].id # s
        <5>1. steer'[parts[q].id] = steer[parts[q].id] /\ parts[q].id \notin Pending
          BY <1>1, <1>2, <1>10, <3>3, <4>2
        <5>2. \/ steer[parts[q].id].at = "silent"
              \/ steer[parts[q].id].at = "done" /\ \E j \in DOMAIN live : live[j] = parts[q]
          BY <2>4, <3>3, <5>1, NotPendingIsOver
        <5>3. CASE steer[parts[q].id].at = "silent"
          BY <5>1, <5>3 DEF Busy
        <5>4. CASE steer[parts[q].id].at = "done" /\ \E j \in DOMAIN live : live[j] = parts[q]
          <6>1. PICK j \in DOMAIN live : live[j] = parts[q]
            BY <5>4
          <6>2. j \in DOMAIN live' /\ live'[j] = parts[q] /\ j \in Nat /\ j <= Len(live)
            BY <3>1, <6>1
          <6>3. parts[q] = SteerOf(parts[q].id)
            BY <1>2, <3>3 DEF SteerOf
          <6>4. Told(parts[q].id)'
            BY <6>2, <6>3 DEF Told, SteerOf
          <6>5. ASSUME NEW i \in DOMAIN live', i \notin DOMAIN live, IsEvent(live'[i])
                PROVE  j \in 1..(i - 1)
            <7>1. i \in Nat /\ i > Len(live) /\ j >= 1
              BY <1>4, <1>7, <3>2, <6>1, <6>5
            <7>. QED
              BY <1>7, <6>2, <7>1
          <6>. QED
            BY <5>1, <5>4, <6>2, <6>4, <6>5 DEF Busy
        <5>. QED
          BY <5>2, <5>3, <5>4
      <4>. QED
        BY <4>1, <4>2
    <3>4. (HeldBack /\ NoEventBeforeItsSteer)'
      BY <2>4, <3>1, <3>3, ListenerKept
    <3>. QED
      BY <1>3, <2>2, <3>4
  <2>. QED
    BY <2>3, <2>4
<1>. QED
  BY <1>6, <1>8, <1>9, <1>10

\* A listener hears of a steer before it hears of what stands behind it.
LEMMA ListenerStep ==
    StrayInv /\ EventTypes /\ Numbered /\ ListenerInv /\ [Next]_vars => ListenerInv'
<1>. SUFFICES ASSUME StrayInv, EventTypes, Numbered, ListenerInv, [Next]_vars PROVE ListenerInv'
  OBVIOUS
<1>. USE DEF ListenerInv
<1>1. ASSUME NEW t \in Turn, VendorAccepts(t) PROVE ListenerInv'
  <2>1. UNCHANGED <<parts, cursor, cur, live, deferred, lapsed, steer>>
    BY <1>1 DEF VendorAccepts, sequencer, transcript, observed, steering, approvals, cards
  <2>. QED
    BY <2>1 DEF ReportsAreSeen, SteersAreOwn, HeldBack, Told, NoEventBeforeItsSteer
<1>2. ASSUME NEW t \in Turn, NEW type \in Types, VendorEmits(t, type) PROVE ListenerInv'
  <2>1. UNCHANGED <<parts, cursor, cur, live, deferred, lapsed, steer>>
    BY <1>2 DEF VendorEmits, sequencer, transcript, observed, steering, approvals, cards
  <2>. QED
    BY <2>1 DEF ReportsAreSeen, SteersAreOwn, HeldBack, Told, NoEventBeforeItsSteer
<1>3. CASE Lose
  <2>1. UNCHANGED <<parts, cursor, cur, live, deferred, lapsed, steer>>
    BY <1>3 DEF Lose, sequencer, transcript, observed, steering, approvals, cards
  <2>. QED
    BY <2>1 DEF ReportsAreSeen, SteersAreOwn, HeldBack, Told, NoEventBeforeItsSteer
<1>4. CASE Disconnect
  <2>1. UNCHANGED <<parts, cursor, cur, live, deferred, lapsed, steer>>
    BY <1>4 DEF Disconnect, stream, sequencer, transcript, observed, steering, approvals, cards, Terminate
  <2>. QED
    BY <2>1 DEF ReportsAreSeen, SteersAreOwn, HeldBack, Told, NoEventBeforeItsSteer
<1>5. ASSUME NEW t \in Turn, Start(t) PROVE ListenerInv'
  <2>1. UNCHANGED <<parts, live, deferred, cursor>> /\ stage = "idle"
    BY <1>5 DEF Start, sequencer, transcript, observed, steering, approvals, cards
  <2>2. parts = <<>>
    BY <2>1 DEF StrayInv, IdleIsEmpty
  <2>. QED
    BY <2>1, <2>2 DEF ReportsAreSeen, SteersAreOwn, HeldBack, NoEventBeforeItsSteer
<1>6. ASSUME NEW t \in Turn, Accepted(t) PROVE ListenerInv'
  <2>1. UNCHANGED <<parts, cursor, cur, live, deferred, lapsed, steer>>
    BY <1>6 DEF Accepted, stream, transcript, observed, steering, Terminate
  <2>. QED
    BY <2>1 DEF ReportsAreSeen, SteersAreOwn, HeldBack, Told, NoEventBeforeItsSteer
<1>7. CASE StartFails
  <2>1. UNCHANGED <<parts, cursor, cur, live, deferred, lapsed, steer>>
    BY <1>7 DEF StartFails, sequencer, transcript, observed, steering, approvals, cards, Terminate
  <2>. QED
    BY <2>1 DEF ReportsAreSeen, SteersAreOwn, HeldBack, Told, NoEventBeforeItsSteer
<1>8. CASE Stop
  <2>1. UNCHANGED <<parts, cursor, cur, live, deferred, lapsed, steer>>
    BY <1>8 DEF Stop, stream, sequencer, transcript, observed, steering, approvals, cards, Terminate
  <2>. QED
    BY <2>1 DEF ReportsAreSeen, SteersAreOwn, HeldBack, Told, NoEventBeforeItsSteer
<1>9. ASSUME NEW again \in BOOLEAN, Deliver(again) PROVE ListenerInv'
  <2>. DEFINE e == Head(wire)
  <2>0. wire # <<>> /\ UNCHANGED <<cur, steer, lapsed>>
    BY <1>9 DEF Deliver, transcript, steering, cards, Terminate
  <2>1. cursor <= cursor' /\ cursor \in Nat /\ cursor' \in Nat
    BY <1>9, CursorFields DEF StrayInv, StreamTypes
  <2>2. e \in Part /\ IsEvent(e) /\ e.seq \in Nat
    BY <2>0, HeadOfWire
  <2>3. parts \in Seq(Part) /\ live \in Seq(Part) /\ deferred \in Seq(Part)
    BY DEF StrayInv, StreamTypes, EventTypes
  <2>4. /\ \A i \in DOMAIN live : IsEvent(live[i]) => live[i].seq \in Nat /\ live[i].seq <= cursor
        /\ \A i \in DOMAIN deferred : IsEvent(deferred[i]) /\ deferred[i].seq \in Nat /\ deferred[i].seq <= cursor
    <3>1. \A x \in Part : IsEvent(x) => x.seq \in Nat
      BY DEF Part, Envelope, SteerPart, IsEvent
    <3>2. \A i \in DOMAIN live : live[i] \in Part
      BY <2>3
    <3>3. \A i \in DOMAIN deferred : deferred[i] \in Part
      BY <2>3
    <3>. QED
      BY <3>1, <3>2, <3>3 DEF ReportsAreSeen
  <2>5. CASE UNCHANGED <<parts, live, deferred>>
    <3>1. ReportsAreSeen'
      BY <2>1, <2>4, <2>5 DEF ReportsAreSeen
    <3>. QED
      BY <2>0, <2>5, <3>1 DEF SteersAreOwn, HeldBack, Told, NoEventBeforeItsSteer
  <2>6. CASE stage = "run" /\ Verdict(e) = "apply"
    <3>1. /\ parts' = parts \/ parts' = Append(parts, e)
          /\ \/ Pending # {} /\ deferred' = Append(deferred, e) /\ live' = live
             \/ Pending = {} /\ live' = Append(live, e) /\ deferred' = deferred
      BY <1>9, <2>6 DEF Deliver, Apply, Report
    <3>2. e.seq = cursor + 1 /\ cursor' = cursor + 1
      BY <1>9, <2>6, CursorFields
    <3>. HIDE DEF e
    <3>3. /\ \A p \in DOMAIN parts : p \in DOMAIN parts' /\ parts'[p] = parts[p]
          /\ \A p \in DOMAIN parts' : p \in Nat /\ ((p \in DOMAIN parts /\ parts'[p] = parts[p]) \/ (p = Len(parts) + 1 /\ parts'[p] = e))
          /\ \A p \in DOMAIN parts : p \in Nat /\ p < Len(parts) + 1
          /\ Len(parts) \in Nat
      <4>1. CASE parts' = parts
        BY <2>3, <4>1
      <4>2. CASE parts' = Append(parts, e)
        BY <2>2, <2>3, <4>2, PartsGrow
      <4>. QED
        BY <3>1, <4>1, <4>2
    <3>4. /\ Len(live) \in Nat
          /\ \A i \in DOMAIN live : i \in Nat /\ i <= Len(live) /\ i \in DOMAIN live' /\ live'[i] = live[i]
          /\ \A i \in DOMAIN live' : i \in Nat /\ ((i \in DOMAIN live /\ live'[i] = live[i]) \/ (i = Len(live) + 1 /\ live'[i] = e /\ Pending = {}))
      <4>1. CASE live' = live
        BY <2>3, <4>1
      <4>2. CASE Pending = {} /\ live' = Append(live, e)
        BY <2>2, <2>3, <4>2, HeardOne
      <4>. QED
        BY <3>1, <4>1, <4>2
    <3>5. ReportsAreSeen'
      <4>1. \A i \in DOMAIN live' : IsEvent(live'[i]) => live'[i].seq <= cursor'
        <5>1. \A i \in DOMAIN live : IsEvent(live[i]) => live[i].seq <= cursor'
          BY <2>1, <2>4
        <5>2. e.seq <= cursor'
          BY <2>1, <3>2
        <5>. QED
          BY <3>4, <5>1, <5>2
      <4>2. \A i \in DOMAIN deferred' : IsEvent(deferred'[i]) /\ deferred'[i].seq <= cursor'
        <5>1. \A i \in DOMAIN deferred : IsEvent(deferred[i]) /\ deferred[i].seq <= cursor'
          BY <2>1, <2>4
        <5>2. e.seq <= cursor'
          BY <2>1, <3>2
        <5>3. \A i \in DOMAIN deferred' : (i \in DOMAIN deferred /\ deferred'[i] = deferred[i]) \/ deferred'[i] = e
          BY <2>2, <2>3, <3>1, HeardOne
        <5>. QED
          BY <2>2, <5>1, <5>2, <5>3
      <4>. QED
        BY <4>1, <4>2 DEF ReportsAreSeen
    <3>6. \A q \in DOMAIN parts' : ~IsEvent(parts'[q]) => q \in DOMAIN parts /\ parts'[q] = parts[q]
      BY <2>2, <3>3
    <3>7. SteersAreOwn'
      BY <2>0, <3>6 DEF SteersAreOwn
    <3>8. \A i \in DOMAIN live : live[i] # e
      <4>. SUFFICES ASSUME NEW i \in DOMAIN live, live[i] = e PROVE FALSE
        OBVIOUS
      <4>1. e.seq <= cursor
        BY <2>2, <2>4
      <4>. QED
        BY <2>1, <3>2, <4>1
    <3>9. CASE lapsed
      BY <2>0, <3>5, <3>7, <3>9 DEF HeldBack, NoEventBeforeItsSteer
    <3>10. CASE ~lapsed
      <4>1. HeldBack'
        <5>. SUFFICES ASSUME NEW q \in DOMAIN parts', ~IsEvent(parts'[q])
                      PROVE  /\ steer[parts'[q].id].at \in Busy =>
                                  \A p \in DOMAIN parts', i \in DOMAIN live' :
                                      q < p /\ IsEvent(parts'[p]) => live'[i] # parts'[p]
                             /\ steer[parts'[q].id].at = "done" => \E j \in DOMAIN live' : live'[j] = SteerOf(parts'[q].id)
          BY <2>0 DEF HeldBack, Told, SteerOf
        <5>1. q \in DOMAIN parts /\ parts'[q] = parts[q] /\ ~IsEvent(parts[q])
          BY <3>6
        <5>2. ASSUME steer[parts[q].id].at \in Busy, NEW p \in DOMAIN parts', NEW i \in DOMAIN live', q < p, IsEvent(parts'[p])
              PROVE  live'[i] # parts'[p]
          <6>1. parts[q].id \in Pending
            <7>1. parts[q].id \in Steer
              BY <2>3, <5>1, PartFields
            <7>. QED
              BY <5>1, <5>2, <7>1 DEF SteersAreOwn, Pending
          <6>2. i \in DOMAIN live /\ live'[i] = live[i]
            BY <3>4, <6>1
          <6>3. CASE p \in DOMAIN parts /\ parts'[p] = parts[p]
            BY <3>10, <5>1, <5>2, <6>2, <6>3 DEF HeldBack
          <6>4. CASE parts'[p] = e
            BY <3>8, <6>2, <6>4
          <6>. QED
            BY <3>3, <6>3, <6>4
        <5>3. steer[parts[q].id].at = "done" => \E j \in DOMAIN live : live[j] = SteerOf(parts[q].id)
          BY <3>10, <5>1 DEF HeldBack, Told
        <5>. QED
          BY <3>4, <5>1, <5>2, <5>3
      <4>2. NoEventBeforeItsSteer'
        <5>. SUFFICES ASSUME NEW i \in DOMAIN live', NEW p \in DOMAIN parts', NEW q \in DOMAIN parts',
                             q < p, parts'[p] = live'[i], IsEvent(live'[i]), ~IsEvent(parts'[q])
                      PROVE  steer[parts'[q].id].at = "silent" \/ \E j \in 1..(i - 1) : live'[j] = parts'[q]
          BY <2>0 DEF NoEventBeforeItsSteer
        <5>1. q \in DOMAIN parts /\ parts'[q] = parts[q] /\ ~IsEvent(parts[q])
          BY <3>6
        <5>2. CASE i \in DOMAIN live /\ live'[i] = live[i]
          <6>1. p \in DOMAIN parts /\ parts'[p] = parts[p]
            BY <3>3, <3>8, <5>2
          <6>2. steer[parts[q].id].at = "silent" \/ \E j \in 1..(i - 1) : live[j] = parts[q]
            BY <3>10, <5>1, <5>2, <6>1 DEF NoEventBeforeItsSteer
          <6>3. \A j \in 1..(i - 1) : live'[j] = live[j]
            <7>1. \A j \in 1..(i - 1) : j \in DOMAIN live
              BY <2>3, <3>4, <5>2
            <7>. QED
              BY <3>4, <7>1
          <6>. QED
            BY <5>1, <6>2, <6>3
        <5>3. CASE i = Len(live) + 1 /\ Pending = {}
          <6>1. \/ steer[parts[q].id].at = "silent"
                \/ steer[parts[q].id].at = "done" /\ \E j \in DOMAIN live : live[j] = parts[q]
            BY <3>10, <5>1, <5>3, NotPendingIsOver
          <6>2. \A j \in DOMAIN live : j \in 1..(i - 1) /\ live'[j] = live[j]
            BY <2>3, <3>4, <5>3
          <6>. QED
            BY <5>1, <6>1, <6>2
        <5>. QED
          BY <3>4, <5>2, <5>3
      <4>. QED
        BY <3>5, <3>7, <4>1, <4>2
    <3>. QED
      BY <3>9, <3>10
  <2>7. (stage = "run" /\ Verdict(e) = "apply") \/ UNCHANGED <<parts, live, deferred>>
    BY <1>9 DEF Deliver, transcript
  <2>. QED
    BY <2>5, <2>6, <2>7
<1>10. ASSUME NEW s \in Steer, SteerTurn(s) PROVE ListenerInv'
  <2>. DEFINE e == [k |-> "steer", id |-> s]
              n == [at |-> "write", turn |-> cur, over |-> Len(parts) >= Budget]
  <2>1. /\ UNCHANGED <<cursor, cur, live, deferred, lapsed>> /\ parts' = Append(parts, e)
        /\ steer' = [steer EXCEPT ![s] = n] /\ steer[s].at = "none"
    BY <1>10 DEF SteerTurn, stream, sequencer, observed, approvals, cards
  <2>2. e \in Part /\ ~IsEvent(e) /\ parts \in Seq(Part) /\ e.id = s /\ n.at = "write" /\ n.turn = cur
    BY DEF Part, SteerPart, IsEvent, StrayInv, StreamTypes
  <2>. HIDE DEF e, n
  <2>3. steer'[s] = n /\ \A x \in Steer : x # s => steer'[x] = steer[x]
    BY <2>1 DEF EventTypes
  <2>4. \A q \in DOMAIN parts : ~IsEvent(parts[q]) => parts[q].id \in Steer /\ parts[q].id # s
    BY <2>1, <2>2, PartFields DEF SteersAreOwn
  <2>5. \A q \in DOMAIN parts : ~IsEvent(parts[q]) => steer'[parts[q].id] = steer[parts[q].id]
    BY <2>3, <2>4
  <2>6. /\ \A p \in DOMAIN parts' : (p \in DOMAIN parts /\ parts'[p] = parts[p]) \/ (p = Len(parts) + 1 /\ parts'[p] = e)
        /\ \A p \in DOMAIN parts : p \in Nat /\ p < Len(parts) + 1
        /\ Len(parts) \in Nat
    BY <2>1, <2>2, PartsGrow
  <2>7. \A p, q \in DOMAIN parts' : q < p /\ IsEvent(parts'[p]) =>
          p \in DOMAIN parts /\ q \in DOMAIN parts /\ parts'[p] = parts[p] /\ parts'[q] = parts[q]
    BY <2>2, <2>6
  <2>8. ReportsAreSeen'
    BY <2>1 DEF ReportsAreSeen
  <2>9. SteersAreOwn'
    BY <2>1, <2>2, <2>3, <2>5, <2>6 DEF SteersAreOwn
  <2>10. NoEventBeforeItsSteer'
    <3>. SUFFICES ASSUME ~lapsed, NEW i \in DOMAIN live, NEW p \in DOMAIN parts', NEW q \in DOMAIN parts',
                         q < p, parts'[p] = live[i], IsEvent(live[i]), ~IsEvent(parts'[q])
                  PROVE  steer'[parts'[q].id].at = "silent" \/ \E j \in 1..(i - 1) : live[j] = parts'[q]
      BY <2>1 DEF NoEventBeforeItsSteer
    <3>1. p \in DOMAIN parts /\ q \in DOMAIN parts /\ parts'[p] = parts[p] /\ parts'[q] = parts[q]
      BY <2>7
    <3>2. steer[parts[q].id].at = "silent" \/ \E j \in 1..(i - 1) : live[j] = parts[q]
      BY <3>1 DEF NoEventBeforeItsSteer
    <3>. QED
      BY <2>5, <3>1, <3>2
  <2>11. HeldBack'
    <3>. SUFFICES ASSUME ~lapsed, NEW q \in DOMAIN parts', ~IsEvent(parts'[q])
                  PROVE  /\ steer'[parts'[q].id].at \in Busy =>
                              \A p \in DOMAIN parts', i \in DOMAIN live :
                                  q < p /\ IsEvent(parts'[p]) => live[i] # parts'[p]
                         /\ steer'[parts'[q].id].at = "done" => \E j \in DOMAIN live : live[j] = SteerOf(parts'[q].id)
      BY <2>1 DEF HeldBack, Told, SteerOf
    <3>1. CASE q \in DOMAIN parts /\ parts'[q] = parts[q]
      <4>1. steer[parts[q].id].at \in Busy => \A p \in DOMAIN parts, i \in DOMAIN live :
                q < p /\ IsEvent(parts[p]) => live[i] # parts[p]
        BY <3>1 DEF HeldBack
      <4>2. steer[parts[q].id].at = "done" => \E j \in DOMAIN live : live[j] = SteerOf(parts[q].id)
        BY <3>1 DEF HeldBack, Told
      <4>. QED
        BY <2>5, <2>7, <3>1, <4>1, <4>2
    <3>2. CASE q = Len(parts) + 1 /\ parts'[q] = e
      <4>1. steer'[parts'[q].id].at = "write"
        BY <2>2, <2>3, <3>2
      <4>2. \A p \in DOMAIN parts' : ~(q < p)
        BY <2>6, <3>2
      <4>. QED
        BY <4>1, <4>2
    <3>. QED
      BY <2>6, <3>1, <3>2
  <2>. QED
    BY <2>8, <2>9, <2>10, <2>11
<1>11. ASSUME NEW s \in Steer, SteerAnswered(s) PROVE ListenerInv'
  <2>1. Leave(s, "done", TRUE) \/ Leave(s, "silent", FALSE) \/ (At(s, "fix") /\ UNCHANGED <<live, deferred>>)
    BY <1>11 DEF SteerAnswered
  <2>2. UNCHANGED <<parts, cursor, cur, lapsed>> /\ steer[s].at \in Busy
    BY <1>11 DEF SteerAnswered, stream, sequencer, transcript, approvals, cards, Busy
  <2>3. CASE Leave(s, "done", TRUE)
    BY <2>2, <2>3, LeaveKeeps
  <2>4. CASE Leave(s, "silent", FALSE)
    BY <2>2, <2>4, LeaveKeeps
  <2>5. CASE (At(s, "fix") /\ UNCHANGED <<live, deferred>>)
    BY <2>2, <2>5, GoesOnKeeps DEF Busy
  <2>. QED
    BY <2>1, <2>3, <2>4, <2>5
<1>12. ASSUME NEW s \in Steer, SteerWritten(s) PROVE ListenerInv'
  <2>1. Leave(s, "done", TRUE) \/ Leave(s, "silent", FALSE) \/ (At(s, "fix") /\ UNCHANGED <<live, deferred>>)
          \/ (At(s, "call") /\ UNCHANGED <<live, deferred>>)
    BY <1>12 DEF SteerWritten
  <2>2. UNCHANGED <<parts, cursor, cur, lapsed>> /\ steer[s].at \in Busy
    BY <1>12 DEF SteerWritten, stream, sequencer, transcript, approvals, cards, Terminate, Busy
  <2>3. CASE Leave(s, "done", TRUE)
    BY <2>2, <2>3, LeaveKeeps
  <2>4. CASE Leave(s, "silent", FALSE)
    BY <2>2, <2>4, LeaveKeeps
  <2>5. CASE (At(s, "fix") /\ UNCHANGED <<live, deferred>>)
    BY <2>2, <2>5, GoesOnKeeps DEF Busy
  <2>6. CASE (At(s, "call") /\ UNCHANGED <<live, deferred>>)
    BY <2>2, <2>6, GoesOnKeeps DEF Busy
  <2>. QED
    BY <2>1, <2>3, <2>4, <2>5, <2>6
<1>13. ASSUME NEW s \in Steer, SteerFixed(s) PROVE ListenerInv'
  <2>1. Leave(s, "done", TRUE)
    BY <1>13 DEF SteerFixed
  <2>2. UNCHANGED <<parts, cursor, cur, lapsed>> /\ steer[s].at \in Busy
    BY <1>13 DEF SteerFixed, stream, sequencer, transcript, approvals, cards, Busy
  <2>3. CASE Leave(s, "done", TRUE)
    BY <2>2, <2>3, LeaveKeeps
  <2>. QED
    BY <2>1, <2>3
<1>14. ASSUME NEW s \in Steer, SteerWriteFails(s) PROVE ListenerInv'
  <2>1. Leave(s, "silent", FALSE)
    BY <1>14 DEF SteerWriteFails
  <2>2. UNCHANGED <<parts, cursor, cur, lapsed>> /\ steer[s].at \in Busy
    BY <1>14 DEF SteerWriteFails, stream, sequencer, transcript, approvals, cards, Busy
  <2>3. CASE Leave(s, "silent", FALSE)
    BY <2>2, <2>3, LeaveKeeps
  <2>. QED
    BY <2>1, <2>3
<1>15. ASSUME NEW c \in Client, Forwarded(c) PROVE ListenerInv'
  <2>1. UNCHANGED <<parts, cursor, cur, live, deferred, lapsed, steer>>
    BY <1>15 DEF Forwarded, stream, sequencer, transcript, observed, steering
  <2>. QED
    BY <2>1 DEF ReportsAreSeen, SteersAreOwn, HeldBack, Told, NoEventBeforeItsSteer
<1>16. ASSUME NEW c \in Client, ForwardFails(c) PROVE ListenerInv'
  <2>1. UNCHANGED <<parts, cursor, cur, live, deferred, lapsed, steer>>
    BY <1>16 DEF ForwardFails, stream, sequencer, transcript, observed, steering, cards
  <2>. QED
    BY <2>1 DEF ReportsAreSeen, SteersAreOwn, HeldBack, Told, NoEventBeforeItsSteer
<1>17. ASSUME NEW c \in Client, NEW r \in Request, Answer(c, r) PROVE ListenerInv'
  <2>1. UNCHANGED <<parts, cursor, cur, live, deferred, lapsed, steer>>
    BY <1>17 DEF Answer, stream, sequencer, transcript, observed, steering, cards
  <2>. QED
    BY <2>1 DEF ReportsAreSeen, SteersAreOwn, HeldBack, Told, NoEventBeforeItsSteer
<1>18. CASE Settled
  <2>1. /\ UNCHANGED <<parts, cursor, cur, steer>> /\ live' = live \o deferred /\ deferred' = <<>>
        /\ lapsed' = (lapsed \/ Pending # {})
    BY <1>18 DEF Settled, stream, sequencer, steering, approvals, cards
  <2>2. live \in Seq(Part) /\ deferred \in Seq(Part)
    BY DEF EventTypes
  <2>3. /\ Len(live) \in Nat
        /\ \A i \in DOMAIN live : i \in Nat /\ i <= Len(live) /\ i \in DOMAIN live' /\ live'[i] = live[i]
        /\ \A i \in DOMAIN live' : i \in Nat /\ ((i \in DOMAIN live /\ live'[i] = live[i])
              \/ (i > Len(live) /\ i - Len(live) \in DOMAIN deferred /\ live'[i] = deferred[i - Len(live)]))
    BY <2>1, <2>2, HeardMore
  <2>4. ReportsAreSeen'
    BY <2>1, <2>3 DEF ReportsAreSeen
  <2>5. SteersAreOwn'
    BY <2>1 DEF SteersAreOwn
  <2>6. CASE lapsed \/ Pending # {}
    BY <2>1, <2>4, <2>5, <2>6 DEF HeldBack, NoEventBeforeItsSteer
  <2>7. CASE ~lapsed /\ Pending = {}
    <3>1. ASSUME NEW q \in DOMAIN parts, ~IsEvent(parts[q])
          PROVE  /\ steer[parts[q].id].at \notin Busy
                 /\ steer[parts[q].id].at = "done" => Told(parts[q].id)'
                 /\ \A i \in DOMAIN live' : i \notin DOMAIN live /\ IsEvent(live'[i]) =>
                      steer[parts[q].id].at = "silent" \/ \E j \in 1..(i - 1) : live'[j] = parts[q]
      <4>1. \/ steer[parts[q].id].at = "silent"
            \/ steer[parts[q].id].at = "done" /\ \E j \in DOMAIN live : live[j] = parts[q]
        BY <2>7, <3>1, NotPendingIsOver
      <4>2. CASE steer[parts[q].id].at = "silent"
        BY <4>2 DEF Busy
      <4>3. CASE steer[parts[q].id].at = "done" /\ \E j \in DOMAIN live : live[j] = parts[q]
        <5>1. PICK j \in DOMAIN live : live[j] = parts[q]
          BY <4>3
        <5>2. j \in DOMAIN live' /\ live'[j] = parts[q] /\ j \in Nat /\ j <= Len(live)
          BY <2>3, <5>1
        <5>3. parts[q] = SteerOf(parts[q].id)
          BY <3>1, PartFields DEF StrayInv, StreamTypes, SteerOf
        <5>4. Told(parts[q].id)'
          BY <2>1, <5>2, <5>3 DEF Told, SteerOf
        <5>5. ASSUME NEW i \in DOMAIN live', i \notin DOMAIN live
              PROVE  j \in 1..(i - 1)
          <6>1. i \in Nat /\ i > Len(live) /\ j >= 1
            BY <2>2, <2>3, <5>1, <5>5
          <6>. QED
            BY <2>3, <5>2, <6>1
        <5>. QED
          BY <4>3, <5>2, <5>4, <5>5 DEF Busy
      <4>. QED
        BY <4>1, <4>2, <4>3
    <3>2. (HeldBack /\ NoEventBeforeItsSteer)'
      BY <2>1, <2>3, <2>7, <3>1, ListenerKept
    <3>. QED
      BY <2>4, <2>5, <3>2
  <2>. QED
    BY <2>6, <2>7
<1>19. CASE FinishMark
  <2>1. UNCHANGED <<parts, cursor, cur, live, deferred, lapsed, steer>>
    BY <1>19 DEF FinishMark, stream, sequencer, transcript, observed, steering, EndTurn
  <2>. QED
    BY <2>1 DEF ReportsAreSeen, SteersAreOwn, HeldBack, Told, NoEventBeforeItsSteer
<1>20. CASE FinishRow
  <2>1. parts' = <<>> /\ live' = <<>> /\ deferred' = <<>>
    BY <1>20 DEF FinishRow, stream, sequencer, steering, approvals
  <2>. QED
    BY <2>1 DEF ReportsAreSeen, SteersAreOwn, HeldBack, NoEventBeforeItsSteer
<1>21. CASE UNCHANGED vars
  <2>1. UNCHANGED <<parts, cursor, cur, live, deferred, lapsed, steer>>
    BY <1>21 DEF vars, stream, sequencer, transcript, observed, steering, approvals, cards
  <2>. QED
    BY <2>1 DEF ReportsAreSeen, SteersAreOwn, HeldBack, Told, NoEventBeforeItsSteer
<1>. QED
  BY <1>1, <1>2, <1>3, <1>4, <1>5, <1>6, <1>7, <1>8, <1>9, <1>10, <1>11, <1>12, <1>13,
     <1>14, <1>15, <1>16, <1>17, <1>18, <1>19, <1>20, <1>21
     DEF Next, VendorStep, HubStep, SteerStep, WriteStep, AnswerStep

-----------------------------------------------------------------------------
(* The invariant, and what follows from it.                                *)

\* The invariant holds before the first turn.
LEMMA EventsInit == Init => EventsInv
<1>. SUFFICES ASSUME Init PROVE EventsInv
  OBVIOUS
<1>1. StrayInv
  BY StrayInit
<1>2. EventTypes
  <2>1. [at |-> "none", turn |-> 0, over |-> FALSE] \in SteerType /\ [turn |-> 0, resolved |-> FALSE] \in RegistryType
    BY TurnEventsAssumption DEF SteerType, RegistryType
  <2>2. live \in Seq(Part) /\ deferred \in Seq(Part)
    BY DEF Init
  <2>. HIDE DEF SteerType, RegistryType
  <2>3. steer \in [Steer -> SteerType] /\ registry \in [Request -> RegistryType]
    BY <2>1 DEF Init
  <2>. QED
    BY <2>2, <2>3 DEF Init, EventTypes
<1>3. Numbered /\ OneLiveTurn /\ NothingMissing /\ NoFalseLoss /\ AsksAreOne
  BY DEF Init, Numbered, OneLiveTurn, NothingMissing, NoFalseLoss, AsksAreOne
<1>4. AskedFirst
  BY DEF Init, AskedFirst
<1>5. ForwardedIsSpent /\ AuthorizedOnce
  BY DEF Init, ForwardedIsSpent, AuthorizedOnce
<1>6. InLogOrder /\ OwnEventsWhole /\ OpenIsUpToDate
  BY DEF Init, InLogOrder, OwnEventsWhole, OpenIsUpToDate
<1>7. ReportsAreSeen /\ SteersAreOwn /\ HeldBack /\ NoEventBeforeItsSteer
  BY DEF Init, ReportsAreSeen, SteersAreOwn, HeldBack, NoEventBeforeItsSteer
<1>. QED
  BY <1>1, <1>2, <1>3, <1>4, <1>5, <1>6, <1>7 DEF EventsInv, ApprovalsInv, TranscriptInv, ListenerInv

\* Every step keeps the invariant.
LEMMA EventsStep == EventsInv /\ [Next]_vars => EventsInv'
<1>. SUFFICES ASSUME EventsInv, [Next]_vars PROVE EventsInv'
  OBVIOUS
<1>. USE DEF EventsInv
<1>1. StrayInv'
  BY StrayStep
<1>2. EventTypes' /\ Numbered'
  BY EventTypesStep, NumberedStep
<1>3. AskedFirst' /\ OneLiveTurn'
  BY AskedStep, LiveTurnStep
<1>4. NothingMissing' /\ NoFalseLoss'
  BY LossStep
<1>5. ApprovalsInv'
  BY AnswerStepOnce
<1>6. TranscriptInv'
  BY TranscriptStep
<1>7. ListenerInv'
  BY ListenerStep
<1>. QED
  BY <1>1, <1>2, <1>3, <1>4, <1>5, <1>6, <1>7

\* The stream, the transcript, the approvals and the reports stay in step, whatever
\* is lost, repeated or late.
THEOREM EventsInvariant == Spec => []EventsInv
<1>. QED
  BY EventsInit, EventsStep, PTL DEF Spec

\* A turn is ended for a sequence gap only when an envelope was lost (#advance): without
\* a loss the wire holds a stretch of the log that starts no later than the cursor.
THEOREM LossIsReal == Spec => []NoFalseLoss
<1>1. EventsInv => NoFalseLoss
  BY DEF EventsInv
<1>. QED
  BY <1>1, EventsInvariant, PTL

\* One approval is put to the vendor at most once, however many windows answer (answer
\* of the approval registry): a request is asked by one envelope, so once forwarded it
\* is never registered again.
THEOREM ApprovedOnce == Spec => []AuthorizedOnce
<1>1. EventsInv => AuthorizedOnce
  BY DEF EventsInv, ApprovalsInv
<1>. QED
  BY <1>1, EventsInvariant, PTL

\* A live listener hears of a steer before the events behind it (steer, the deferred
\* reports of onEnvelope), unless the grace ran out or the steer has no known outcome.
THEOREM SteersComeFirst == Spec => []NoEventBeforeItsSteer
<1>1. EventsInv => NoEventBeforeItsSteer
  BY DEF EventsInv, ListenerInv
<1>. QED
  BY <1>1, EventsInvariant, PTL

\* A transcript has the vendor's events once and in its order, and where one of the
\* turn's own stands no earlier one of the turn is missing (admit, apply).
THEOREM TranscriptsAreWhole == Spec => []TranscriptIsWhole
<1>1. EventsInv => TranscriptIsWhole
  BY DEF EventsInv, TranscriptInv, TranscriptIsWhole
<1>. QED
  BY <1>1, EventsInvariant, PTL

=============================================================================
