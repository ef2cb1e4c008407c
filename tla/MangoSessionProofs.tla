------------------------- MODULE MangoSessionProofs -------------------------
(***************************************************************************)
(* Theorems about MangoSession, for every pair of ends, every set of calls *)
(* and streams, every choice of options and sizes, and every bound.        *)
(***************************************************************************)
EXTENDS MangoSession, TLAPS, SequenceTheorems

-----------------------------------------------------------------------------
(* The operators the actions are built from.                               *)

\* The other end of an end is an end, and another one.
LEMMA OtherType == \A p \in Peer : Other(p) \in Peer /\ Other(p) # p
  BY PeersDiffer DEF Peer, Other

\* Every frame a session builds is a frame of the wire.
LEMMA FrameTypes ==
    /\ \A c \in Config : Hello(c) \in Frame
    /\ \A id \in Nat, m \in Method, s \in Nat : Req(id, m, s) \in Frame
    /\ \A id \in Nat, s \in Nat : Res(id, s) \in Frame
    /\ \A id \in Nat, code \in Refusal \cup Failure, s \in Nat : Err(id, code, s) \in Frame
    /\ \A k \in StreamKey, n \in Nat, end \in BOOLEAN, s \in Nat : Evt(k, n, end, s) \in Frame
    /\ \A id \in Nat : Cancel(id) \in Frame
    /\ Sign("ping") \in Frame /\ Sign("pong") \in Frame
    /\ \A code \in CloseCode : CloseOf(code) \in Frame
  <1>1. \A c \in Config : Hello(c) \in HelloFrame
    BY SizesTyped DEF Config, Hello, Announced, HelloFrame
  <1>2. \A id \in Nat, m \in Method, s \in Nat : Req(id, m, s) \in RequestFrame
    BY DEF Req, RequestFrame
  <1>3. \A id \in Nat, s \in Nat : Res(id, s) \in ResultFrame
    BY DEF Res, ResultFrame
  <1>4. \A id \in Nat, code \in Refusal \cup Failure, s \in Nat : Err(id, code, s) \in ErrorFrame
    BY DEF Err, ErrorFrame
  <1>5. \A k \in StreamKey, n \in Nat, end \in BOOLEAN, s \in Nat : Evt(k, n, end, s) \in EventFrame
    BY DEF Evt, EventFrame
  <1>6. \A id \in Nat : Cancel(id) \in CancelFrame
    BY DEF Cancel, CancelFrame
  <1>7. Sign("ping") \in SignFrame /\ Sign("pong") \in SignFrame
    BY DEF Sign, SignFrame
  <1>8. \A code \in CloseCode : CloseOf(code) \in CloseFrame
    BY DEF CloseOf, CloseFrame
  <1> QED
    BY <1>1, <1>2, <1>3, <1>4, <1>5, <1>6, <1>7, <1>8 DEF Frame

\* The type of a frame says which fields it has.
LEMMA FrameFields ==
    ASSUME NEW f \in Frame
    PROVE  /\ f.type = "hello" => f \in HelloFrame
           /\ f.type = "req" => f \in RequestFrame
           /\ f.type = "res" => f \in ResultFrame
           /\ f.type = "err" => f \in ErrorFrame
           /\ f.type = "evt" => f \in EventFrame
           /\ f.type = "cancel" => f \in CancelFrame
           /\ f.type = "close" => f \in CloseFrame
  BY DEF Frame, HelloFrame, RequestFrame, ResultFrame, ErrorFrame, EventFrame,
         CancelFrame, SignFrame, CloseFrame

Wires == [Peer -> Seq(Frame)]

\* Frames handed to the port leave every wire a sequence of frames.
LEMMA QueuedType ==
    ASSUME NEW w \in Wires, NEW p \in Peer, NEW fs \in Seq(Frame)
    PROVE  Queued(w, p, fs) \in Wires
  BY OtherType DEF Queued, Wires

\* #trySend leaves every wire a sequence of frames.
LEMMA TrySendType ==
    ASSUME NEW w \in Wires, NEW p \in Peer, NEW f \in Frame
    PROVE  TrySend(w, p, f) \in Wires
  <1>1. <<f>> \in Seq(Frame)
    OBVIOUS
  <1> QED
    BY <1>1, QueuedType DEF TrySend

\* #respondError and #respondResult leave every wire a sequence of frames.
LEMMA RespondType ==
    ASSUME NEW w \in Wires, NEW p \in Peer, NEW f \in Frame
    PROVE  Respond(w, p, f) \in Wires
  BY TrySendType DEF Respond

\* The frame a port feeds to its session is a frame, and frames remain behind it.
LEMMA PoppedType ==
    ASSUME wire \in Wires, NEW p \in Peer, wire[p] # <<>>
    PROVE  /\ Popped(p) \in Wires
           /\ Head(wire[p]) \in Frame
  BY HeadTailProperties DEF Popped, Wires

\* sendLimitBytes is a number of bytes.
LEMMA LimitType ==
    ASSUME TypeOK, NEW p \in Peer
    PROVE  SendLimit(p) \in Nat
  BY DEF TypeOK, SendLimit, Config, Remote

\* A caller that teardown rejects is still a caller.
LEMMA RejectedType ==
    ASSUME NEW r \in CallRecord
    PROVE  Rejected(r) \in CallRecord
  BY DEF Rejected, CallRecord, Outcome

\* A caller that an answer settles is still a caller.
LEMMA SettledType ==
    ASSUME NEW r \in CallRecord, NEW o \in Outcome
    PROVE  Settled(r, o) \in CallRecord
  BY DEF Settled, CallRecord

\* A caller that begins a request is a caller.
LEMMA WaitingType ==
    ASSUME NEW r \in CallRecord, NEW m \in Method
    PROVE  Waiting(r, m) \in CallRecord
  BY DEF Waiting, CallRecord

\* A caller whose signal fired is still a caller.
LEMMA AbortedType ==
    ASSUME NEW r \in CallRecord
    PROVE  Aborted(r) \in CallRecord
  BY DEF Aborted, CallRecord

\* Replacing one caller keeps the table of callers typed.
LEMMA CallUpdate ==
    ASSUME NEW t \in [Peer -> [Call -> CallRecord]],
           NEW p \in Peer, NEW c \in Call, NEW r \in CallRecord
    PROVE  [t EXCEPT ![p][c] = r] \in [Peer -> [Call -> CallRecord]]
  OBVIOUS

-----------------------------------------------------------------------------
(* Type correctness.                                                       *)

\* What the sessions keep, without the transport and the close() promise.
SessionTypes ==
    /\ conf \in [Peer -> Config]
    /\ state \in [Peer -> {"new", "handshaking", "ready", "closed"}]
    /\ closure \in [Peer -> CloseCode \cup {NoCode}]
    /\ remote \in [Peer -> Remote]
    /\ requestSequence \in [Peer -> Nat]
    /\ pending \in [Peer -> SUBSET Nat]
    /\ call \in [Peer -> [Call -> CallRecord]]
    /\ active \in [Peer -> SUBSET Nat]
    /\ signalled \in [Peer -> SUBSET Nat]
    /\ running \in [Peer -> SUBSET Nat]
    /\ started \in [Peer -> SUBSET Nat]
    /\ streams \in [Peer -> [StreamKey -> Nat]]
    /\ heard \in [Peer -> [StreamKey -> Nat]]
    /\ awaitingPong \in [Peer -> BOOLEAN]

\* A teardown leaves every table of the session typed.
LEMMA TeardownType ==
    ASSUME SessionTypes, NEW p \in Peer, NEW code \in CloseCode, Teardown(p, code)
    PROVE  SessionTypes'
  <1>1. call' \in [Peer -> [Call -> CallRecord]]
    BY RejectedType DEF SessionTypes, Teardown
  <1>2. streams' \in [Peer -> [StreamKey -> Nat]]
    BY DEF SessionTypes, Teardown
  <1> QED
    BY <1>1, <1>2 DEF SessionTypes, Teardown

\* closeNow keeps every variable in its type.
LEMMA CloseNowType ==
    ASSUME TypeOK, NEW p \in Peer, NEW code \in CloseCode, CloseNow(p, code),
           closing' \in [Peer -> {"none", "waiting", "resolved"}]
    PROVE  TypeOK'
  <1>1. SessionTypes'
    BY TeardownType DEF TypeOK, SessionTypes, CloseNow
  <1>2. <<CloseOf(code)>> \in Seq(Frame)
    BY FrameTypes
  <1>3. (IF port[p] = "open" THEN Queued(wire, p, <<CloseOf(code)>>) ELSE wire) \in Wires
    BY <1>2, QueuedType DEF TypeOK, Wires
  <1>4. wire' \in Wires
    BY <1>3 DEF CloseNow, Wires
  <1> QED
    BY <1>1, <1>4 DEF TypeOK, SessionTypes, CloseNow, Wires

\* #handlePortClosed keeps every variable in its type.
LEMMA PortClosedType ==
    ASSUME TypeOK, NEW p \in Peer, NEW code \in CloseCode, PortClosed(p, code),
           UNCHANGED closing
    PROVE  TypeOK'
  <1>1. SessionTypes'
    BY TeardownType DEF TypeOK, SessionTypes, PortClosed
  <1>2. wire' \in Wires
    BY DEF PortClosed, Wires, TypeOK
  <1> QED
    BY <1>1, <1>2 DEF TypeOK, SessionTypes, PortClosed, Wires

\* Every step keeps every variable in its type.
LEMMA TypePreserved ==
    ASSUME TypeOK, [Next]_vars
    PROVE  TypeOK'
  <1>a. Released \in CloseCode /\ ProtocolError \in CloseCode /\ ProtocolMismatch \in CloseCode
    BY DEF CloseCode
  <1>b. wire \in Wires
    BY DEF TypeOK, Wires
  <1>1. ASSUME NEW p \in Peer, Open(p) PROVE TypeOK'
    <2>1. CASE port[p] = "open"
      <3>1. <<Hello(conf[p])>> \in Seq(Frame)
        BY FrameTypes DEF TypeOK
      <3>2. Queued(wire, p, <<Hello(conf[p])>>) \in Wires
        BY <1>b, <3>1, QueuedType
      <3> QED
        BY <1>1, <2>1, <3>2 DEF Open, TypeOK, Wires, requestVars, answerVars, eventVars
    <2>2. CASE port[p] # "open"
      BY <1>1, <1>a, <2>2, CloseNowType DEF Open, TypeOK
    <2> QED
      BY <2>1, <2>2
  <1>2. ASSUME NEW p \in Peer, HandshakeTimeout(p) PROVE TypeOK'
    BY <1>2, <1>a, CloseNowType DEF HandshakeTimeout, TypeOK
  <1>3. ASSUME NEW p \in Peer, LivenessTick(p) PROVE TypeOK'
    <2>1. CASE awaitingPong[p]
      BY <1>3, <1>a, <2>1, CloseNowType DEF LivenessTick, TypeOK
    <2>2. CASE ~awaitingPong[p]
      <3>1. TrySend(wire, p, Sign("ping")) \in Wires
        BY <1>b, FrameTypes, TrySendType
      <3> QED
        BY <1>3, <2>2, <3>1 DEF LivenessTick, TypeOK, Wires, handshakeVars, requestVars,
                               answerVars, eventVars
    <2> QED
      BY <2>1, <2>2
  <1>4. ASSUME NEW p \in Peer, Receive(p) PROVE TypeOK'
    <2>a. wire[p] # <<>>
      BY <1>4 DEF Receive, ReceiveHello, ReceiveRequest, ReceiveAnswer, ReceiveEvent,
                  ReceiveCancel, ReceivePing, ReceivePong, ReceiveClose, ReceiveOversized, Arrives
    <2>b. Popped(p) \in Wires /\ Head(wire[p]) \in Frame
      BY <1>b, <2>a, PoppedType
    <2>1. CASE ReceiveHello(p)
      <3>1. CASE state[p] # "handshaking" \/ ~Agrees(conf[p], Head(wire[p]))
        BY <1>a, <2>1, <3>1, CloseNowType DEF ReceiveHello, TypeOK
      <3>2. CASE state[p] = "handshaking" /\ Agrees(conf[p], Head(wire[p]))
        <4>1. Head(wire[p]) \in HelloFrame
          BY <2>1, <2>b, FrameFields DEF ReceiveHello, Arrives
        <4>2. RemotePeer(conf[p], Head(wire[p])) \in Remote
          BY <4>1 DEF RemotePeer, EffectiveMinor, HelloFrame, Remote, TypeOK, Config
        <4>3. remote' \in [Peer -> Remote]
          <5>1. [remote EXCEPT ![p] = RemotePeer(conf[p], Head(wire[p]))] \in [Peer -> Remote]
            BY <4>2 DEF TypeOK
          <5> QED
            BY <2>1, <3>2, <5>1 DEF ReceiveHello
        <4>4. state' \in [Peer -> {"new", "handshaking", "ready", "closed"}]
          BY <2>1, <3>2 DEF ReceiveHello, TypeOK
        <4> QED
          BY <2>1, <2>b, <3>2, <4>3, <4>4 DEF ReceiveHello, TypeOK, Wires, requestVars,
                                              answerVars, eventVars
      <3> QED
        BY <3>1, <3>2
    <2>2. CASE ReceiveRequest(p)
      <3>1. Head(wire[p]).id \in Nat
        BY <2>2, <2>b, FrameFields DEF ReceiveRequest, Arrives, RequestFrame
      <3>2. \A i \in 1 .. Len(RefusalOrder) : RefusalOrder[i] \in Refusal \cup Failure
        BY DEF RefusalOrder, Refusal
      <3>3. \A i \in 1 .. Len(RefusalOrder) :
              Respond(Popped(p), p, Err(Head(wire[p]).id, RefusalOrder[i], 0)) \in Wires
        BY <2>b, <3>1, <3>2, FrameTypes, RespondType
      <3>4. wire' \in Wires
        BY <2>2, <2>b, <3>3 DEF ReceiveRequest
      <3>5. /\ active' \in [Peer -> SUBSET Nat]
            /\ running' \in [Peer -> SUBSET Nat]
            /\ started' \in [Peer -> SUBSET Nat]
            /\ signalled' \in [Peer -> SUBSET Nat]
        <4>1. /\ [active EXCEPT ![p] = @ \cup {Head(wire[p]).id}] \in [Peer -> SUBSET Nat]
              /\ [running EXCEPT ![p] = @ \cup {Head(wire[p]).id}] \in [Peer -> SUBSET Nat]
              /\ [started EXCEPT ![p] = @ \cup {Head(wire[p]).id}] \in [Peer -> SUBSET Nat]
          BY <3>1 DEF TypeOK
        <4>2. active \in [Peer -> SUBSET Nat] /\ running \in [Peer -> SUBSET Nat]
              /\ started \in [Peer -> SUBSET Nat] /\ signalled \in [Peer -> SUBSET Nat]
          BY DEF TypeOK
        <4> QED
          BY <2>2, <4>1, <4>2 DEF ReceiveRequest, answerVars
      <3> QED
        BY <2>2, <3>4, <3>5 DEF ReceiveRequest, TypeOK, Wires, handshakeVars, requestVars, eventVars
    <2>3. CASE ReceiveAnswer(p)
      <3>1. (IF Head(wire[p]).type = "res" THEN "result" ELSE Head(wire[p]).code) \in Outcome
        BY <2>3, <2>b, FrameFields DEF ReceiveAnswer, Arrives, ErrorFrame, Outcome
      <3>2. call' \in [Peer -> [Call -> CallRecord]]
        <4> DEFINE o == IF Head(wire[p]).type = "res" THEN "result" ELSE Head(wire[p]).code
        <4>1. [c \in Call |-> IF call[p][c].id = Head(wire[p]).id
                              THEN Settled(call[p][c], o) ELSE call[p][c]]
                \in [Call -> CallRecord]
          BY <3>1, SettledType DEF TypeOK
        <4>2. CASE Head(wire[p]).id \in pending[p]
          BY <2>3, <4>1, <4>2 DEF ReceiveAnswer, TypeOK
        <4>3. CASE Head(wire[p]).id \notin pending[p]
          BY <2>3, <4>3 DEF ReceiveAnswer, TypeOK
        <4> QED
          BY <4>2, <4>3
      <3>3. pending' \in [Peer -> SUBSET Nat]
        <4>1. [pending EXCEPT ![p] = @ \ {Head(wire[p]).id}] \in [Peer -> SUBSET Nat]
          BY DEF TypeOK
        <4>2. pending \in [Peer -> SUBSET Nat]
          BY DEF TypeOK
        <4> QED
          BY <2>3, <4>1, <4>2 DEF ReceiveAnswer
      <3> QED
        BY <2>3, <2>b, <3>2, <3>3 DEF ReceiveAnswer, TypeOK, Wires, handshakeVars, answerVars, eventVars
    <2>4. CASE ReceiveEvent(p)
      <3>1. Head(wire[p]) \in EventFrame
        BY <2>4, <2>b, FrameFields DEF ReceiveEvent, Arrives
      <3>2. heard' \in [Peer -> [StreamKey -> Nat]]
        BY <2>4, <3>1 DEF ReceiveEvent, TypeOK, EventFrame, SequenceAfter
      <3> QED
        BY <2>4, <2>b, <3>2 DEF ReceiveEvent, TypeOK, Wires, handshakeVars, requestVars, answerVars
    <2>5. CASE ReceiveCancel(p)
      BY <2>5, <2>b DEF ReceiveCancel, Cancelled, TypeOK, Wires, handshakeVars, requestVars, eventVars
    <2>6. CASE ReceivePing(p)
      <3>1. TrySend(Popped(p), p, Sign("pong")) \in Wires
        BY <2>b, FrameTypes, TrySendType
      <3> QED
        BY <2>6, <3>1 DEF ReceivePing, TypeOK, Wires, handshakeVars, requestVars, answerVars, eventVars
    <2>7. CASE ReceivePong(p)
      BY <2>7, <2>b DEF ReceivePong, TypeOK, Wires, handshakeVars, requestVars, answerVars, eventVars
    <2>8. CASE ReceiveClose(p)
      <3>1. Head(wire[p]).code \in CloseCode
        BY <2>8, <2>b, FrameFields DEF ReceiveClose, Arrives, CloseFrame
      <3>2. SessionTypes'
        BY <2>8, <3>1, TeardownType DEF ReceiveClose, TypeOK, SessionTypes
      <3> QED
        <4>1. wire' \in Wires
          BY <1>b, <2>8 DEF ReceiveClose, Wires
        <4> QED
          BY <2>8, <3>2, <4>1 DEF ReceiveClose, TypeOK, SessionTypes, Wires
    <2>9. CASE ReceiveOversized(p)
      BY <1>a, <2>9, CloseNowType DEF ReceiveOversized, TypeOK
    <2> QED
      BY <1>4, <2>1, <2>2, <2>3, <2>4, <2>5, <2>6, <2>7, <2>8, <2>9 DEF Receive
  <1>5. ASSUME NEW p \in Peer, NEW c \in Call, NEW m \in Method, Request(p, c, m) PROVE TypeOK'
    <2>1. Waiting(call[p][c], m) \in CallRecord
      BY WaitingType DEF TypeOK
    <2>2. call' \in [Peer -> [Call -> CallRecord]]
      <3>1. [call EXCEPT ![p][c] = Waiting(call[p][c], m)] \in [Peer -> [Call -> CallRecord]]
        BY <2>1, CallUpdate DEF TypeOK
      <3> QED
        BY <1>5, <3>1 DEF Request
    <2> QED
      BY <1>5, <2>2 DEF Request, TypeOK, handshakeVars, answerVars, eventVars, netVars
  <1>6. ASSUME NEW p \in Peer, NEW c \in Call, RequestRefused(p, c) PROVE TypeOK'
    <2>1. {"INVALID_REQUEST", "MISMATCH", "UNAVAILABLE"} \subseteq Outcome
      BY DEF Outcome
    <2>2. call' \in [Peer -> [Call -> CallRecord]]
      <3>1. call[p][c] \in CallRecord
        BY DEF TypeOK
      <3>2. \A o \in {"INVALID_REQUEST", "MISMATCH", "UNAVAILABLE"} :
              [call EXCEPT ![p][c] = Settled(call[p][c], o)] \in [Peer -> [Call -> CallRecord]]
        BY <2>1, <3>1, SettledType, CallUpdate DEF TypeOK
      <3> QED
        BY <1>6, <3>2 DEF RequestRefused, TypeOK
    <2> QED
      BY <1>6, <2>2 DEF RequestRefused, TypeOK, handshakeVars, answerVars, eventVars, netVars
  <1>7. ASSUME NEW p \in Peer, NEW c \in Call, NEW s \in PayloadSizes, RequestSend(p, c, s) PROVE TypeOK'
    <2> DEFINE id == NextId(p)
               r == [call[p][c] EXCEPT !.id = id]
    <2>1. id \in Nat /\ r \in CallRecord /\ r.method \in Method
      <3>1. call[p][c] \in CallRecord /\ requestSequence[p] \in Nat
        BY DEF TypeOK
      <3> QED
        BY <3>1 DEF CallRecord, NextId
    <2>2. {"FRAME_TOO_LARGE", "UNAVAILABLE"} \subseteq Outcome
      BY DEF Outcome, Failure
    <2>3. [r EXCEPT !.state = "pending"] \in CallRecord
      BY <2>1 DEF CallRecord
    <2>4. call' \in [Peer -> [Call -> CallRecord]]
      <3>1. \A o \in {"FRAME_TOO_LARGE", "UNAVAILABLE"} :
              [call EXCEPT ![p][c] = Settled(r, o)] \in [Peer -> [Call -> CallRecord]]
        BY <2>1, <2>2, SettledType, CallUpdate DEF TypeOK
      <3>2. [call EXCEPT ![p][c] = [r EXCEPT !.state = "pending"]] \in [Peer -> [Call -> CallRecord]]
        BY <2>3, CallUpdate DEF TypeOK
      <3> QED
        BY <1>7, <3>1, <3>2 DEF RequestSend
    <2>5. RequestFrames(r, id, s) \in Seq(Frame)
      BY <2>1, FrameTypes, SizesTyped DEF RequestFrames
    <2>6. Queued(wire, p, RequestFrames(r, id, s)) \in Wires
      BY <1>b, <2>5, QueuedType
    <2>7. wire' \in Wires
      BY <1>7, <1>b, <2>6 DEF RequestSend
    <2>8. requestSequence' \in [Peer -> Nat]
      BY <1>7, <2>1 DEF RequestSend, TypeOK
    <2>9. pending' \in [Peer -> SUBSET Nat]
      <3>1. [pending EXCEPT ![p] = @ \cup {id}] \in [Peer -> SUBSET Nat]
        BY <2>1 DEF TypeOK
      <3>2. pending \in [Peer -> SUBSET Nat]
        BY DEF TypeOK
      <3> QED
        BY <1>7, <3>1, <3>2 DEF RequestSend
    <2> QED
      BY <1>7, <2>4, <2>7, <2>8, <2>9 DEF RequestSend, TypeOK, Wires, handshakeVars, answerVars, eventVars
  <1>8. ASSUME NEW p \in Peer, NEW c \in Call, Abort(p, c) PROVE TypeOK'
    <2>1. TrySend(wire, p, Cancel(call[p][c].id)) \in Wires
      BY <1>b, FrameTypes, TrySendType DEF TypeOK, CallRecord
    <2>2. call' \in [Peer -> [Call -> CallRecord]]
      <3>1. Aborted(call[p][c]) \in CallRecord
        BY AbortedType DEF TypeOK
      <3>2. [call EXCEPT ![p][c] = Aborted(call[p][c])] \in [Peer -> [Call -> CallRecord]]
        BY <3>1, CallUpdate DEF TypeOK
      <3> QED
        BY <1>8, <3>2 DEF Abort
    <2> QED
      BY <1>8, <2>1, <2>2 DEF Abort, TypeOK, Wires, handshakeVars, answerVars, eventVars
  <1>9. ASSUME NEW p \in Peer, NEW c \in Call, RequestTimeout(p, c) PROVE TypeOK'
    <2>1. TrySend(wire, p, Cancel(call[p][c].id)) \in Wires
      BY <1>b, FrameTypes, TrySendType DEF TypeOK, CallRecord
    <2>2. call' \in [Peer -> [Call -> CallRecord]]
      BY <1>9, SettledType DEF RequestTimeout, TypeOK, Outcome
    <2> QED
      BY <1>9, <2>1, <2>2 DEF RequestTimeout, TypeOK, Wires, handshakeVars, answerVars, eventVars
  <1>10. ASSUME NEW p \in Peer, NEW id \in running[p], NEW answer \in Frame,
                HandlerSettles(p, id, answer)
         PROVE TypeOK'
    <2>1. Respond(wire, p, answer) \in Wires
      BY <1>b, RespondType
    <2> QED
      BY <1>10, <2>1 DEF HandlerSettles, TypeOK, Wires, handshakeVars, requestVars, eventVars
  <1>11. ASSUME NEW p \in Peer, Handling(p) PROVE TypeOK'
    <2>1. PICK id \in running[p] :
            \/ \E s \in PayloadSizes : HandlerReturns(p, id, s)
            \/ \E threw \in {"RemoteError", "AbortError", "Error"}, s \in ErrorSizes :
                   HandlerThrows(p, id, threw, s)
      BY <1>11 DEF Handling
    <2>a. id \in Nat
      BY DEF TypeOK
    <2>2. CASE \E s \in PayloadSizes : HandlerReturns(p, id, s)
      <3>1. PICK s \in PayloadSizes : HandlerReturns(p, id, s)
        BY <2>2
      <3>2. ResultAnswer(p, id, s) \in Frame
        BY <2>a, FrameTypes, SizesTyped DEF ResultAnswer, Failure
      <3> QED
        BY <1>10, <3>1, <3>2 DEF HandlerReturns
    <2>3. CASE \E threw \in {"RemoteError", "AbortError", "Error"}, s \in ErrorSizes :
                   HandlerThrows(p, id, threw, s)
      <3>1. PICK threw \in {"RemoteError", "AbortError", "Error"}, s \in ErrorSizes :
                   HandlerThrows(p, id, threw, s)
        BY <2>3
      <3>2. ErrorCode(p, id, threw) \in Failure
        BY DEF ErrorCode, Failure
      <3>3. Err(id, ErrorCode(p, id, threw), s) \in Frame
        BY <2>a, <3>2, FrameTypes, SizesTyped
      <3> QED
        BY <1>10, <3>1, <3>3 DEF HandlerThrows
    <2> QED
      BY <2>1, <2>2, <2>3
  <1>12. ASSUME NEW p \in Peer, NEW k \in StreamKey, NEW end \in BOOLEAN, NEW s \in PayloadSizes,
                Emit(p, k, end, s)
         PROVE TypeOK'
    <2>1. <<Evt(k, streams[p][k], end, s)>> \in Seq(Frame)
      BY FrameTypes, SizesTyped DEF TypeOK
    <2>2. Queued(wire, p, <<Evt(k, streams[p][k], end, s)>>) \in Wires
      BY <1>b, <2>1, QueuedType
    <2>3. streams' \in [Peer -> [StreamKey -> Nat]]
      BY <1>12 DEF Emit, TypeOK, CounterAfter
    <2> QED
      BY <1>12, <2>2, <2>3 DEF Emit, TypeOK, Wires, handshakeVars, requestVars, answerVars
  <1>13. ASSUME NEW p \in Peer, Ping(p) PROVE TypeOK'
    <2>1. <<Sign("ping")>> \in Seq(Frame)
      BY FrameTypes
    <2>2. Queued(wire, p, <<Sign("ping")>>) \in Wires
      BY <1>b, <2>1, QueuedType
    <2> QED
      BY <1>13, <2>2 DEF Ping, TypeOK, Wires, handshakeVars, requestVars, answerVars, eventVars
  <1>14. ASSUME NEW p \in Peer, Close(p) PROVE TypeOK'
    <2>1. closing' \in [Peer -> {"none", "waiting", "resolved"}]
      BY <1>14 DEF Close, TypeOK
    <2>2. CASE state[p] = "closed"
      BY <1>14, <2>1, <2>2 DEF Close, TypeOK, handshakeVars, requestVars, answerVars, eventVars, netVars
    <2>3. CASE state[p] # "closed"
      BY <1>14, <1>a, <2>1, <2>3, CloseNowType DEF Close
    <2> QED
      BY <2>2, <2>3
  <1>15. ASSUME NEW p \in Peer, CloseResolves(p) PROVE TypeOK'
    BY <1>15 DEF CloseResolves, TypeOK, handshakeVars, requestVars, answerVars, eventVars, netVars
  <1>16. ASSUME NEW p \in Peer, PortLost(p) PROVE TypeOK'
    <2>1. PICK n \in 0 .. Len(wire[Other(p)]) :
            wire' = [q \in Peer |-> IF q = p THEN <<>> ELSE SubSeq(wire[q], 1, n)]
      BY <1>16 DEF PortLost
    <2>2. wire[Other(p)] \in Seq(Frame)
      BY <1>b, OtherType DEF Wires
    <2>3. SubSeq(wire[Other(p)], 1, n) \in Seq(Frame)
      BY <2>2
    <2>4. \A q \in Peer : q = p \/ q = Other(p)
      BY DEF Peer, Other
    <2>5. wire' \in Wires
      BY <2>1, <2>3, <2>4 DEF Wires
    <2> QED
      BY <1>16, <2>5 DEF PortLost, TypeOK, Wires, handshakeVars, requestVars, answerVars, eventVars
  <1>17. ASSUME NEW p \in Peer, PortReports(p) PROVE TypeOK'
    BY <1>17, <1>a, PortClosedType DEF PortReports
  <1>18. ASSUME NEW p \in Peer, PortEnds(p) PROVE TypeOK'
    BY <1>18, <1>a, PortClosedType DEF PortEnds
  <1>19. CASE LinkDies
    BY <1>19 DEF LinkDies, TypeOK, handshakeVars, requestVars, answerVars, eventVars
  <1>20. CASE UNCHANGED vars
    BY <1>20 DEF TypeOK, vars, handshakeVars, requestVars, answerVars, eventVars, netVars
  <1> QED
    BY <1>1, <1>2, <1>3, <1>4, <1>5, <1>6, <1>7, <1>8, <1>9, <1>11, <1>12, <1>13, <1>14,
       <1>15, <1>16, <1>17, <1>18, <1>19, <1>20 DEF Next, Requesting

\* Every variable keeps its type in every behaviour.
THEOREM TypeCorrect == Spec => []TypeOK
  <1>1. Init => TypeOK
    BY ConfigsTyped, SizesTyped DEF Init, TypeOK, Remote, NoCall, CallRecord, Method, Outcome, NoCode
  <1> QED
    BY <1>1, TypePreserved, PTL DEF Spec

-----------------------------------------------------------------------------
(* The requester's tables.  PendingMatchesCallers is not inductive alone:  *)
(* that a settled answer touches one caller only needs ids to be below the *)
(* counter, and that ids are fresh needs unsent calls to have none.        *)

TableOK(t, pend, n) ==
    /\ \A c \in Call : /\ t[c].state \in {"idle", "waiting"} => t[c].id = 0
                       /\ t[c].id <= n
                       /\ t[c].state = "pending" <=> t[c].id \in pend
    /\ \A id \in pend : id # 0 /\ \E c \in Call : t[c].id = id
    /\ \A c, d \in Call : c # d /\ t[c].id # 0 => t[c].id # t[d].id

RequestInv == \A p \in Peer : TableOK(call[p], pending[p], requestSequence[p])

\* The inductive invariant gives the property the runs check.
LEMMA RequestInvImplies ==
    ASSUME TypeOK, RequestInv
    PROVE  PendingMatchesCallers
  <1> SUFFICES ASSUME NEW p \in Peer
               PROVE  /\ pending[p] = {call[p][c].id : c \in {d \in Call : call[p][d].state = "pending"}}
                      /\ \A c, d \in Call : c # d /\ call[p][c].id # 0 => call[p][c].id # call[p][d].id
    BY DEF PendingMatchesCallers
  <1>1. TableOK(call[p], pending[p], requestSequence[p])
    BY DEF RequestInv
  <1> QED
    BY <1>1 DEF TableOK

\* Rejecting every pending caller empties the table.
LEMMA TableRejected ==
    ASSUME NEW t \in [Call -> CallRecord], NEW pend \in SUBSET Nat, NEW n \in Nat,
           TableOK(t, pend, n)
    PROVE  TableOK([c \in Call |-> Rejected(t[c])], {}, n)
  <1> DEFINE u == [c \in Call |-> Rejected(t[c])]
  <1>1. \A c \in Call : /\ u[c].id = t[c].id
                        /\ u[c].state # "pending"
                        /\ u[c].state \in {"idle", "waiting"} => t[c].state = u[c].state
    BY DEF Rejected, CallRecord
  <1> HIDE DEF u
  <1>2. TableOK(u, {}, n)
    BY <1>1 DEF TableOK
  <1> QED
    BY <1>2 DEF u

\* Replacing one caller that has no pending request, keeping its id.
LEMMA TableKeepsId ==
    ASSUME NEW t \in [Call -> CallRecord], NEW pend \in SUBSET Nat, NEW n \in Nat,
           TableOK(t, pend, n), NEW c \in Call, NEW r \in CallRecord,
           r.id = t[c].id,
           r.state = "pending" <=> t[c].state = "pending",
           r.state \in {"idle", "waiting"} => t[c].state \in {"idle", "waiting"}
    PROVE  TableOK([t EXCEPT ![c] = r], pend, n)
  <1> DEFINE u == [t EXCEPT ![c] = r]
  <1>1. \A d \in Call : /\ u[d].id = t[d].id
                        /\ u[d].state = "pending" <=> t[d].state = "pending"
                        /\ u[d].state \in {"idle", "waiting"} => t[d].state \in {"idle", "waiting"}
    OBVIOUS
  <1> HIDE DEF u
  <1> QED
    BY <1>1 DEF TableOK

\* Settling every caller of one pending id, which is one caller.
LEMMA TableSettled ==
    ASSUME NEW t \in [Call -> CallRecord], NEW pend \in SUBSET Nat, NEW n \in Nat,
           TableOK(t, pend, n), NEW id \in pend, NEW u \in [Call -> CallRecord],
           \A c \in Call : u[c].id = t[c].id,
           \A c \in Call : t[c].id = id => u[c].state = "settled",
           \A c \in Call : t[c].id # id => u[c].state = t[c].state
    PROVE  TableOK(u, pend \ {id}, n)
  BY DEF TableOK

\* Giving a waiting caller the next id, registered or settled at once.
LEMMA TableSent ==
    ASSUME NEW t \in [Call -> CallRecord], NEW pend \in SUBSET Nat, NEW n \in Nat,
           TableOK(t, pend, n), NEW c \in Call, t[c].state = "waiting",
           NEW r \in CallRecord, r.id = n + 1, NEW new \in SUBSET Nat,
           \/ r.state = "pending" /\ new = pend \cup {n + 1}
           \/ r.state = "settled" /\ new = pend
    PROVE  TableOK([t EXCEPT ![c] = r], new, n + 1)
  <1> DEFINE u == [t EXCEPT ![c] = r]
  <1>1. u[c] = r /\ \A d \in Call : d # c => u[d] = t[d]
    OBVIOUS
  <1>2. t[c].id = 0 /\ n + 1 \notin pend /\ n + 1 # 0
    BY DEF TableOK, CallRecord
  <1>3. \A d \in Call : t[d].id \in Nat /\ t[d].id <= n /\ t[d].id # n + 1
    BY DEF TableOK, CallRecord
  <1> HIDE DEF u
  <1>4. \A d \in Call : /\ u[d].state \in {"idle", "waiting"} => u[d].id = 0
                        /\ u[d].id <= n + 1
                        /\ u[d].state = "pending" <=> u[d].id \in new
    BY <1>1, <1>2, <1>3 DEF TableOK
  <1>5. \A id \in new : id # 0 /\ \E d \in Call : u[d].id = id
    BY <1>1, <1>2, <1>3 DEF TableOK
  <1>6. \A d, e \in Call : d # e /\ u[d].id # 0 => u[d].id # u[e].id
    BY <1>1, <1>2, <1>3 DEF TableOK
  <1> QED
    BY <1>4, <1>5, <1>6 DEF TableOK, u

\* An action that changes the tables of p only, from TableOK to TableOK.
LEMMA RequestInvAt ==
    ASSUME TypeOK, RequestInv, NEW p \in Peer, NEW t, NEW pend, NEW n,
           call' = [call EXCEPT ![p] = t],
           pending' = [pending EXCEPT ![p] = pend],
           requestSequence' = [requestSequence EXCEPT ![p] = n],
           TableOK(t, pend, n)
    PROVE  RequestInv'
  <1> SUFFICES ASSUME NEW q \in Peer
               PROVE  TableOK(call'[q], pending'[q], requestSequence'[q])
    BY DEF RequestInv
  <1>1. CASE q = p
    <2>1. call'[q] = t /\ pending'[q] = pend /\ requestSequence'[q] = n
      BY <1>1 DEF TypeOK
    <2> QED
      BY <2>1
  <1>2. CASE q # p
    <2>1. call'[q] = call[q] /\ pending'[q] = pending[q]
          /\ requestSequence'[q] = requestSequence[q]
      BY <1>2 DEF TypeOK
    <2> QED
      BY <2>1 DEF RequestInv
  <1> QED
    BY <1>1, <1>2

\* #teardown rejects every caller in the table and empties it.
LEMMA RequestInvTeardown ==
    ASSUME TypeOK, RequestInv, NEW p \in Peer, NEW code, Teardown(p, code)
    PROVE  RequestInv'
  <1>1. TableOK([c \in Call |-> Rejected(call[p][c])], {}, requestSequence[p])
    BY TableRejected DEF RequestInv, TypeOK
  <1>2. /\ call' = [call EXCEPT ![p] = [c \in Call |-> Rejected(call[p][c])]]
        /\ pending' = [pending EXCEPT ![p] = {}]
        /\ requestSequence' = [requestSequence EXCEPT ![p] = requestSequence[p]]
    BY DEF Teardown, TypeOK
  <1> QED
    BY <1>1, <1>2, RequestInvAt

\* A step that leaves the callers and the table alone keeps the invariant.
LEMMA RequestInvUnchanged ==
    ASSUME RequestInv, UNCHANGED requestVars
    PROVE  RequestInv'
  BY DEF RequestInv, requestVars

\* One caller of p is replaced and the table of pending ids is left alone.
LEMMA RequestInvReplaced ==
    ASSUME TypeOK, RequestInv, NEW p \in Peer, NEW c \in Call, NEW r \in CallRecord,
           r.id = call[p][c].id,
           r.state = "pending" <=> call[p][c].state = "pending",
           r.state \in {"idle", "waiting"} => call[p][c].state \in {"idle", "waiting"},
           call' = [call EXCEPT ![p][c] = r], UNCHANGED <<pending, requestSequence>>
    PROVE  RequestInv'
  <1> DEFINE t == [call[p] EXCEPT ![c] = r]
  <1>1. TableOK(t, pending[p], requestSequence[p])
    BY TableKeepsId DEF RequestInv, TypeOK
  <1>2. /\ call' = [call EXCEPT ![p] = t]
        /\ pending' = [pending EXCEPT ![p] = pending[p]]
        /\ requestSequence' = [requestSequence EXCEPT ![p] = requestSequence[p]]
    BY DEF TypeOK
  <1> HIDE DEF t
  <1> QED
    BY <1>1, <1>2, RequestInvAt

\* Every step keeps callers and the pending table in agreement.
LEMMA RequestInvPreserved ==
    ASSUME TypeOK, RequestInv, [Next]_vars
    PROVE  RequestInv'
  <1>1. ASSUME NEW p \in Peer, Open(p) PROVE RequestInv'
    BY <1>1, RequestInvTeardown, RequestInvUnchanged DEF Open, CloseNow
  <1>2. ASSUME NEW p \in Peer, HandshakeTimeout(p) PROVE RequestInv'
    BY <1>2, RequestInvTeardown DEF HandshakeTimeout, CloseNow
  <1>3. ASSUME NEW p \in Peer, LivenessTick(p) PROVE RequestInv'
    BY <1>3, RequestInvTeardown, RequestInvUnchanged DEF LivenessTick, CloseNow
  <1>4. ASSUME NEW p \in Peer, Receive(p) PROVE RequestInv'
    <2>1. CASE ReceiveHello(p)
      BY <2>1, RequestInvTeardown, RequestInvUnchanged DEF ReceiveHello, CloseNow
    <2>2. CASE ReceiveAnswer(p)
      <3> DEFINE f == Head(wire[p])
                 o == IF f.type = "res" THEN "result" ELSE f.code
                 t == [c \in Call |-> IF call[p][c].id = f.id
                                      THEN Settled(call[p][c], o) ELSE call[p][c]]
      <3>1. CASE f.id \notin pending[p]
        <4>1. UNCHANGED <<call, pending, requestSequence>>
          BY <2>2, <3>1 DEF ReceiveAnswer, requestVars
        <4> QED
          BY <4>1, RequestInvUnchanged DEF requestVars
      <3>2. CASE f.id \in pending[p]
        <4>1. wire[p] # <<>> /\ wire \in Wires
          BY <2>2 DEF ReceiveAnswer, Arrives, TypeOK, Wires
        <4>2. f \in Frame
          BY <4>1, PoppedType
        <4>3. o \in Outcome
          BY <2>2, <4>2, FrameFields DEF ReceiveAnswer, Arrives, ErrorFrame, Outcome
        <4>4. call[p] \in [Call -> CallRecord]
          BY DEF TypeOK
        <4>5. t \in [Call -> CallRecord]
          BY <4>3, <4>4, SettledType
        <4>6. /\ \A c \in Call : t[c].id = call[p][c].id
              /\ \A c \in Call : call[p][c].id = f.id => t[c].state = "settled"
              /\ \A c \in Call : call[p][c].id # f.id => t[c].state = call[p][c].state
          BY <4>4 DEF Settled, CallRecord
        <4>7. TableOK(t, pending[p] \ {f.id}, requestSequence[p])
          <5>1. TableOK(call[p], pending[p], requestSequence[p])
                /\ pending[p] \in SUBSET Nat /\ requestSequence[p] \in Nat
            BY DEF RequestInv, TypeOK
          <5> HIDE DEF t, f
          <5> QED
            BY <3>2, <4>4, <4>5, <4>6, <5>1, TableSettled
        <4>8. /\ call' = [call EXCEPT ![p] = t]
              /\ pending' = [pending EXCEPT ![p] = pending[p] \ {f.id}]
              /\ requestSequence' = [requestSequence EXCEPT ![p] = requestSequence[p]]
          BY <2>2, <3>2 DEF ReceiveAnswer, TypeOK
        <4> HIDE DEF t, f
        <4> QED
          BY <4>7, <4>8, RequestInvAt
      <3> QED
        BY <3>1, <3>2
    <2>3. CASE ReceiveRequest(p) \/ ReceiveEvent(p) \/ ReceiveCancel(p)
               \/ ReceivePing(p) \/ ReceivePong(p)
      <3>1. UNCHANGED requestVars
        BY <2>3 DEF ReceiveRequest, ReceiveEvent, ReceiveCancel, ReceivePing, ReceivePong
      <3> QED
        BY <3>1, RequestInvUnchanged
    <2>4. CASE ReceiveClose(p)
      BY <2>4, RequestInvTeardown DEF ReceiveClose
    <2>5. CASE ReceiveOversized(p)
      BY <2>5, RequestInvTeardown DEF ReceiveOversized, CloseNow
    <2> QED
      BY <1>4, <2>1, <2>2, <2>3, <2>4, <2>5 DEF Receive
  <1>5. ASSUME NEW p \in Peer, NEW c \in Call, NEW m \in Method, Request(p, c, m)
        PROVE  RequestInv'
    <2> DEFINE r == Waiting(call[p][c], m)
    <2>1. call[p][c] \in CallRecord
      BY DEF TypeOK
    <2>2. r \in CallRecord
      BY <2>1, WaitingType
    <2>3. r.id = call[p][c].id /\ r.state = "waiting" /\ call[p][c].state = "idle"
      BY <1>5, <2>1 DEF Waiting, CallRecord, Request
    <2>4. call' = [call EXCEPT ![p][c] = r] /\ UNCHANGED <<pending, requestSequence>>
      BY <1>5 DEF Request
    <2> HIDE DEF r
    <2> QED
      BY <2>2, <2>3, <2>4, RequestInvReplaced
  <1>6. ASSUME NEW p \in Peer, NEW c \in Call, RequestRefused(p, c) PROVE RequestInv'
    <2>1. {"INVALID_REQUEST", "MISMATCH", "UNAVAILABLE"} \subseteq Outcome
      BY DEF Outcome
    <2>2. PICK o \in {"INVALID_REQUEST", "MISMATCH", "UNAVAILABLE"} :
            call' = [call EXCEPT ![p][c] = Settled(call[p][c], o)]
      BY <1>6 DEF RequestRefused
    <2>3. call[p][c] \in CallRecord
      BY DEF TypeOK
    <2> DEFINE r == Settled(call[p][c], o)
    <2>4. r \in CallRecord
      BY <2>1, <2>3, SettledType
    <2>5. r.id = call[p][c].id /\ r.state = "settled" /\ call[p][c].state = "waiting"
      BY <1>6, <2>3 DEF Settled, CallRecord, RequestRefused
    <2>6. call' = [call EXCEPT ![p][c] = r] /\ UNCHANGED <<pending, requestSequence>>
      BY <1>6, <2>2 DEF RequestRefused
    <2> HIDE DEF r
    <2> QED
      BY <2>4, <2>5, <2>6, RequestInvReplaced
  <1>7. ASSUME NEW p \in Peer, NEW c \in Call, NEW s \in PayloadSizes, RequestSend(p, c, s)
        PROVE  RequestInv'
    <2> DEFINE n == requestSequence[p]
               r == [call[p][c] EXCEPT !.id = n + 1]
    <2>1. call[p][c] \in CallRecord /\ n \in Nat /\ pending[p] \in SUBSET Nat
          /\ call[p] \in [Call -> CallRecord]
      BY DEF TypeOK
    <2>2. r \in CallRecord /\ r.id = n + 1
      BY <2>1 DEF CallRecord
    <2>3. PICK q \in CallRecord, new \in SUBSET Nat :
            /\ q.id = n + 1
            /\ \/ q.state = "pending" /\ new = pending[p] \cup {n + 1}
               \/ q.state = "settled" /\ new = pending[p]
            /\ call' = [call EXCEPT ![p][c] = q]
            /\ pending' = [pending EXCEPT ![p] = new]
      <3>1. \A o \in {"FRAME_TOO_LARGE", "UNAVAILABLE"} :
              Settled(r, o) \in CallRecord /\ Settled(r, o).id = n + 1
              /\ Settled(r, o).state = "settled"
        <4>1. {"FRAME_TOO_LARGE", "UNAVAILABLE"} \subseteq Outcome
          BY DEF Outcome, Failure
        <4> HIDE DEF r
        <4> QED
          BY <2>2, <4>1, SettledType DEF Settled, CallRecord
      <3>2. [r EXCEPT !.state = "pending"] \in CallRecord
            /\ [r EXCEPT !.state = "pending"].id = n + 1
            /\ [r EXCEPT !.state = "pending"].state = "pending"
        <4> HIDE DEF r
        <4> QED
          BY <2>2 DEF CallRecord
      <3>3. pending[p] \cup {n + 1} \in SUBSET Nat
            /\ pending = [pending EXCEPT ![p] = pending[p]]
        BY <2>1 DEF TypeOK
      <3>4. \/ \E o \in {"FRAME_TOO_LARGE", "UNAVAILABLE"} :
                   call' = [call EXCEPT ![p][c] = Settled(r, o)] /\ pending' = pending
            \/ /\ call' = [call EXCEPT ![p][c] = [r EXCEPT !.state = "pending"]]
               /\ pending' = [pending EXCEPT ![p] = pending[p] \cup {n + 1}]
        BY <1>7 DEF RequestSend, NextId
      <3> HIDE DEF r, n
      <3> QED
        BY <2>1, <3>1, <3>2, <3>3, <3>4
    <2>4. TableOK([call[p] EXCEPT ![c] = q], new, n + 1)
      <3>1. TableOK(call[p], pending[p], n) /\ call[p][c].state = "waiting"
        BY <1>7 DEF RequestInv, RequestSend
      <3> HIDE DEF n
      <3> QED
        BY <2>1, <2>3, <3>1, TableSent
    <2>5. /\ call' = [call EXCEPT ![p] = [call[p] EXCEPT ![c] = q]]
          /\ requestSequence' = [requestSequence EXCEPT ![p] = n + 1]
      BY <1>7, <2>3 DEF RequestSend, NextId, TypeOK
    <2> QED
      BY <2>3, <2>4, <2>5, RequestInvAt
  <1>8. ASSUME NEW p \in Peer, NEW c \in Call, Abort(p, c) PROVE RequestInv'
    <2> DEFINE r == Aborted(call[p][c])
    <2>1. call[p][c] \in CallRecord
      BY DEF TypeOK
    <2>2. r \in CallRecord
      BY <2>1, AbortedType
    <2>3. r.id = call[p][c].id /\ r.state = call[p][c].state
      BY <2>1 DEF Aborted, CallRecord
    <2>4. call' = [call EXCEPT ![p][c] = r] /\ UNCHANGED <<pending, requestSequence>>
      BY <1>8 DEF Abort
    <2> HIDE DEF r
    <2> QED
      BY <2>2, <2>3, <2>4, RequestInvReplaced
  <1>9. ASSUME NEW p \in Peer, NEW c \in Call, RequestTimeout(p, c) PROVE RequestInv'
    <2> DEFINE r == Settled(call[p][c], "TIMEOUT")
               u == [call[p] EXCEPT ![c] = r]
    <2>1. call[p] \in [Call -> CallRecord] /\ pending[p] \in SUBSET Nat
          /\ requestSequence[p] \in Nat
      BY DEF TypeOK
    <2>2. r \in CallRecord
      BY <2>1, SettledType DEF Outcome
    <2>3. r.id = call[p][c].id /\ r.state = "settled"
      BY <2>1 DEF Settled, CallRecord
    <2>4. TableOK(call[p], pending[p], requestSequence[p]) /\ call[p][c].id \in pending[p]
      BY <1>9 DEF RequestInv, RequestTimeout
    <2>5. \A d \in Call : d # c => call[p][d].id # call[p][c].id
      BY <2>4 DEF TableOK
    <2> HIDE DEF r
    <2>6. u \in [Call -> CallRecord]
      BY <2>1, <2>2
    <2>7. /\ \A d \in Call : u[d].id = call[p][d].id
          /\ \A d \in Call : call[p][d].id = call[p][c].id => u[d].state = "settled"
          /\ \A d \in Call : call[p][d].id # call[p][c].id => u[d].state = call[p][d].state
      BY <2>1, <2>3, <2>5
    <2>8. /\ call' = [call EXCEPT ![p] = u]
          /\ pending' = [pending EXCEPT ![p] = pending[p] \ {call[p][c].id}]
          /\ requestSequence' = [requestSequence EXCEPT ![p] = requestSequence[p]]
      BY <1>9 DEF RequestTimeout, TypeOK, r
    <2> HIDE DEF u
    <2>9. TableOK(u, pending[p] \ {call[p][c].id}, requestSequence[p])
      BY <2>1, <2>4, <2>6, <2>7, TableSettled
    <2> QED
      BY <2>8, <2>9, RequestInvAt
  <1>10. ASSUME NEW p \in Peer, Handling(p) PROVE RequestInv'
    <2>1. UNCHANGED requestVars
      BY <1>10 DEF Handling, HandlerReturns, HandlerThrows, HandlerSettles
    <2> QED
      BY <2>1, RequestInvUnchanged
  <1>11. ASSUME NEW p \in Peer, NEW k \in StreamKey, NEW end \in BOOLEAN, NEW s \in PayloadSizes,
                Emit(p, k, end, s)
         PROVE  RequestInv'
    BY <1>11, RequestInvUnchanged DEF Emit
  <1>12. ASSUME NEW p \in Peer, Ping(p) \/ CloseResolves(p) \/ PortLost(p) PROVE RequestInv'
    <2>1. UNCHANGED requestVars
      BY <1>12 DEF Ping, CloseResolves, PortLost
    <2> QED
      BY <2>1, RequestInvUnchanged
  <1>13. ASSUME NEW p \in Peer, Close(p) PROVE RequestInv'
    <2>1. CASE state[p] = "closed"
      BY <1>13, <2>1, RequestInvUnchanged DEF Close
    <2>2. CASE state[p] # "closed"
      BY <1>13, <2>2, RequestInvTeardown DEF Close, CloseNow
    <2> QED
      BY <2>1, <2>2
  <1>14. ASSUME NEW p \in Peer, PortReports(p) \/ PortEnds(p) PROVE RequestInv'
    BY <1>14, RequestInvTeardown DEF PortReports, PortEnds, PortClosed
  <1>15. CASE LinkDies
    BY <1>15, RequestInvUnchanged DEF LinkDies
  <1>16. CASE UNCHANGED vars
    BY <1>16, RequestInvUnchanged DEF vars
  <1> QED
    BY <1>1, <1>2, <1>3, <1>4, <1>5, <1>6, <1>7, <1>8, <1>9, <1>10, <1>11, <1>12, <1>13,
       <1>14, <1>15, <1>16 DEF Next, Requesting

\* The request table is in order in every state.
LEMMA RequestAlways == Spec => []RequestInv
  <1>1. Init => RequestInv
    BY DEF Init, RequestInv, TableOK, NoCall
  <1>2. TypeOK /\ RequestInv /\ [Next]_vars => RequestInv'
    BY RequestInvPreserved
  <1> QED
    BY <1>1, <1>2, TypeCorrect, PTL DEF Spec

\* In every behaviour the pending table holds exactly the ids a caller waits
\* for, and no id is handed out twice (request, #settle, #teardown).
THEOREM PendingTableCorrect == Spec => []PendingMatchesCallers
  <1>1. TypeOK /\ RequestInv => PendingMatchesCallers
    BY RequestInvImplies
  <1> QED
    BY <1>1, RequestAlways, TypeCorrect, PTL

-----------------------------------------------------------------------------
(* First outcomes are final.                                               *)

\* What one step may do to what already ended.
Final(p) ==
    /\ state[p] = "closed" => closure'[p] = closure[p] /\ state'[p] = "closed"
    /\ \A c \in Call : call[p][c].state = "settled" => call'[p][c] = call[p][c]

\* A step that leaves an end alone revises none of its outcomes.
LEMMA FinalUnchanged ==
    ASSUME NEW q \in Peer, closure'[q] = closure[q], state'[q] = state[q], call'[q] = call[q]
    PROVE  Final(q)
  BY DEF Final

\* Only a session that is not closed is torn down.
LEMMA FinalTeardown ==
    ASSUME TypeOK, NEW p \in Peer, NEW code, state[p] # "closed", Teardown(p, code),
           NEW q \in Peer
    PROVE  Final(q)
  <1>1. CASE q = p
    <2>1. \A c \in Call : call'[p][c] = Rejected(call[p][c])
      BY DEF Teardown, TypeOK
    <2> QED
      BY <1>1, <2>1 DEF Final, Rejected
  <1>2. CASE q # p
    <2>1. closure'[q] = closure[q] /\ state'[q] = state[q] /\ call'[q] = call[q]
      BY <1>2 DEF Teardown, TypeOK
    <2> QED
      BY <2>1, FinalUnchanged
  <1> QED
    BY <1>1, <1>2

\* An action that replaces one caller that has not settled.
LEMMA FinalReplaced ==
    ASSUME TypeOK, NEW p \in Peer, NEW c \in Call, NEW r, call[p][c].state # "settled",
           call' = [call EXCEPT ![p][c] = r], UNCHANGED handshakeVars, NEW q \in Peer
    PROVE  Final(q)
  <1>1. closure'[q] = closure[q] /\ state'[q] = state[q]
    BY DEF handshakeVars
  <1>2. \A d \in Call : call[q][d].state = "settled" => call'[q][d] = call[q][d]
    BY DEF TypeOK
  <1> QED
    BY <1>1, <1>2 DEF Final

\* No step revises the outcome of a call or the closure of a session.
LEMMA StepFinal ==
    ASSUME TypeOK, RequestInv, [Next]_vars, NEW q \in Peer
    PROVE  Final(q)
  <1>1. ASSUME NEW p \in Peer, Open(p) PROVE Final(q)
    <2>1. CASE port[p] = "open"
      BY <1>1, <2>1 DEF Open, Final, TypeOK, requestVars
    <2>2. CASE port[p] # "open"
      BY <1>1, <2>2, FinalTeardown DEF Open, CloseNow
    <2> QED
      BY <2>1, <2>2
  <1>2. ASSUME NEW p \in Peer, HandshakeTimeout(p) PROVE Final(q)
    BY <1>2, FinalTeardown DEF HandshakeTimeout, CloseNow
  <1>3. ASSUME NEW p \in Peer, LivenessTick(p) PROVE Final(q)
    <2>1. CASE awaitingPong[p]
      BY <1>3, <2>1, FinalTeardown DEF LivenessTick, CloseNow
    <2>2. CASE ~awaitingPong[p]
      BY <1>3, <2>2, FinalUnchanged DEF LivenessTick, handshakeVars, requestVars
    <2> QED
      BY <2>1, <2>2
  <1>4. ASSUME NEW p \in Peer, Receive(p) PROVE Final(q)
    <2>a. state[p] # "closed"
      BY <1>4 DEF Receive, ReceiveHello, ReceiveRequest, ReceiveAnswer, ReceiveEvent, ReceiveCancel,
                  ReceivePing, ReceivePong, ReceiveClose, ReceiveOversized, Arrives, Live
    <2>1. CASE ReceiveHello(p)
      <3>1. CASE state[p] # "handshaking" \/ ~Agrees(conf[p], Head(wire[p]))
        BY <2>1, <2>a, <3>1, FinalTeardown DEF ReceiveHello, CloseNow
      <3>2. CASE state[p] = "handshaking" /\ Agrees(conf[p], Head(wire[p]))
        BY <2>1, <3>2 DEF ReceiveHello, Final, TypeOK, requestVars
      <3> QED
        BY <3>1, <3>2
    <2>2. CASE ReceiveAnswer(p)
      <3> DEFINE f == Head(wire[p])
      <3>1. closure'[q] = closure[q] /\ state'[q] = state[q]
        BY <2>2 DEF ReceiveAnswer, handshakeVars
      <3>2. \A c \in Call : call[p][c].state = "pending" <=> call[p][c].id \in pending[p]
        BY DEF RequestInv, TableOK
      <3>3. ASSUME NEW c \in Call, call[q][c].state = "settled" PROVE call'[q][c] = call[q][c]
        <4>1. CASE f.id \in pending[p]
          <5>1. call' = [call EXCEPT ![p] = [d \in Call |->
                          IF call[p][d].id = f.id
                          THEN Settled(call[p][d], IF f.type = "res" THEN "result" ELSE f.code)
                          ELSE call[p][d]]]
            BY <2>2, <4>1 DEF ReceiveAnswer
          <5>2. CASE q = p
            BY <3>2, <3>3, <4>1, <5>1, <5>2 DEF TypeOK
          <5>3. CASE q # p
            BY <5>1, <5>3 DEF TypeOK
          <5> QED
            BY <5>2, <5>3
        <4>2. CASE f.id \notin pending[p]
          BY <2>2, <4>2 DEF ReceiveAnswer
        <4> QED
          BY <4>1, <4>2
      <3> QED
        BY <3>1, <3>3 DEF Final
    <2>3. CASE ReceiveRequest(p) \/ ReceiveEvent(p) \/ ReceiveCancel(p)
               \/ ReceivePing(p) \/ ReceivePong(p)
      <3>1. UNCHANGED <<handshakeVars, requestVars>>
        BY <2>3 DEF ReceiveRequest, ReceiveEvent, ReceiveCancel, ReceivePing, ReceivePong
      <3> QED
        BY <3>1, FinalUnchanged DEF handshakeVars, requestVars
    <2>4. CASE ReceiveClose(p)
      BY <2>4, <2>a, FinalTeardown DEF ReceiveClose
    <2>5. CASE ReceiveOversized(p)
      BY <2>5, <2>a, FinalTeardown DEF ReceiveOversized, CloseNow
    <2> QED
      BY <1>4, <2>1, <2>2, <2>3, <2>4, <2>5 DEF Receive
  <1>5. ASSUME NEW p \in Peer, NEW c \in Call, NEW m \in Method, Request(p, c, m) PROVE Final(q)
    BY <1>5, FinalReplaced DEF Request
  <1>6. ASSUME NEW p \in Peer, NEW c \in Call, RequestRefused(p, c) PROVE Final(q)
    BY <1>6, FinalReplaced DEF RequestRefused
  <1>7. ASSUME NEW p \in Peer, NEW c \in Call, NEW s \in PayloadSizes, RequestSend(p, c, s)
        PROVE  Final(q)
    BY <1>7, FinalReplaced DEF RequestSend
  <1>8. ASSUME NEW p \in Peer, NEW c \in Call, Abort(p, c) PROVE Final(q)
    BY <1>8, FinalReplaced DEF Abort
  <1>9. ASSUME NEW p \in Peer, NEW c \in Call, RequestTimeout(p, c) PROVE Final(q)
    BY <1>9, FinalReplaced DEF RequestTimeout
  <1>10. ASSUME NEW p \in Peer, Handling(p) PROVE Final(q)
    <2>1. UNCHANGED <<handshakeVars, requestVars>>
      BY <1>10 DEF Handling, HandlerReturns, HandlerThrows, HandlerSettles
    <2> QED
      BY <2>1, FinalUnchanged DEF handshakeVars, requestVars
  <1>11. ASSUME NEW p \in Peer, NEW k \in StreamKey, NEW end \in BOOLEAN, NEW s \in PayloadSizes,
                Emit(p, k, end, s)
         PROVE  Final(q)
    BY <1>11, FinalUnchanged DEF Emit, handshakeVars, requestVars
  <1>12. ASSUME NEW p \in Peer, Ping(p) \/ CloseResolves(p) \/ PortLost(p) PROVE Final(q)
    BY <1>12, FinalUnchanged DEF Ping, CloseResolves, PortLost, handshakeVars, requestVars
  <1>13. ASSUME NEW p \in Peer, Close(p) PROVE Final(q)
    <2>1. CASE state[p] = "closed"
      BY <1>13, <2>1, FinalUnchanged DEF Close, handshakeVars, requestVars
    <2>2. CASE state[p] # "closed"
      BY <1>13, <2>2, FinalTeardown DEF Close, CloseNow
    <2> QED
      BY <2>1, <2>2
  <1>14. ASSUME NEW p \in Peer, PortReports(p) \/ PortEnds(p) PROVE Final(q)
    BY <1>14, FinalTeardown DEF PortReports, PortEnds, PortClosed, Live
  <1>15. CASE LinkDies
    BY <1>15, FinalUnchanged DEF LinkDies, handshakeVars, requestVars
  <1>16. CASE UNCHANGED vars
    BY <1>16, FinalUnchanged DEF vars, handshakeVars, requestVars
  <1> QED
    BY <1>1, <1>2, <1>3, <1>4, <1>5, <1>6, <1>7, <1>8, <1>9, <1>10, <1>11, <1>12, <1>13,
       <1>14, <1>15, <1>16 DEF Next, Requesting

\* No step changes how a call was settled nor why a session closed, whatever
\* arrives or fires afterwards (#settle, request's timeout, #teardown).
THEOREM OutcomesAreFinal == Spec => FirstOutcomeIsFinal
  <1>1. Init => RequestInv
    BY DEF Init, RequestInv, TableOK, NoCall
  <1>2. TypeOK /\ RequestInv /\ [Next]_vars => RequestInv'
    BY RequestInvPreserved
  <1>3. TypeOK /\ RequestInv /\ [Next]_vars =>
          [\A p \in Peer :
            /\ state[p] = "closed" => closure'[p] = closure[p] /\ state'[p] = "closed"
            /\ \A c \in Call : call[p][c].state = "settled" => call'[p][c] = call[p][c]]_vars
    BY StepFinal DEF Final
  <1> QED
    BY <1>1, <1>2, <1>3, TypeCorrect, PTL DEF Spec, FirstOutcomeIsFinal

-----------------------------------------------------------------------------
(* The handshake and the frame ceilings.  Both rest on what may be on the  *)
(* wire: a hello is the peer's own, a 4426 close tells the truth, and only *)
(* an err frame can be larger than its receiver takes.                     *)

MajorsDiffer == conf[Hub].major # conf[Runtime].major

Legit(p, f) ==
    /\ f.type = "hello" => f = Hello(conf[Other(p)])
    /\ f.type = "close" /\ f.code = ProtocolMismatch => MajorsDiffer
    /\ f.size <= conf[p].maxFrame \/ (f.type = "err" /\ f.size \in ErrorSizes)

Legal == [p \in Peer |-> {f \in Frame : Legit(p, f)}]

WiresIn(S) == {w \in Wires : \A p \in Peer : w[p] \in Seq(S[p])}

\* What each end knows of the other, and when.
KnowledgeInv ==
    \A p \in Peer :
        /\ remote[p].known => ~MajorsDiffer /\ remote[p] = RemotePeer(conf[p], Hello(conf[Other(p)]))
        /\ closure[p] = ProtocolMismatch => MajorsDiffer
        /\ state[p] = "ready" => remote[p].known
        /\ state[p] \in {"new", "handshaking"} => running[p] = {}

HandshakeInv == wire \in WiresIn(Legal) /\ KnowledgeInv

\* What may be on a wire depends only on the options of the two ends.
LEMMA LegalConstant ==
    ASSUME UNCHANGED conf
    PROVE  Legal' = Legal /\ MajorsDiffer' = MajorsDiffer
  BY DEF Legal, Legit, MajorsDiffer

\* A sequence of one element.
LEMMA Singleton ==
    ASSUME NEW T, NEW e \in T
    PROVE  <<e>> \in Seq(T)
  OBVIOUS

\* Queueing legal frames keeps a wire legal.
LEMMA QueuedIn ==
    ASSUME NEW S, NEW w \in WiresIn(S), NEW p \in Peer, NEW fs \in Seq(Frame),
           fs \in Seq(S[Other(p)])
    PROVE  Queued(w, p, fs) \in WiresIn(S)
  <1>1. Queued(w, p, fs) \in Wires
    BY QueuedType DEF WiresIn
  <1>2. \A q \in Peer : Queued(w, p, fs)[q] \in Seq(S[q])
    <2> SUFFICES ASSUME NEW q \in Peer PROVE Queued(w, p, fs)[q] \in Seq(S[q])
      OBVIOUS
    <2>1. CASE Reaches(p) /\ q = Other(p)
      <3>1. Queued(w, p, fs)[q] = w[q] \o fs
        BY <2>1, OtherType DEF Queued, WiresIn, Wires
      <3>2. w[q] \in Seq(S[q])
        BY DEF WiresIn
      <3>3. fs \in Seq(S[q])
        BY <2>1
      <3> QED
        BY <3>1, <3>2, <3>3, ConcatProperties
    <2>2. CASE ~(Reaches(p) /\ q = Other(p))
      BY <2>2, OtherType DEF Queued, WiresIn, Wires
    <2> QED
      BY <2>1, <2>2
  <1> QED
    BY <1>1, <1>2 DEF WiresIn

\* Sending one legal frame keeps a wire legal.
LEMMA TrySendIn ==
    ASSUME NEW S, NEW w \in WiresIn(S), NEW p \in Peer, NEW f \in Frame, f \in S[Other(p)]
    PROVE  TrySend(w, p, f) \in WiresIn(S)
  <1>1. <<f>> \in Seq(Frame) /\ <<f>> \in Seq(S[Other(p)])
    OBVIOUS
  <1> QED
    BY <1>1, QueuedIn DEF TrySend

\* Taking a frame off a legal wire keeps it legal, and the frame is legal.
LEMMA PoppedIn ==
    ASSUME NEW S, wire \in WiresIn(S), NEW p \in Peer, wire[p] # <<>>
    PROVE  /\ Popped(p) \in WiresIn(S)
           /\ Head(wire[p]) \in S[p]
  <1>1. wire \in Wires /\ \A q \in Peer : wire[q] \in Seq(S[q])
    BY DEF WiresIn
  <1>2. Tail(wire[p]) \in Seq(S[p]) /\ Head(wire[p]) \in S[p]
    BY <1>1, HeadTailProperties
  <1>3. Popped(p) \in Wires
    BY <1>1, PoppedType
  <1>4. \A q \in Peer : Popped(p)[q] \in Seq(S[q])
    BY <1>1, <1>2 DEF Popped, Wires
  <1> QED
    BY <1>2, <1>3, <1>4 DEF WiresIn

\* An emptied wire is legal.
LEMMA EmptiedIn ==
    ASSUME NEW S, NEW w \in WiresIn(S), NEW p \in Peer
    PROVE  [w EXCEPT ![p] = <<>>] \in WiresIn(S)
  <1>1. \A q \in Peer : <<>> \in Seq(S[q]) /\ <<>> \in Seq(Frame)
    OBVIOUS
  <1>2. w \in Wires /\ \A q \in Peer : w[q] \in Seq(S[q])
    BY DEF WiresIn
  <1>3. [w EXCEPT ![p] = <<>>] \in Wires
    BY <1>2 DEF Wires
  <1>4. \A q \in Peer : [w EXCEPT ![p] = <<>>][q] \in Seq(S[q])
    BY <1>1, <1>2 DEF Wires
  <1> QED
    BY <1>3, <1>4 DEF WiresIn

\* The frames an end may send: whatever fits, and is neither hello nor close.
LEMMA PlainLegal ==
    ASSUME TypeOK, NEW p \in Peer, NEW f \in Frame, f.type \notin {"hello", "close"},
           f.size <= conf[Other(p)].maxFrame \/ (f.type = "err" /\ f.size \in ErrorSizes)
    PROVE  f \in Legal[Other(p)]
  BY OtherType DEF Legal, Legit

\* A close frame is legal; 4426 only where the majors differ.
LEMMA CloseLegal ==
    ASSUME TypeOK, NEW p \in Peer, NEW code \in CloseCode,
           code = ProtocolMismatch => MajorsDiffer
    PROVE  CloseOf(code) \in Legal[Other(p)]
  <1>1. CloseOf(code) \in Frame
    BY FrameTypes
  <1>2. conf[Other(p)].maxFrame \in Nat
    BY OtherType DEF TypeOK, Config
  <1>3. /\ CloseOf(code).type = "close"
        /\ CloseOf(code).code = code
        /\ CloseOf(code).size = 0
    BY DEF CloseOf
  <1>4. Legit(Other(p), CloseOf(code))
    BY <1>2, <1>3 DEF Legit
  <1> QED
    BY <1>1, <1>4, OtherType DEF Legal

\* #teardown forgets nothing the two ends agreed on.
LEMMA KnowledgeTeardown ==
    ASSUME TypeOK, KnowledgeInv, NEW p \in Peer, NEW code \in CloseCode,
           code = ProtocolMismatch => MajorsDiffer, Teardown(p, code)
    PROVE  KnowledgeInv'
  <1>1. conf' = conf /\ remote' = remote /\ running' = running
    BY DEF Teardown
  <1>2. MajorsDiffer' = MajorsDiffer
    BY <1>1, LegalConstant
  <1>3. /\ state' = [state EXCEPT ![p] = "closed"]
        /\ closure' = [closure EXCEPT ![p] = code]
    BY DEF Teardown
  <1> SUFFICES ASSUME NEW q \in Peer
               PROVE  /\ remote'[q].known => ~MajorsDiffer'
                              /\ remote'[q] = RemotePeer(conf'[q], Hello(conf'[Other(q)]))
                      /\ closure'[q] = ProtocolMismatch => MajorsDiffer'
                      /\ state'[q] = "ready" => remote'[q].known
                      /\ state'[q] \in {"new", "handshaking"} => running'[q] = {}
    BY DEF KnowledgeInv
  <1>4. CASE q = p
    <2>1. state'[q] = "closed" /\ closure'[q] = code
      BY <1>3, <1>4 DEF TypeOK
    <2> QED
      BY <1>1, <1>2, <2>1 DEF KnowledgeInv
  <1>5. CASE q # p
    <2>1. state'[q] = state[q] /\ closure'[q] = closure[q]
      BY <1>3, <1>5 DEF TypeOK
    <2> QED
      BY <1>1, <1>2, <2>1 DEF KnowledgeInv
  <1> QED
    BY <1>4, <1>5

\* closeNow keeps the handshake invariant.
LEMMA HandshakeCloseNow ==
    ASSUME TypeOK, HandshakeInv, NEW p \in Peer, NEW code \in CloseCode,
           code = ProtocolMismatch => MajorsDiffer, CloseNow(p, code)
    PROVE  HandshakeInv'
  <1>1. KnowledgeInv'
    BY KnowledgeTeardown DEF HandshakeInv, CloseNow
  <1>2. Legal' = Legal
    BY LegalConstant DEF CloseNow, Teardown
  <1>3. <<CloseOf(code)>> \in Seq(Frame) /\ <<CloseOf(code)>> \in Seq(Legal[Other(p)])
    <2>1. CloseOf(code) \in Frame /\ CloseOf(code) \in Legal[Other(p)]
      BY CloseLegal, FrameTypes
    <2> QED
      BY <2>1, Singleton
  <1>4. (IF port[p] = "open" THEN Queued(wire, p, <<CloseOf(code)>>) ELSE wire) \in WiresIn(Legal)
    BY <1>3, QueuedIn DEF HandshakeInv
  <1>5. wire' \in WiresIn(Legal)
    BY <1>4, EmptiedIn DEF CloseNow
  <1> QED
    BY <1>1, <1>2, <1>5 DEF HandshakeInv

\* #handlePortClosed keeps the handshake invariant.
LEMMA HandshakePortClosed ==
    ASSUME TypeOK, HandshakeInv, NEW p \in Peer, PortClosed(p, Released)
    PROVE  HandshakeInv'
  <1>1. KnowledgeInv'
    BY KnowledgeTeardown DEF HandshakeInv, PortClosed, Released, ProtocolMismatch, CloseCode
  <1>2. Legal' = Legal
    BY LegalConstant DEF PortClosed, Teardown
  <1>3. wire' \in WiresIn(Legal)
    BY EmptiedIn DEF PortClosed, HandshakeInv
  <1> QED
    BY <1>1, <1>2, <1>3 DEF HandshakeInv

\* A step that only moves frames.
LEMMA HandshakeMoved ==
    ASSUME HandshakeInv, UNCHANGED <<conf, remote, closure, state, running>>,
           wire' \in WiresIn(Legal)
    PROVE  HandshakeInv'
  <1>1. Legal' = Legal /\ MajorsDiffer' = MajorsDiffer
    BY LegalConstant
  <1>2. KnowledgeInv'
    BY <1>1 DEF HandshakeInv, KnowledgeInv
  <1> QED
    BY <1>1, <1>2 DEF HandshakeInv

\* Once the handshake is done the send limit is below the receiver's ceiling.
LEMMA LimitSound ==
    ASSUME TypeOK, HandshakeInv, NEW p \in Peer, state[p] = "ready", NEW s \in Nat,
           s <= SendLimit(p)
    PROVE  s <= conf[Other(p)].maxFrame
  <1>1. remote[p] = RemotePeer(conf[p], Hello(conf[Other(p)]))
    BY DEF HandshakeInv, KnowledgeInv
  <1>2. remote[p].maxFrame = Announced(conf[Other(p)])
    BY <1>1 DEF RemotePeer, Hello
  <1>3. conf[p].maxFrame \in Nat /\ conf[Other(p)].maxFrame \in Nat
    BY OtherType DEF TypeOK, Config
  <1> QED
    BY <1>2, <1>3, SizesTyped DEF SendLimit, Announced

\* An answer of a handler is legal, or dropped because the session is closed.
LEMMA RespondLegal ==
    ASSUME TypeOK, HandshakeInv, NEW p \in Peer, NEW f \in Frame,
           f.type \notin {"hello", "close"},
           state[p] = "ready" => \/ f.size <= conf[Other(p)].maxFrame
                                 \/ f.type = "err" /\ f.size \in ErrorSizes,
           state[p] \in {"ready", "closed"}
    PROVE  Respond(wire, p, f) \in WiresIn(Legal)
  <1>1. CASE state[p] = "closed"
    BY <1>1 DEF Respond, TrySend, HandshakeInv
  <1>2. CASE state[p] = "ready"
    <2>1. f \in Legal[Other(p)]
      BY <1>2, PlainLegal
    <2> QED
      BY <2>1, TrySendIn DEF Respond, HandshakeInv
  <1> QED
    BY <1>1, <1>2

\* Frames of size 0 that carry no handshake content are legal for anyone.
LEMMA SmallLegal ==
    ASSUME TypeOK, NEW p \in Peer
    PROVE  /\ \A id \in Nat : Cancel(id) \in Legal[Other(p)]
           /\ Sign("ping") \in Legal[Other(p)] /\ Sign("pong") \in Legal[Other(p)]
           /\ \A id \in Nat, code \in Refusal \cup Failure : Err(id, code, 0) \in Legal[Other(p)]
  <1>1. conf[Other(p)].maxFrame \in Nat
    BY OtherType DEF TypeOK, Config
  <1>2. 0 <= conf[Other(p)].maxFrame
    BY <1>1
  <1>3. \A id \in Nat : Cancel(id) \in Frame /\ Cancel(id).type = "cancel" /\ Cancel(id).size = 0
    BY FrameTypes DEF Cancel
  <1>4. \A t \in {"ping", "pong"} : Sign(t) \in Frame /\ Sign(t).type = t /\ Sign(t).size = 0
    BY FrameTypes DEF Sign
  <1>5. \A id \in Nat, code \in Refusal \cup Failure :
          Err(id, code, 0) \in Frame /\ Err(id, code, 0).type = "err" /\ Err(id, code, 0).size = 0
    BY FrameTypes DEF Err
  <1> QED
    BY <1>2, <1>3, <1>4, <1>5, PlainLegal

\* A sequence of two elements.
LEMMA Pair ==
    ASSUME NEW T, NEW d \in T, NEW e \in T
    PROVE  <<d, e>> \in Seq(T)
  OBVIOUS

\* A prefix of a sequence: what a broken transport still delivers.
LEMMA PrefixType ==
    ASSUME NEW T, NEW w \in Seq(T), NEW n \in 0 .. Len(w)
    PROVE  SubSeq(w, 1, n) \in Seq(T)
  OBVIOUS

\* The options of a session never change.
LEMMA ConfConstant ==
    ASSUME [Next]_vars
    PROVE  conf' = conf
  <1>1. ASSUME NEW p \in Peer, Receive(p) PROVE conf' = conf
    BY <1>1 DEF Receive, ReceiveHello, ReceiveRequest, ReceiveAnswer, ReceiveEvent, ReceiveCancel,
                ReceivePing, ReceivePong, ReceiveClose, ReceiveOversized, CloseNow, Teardown
  <1>2. ASSUME NEW p \in Peer, Requesting(p) \/ Handling(p) PROVE conf' = conf
    BY <1>2 DEF Requesting, Request, RequestRefused, RequestSend, Abort, RequestTimeout,
                Handling, HandlerReturns, HandlerThrows, HandlerSettles
  <1>3. ASSUME NEW p \in Peer,
               \/ Open(p) \/ HandshakeTimeout(p) \/ LivenessTick(p)
               \/ \E k \in StreamKey, end \in BOOLEAN, s \in PayloadSizes : Emit(p, k, end, s)
               \/ Ping(p) \/ Close(p) \/ CloseResolves(p)
               \/ PortLost(p) \/ PortReports(p) \/ PortEnds(p)
        PROVE  conf' = conf
    BY <1>3 DEF Open, HandshakeTimeout, LivenessTick, Emit, Ping, Close, CloseResolves,
                PortLost, PortReports, PortEnds, CloseNow, PortClosed, Teardown
  <1>4. CASE LinkDies \/ UNCHANGED vars
    BY <1>4 DEF LinkDies, vars
  <1> QED
    BY <1>1, <1>2, <1>3, <1>4 DEF Next

\* Every step keeps the wires legal and what the ends know of each other right.
LEMMA HandshakePreserved ==
    ASSUME TypeOK, HandshakeInv, [Next]_vars
    PROVE  HandshakeInv'
  <1>a. /\ Released \in CloseCode /\ ProtocolError \in CloseCode /\ ProtocolMismatch \in CloseCode
        /\ Released # ProtocolMismatch /\ ProtocolError # ProtocolMismatch
    BY DEF CloseCode, Released, ProtocolError, ProtocolMismatch
  <1>b. wire \in WiresIn(Legal) /\ KnowledgeInv
    BY DEF HandshakeInv
  <1>1. ASSUME NEW p \in Peer, Open(p) PROVE HandshakeInv'
    <2>1. CASE port[p] # "open"
      BY <1>1, <1>a, <2>1, HandshakeCloseNow DEF Open
    <2>2. CASE port[p] = "open"
      <3>1. Hello(conf[p]) \in Frame
        BY FrameTypes DEF TypeOK
      <3>2. Hello(conf[p]) \in Legal[Other(p)]
        <4>1. Other(Other(p)) = p /\ Other(p) \in Peer
          BY PeersDiffer DEF Other, Peer
        <4>2. conf[Other(p)].maxFrame \in Nat
          BY <4>1 DEF TypeOK, Config
        <4>3. Hello(conf[p]).type = "hello" /\ Hello(conf[p]).size = 0
          BY DEF Hello
        <4>4. Legit(Other(p), Hello(conf[p]))
          BY <4>1, <4>2, <4>3 DEF Legit
        <4> QED
          BY <3>1, <4>1, <4>4 DEF Legal
      <3>3. wire' \in WiresIn(Legal)
        <4>1. <<Hello(conf[p])>> \in Seq(Frame) /\ <<Hello(conf[p])>> \in Seq(Legal[Other(p)])
          BY <3>1, <3>2, Singleton
        <4> QED
          BY ZenonT(60), <1>1, <1>b, <2>2, <4>1, QueuedIn DEF Open
      <3>4. UNCHANGED <<conf, remote, closure, running>> /\ state[p] = "new"
            /\ state' = [state EXCEPT ![p] = "handshaking"]
        BY <1>1, <2>2 DEF Open, answerVars
      <3>5. Legal' = Legal /\ MajorsDiffer' = MajorsDiffer
        BY <3>4, LegalConstant
      <3>6. KnowledgeInv'
        <4>1. \A q \in Peer : state'[q] = IF q = p THEN "handshaking" ELSE state[q]
          BY <3>4 DEF TypeOK
        <4> QED
          BY <1>b, <3>4, <3>5, <4>1 DEF KnowledgeInv
      <3> QED
        BY <3>3, <3>5, <3>6 DEF HandshakeInv
    <2> QED
      BY <2>1, <2>2
  <1>2. ASSUME NEW p \in Peer, HandshakeTimeout(p) PROVE HandshakeInv'
    BY <1>2, <1>a, HandshakeCloseNow DEF HandshakeTimeout
  <1>3. ASSUME NEW p \in Peer, LivenessTick(p) PROVE HandshakeInv'
    <2>1. CASE awaitingPong[p]
      BY <1>3, <1>a, <2>1, HandshakeCloseNow DEF LivenessTick
    <2>2. CASE ~awaitingPong[p]
      <3>1. wire' \in WiresIn(Legal)
        BY <1>3, <1>b, <2>2, FrameTypes, SmallLegal, TrySendIn DEF LivenessTick
      <3>2. UNCHANGED <<conf, remote, closure, state, running>>
        BY <1>3, <2>2 DEF LivenessTick, handshakeVars, answerVars
      <3> QED
        BY <3>1, <3>2, HandshakeMoved
    <2> QED
      BY <2>1, <2>2
  <1>4. ASSUME NEW p \in Peer, Receive(p) PROVE HandshakeInv'
    <2> DEFINE f == Head(wire[p])
    <2>a. wire[p] # <<>> /\ Live(p)
      BY <1>4 DEF Receive, ReceiveHello, ReceiveRequest, ReceiveAnswer, ReceiveEvent,
                  ReceiveCancel, ReceivePing, ReceivePong, ReceiveClose, ReceiveOversized, Arrives
    <2>b. Popped(p) \in WiresIn(Legal) /\ f \in Legal[p]
      BY <1>b, <2>a, PoppedIn
    <2>c. f \in Frame /\ Legit(p, f)
      BY <2>b DEF Legal
    <2>1. CASE ReceiveHello(p)
      <3>1. f = Hello(conf[Other(p)])
        BY <2>1, <2>c DEF ReceiveHello, Arrives, Legit
      <3>2. Agrees(conf[p], f) <=> ~MajorsDiffer
        <4>1. f.major = conf[Other(p)].major
          BY <3>1 DEF Hello
        <4> QED
          BY <4>1 DEF Agrees, MajorsDiffer, Other, Peer
      <3>3. CASE state[p] # "handshaking"
        BY <1>a, <2>1, <3>3, HandshakeCloseNow DEF ReceiveHello
      <3>4. CASE state[p] = "handshaking" /\ ~Agrees(conf[p], f)
        BY <1>a, <2>1, <3>2, <3>4, HandshakeCloseNow DEF ReceiveHello
      <3>5. CASE state[p] = "handshaking" /\ Agrees(conf[p], f)
        <4>1. /\ state' = [state EXCEPT ![p] = "ready"]
              /\ remote' = [remote EXCEPT ![p] = RemotePeer(conf[p], f)]
              /\ wire' = Popped(p)
              /\ UNCHANGED <<conf, closure, running>>
          BY <2>1, <3>5 DEF ReceiveHello, answerVars
        <4>2. Legal' = Legal /\ MajorsDiffer' = MajorsDiffer
          BY <4>1, LegalConstant
        <4>3. RemotePeer(conf[p], f).known
          BY DEF RemotePeer
        <4>4. KnowledgeInv'
          <5>1. \A q \in Peer : q # p => state'[q] = state[q] /\ remote'[q] = remote[q]
            BY <4>1 DEF TypeOK
          <5>2. state'[p] = "ready" /\ remote'[p] = RemotePeer(conf[p], f)
            BY <4>1 DEF TypeOK
          <5> HIDE DEF f
          <5> SUFFICES ASSUME NEW q \in Peer
                       PROVE  /\ remote'[q].known => ~MajorsDiffer'
                                      /\ remote'[q] = RemotePeer(conf'[q], Hello(conf'[Other(q)]))
                              /\ closure'[q] = ProtocolMismatch => MajorsDiffer'
                              /\ state'[q] = "ready" => remote'[q].known
                              /\ state'[q] \in {"new", "handshaking"} => running'[q] = {}
            BY DEF KnowledgeInv
          <5>3. CASE q = p
            BY <1>b, <3>1, <3>2, <3>5, <4>1, <4>2, <4>3, <5>2, <5>3 DEF KnowledgeInv
          <5>4. CASE q # p
            BY <1>b, <4>1, <4>2, <5>1, <5>4 DEF KnowledgeInv
          <5> QED
            BY <5>3, <5>4
        <4> QED
          BY <2>b, <4>1, <4>2, <4>4 DEF HandshakeInv
      <3> QED
        BY <3>3, <3>4, <3>5
    <2>2. CASE ReceiveRequest(p)
      <3>1. f.id \in Nat
        BY <2>2, <2>c, FrameFields DEF ReceiveRequest, Arrives, RequestFrame
      <3>2. \A i \in 1 .. Len(RefusalOrder) : RefusalOrder[i] \in Refusal \cup Failure
        BY DEF RefusalOrder, Refusal
      <3>3. \A i \in 1 .. Len(RefusalOrder) :
              Respond(Popped(p), p, Err(f.id, RefusalOrder[i], 0)) \in WiresIn(Legal)
        <4>1. ASSUME NEW i \in 1 .. Len(RefusalOrder)
              PROVE  Respond(Popped(p), p, Err(f.id, RefusalOrder[i], 0)) \in WiresIn(Legal)
          <5>1. Err(f.id, RefusalOrder[i], 0) \in Frame
                /\ Err(f.id, RefusalOrder[i], 0) \in Legal[Other(p)]
            BY <3>1, <3>2, FrameTypes, SmallLegal
          <5> QED
            BY <2>b, <5>1, TrySendIn DEF Respond
        <4> QED
          BY <4>1
      <3>4. wire' \in WiresIn(Legal)
        BY <2>2, <2>b, <3>3 DEF ReceiveRequest
      <3>5. UNCHANGED <<conf, remote, closure, state>>
        BY <2>2 DEF ReceiveRequest, handshakeVars
      <3>6. \A q \in Peer : state[q] \in {"new", "handshaking"} => running'[q] = running[q]
        <4>1. CASE state[p] = "ready"
          BY <2>2, <4>1 DEF ReceiveRequest, answerVars, TypeOK
        <4>2. CASE state[p] # "ready"
          <5>1. \A routed \in BOOLEAN : Refusals(p, f, routed)[RefusalOrder[1]]
            BY <4>2 DEF Refusals, RefusalOrder
          <5>2. 1 \in 1 .. Len(RefusalOrder)
            BY DEF RefusalOrder
          <5> QED
            BY <2>2, <5>1, <5>2 DEF ReceiveRequest, answerVars
        <4> QED
          BY <4>1, <4>2
      <3>7. Legal' = Legal /\ MajorsDiffer' = MajorsDiffer
        BY <3>5, LegalConstant
      <3>8. KnowledgeInv'
        BY <1>b, <3>5, <3>6, <3>7 DEF KnowledgeInv
      <3> QED
        BY <3>4, <3>7, <3>8 DEF HandshakeInv
    <2>3. CASE ReceiveAnswer(p) \/ ReceiveEvent(p) \/ ReceiveCancel(p) \/ ReceivePong(p)
      <3>1. wire' = Popped(p) /\ UNCHANGED <<conf, remote, closure, state, running>>
        BY <2>3 DEF ReceiveAnswer, ReceiveEvent, ReceiveCancel, ReceivePong, handshakeVars, answerVars
      <3> QED
        BY <2>b, <3>1, HandshakeMoved
    <2>4. CASE ReceivePing(p)
      <3>1. TrySend(Popped(p), p, Sign("pong")) \in WiresIn(Legal)
        BY <2>b, FrameTypes, SmallLegal, TrySendIn
      <3>2. wire' \in WiresIn(Legal) /\ UNCHANGED <<conf, remote, closure, state, running>>
        BY <2>4, <3>1 DEF ReceivePing, handshakeVars, answerVars
      <3> QED
        BY <3>2, HandshakeMoved
    <2>5. CASE ReceiveClose(p)
      <3>1. f.code \in CloseCode /\ (f.code = ProtocolMismatch => MajorsDiffer)
        BY <2>5, <2>c, FrameFields DEF ReceiveClose, Arrives, CloseFrame, Legit
      <3>2. KnowledgeInv'
        BY <1>b, <2>5, <3>1, KnowledgeTeardown DEF ReceiveClose
      <3>3. Legal' = Legal
        BY <2>5, LegalConstant DEF ReceiveClose, Teardown
      <3>4. wire' \in WiresIn(Legal)
        BY <1>b, <2>5, EmptiedIn DEF ReceiveClose
      <3> QED
        BY <3>2, <3>3, <3>4 DEF HandshakeInv
    <2>6. CASE ReceiveOversized(p)
      BY <1>a, <2>6, HandshakeCloseNow DEF ReceiveOversized
    <2> QED
      BY <1>4, <2>1, <2>2, <2>3, <2>4, <2>5, <2>6 DEF Receive
  <1>5. ASSUME NEW p \in Peer, NEW c \in Call,
               (\E m \in Method : Request(p, c, m)) \/ RequestRefused(p, c)
        PROVE  HandshakeInv'
    <2>1. UNCHANGED <<wire, conf, remote, closure, state, running>>
      BY <1>5 DEF Request, RequestRefused, handshakeVars, answerVars, netVars
    <2> QED
      BY <1>b, <2>1, HandshakeMoved
  <1>6. ASSUME NEW p \in Peer, NEW c \in Call, NEW s \in PayloadSizes, RequestSend(p, c, s)
        PROVE  HandshakeInv'
    <2> DEFINE r == [call[p][c] EXCEPT !.id = NextId(p)]
               fs == RequestFrames(r, NextId(p), s)
    <2>1. UNCHANGED <<conf, remote, closure, state, running>> /\ state[p] = "ready"
      BY <1>6 DEF RequestSend, handshakeVars, answerVars
    <2>2. CASE s > SendLimit(p) \/ port[p] # "open"
      <3>1. UNCHANGED wire
        BY <1>6, <2>2, LimitType, SizesTyped DEF RequestSend
      <3> QED
        BY <1>b, <2>1, <3>1, HandshakeMoved
    <2>3. CASE s <= SendLimit(p) /\ port[p] = "open"
      <3>1. s \in Nat /\ NextId(p) \in Nat /\ r.method \in Method
        BY SizesTyped DEF TypeOK, CallRecord, NextId
      <3>2. Req(NextId(p), r.method, s) \in Frame /\ Cancel(NextId(p)) \in Frame
        BY <3>1, FrameTypes
      <3>3. Req(NextId(p), r.method, s) \in Legal[Other(p)]
        <4>1. s <= conf[Other(p)].maxFrame
          BY <2>1, <2>3, <3>1, LimitSound
        <4>2. Req(NextId(p), r.method, s).type = "req" /\ Req(NextId(p), r.method, s).size = s
          BY DEF Req
        <4> QED
          BY <3>2, <4>1, <4>2, PlainLegal
      <3>4. Cancel(NextId(p)) \in Legal[Other(p)]
        BY <3>1, SmallLegal
      <3>5. fs \in Seq(Frame) /\ fs \in Seq(Legal[Other(p)])
        <4> HIDE DEF r
        <4>1. CASE r.aborted
          BY <3>2, <3>3, <3>4, <4>1, Pair DEF RequestFrames
        <4>2. CASE ~r.aborted
          BY <3>2, <3>3, <4>2, Singleton DEF RequestFrames
        <4> QED
          BY <4>1, <4>2
      <3>6. wire' = Queued(wire, p, fs)
        BY <1>6, <2>3, LimitType, SizesTyped DEF RequestSend
      <3> HIDE DEF fs
      <3>7. wire' \in WiresIn(Legal)
        BY <1>b, <3>5, <3>6, QueuedIn
      <3> QED
        BY <2>1, <3>7, HandshakeMoved
    <2> QED
      BY <2>2, <2>3, LimitType, SizesTyped
  <1>7. ASSUME NEW p \in Peer, NEW c \in Call, Abort(p, c) \/ RequestTimeout(p, c)
        PROVE  HandshakeInv'
    <2>1. call[p][c].id \in Nat
      BY DEF TypeOK, CallRecord
    <2>2. TrySend(wire, p, Cancel(call[p][c].id)) \in WiresIn(Legal)
      BY <1>b, <2>1, FrameTypes, SmallLegal, TrySendIn
    <2>3. wire' \in WiresIn(Legal) /\ UNCHANGED <<conf, remote, closure, state, running>>
      BY <1>7, <1>b, <2>2 DEF Abort, RequestTimeout, handshakeVars, answerVars
    <2> QED
      BY <2>3, HandshakeMoved
  <1>8. ASSUME NEW p \in Peer, NEW id \in running[p], NEW f \in Frame,
               f.type \notin {"hello", "close"},
               state[p] = "ready" => \/ f.size <= conf[Other(p)].maxFrame
                                     \/ f.type = "err" /\ f.size \in ErrorSizes,
               HandlerSettles(p, id, f)
        PROVE  HandshakeInv'
    <2>1. state[p] \in {"ready", "closed"}
      BY <1>b DEF KnowledgeInv, TypeOK
    <2>2. wire' \in WiresIn(Legal)
      BY <1>8, <2>1, RespondLegal DEF HandlerSettles
    <2>3. UNCHANGED <<conf, remote, closure, state>>
          /\ running' = [running EXCEPT ![p] = @ \ {id}]
      BY <1>8 DEF HandlerSettles, handshakeVars
    <2>4. Legal' = Legal /\ MajorsDiffer' = MajorsDiffer
      BY <2>3, LegalConstant
    <2>5. \A q \in Peer : running'[q] \subseteq running[q]
      BY <2>3 DEF TypeOK
    <2>6. \A q \in Peer : running[q] = {} => running'[q] = {}
      BY <2>5
    <2>7. KnowledgeInv'
      BY <1>b, <2>3, <2>4, <2>6 DEF KnowledgeInv
    <2> QED
      BY <2>2, <2>4, <2>7 DEF HandshakeInv
  <1>9. ASSUME NEW p \in Peer, Handling(p) PROVE HandshakeInv'
    <2>1. PICK id \in running[p] :
            \/ \E s \in PayloadSizes : HandlerReturns(p, id, s)
            \/ \E threw \in {"RemoteError", "AbortError", "Error"}, s \in ErrorSizes :
                   HandlerThrows(p, id, threw, s)
      BY <1>9 DEF Handling
    <2>a. id \in Nat
      BY DEF TypeOK
    <2>2. CASE \E s \in PayloadSizes : HandlerReturns(p, id, s)
      <3>1. PICK s \in PayloadSizes : HandlerReturns(p, id, s)
        BY <2>2
      <3>2. s \in Nat
        BY SizesTyped
      <3>3. CASE s <= SendLimit(p)
        <4>1. Res(id, s) \in Frame
          BY <2>a, <3>2, FrameTypes
        <4>2. Res(id, s).type = "res" /\ Res(id, s).size = s
          BY DEF Res
        <4>3. state[p] = "ready" => s <= conf[Other(p)].maxFrame
          BY <3>2, <3>3, LimitSound
        <4>4. HandlerSettles(p, id, Res(id, s))
          BY <3>1, <3>3 DEF HandlerReturns, ResultAnswer
        <4> QED
          BY <1>8, <4>1, <4>2, <4>3, <4>4
      <3>4. CASE ~(s <= SendLimit(p))
        <4>1. Err(id, "FRAME_TOO_LARGE", 0) \in Frame
          BY <2>a, FrameTypes DEF Failure
        <4>2. Err(id, "FRAME_TOO_LARGE", 0).type = "err" /\ Err(id, "FRAME_TOO_LARGE", 0).size = 0
          BY DEF Err
        <4>3. conf[Other(p)].maxFrame \in Nat
          BY OtherType DEF TypeOK, Config
        <4>4. HandlerSettles(p, id, Err(id, "FRAME_TOO_LARGE", 0))
          BY <3>1, <3>4 DEF HandlerReturns, ResultAnswer
        <4> QED
          BY <1>8, <4>1, <4>2, <4>3, <4>4
      <3> QED
        BY <3>3, <3>4
    <2>3. CASE \E threw \in {"RemoteError", "AbortError", "Error"}, s \in ErrorSizes :
                   HandlerThrows(p, id, threw, s)
      <3>1. PICK threw \in {"RemoteError", "AbortError", "Error"}, s \in ErrorSizes :
                   HandlerThrows(p, id, threw, s)
        BY <2>3
      <3> DEFINE e == Err(id, ErrorCode(p, id, threw), s)
      <3>2. ErrorCode(p, id, threw) \in Failure
        BY DEF ErrorCode, Failure
      <3>3. e \in Frame
        BY <2>a, <3>2, FrameTypes, SizesTyped
      <3>4. e.type = "err" /\ e.size = s
        BY DEF Err
      <3>5. HandlerSettles(p, id, e)
        BY <3>1 DEF HandlerThrows
      <3> HIDE DEF e
      <3> QED
        BY <1>8, <3>3, <3>4, <3>5
    <2> QED
      BY <2>1, <2>2, <2>3
  <1>10. ASSUME NEW p \in Peer, NEW k \in StreamKey, NEW end \in BOOLEAN, NEW s \in PayloadSizes,
                Emit(p, k, end, s)
         PROVE  HandshakeInv'
    <2> DEFINE e == Evt(k, streams[p][k], end, s)
    <2>1. UNCHANGED <<conf, remote, closure, state, running>> /\ state[p] = "ready"
          /\ s <= SendLimit(p) /\ wire' = Queued(wire, p, <<e>>)
      BY <1>10 DEF Emit, handshakeVars, answerVars
    <2>2. s \in Nat /\ streams[p][k] \in Nat
      BY SizesTyped DEF TypeOK
    <2>3. e \in Frame /\ e.type = "evt" /\ e.size = s
      BY <2>2, FrameTypes DEF Evt
    <2>4. s <= conf[Other(p)].maxFrame
      BY <2>1, <2>2, LimitSound
    <2> HIDE DEF e
    <2>5. e \in Legal[Other(p)]
      BY <2>3, <2>4, PlainLegal
    <2>6. wire' \in WiresIn(Legal)
      BY <1>b, <2>1, <2>3, <2>5, Singleton, QueuedIn
    <2> QED
      BY <2>1, <2>6, HandshakeMoved
  <1>11. ASSUME NEW p \in Peer, Ping(p) PROVE HandshakeInv'
    <2>1. Sign("ping") \in Frame /\ Sign("ping") \in Legal[Other(p)]
      BY FrameTypes, SmallLegal
    <2>2. wire' \in WiresIn(Legal)
      BY <1>11, <1>b, <2>1, Singleton, QueuedIn DEF Ping
    <2>3. UNCHANGED <<conf, remote, closure, state, running>>
      BY <1>11 DEF Ping, handshakeVars, answerVars
    <2> QED
      BY <2>2, <2>3, HandshakeMoved
  <1>12. ASSUME NEW p \in Peer, Close(p) PROVE HandshakeInv'
    <2>1. CASE state[p] = "closed"
      <3>1. UNCHANGED <<wire, conf, remote, closure, state, running>>
        BY <1>12, <2>1 DEF Close, handshakeVars, answerVars, netVars
      <3> QED
        BY <1>b, <3>1, HandshakeMoved
    <2>2. CASE state[p] # "closed"
      BY <1>12, <1>a, <2>2, HandshakeCloseNow DEF Close
    <2> QED
      BY <2>1, <2>2
  <1>13. ASSUME NEW p \in Peer, CloseResolves(p) PROVE HandshakeInv'
    <2>1. UNCHANGED <<wire, conf, remote, closure, state, running>>
      BY <1>13 DEF CloseResolves, handshakeVars, answerVars, netVars
    <2> QED
      BY <1>b, <2>1, HandshakeMoved
  <1>14. ASSUME NEW p \in Peer, PortLost(p) PROVE HandshakeInv'
    <2>1. PICK n \in 0 .. Len(wire[Other(p)]) :
            wire' = [q \in Peer |-> IF q = p THEN <<>> ELSE SubSeq(wire[q], 1, n)]
      BY <1>14 DEF PortLost
    <2>2. wire \in Wires /\ \A q \in Peer : wire[q] \in Seq(Legal[q])
      BY <1>b DEF WiresIn
    <2>3. \A q \in Peer : q = p \/ q = Other(p)
      BY DEF Peer, Other
    <2>4. SubSeq(wire[Other(p)], 1, n) \in Seq(Legal[Other(p)])
          /\ SubSeq(wire[Other(p)], 1, n) \in Seq(Frame)
      <3>1. wire[Other(p)] \in Seq(Legal[Other(p)]) /\ wire[Other(p)] \in Seq(Frame)
        BY <2>2, OtherType DEF Wires
      <3> QED
        BY <3>1, PrefixType
    <2>5. wire' \in Wires
      BY <2>1, <2>3, <2>4 DEF Wires
    <2>6. \A q \in Peer : wire'[q] \in Seq(Legal[q])
      <3>1. ASSUME NEW q \in Peer PROVE wire'[q] \in Seq(Legal[q])
        <4>1. CASE q = p
          BY <2>1, <4>1, EmptySeq
        <4>2. CASE q # p
          BY <2>1, <2>3, <2>4, <4>2
        <4> QED
          BY <4>1, <4>2
      <3> QED
        BY <3>1
    <2>7. UNCHANGED <<conf, remote, closure, state, running>>
      BY <1>14 DEF PortLost, handshakeVars, answerVars
    <2> QED
      BY <2>5, <2>6, <2>7, HandshakeMoved DEF WiresIn
  <1>15. ASSUME NEW p \in Peer, PortReports(p) \/ PortEnds(p) PROVE HandshakeInv'
    BY <1>15, HandshakePortClosed DEF PortReports, PortEnds
  <1>16. CASE LinkDies
    <2>1. wire' \in WiresIn(Legal)
      BY <1>16, EmptySeq DEF LinkDies, WiresIn, Wires
    <2>2. UNCHANGED <<conf, remote, closure, state, running>>
      BY <1>16 DEF LinkDies, handshakeVars, answerVars
    <2> QED
      BY <2>1, <2>2, HandshakeMoved
  <1>17. CASE UNCHANGED vars
    <2>1. UNCHANGED <<wire, conf, remote, closure, state, running>>
      BY <1>17 DEF vars, handshakeVars, answerVars, netVars
    <2> QED
      BY <1>b, <2>1, HandshakeMoved
  <1> QED
    BY <1>1, <1>2, <1>3, <1>4, <1>5, <1>6, <1>7, <1>9, <1>10, <1>11, <1>12, <1>13,
       <1>14, <1>15, <1>16, <1>17 DEF Next, Requesting

\* Before the first frame both ends know nothing and the wires are empty.
LEMMA HandshakeInit == Init => HandshakeInv
  <1> SUFFICES ASSUME Init PROVE HandshakeInv
    OBVIOUS
  <1>1. wire \in WiresIn(Legal)
    BY EmptySeq DEF Init, WiresIn, Wires
  <1>2. KnowledgeInv
    BY DEF Init, KnowledgeInv, NoCode, ProtocolMismatch
  <1> QED
    BY <1>1, <1>2 DEF HandshakeInv

\* In every reachable state the handshake invariant holds.
LEMMA HandshakeAlways == Spec => []HandshakeInv
  <1>1. TypeOK /\ HandshakeInv /\ [Next]_vars => HandshakeInv'
    BY HandshakePreserved
  <1> QED
    BY <1>1, HandshakeInit, TypeCorrect, PTL DEF Spec

\* Whatever the two versions, and whatever is lost on the way: 4426 means the
\* majors differ, a session that knows its peer has the same major, and two
\* that know each other agree on the minor (negotiate, #receiveHello).
THEOREM HandshakeSound == Spec => []HandshakeAgreement
  <1>1. TypeOK /\ HandshakeInv => HandshakeAgreement
    <2> SUFFICES ASSUME TypeOK, HandshakeInv PROVE HandshakeAgreement
      OBVIOUS
    <2>1. KnowledgeInv
      BY DEF HandshakeInv
    <2>2. ASSUME remote[Hub].known, remote[Runtime].known
          PROVE  remote[Hub].minor = remote[Runtime].minor
      <3>1. remote[Hub] = RemotePeer(conf[Hub], Hello(conf[Runtime]))
            /\ remote[Runtime] = RemotePeer(conf[Runtime], Hello(conf[Hub]))
        BY <2>1, <2>2, PeersDiffer DEF KnowledgeInv, Peer, Other
      <3>2. conf[Hub].minor \in Nat /\ conf[Runtime].minor \in Nat
        BY DEF TypeOK, Config, Peer
      <3>3. /\ remote[Hub].minor = EffectiveMinor(conf[Hub], Hello(conf[Runtime]))
            /\ remote[Runtime].minor = EffectiveMinor(conf[Runtime], Hello(conf[Hub]))
        BY <3>1 DEF RemotePeer
      <3>4. Hello(conf[Runtime]).minor = conf[Runtime].minor
            /\ Hello(conf[Hub]).minor = conf[Hub].minor
        BY DEF Hello
      <3> QED
        BY <3>2, <3>3, <3>4 DEF EffectiveMinor
    <2> QED
      BY <2>1, <2>2 DEF KnowledgeInv, HandshakeAgreement, MajorsDiffer
  <1> QED
    BY <1>1, HandshakeAlways, TypeCorrect, PTL

\* The errors handlers cause fit every ceiling in use.
ErrorsFit == \A s \in ErrorSizes, c \in Configs : s <= c.maxFrame

\* As long as the errors that handlers cause fit, no frame under way is larger
\* than the end it goes to decodes (sendLimitBytes, #assertFits,
\* #respondResult).  Without that condition the claim fails: #respondError
\* measures nothing.
THEOREM CeilingsHonoured == Spec /\ ErrorsFit => []CeilingHonoured
  <1> DEFINE C == conf \in [Peer -> Configs]
  <1>1. Init => C
    BY DEF Init
  <1>2. C /\ [Next]_vars => C'
    <2>1. [Next]_vars => conf' = conf
      BY ConfConstant
    <2> QED
      BY <2>1
  <1>3. ErrorsFit /\ [Next]_vars => ErrorsFit'
    BY DEF ErrorsFit
  <1>4. TypeOK /\ HandshakeInv /\ C /\ ErrorsFit => CeilingHonoured
    <2> SUFFICES ASSUME TypeOK, HandshakeInv, C, ErrorsFit,
                        NEW p \in Peer, NEW i \in 1 .. Len(wire[p])
                 PROVE  wire[p][i].size <= conf[p].maxFrame
      BY DEF CeilingHonoured
    <2>1. wire[p] \in Seq(Legal[p])
      BY DEF HandshakeInv, WiresIn
    <2>2. wire[p][i] \in Legal[p]
      BY <2>1, ElementOfSeq
    <2>3. Legit(p, wire[p][i])
      BY <2>2 DEF Legal
    <2> QED
      BY <2>3 DEF Legit, ErrorsFit
  <1> HIDE DEF C
  <1> QED
    BY <1>1, <1>2, <1>3, <1>4, HandshakeAlways, TypeCorrect, PTL DEF Spec
=============================================================================
