---------------------------- MODULE MangoSession ----------------------------
(***************************************************************************)
(* Two Mango Protocol sessions (packages/protocol/src/session.ts) joined   *)
(* by a transport that keeps order (packages/protocol/src/port.ts).        *)
(*                                                                         *)
(* Both ends run the same code: either may request, answer, emit, cancel,  *)
(* ping and close.  Each session runs on one event loop, so a handler of   *)
(* the source that does not await is one step here; a handler that awaits  *)
(* (request, dispatch, close) is one step per stretch between two awaits.  *)
(* Payloads are reduced to a size, so that the frame ceilings of the two   *)
(* ends can be told apart; names are reduced to application and reserved   *)
(* methods.                                                                *)
(***************************************************************************)
EXTENDS Integers, Sequences, FiniteSets

CONSTANTS
    Hub, Runtime,       \* the two ends of the transport
    Call,               \* request() calls one end can make in a behaviour
    Requesters,         \* the ends whose application makes requests
    Emitters,           \* the ends whose application emits events
    Closers,            \* the ends whose application may call close()
    Probers,            \* the ends with a liveness timer (livenessIntervalMs not false)
    StreamKey,          \* stream ids and topics events are emitted under
    MaxStreamKeys,      \* options.maxStreamKeys
    Configs,            \* what an end may be constructed with
    DefaultFrame,       \* DEFAULT_MAX_FRAME_BYTES
    PayloadSizes,       \* sizes of request, result and event frames
    ErrorSizes,         \* sizes of the err frames a failing handler causes
    Faults,             \* transport faults: a subset of {"lost", "silent"}
    MaxSeq,             \* bound: highest sequence number emitted
    MaxWire             \* bound: frames under way when an application emits or pings

Peer == {Hub, Runtime}
Other(p) == IF p = Hub THEN Runtime ELSE Hub

Config == [major : Nat, minor : Nat, maxFrame : Nat, maxInFlight : Nat \ {0}]

ASSUME PeersDiffer == Hub # Runtime
ASSUME ConfigsTyped == Configs \subseteq Config
ASSUME SizesTyped ==
    /\ DefaultFrame \in Nat
    /\ PayloadSizes \subseteq Nat
    /\ ErrorSizes \subseteq Nat
ASSUME BoundsTyped == MaxStreamKeys \in Nat /\ MaxSeq \in Nat /\ MaxWire \in Nat

-----------------------------------------------------------------------------
(* Close codes (close.ts) and the vocabulary of calls and answers.         *)

Released == 4000
ProtocolError == 4400
ProtocolMismatch == 4426
NoCode == 0
CloseCode == {Released, ProtocolError, ProtocolMismatch}

\* "app" stands for every application method, "rpc" for rpc.discover.
Method == {"app", "rpc"}
RpcDiscoverMinor == 1

\* Why a responder refused or failed a request: error.code, told apart by
\* details.kind where the session gives one.
Refusal == {"HANDSHAKE", "IN_FLIGHT", "DUPLICATE", "RESERVED", "UNSUPPORTED"}
Failure == {"FRAME_TOO_LARGE", "CANCELLED", "INTERNAL", "REMOTE"}
Outcome == {"none", "result", "TIMEOUT", "UNAVAILABLE", "MISMATCH",
            "INVALID_REQUEST"} \cup Refusal \cup Failure

NoCall == [state |-> "idle", id |-> 0, method |-> "app",
           aborted |-> FALSE, outcome |-> "none"]
CallRecord == [state : {"idle", "waiting", "pending", "settled"}, id : Nat,
               method : Method, aborted : BOOLEAN, outcome : Outcome]

Remote == [known : BOOLEAN, minor : Nat, maxFrame : Nat]

-----------------------------------------------------------------------------
(* Frames (schemas/frames.ts).  Every frame carries its encoded size; the  *)
(* frames whose content the application does not choose have size 0, below *)
(* every ceiling.                                                          *)

HelloFrame == [type : {"hello"}, major : Nat, minor : Nat, maxFrame : Nat, size : {0}]
RequestFrame == [type : {"req"}, id : Nat, method : Method, size : Nat]
ResultFrame == [type : {"res"}, id : Nat, size : Nat]
ErrorFrame == [type : {"err"}, id : Nat, code : Refusal \cup Failure, size : Nat]
EventFrame == [type : {"evt"}, key : StreamKey, seq : Nat, end : BOOLEAN, size : Nat]
CancelFrame == [type : {"cancel"}, id : Nat, size : {0}]
SignFrame == [type : {"ping", "pong"}, size : {0}]
CloseFrame == [type : {"close"}, code : CloseCode, size : {0}]
Frame == HelloFrame \cup RequestFrame \cup ResultFrame \cup ErrorFrame
         \cup EventFrame \cup CancelFrame \cup SignFrame \cup CloseFrame

Req(id, m, s) == [type |-> "req", id |-> id, method |-> m, size |-> s]
Res(id, s) == [type |-> "res", id |-> id, size |-> s]
Err(id, code, s) == [type |-> "err", id |-> id, code |-> code, size |-> s]
Evt(k, n, end, s) == [type |-> "evt", key |-> k, seq |-> n, end |-> end, size |-> s]
Cancel(id) == [type |-> "cancel", id |-> id, size |-> 0]
Sign(t) == [type |-> t, size |-> 0]
CloseOf(code) == [type |-> "close", code |-> code, size |-> 0]

-----------------------------------------------------------------------------
VARIABLES
    conf,          \* the options each session is constructed with
    state,         \* #state, and "new" before the constructor has run
    closure,       \* #closure: the code the session ended with
    remote,        \* #remote: what the peer's hello announced
    requestSequence, pending, call,      \* the requester: ids, #pending, callers
    active, signalled, running,          \* the responder: #active, aborted
                                         \* signals, handlers still executing
    started,       \* history: ids whose handler was started
    streams,       \* #eventSequences; an absent key is 0
    heard,         \* history: the next sequence number listeners expect
    awaitingPong,  \* #awaitingPong
    closing,       \* the promise close() returned
    port,          \* the local end of the transport
    wire,          \* frames on their way to each end
    link           \* "dead": both ends look open and nothing arrives

handshakeVars == <<state, closure, remote>>
requestVars == <<requestSequence, pending, call>>
answerVars == <<active, signalled, running, started>>
eventVars == <<streams, heard>>
netVars == <<port, wire, link>>
vars == <<conf, handshakeVars, requestVars, answerVars, eventVars,
          awaitingPong, closing, netVars>>

TypeOK ==
    /\ conf \in [Peer -> Config]
    /\ state \in [Peer -> {"new", "handshaking", "ready", "closed"}]
    /\ closure \in [Peer -> CloseCode \cup {NoCode}]
    /\ remote \in [Peer -> Remote]
    /\ requestSequence \in [Peer -> Nat]
    /\ pending \in [Peer -> SUBSET Nat]
    /\ call \in [Peer -> [Call -> CallRecord]]
    /\ active \in [Peer -> SUBSET Nat]
    /\ signalled \in [Peer -> SUBSET Nat]
    /\ running \in [Peer -> SUBSET Nat]
    /\ started \in [Peer -> SUBSET Nat]
    /\ streams \in [Peer -> [StreamKey -> Nat]]
    /\ heard \in [Peer -> [StreamKey -> Nat]]
    /\ awaitingPong \in [Peer -> BOOLEAN]
    /\ closing \in [Peer -> {"none", "waiting", "resolved"}]
    /\ port \in [Peer -> {"open", "lost", "closed"}]
    /\ wire \in [Peer -> Seq(Frame)]
    /\ link \in {"up", "dead"}

-----------------------------------------------------------------------------
(* The transport.  A port accepts a frame that its own codec can encode;   *)
(* the frame joins the receiver's queue unless nobody will ever read it.   *)

Reaches(p) == link = "up" /\ port[Other(p)] = "open" /\ state[Other(p)] # "closed"
Queued(w, p, fs) == IF Reaches(p) THEN [w EXCEPT ![Other(p)] = @ \o fs] ELSE w

\* port.send: throws when the port is not open or the frame cannot be encoded.
Sendable(p, f) == port[p] = "open" /\ f.size <= conf[p].maxFrame

\* #trySend: a frame of a closed session, or one the port refuses, is dropped.
TrySend(w, p, f) ==
    IF state[p] # "closed" /\ Sendable(p, f) THEN Queued(w, p, <<f>>) ELSE w

\* #respondError and the last line of #respondResult.
RespondUnlessCancelled(w, p, f) == IF f.id \in signalled[p] THEN w ELSE TrySend(w, p, f)
Respond(w, p, f) == TrySend(w, p, f)

\* The queues once p has read the frame at the head of its own.
PoppedUnlessRequest(p) ==
    IF Head(wire[p]).type = "req" /\ Head(wire[p]).id \notin active[p]
    THEN wire ELSE [wire EXCEPT ![p] = Tail(@)]
Popped(p) == [wire EXCEPT ![p] = Tail(@)]

-----------------------------------------------------------------------------
(* Ending a session.                                                       *)

RejectedSilently(r) == r

\* #unavailable: what a pending request is rejected with.
Rejected(r) == IF r.state = "pending"
               THEN [r EXCEPT !.state = "settled", !.outcome = "UNAVAILABLE"]
               ELSE r

\* #teardown: everything in flight settles and every handler is aborted.
Teardown(p, code) ==
    /\ state' = [state EXCEPT ![p] = "closed"]
    /\ closure' = [closure EXCEPT ![p] = code]
    /\ call' = [call EXCEPT ![p] = [c \in Call |-> Rejected(call[p][c])]]
    /\ pending' = [pending EXCEPT ![p] = {}]
    /\ signalled' = [signalled EXCEPT ![p] = @ \cup active[p]]
    /\ active' = [active EXCEPT ![p] = {}]
    /\ streams' = [streams EXCEPT ![p] = [k \in StreamKey |-> 0]]
    /\ UNCHANGED <<conf, remote, requestSequence, running, started, heard, awaitingPong>>

\* closeNow on a session that is not closed: the port writes a close frame
\* and ends, then the session is torn down.
CloseNow(p, code) ==
    /\ Teardown(p, code)
    /\ wire' = [(IF port[p] = "open" THEN Queued(wire, p, <<CloseOf(code)>>) ELSE wire)
                    EXCEPT ![p] = <<>>]
    /\ port' = [port EXCEPT ![p] = "closed"]
    /\ UNCHANGED link

\* #handlePortClosed: the transport ended and the session learns it.
PortClosed(p, code) ==
    /\ Teardown(p, code)
    /\ wire' = [wire EXCEPT ![p] = <<>>]
    /\ port' = [port EXCEPT ![p] = "closed"]
    /\ UNCHANGED link

Live(p) == state[p] \in {"handshaking", "ready"}

-----------------------------------------------------------------------------
(* Opening a session and the handshake.                                    *)

\* localFrameCeiling and #startHandshake: only a ceiling below the default is
\* announced, and the peer reads an absent one as the default.
Announced(c) == IF c.maxFrame < DefaultFrame THEN c.maxFrame ELSE DefaultFrame
Hello(c) == [type |-> "hello", major |-> c.major, minor |-> c.minor,
             maxFrame |-> Announced(c), size |-> 0]

\* The constructor: subscribe to the port and send hello.
Open(p) ==
    /\ state[p] = "new"
    /\ \/ /\ port[p] = "open"
          /\ state' = [state EXCEPT ![p] = "handshaking"]
          /\ wire' = Queued(wire, p, <<Hello(conf[p])>>)
          /\ UNCHANGED <<conf, closure, remote, requestVars, answerVars, eventVars,
                         awaitingPong, port, link>>
       \/ /\ port[p] # "open"
          /\ CloseNow(p, Released)
    /\ UNCHANGED closing

\* The handshake timer of #startHandshake.
HandshakeTimeout(p) ==
    /\ state[p] = "handshaking"
    /\ CloseNow(p, ProtocolError)
    /\ UNCHANGED closing

-----------------------------------------------------------------------------
(* What arrives.                                                           *)

Arrives(p, t) ==
    /\ Live(p)
    /\ port[p] = "open"
    /\ wire[p] # <<>>
    /\ Head(wire[p]).type = t
    /\ Head(wire[p]).size <= conf[p].maxFrame

\* negotiate (version.ts)
Agrees(c, f) == c.major = f.major
EffectiveMinorLocal(c, f) == c.minor
EffectiveMinor(c, f) == IF c.minor < f.minor THEN c.minor ELSE f.minor
RemotePeer(c, f) ==
    [known |-> TRUE, minor |-> EffectiveMinor(c, f), maxFrame |-> f.maxFrame]

\* #receiveHello
ReceiveHello(p) ==
    /\ Arrives(p, "hello")
    /\ LET f == Head(wire[p])
       IN \/ /\ state[p] # "handshaking"
             /\ CloseNow(p, ProtocolError)
          \/ /\ state[p] = "handshaking"
             /\ ~Agrees(conf[p], f)
             /\ CloseNow(p, ProtocolMismatch)
          \/ /\ state[p] = "handshaking"
             /\ Agrees(conf[p], f)
             /\ state' = [state EXCEPT ![p] = "ready"]
             /\ remote' = [remote EXCEPT ![p] = RemotePeer(conf[p], f)]
             /\ wire' = Popped(p)
             /\ UNCHANGED <<conf, closure, requestVars, answerVars, eventVars,
                            awaitingPong, port, link>>
    /\ UNCHANGED closing

\* #dispatch up to the handler: why a request is refused before one runs.
\* routed says whether a handler is registered at that moment.
Refusals(p, f, routed) ==
    [HANDSHAKE |-> state[p] # "ready",
     IN_FLIGHT |-> Cardinality(active[p]) >= conf[p].maxInFlight,
     DUPLICATE |-> f.id \in active[p],
     RESERVED |-> f.method = "rpc" /\ remote[p].minor < RpcDiscoverMinor,
     UNSUPPORTED |-> ~routed]
RefusalOrder == <<"HANDSHAKE", "IN_FLIGHT", "DUPLICATE", "RESERVED", "UNSUPPORTED">>
FirstRefusal(r, i) == r[RefusalOrder[i]] /\ \A j \in 1 .. i - 1 : ~r[RefusalOrder[j]]

ReceiveRequest(p) ==
    /\ Arrives(p, "req")
    /\ LET f == Head(wire[p])
       IN \E routed \in BOOLEAN :
            LET r == Refusals(p, f, routed)
            IN \/ \E i \in 1 .. Len(RefusalOrder) :
                    /\ FirstRefusal(r, i)
                    /\ wire' = Respond(Popped(p), p, Err(f.id, RefusalOrder[i], 0))
                    /\ UNCHANGED answerVars
               \/ /\ \A i \in 1 .. Len(RefusalOrder) : ~r[RefusalOrder[i]]
                  /\ active' = [active EXCEPT ![p] = @ \cup {f.id}]
                  /\ running' = [running EXCEPT ![p] = @ \cup {f.id}]
                  /\ started' = [started EXCEPT ![p] = @ \cup {f.id}]
                  /\ wire' = Popped(p)
                  /\ UNCHANGED signalled
    /\ UNCHANGED <<conf, handshakeVars, requestVars, eventVars, awaitingPong,
                   closing, port, link>>

Settled(r, outcome) == [r EXCEPT !.state = "settled", !.outcome = outcome]

\* #settle: an id nobody waits for is ignored (a late answer after a timeout).
ReceiveAnswer(p) ==
    /\ \/ Arrives(p, "res")
       \/ Arrives(p, "err")
    /\ LET f == Head(wire[p])
           outcome == IF f.type = "res" THEN "result" ELSE f.code
       IN IF f.id \in pending[p]
          THEN /\ pending' = [pending EXCEPT ![p] = @ \ {f.id}]
               /\ call' = [call EXCEPT ![p] = [c \in Call |->
                       IF call[p][c].id = f.id THEN Settled(call[p][c], outcome)
                                               ELSE call[p][c]]]
          ELSE UNCHANGED <<pending, call>>
    /\ wire' = Popped(p)
    /\ UNCHANGED <<conf, handshakeVars, requestSequence, answerVars, eventVars,
                   awaitingPong, closing, port, link>>

\* What a listener expects after the event numbered n (spec 7: seq counts per key).
SequenceAfter(n, end) == IF end THEN 0 ELSE n + 1

\* evt: listeners hear it once the handshake is complete.
ReceiveEvent(p) ==
    /\ Arrives(p, "evt")
    /\ LET f == Head(wire[p])
       IN heard' = IF state[p] = "ready"
                   THEN [heard EXCEPT ![p][f.key] = SequenceAfter(f.seq, f.end)]
                   ELSE heard
    /\ wire' = Popped(p)
    /\ UNCHANGED <<conf, handshakeVars, requestVars, answerVars, streams,
                   awaitingPong, closing, port, link>>

Cancelled(p, f) == {f.id} \cap active[p]

ReceiveCancelReleasing(p) ==
    /\ Arrives(p, "cancel")
    /\ signalled' = [signalled EXCEPT ![p] = @ \cup Cancelled(p, Head(wire[p]))]
    /\ active' = [active EXCEPT ![p] = @ \ {Head(wire[p]).id}]
    /\ wire' = Popped(p)
    /\ UNCHANGED <<conf, handshakeVars, requestVars, running, started,
                   eventVars, awaitingPong, closing, port, link>>

\* cancel: abort the handler of that request, if one is active.
ReceiveCancel(p) ==
    /\ Arrives(p, "cancel")
    /\ signalled' = [signalled EXCEPT ![p] = @ \cup Cancelled(p, Head(wire[p]))]
    /\ wire' = Popped(p)
    /\ UNCHANGED <<conf, handshakeVars, requestVars, active, running, started,
                   eventVars, awaitingPong, closing, port, link>>

ReceivePing(p) ==
    /\ Arrives(p, "ping")
    /\ wire' = TrySend(Popped(p), p, Sign("pong"))
    /\ UNCHANGED <<conf, handshakeVars, requestVars, answerVars, eventVars,
                   awaitingPong, closing, port, link>>

ReceivePong(p) ==
    /\ Arrives(p, "pong")
    /\ awaitingPong' = [awaitingPong EXCEPT ![p] = FALSE]
    /\ wire' = Popped(p)
    /\ UNCHANGED <<conf, handshakeVars, requestVars, answerVars, eventVars,
                   closing, port, link>>

\* close: tear down and leave the port to the transport's own end.
ReceiveClose(p) ==
    /\ Arrives(p, "close")
    /\ Teardown(p, Head(wire[p]).code)
    /\ wire' = [wire EXCEPT ![p] = <<>>]
    /\ UNCHANGED <<closing, port, link>>

\* The port's decoder refuses a frame over its ceiling and the transport
\* closes with 4400 (#refuse of the NDJSON port, #failReceive of the socket).
ReceiveOversized(p) ==
    /\ Live(p)
    /\ port[p] = "open"
    /\ wire[p] # <<>>
    /\ Head(wire[p]).size > conf[p].maxFrame
    /\ CloseNow(p, ProtocolError)
    /\ UNCHANGED closing

-----------------------------------------------------------------------------
(* What the application asks for.                                          *)

\* sendLimitBytes
SendLimitLocal(p) == conf[p].maxFrame
SendLimit(p) == IF conf[p].maxFrame < remote[p].maxFrame
                THEN conf[p].maxFrame ELSE remote[p].maxFrame

Waiting(r, m) == [r EXCEPT !.state = "waiting", !.method = m]
Aborted(r) == [r EXCEPT !.aborted = TRUE]

\* request() up to its await of ready.
Request(p, c, m) ==
    /\ p \in Requesters
    /\ state[p] # "new"
    /\ call[p][c].state = "idle"
    /\ call' = [call EXCEPT ![p][c] = Waiting(@, m)]
    /\ UNCHANGED <<conf, handshakeVars, requestSequence, pending, answerVars, eventVars,
                   awaitingPong, closing, netVars>>

\* The effective minor does not define the method (known once ready resolved).
UndefinedLocally(p, m) == m = "rpc" /\ conf[p].minor < RpcDiscoverMinor
Undefined(p, m) == remote[p].known /\ m = "rpc" /\ remote[p].minor < RpcDiscoverMinor

\* request() throws before it takes an id: the method is not defined here,
\* ready rejected, or the session closed while the caller was waiting.
RequestRefused(p, c) ==
    /\ call[p][c].state = "waiting"
    /\ \/ /\ Undefined(p, call[p][c].method)
          /\ call' = [call EXCEPT ![p][c] = Settled(@, "INVALID_REQUEST")]
       \/ /\ ~Undefined(p, call[p][c].method)
          /\ state[p] = "closed"
          /\ call' = [call EXCEPT ![p][c] = Settled(@,
                  IF ~remote[p].known /\ closure[p] = ProtocolMismatch
                  THEN "MISMATCH" ELSE "UNAVAILABLE")]
    /\ UNCHANGED <<conf, handshakeVars, requestSequence, pending, answerVars, eventVars,
                   awaitingPong, closing, netVars>>

NextId(p) == requestSequence[p] + 1

\* The frames of one request: a caller that already aborted cancels at once.
RequestFrames(r, id, s) ==
    IF r.aborted THEN <<Req(id, r.method, s), Cancel(id)>> ELSE <<Req(id, r.method, s)>>

\* The rest of request(): the id is consumed before the size is measured, and
\* the request is registered before the port is tried.
RequestSend(p, c, s) ==
    /\ call[p][c].state = "waiting"
    /\ state[p] = "ready"
    /\ ~Undefined(p, call[p][c].method)
    /\ LET id == NextId(p)
           r == [call[p][c] EXCEPT !.id = id]
       IN /\ requestSequence' = [requestSequence EXCEPT ![p] = id]
          /\ \/ /\ s > SendLimit(p)
                /\ call' = [call EXCEPT ![p][c] = Settled(r, "FRAME_TOO_LARGE")]
                /\ UNCHANGED <<pending, wire>>
             \/ /\ s <= SendLimit(p)
                /\ port[p] # "open"
                /\ call' = [call EXCEPT ![p][c] = Settled(r, "UNAVAILABLE")]
                /\ UNCHANGED <<pending, wire>>
             \/ /\ s <= SendLimit(p)
                /\ port[p] = "open"
                /\ call' = [call EXCEPT ![p][c] = [r EXCEPT !.state = "pending"]]
                /\ pending' = [pending EXCEPT ![p] = @ \cup {id}]
                /\ wire' = Queued(wire, p, RequestFrames(r, id, s))
    /\ UNCHANGED <<conf, handshakeVars, answerVars, eventVars, awaitingPong, closing,
                   port, link>>

\* options.signal fires: a request already sent is cancelled on the wire.
Abort(p, c) ==
    /\ call[p][c].state \in {"waiting", "pending"}
    /\ ~call[p][c].aborted
    /\ call' = [call EXCEPT ![p][c] = Aborted(@)]
    /\ wire' = IF call[p][c].state = "pending"
               THEN TrySend(wire, p, Cancel(call[p][c].id)) ELSE wire
    /\ UNCHANGED <<conf, handshakeVars, requestSequence, pending, answerVars, eventVars,
                   awaitingPong, closing, port, link>>

RequestTimeoutKeepingPending(p, c) ==
    /\ call[p][c].state = "pending"
    /\ call' = [call EXCEPT ![p][c] = Settled(@, "TIMEOUT")]
    /\ wire' = TrySend(wire, p, Cancel(call[p][c].id))
    /\ UNCHANGED <<conf, handshakeVars, requestSequence, pending, answerVars, eventVars,
                   awaitingPong, closing, port, link>>

\* options.timeoutMs elapses: forget the request, tell the peer, reject.
RequestTimeout(p, c) ==
    /\ call[p][c].state = "pending"
    /\ call[p][c].id \in pending[p]
    /\ pending' = [pending EXCEPT ![p] = @ \ {call[p][c].id}]
    /\ call' = [call EXCEPT ![p][c] = Settled(@, "TIMEOUT")]
    /\ wire' = TrySend(wire, p, Cancel(call[p][c].id))
    /\ UNCHANGED <<conf, handshakeVars, requestSequence, answerVars, eventVars,
                   awaitingPong, closing, port, link>>

\* Bound: an application adds to the wire only while few frames are on it.
WireRoom == Len(wire[Hub]) + Len(wire[Runtime]) < MaxWire

OpenKeys(p) == {k \in StreamKey : streams[p][k] > 0}

CounterAfterKept(n, end) == n + 1
CounterAfter(n, end) == IF end THEN 0 ELSE n + 1

\* emit: the counter is committed only after the port took the frame.
Emit(p, k, end, s) ==
    /\ p \in Emitters
    /\ state[p] = "ready"
    /\ streams[p][k] = 0 => Cardinality(OpenKeys(p)) < MaxStreamKeys
    /\ s <= SendLimit(p)
    /\ port[p] = "open"
    /\ streams[p][k] <= MaxSeq /\ WireRoom
    /\ wire' = Queued(wire, p, <<Evt(k, streams[p][k], end, s)>>)
    /\ streams' = [streams EXCEPT ![p][k] = CounterAfter(@, end)]
    /\ UNCHANGED <<conf, handshakeVars, requestVars, answerVars, heard,
                   awaitingPong, closing, port, link>>

\* ping() sends in every state the port allows.
Ping(p) ==
    /\ p \in Emitters
    /\ state[p] # "new"
    /\ port[p] = "open"
    /\ WireRoom
    /\ wire' = Queued(wire, p, <<Sign("ping")>>)
    /\ UNCHANGED <<conf, handshakeVars, requestVars, answerVars, eventVars,
                   awaitingPong, closing, port, link>>

\* close(): closeNow, then wait for the handlers that are running.
Close(p) ==
    /\ p \in Closers
    /\ state[p] # "new"
    /\ closing[p] = "none"
    /\ closing' = [closing EXCEPT ![p] = "waiting"]
    /\ IF state[p] = "closed"
       THEN UNCHANGED <<conf, handshakeVars, requestVars, answerVars, eventVars,
                        awaitingPong, netVars>>
       ELSE CloseNow(p, Released)

\* #settleHandlers: every handler has settled, or handlerGraceMs elapsed.
CloseResolves(p) ==
    /\ closing[p] = "waiting"
    /\ closing' = [closing EXCEPT ![p] = "resolved"]
    /\ UNCHANGED <<conf, handshakeVars, requestVars, answerVars, eventVars,
                   awaitingPong, netVars>>

-----------------------------------------------------------------------------
(* Handlers and timers.                                                    *)

\* errorPayloadFor: how a handler that threw is reported.
ErrorCode(p, id, threw) ==
    CASE threw = "RemoteError" -> "REMOTE"
      [] threw = "AbortError" \/ (threw = "Error" /\ id \in signalled[p]) -> "CANCELLED"
      [] OTHER -> "INTERNAL"

\* #respondResult: a result over the send limit is replaced by an error.
ResultAnswer(p, id, s) ==
    IF s <= SendLimit(p) THEN Res(id, s) ELSE Err(id, "FRAME_TOO_LARGE", 0)

\* The rest of #dispatch: answer and release the id in one step.
HandlerSettles(p, id, answer) ==
    /\ id \in running[p]
    /\ wire' = Respond(wire, p, answer)
    /\ active' = [active EXCEPT ![p] = @ \ {id}]
    /\ running' = [running EXCEPT ![p] = @ \ {id}]
    /\ signalled' = [signalled EXCEPT ![p] = @ \ {id}]
    /\ UNCHANGED <<conf, handshakeVars, requestVars, started, eventVars,
                   awaitingPong, closing, port, link>>

HandlerReturns(p, id, s) == HandlerSettles(p, id, ResultAnswer(p, id, s))
HandlerThrows(p, id, threw, s) ==
    HandlerSettles(p, id, Err(id, ErrorCode(p, id, threw), s))

LivenessTickPatient(p) ==
    /\ p \in Probers
    /\ state[p] = "ready"
    /\ awaitingPong' = [awaitingPong EXCEPT ![p] = TRUE]
    /\ wire' = IF awaitingPong[p] THEN wire ELSE TrySend(wire, p, Sign("ping"))
    /\ UNCHANGED <<conf, handshakeVars, requestVars, answerVars, eventVars, closing, port, link>>

\* #startLiveness: one missed round trip closes the session.
LivenessTick(p) ==
    /\ p \in Probers
    /\ state[p] = "ready"
    /\ \/ /\ awaitingPong[p]
          /\ CloseNow(p, Released)
       \/ /\ ~awaitingPong[p]
          /\ awaitingPong' = [awaitingPong EXCEPT ![p] = TRUE]
          /\ wire' = TrySend(wire, p, Sign("ping"))
          /\ UNCHANGED <<conf, handshakeVars, requestVars, answerVars, eventVars, port, link>>
    /\ UNCHANGED closing

-----------------------------------------------------------------------------
(* Transport faults and the end of the transport.                          *)

\* The local end breaks: what was queued for it is gone, and what it had sent
\* arrives up to some point.  The session is told in a later step.
PortLost(p) ==
    /\ "lost" \in Faults
    /\ port[p] = "open"
    /\ state[p] # "closed"
    /\ \E n \in 0 .. Len(wire[Other(p)]) :
          wire' = [q \in Peer |-> IF q = p THEN <<>> ELSE SubSeq(wire[q], 1, n)]
    /\ port' = [port EXCEPT ![p] = "lost"]
    /\ UNCHANGED <<conf, handshakeVars, requestVars, answerVars, eventVars,
                   awaitingPong, closing, link>>

PortReports(p) ==
    /\ port[p] = "lost"
    /\ Live(p)
    /\ PortClosed(p, Released)
    /\ UNCHANGED closing

\* End of file: the other end is gone and everything it sent has been read.
PortEnds(p) ==
    /\ port[p] = "open"
    /\ Live(p)
    /\ link = "up"
    /\ port[Other(p)] # "open"
    /\ wire[p] = <<>>
    /\ PortClosed(p, Released)
    /\ UNCHANGED closing

\* A half-open link: nothing arrives any more and neither port notices.
LinkDies ==
    /\ "silent" \in Faults
    /\ link = "up"
    /\ link' = "dead"
    /\ wire' = [p \in Peer |-> <<>>]
    /\ UNCHANGED <<conf, handshakeVars, requestVars, answerVars, eventVars,
                   awaitingPong, closing, port>>

-----------------------------------------------------------------------------
Init ==
    /\ conf \in [Peer -> Configs]
    /\ state = [p \in Peer |-> "new"]
    /\ closure = [p \in Peer |-> NoCode]
    /\ remote = [p \in Peer |-> [known |-> FALSE, minor |-> 0, maxFrame |-> DefaultFrame]]
    /\ requestSequence = [p \in Peer |-> 0]
    /\ pending = [p \in Peer |-> {}]
    /\ call = [p \in Peer |-> [c \in Call |-> NoCall]]
    /\ active = [p \in Peer |-> {}]
    /\ signalled = [p \in Peer |-> {}]
    /\ running = [p \in Peer |-> {}]
    /\ started = [p \in Peer |-> {}]
    /\ streams = [p \in Peer |-> [k \in StreamKey |-> 0]]
    /\ heard = [p \in Peer |-> [k \in StreamKey |-> 0]]
    /\ awaitingPong = [p \in Peer |-> FALSE]
    /\ closing = [p \in Peer |-> "none"]
    /\ port = [p \in Peer |-> "open"]
    /\ wire = [p \in Peer |-> <<>>]
    /\ link = "up"

Receive(p) ==
    \/ ReceiveHello(p) \/ ReceiveRequest(p) \/ ReceiveAnswer(p) \/ ReceiveEvent(p)
    \/ ReceiveCancel(p) \/ ReceivePing(p) \/ ReceivePong(p) \/ ReceiveClose(p)
    \/ ReceiveOversized(p)

Requesting(p) ==
    \E c \in Call :
        \/ \E m \in Method : Request(p, c, m)
        \/ RequestRefused(p, c)
        \/ \E s \in PayloadSizes : RequestSend(p, c, s)
        \/ Abort(p, c)
        \/ RequestTimeout(p, c)

Handling(p) ==
    \E id \in running[p] :
        \/ \E s \in PayloadSizes : HandlerReturns(p, id, s)
        \/ \E threw \in {"RemoteError", "AbortError", "Error"}, s \in ErrorSizes :
               HandlerThrows(p, id, threw, s)

Next ==
    \/ \E p \in Peer :
        \/ Open(p) \/ HandshakeTimeout(p) \/ LivenessTick(p)
        \/ Receive(p) \/ Requesting(p) \/ Handling(p)
        \/ \E k \in StreamKey, end \in BOOLEAN, s \in PayloadSizes : Emit(p, k, end, s)
        \/ Ping(p) \/ Close(p) \/ CloseResolves(p)
        \/ PortLost(p) \/ PortReports(p) \/ PortEnds(p)
    \/ LinkDies

Spec == Init /\ [][Next]_vars

-----------------------------------------------------------------------------
(* Safety.                                                                 *)

\* Both ends are up as far as either can tell, and the transport works.
Intact == link = "up" /\ \A p \in Peer : port[p] = "open" /\ state[p] # "closed"

\* The positions at which a request of p can be: its req frame under way, its
\* handler active at the other end, or its answer on the way back.
ReqsOnWire(p, id) == {i \in 1 .. Len(wire[p]) : wire[p][i].type = "req" /\ wire[p][i].id = id}
AnswersOnWire(p, id) ==
    {i \in 1 .. Len(wire[p]) : wire[p][i].type \in {"res", "err"} /\ wire[p][i].id = id}
Copies(p, id) == Cardinality(ReqsOnWire(Other(p), id))
                 + (IF id \in active[Other(p)] THEN 1 ELSE 0)
                 + Cardinality(AnswersOnWire(p, id))

\* A request is in one place: it is never executed or answered twice, and while
\* the connection is intact a pending one is on its way, being handled, or its
\* answer is on its way back (session.ts #dispatch, #settle; spec 6.2 "exactly
\* one").
RequestInOnePlace ==
    \A p \in Peer : \A id \in 1 .. requestSequence[p] :
        /\ Copies(p, id) <= 1
        /\ Intact /\ id \in pending[p] => Copies(p, id) = 1

\* Between two sessions running this code nobody is refused for breaking the
\* protocol: a req never overtakes the hello, ids never collide, and both ends
\* agree on which reserved methods exist (#dispatch, #receiveHello, request).
NoProtocolRefusal ==
    \A p \in Peer : \A i \in 1 .. Len(wire[p]) :
        wire[p][i].type = "err" => wire[p][i].code \notin {"HANDSHAKE", "DUPLICATE", "RESERVED"}

\* The pending table and its callers agree: an id is registered exactly when
\* one caller waits for it, and no id was handed out twice (request, #settle).
PendingMatchesCallers ==
    \A p \in Peer :
        /\ pending[p] = {call[p][c].id : c \in {d \in Call : call[p][d].state = "pending"}}
        /\ \A c, d \in Call : c # d /\ call[p][c].id # 0 => call[p][c].id # call[p][d].id

\* Whatever is on the wire can be decoded by the end it is going to: the send
\* limit derived from the two announcements is below the receiver's ceiling
\* (sendLimitBytes, #assertFits, #respondResult; spec 11.1).
CeilingHonoured ==
    \A p \in Peer : \A i \in 1 .. Len(wire[p]) : wire[p][i].size <= conf[p].maxFrame

\* A mismatch of majors is the only cause of the fatal 4426, and two ends whose
\* majors differ never both become ready; two that do agree on the effective
\* minor (negotiate, #receiveHello; spec 5.2).
HandshakeAgreement ==
    /\ \A p \in Peer : closure[p] = ProtocolMismatch => conf[Hub].major # conf[Runtime].major
    /\ \A p \in Peer : remote[p].known => conf[Hub].major = conf[Runtime].major
    /\ remote[Hub].known /\ remote[Runtime].known => remote[Hub].minor = remote[Runtime].minor

\* Event i of a queue is the first of stream k, or event j follows event i in it.
OfStream(f, k) == f.type = "evt" /\ f.key = k
FirstOf(s, k, i) == OfStream(s[i], k) /\ \A n \in 1 .. i - 1 : ~OfStream(s[n], k)
NextOf(s, k, i, j) == /\ i < j /\ OfStream(s[i], k) /\ OfStream(s[j], k)
                      /\ \A n \in i + 1 .. j - 1 : ~OfStream(s[n], k)

\* Read in order, the events of stream k go on from the one numbered h.
GapFree(s, k, h) ==
    /\ \A i \in 1 .. Len(s) : FirstOf(s, k, i) => s[i].seq = h
    /\ \A i, j \in 1 .. Len(s) :
          NextOf(s, k, i, j) => s[j].seq = SequenceAfter(s[i].seq, s[i].end)

\* Per stream key a listener hears 0, 1, 2, ... with no gap and no repeat until
\* the stream ends, and never loses an event to the handshake (emit, #receive).
StreamsGapFree ==
    \A p \in Peer : \A k \in StreamKey :
        state[p] # "closed" => GapFree(wire[p], k, heard[p][k])

\* The caller of a request gave up on it: aborted, or timed out.
GaveUp(p, id) ==
    \E c \in Call : /\ call[p][c].id = id
                    /\ call[p][c].aborted \/ call[p][c].outcome = "TIMEOUT"

\* An open session accounts for its handlers: every one that runs, also one that
\* ignored its abort, holds a slot of the announced limit, and one is told to
\* abort only because its own caller gave up (#dispatch, #receive cancel).
HandlersAccounted ==
    \A p \in Peer : state[p] # "closed" =>
        /\ running[p] = active[p]
        /\ Cardinality(running[p]) <= conf[p].maxInFlight
        /\ \A id \in signalled[p] : GaveUp(Other(p), id)

-----------------------------------------------------------------------------
(* Action properties.                                                      *)

\* The first outcome of a call and the first cause of a closure are final: a
\* late answer, a late timer or a second close changes neither
\* (#settle, the timeout of request, #teardown, closeNow).
FirstOutcomeIsFinal ==
    [][\A p \in Peer :
        /\ state[p] = "closed" => closure'[p] = closure[p] /\ state'[p] = "closed"
        /\ \A c \in Call : call[p][c].state = "settled" => call'[p][c] = call[p][c]]_vars

\* A result is only ever reported for a request whose handler ran, and a
\* handler never starts for a request that ran before (#dispatch).
HandlersRunOnce ==
    [][\A p \in Peer :
        /\ \A id \in running'[p] \ running[p] : id \notin started[p]
        /\ \A c \in Call : call'[p][c].outcome = "result" => call'[p][c].id \in started[Other(p)]]_vars

-----------------------------------------------------------------------------
(* What the callers are promised.  FRAME_TOO_LARGE is said of a request    *)
(* that was never sent and of a result that did not fit, so it tells       *)
(* nothing of the handler.  REMOTE is what a handler threw itself: its     *)
(* code and details are the handler's, not the session's.                  *)

Phase(r) == CASE r.state = "idle" -> "idle"
              [] r.state = "settled" -> "settled"
              [] OTHER -> "open"

\* What a call has come to: its handler has begun if its id was started at the other end.
Progress(p, r) == [phase |-> Phase(r), outcome |-> r.outcome,
                   begun |-> r.id \in started[Other(p)]]

Promise == INSTANCE CallPromise WITH
    Caller <- Peer \X Call,
    Reported <- {"result", "CANCELLED", "INTERNAL", "REMOTE"},
    Refused <- Refusal \cup {"INVALID_REQUEST", "MISMATCH"},
    Unknown <- {"TIMEOUT", "UNAVAILABLE", "FRAME_TOO_LARGE"},
    calls <- [x \in Peer \X Call |-> Progress(x[1], call[x[1]][x[2]])]

\* A call ends once, its caller hears how the handler ended only if it began,
\* and hears a refusal only if it did not and never will: what makes the
\* in_flight_limit refusal safe to retry (request, #dispatch, #settle; spec 11.2).
KeepsCallPromise == Promise!Spec

-----------------------------------------------------------------------------
(* Liveness.  Each session's event loop keeps running, so whatever is      *)
(* enabled in it is eventually done; timers fire; handlers settle.  Nothing*)
(* is assumed of applications (requests, aborts, closes) nor of request    *)
(* timeouts, which are optional.                                           *)

Fairness ==
    \A p \in Peer :
        /\ WF_vars(Receive(p)) /\ WF_vars(Handling(p))
        /\ WF_vars(HandshakeTimeout(p)) /\ WF_vars(LivenessTick(p))
        /\ WF_vars(PortReports(p)) /\ WF_vars(PortEnds(p))
        /\ WF_vars(CloseResolves(p))
        /\ \A c \in Call : WF_vars(RequestRefused(p, c) \/ \E s \in PayloadSizes : RequestSend(p, c, s))

FairSpec == Spec /\ Fairness

\* Every request() settles, whatever happens to the transport, the peer or the
\* handshake, even without a timeout of its own (request, #teardown, #settle).
CallsSettle ==
    \A p \in Peer : \A c \in Call :
        call[p][c].state \in {"waiting", "pending"} ~> call[p][c].state = "settled"

\* When one end closes, the other does not stay up for ever, even if the link
\* died silently (port close, end of file, #startLiveness, handshake timer).
ClosureSpreads ==
    \A p \in Peer : state[p] = "closed" /\ Live(Other(p)) ~> state[Other(p)] = "closed"
=============================================================================
