---------------------- MODULE MangoSessionRequestProofs ----------------------
(***************************************************************************)
(* Theorems about MangoSession as two ends that share two queues: where a  *)
(* request can be, what runs for it, in which order events are heard, and  *)
(* what callers are promised.                                              *)
(* The proofs do not go through the actions: every step has one of the     *)
(* twelve shapes below, and each invariant is shown for each shape.        *)
(***************************************************************************)
EXTENDS MangoSessionProofs, FiniteSetTheorems

-----------------------------------------------------------------------------
(* What a step does to one queue.                                          *)

\* f was added at the end of s.
Joined(t, s, f) ==
    /\ Len(t) = Len(s) + 1
    /\ t[Len(s) + 1] = f
    /\ \A i \in 1 .. Len(s) : t[i] = s[i]
\* The first element of s was taken.
Taken(t, s) ==
    /\ Len(s) > 0
    /\ Len(t) = Len(s) - 1
    /\ \A i \in 1 .. Len(t) : t[i] = s[i + 1]
\* t is a stretch of s: what is left when frames are read or lost.
Stretch(t, s) ==
    \E d \in Nat : /\ Len(t) + d <= Len(s)
                   /\ \A i \in 1 .. Len(t) : t[i] = s[i + d]

HasRequest(s, id) == \E i \in 1 .. Len(s) : s[i].type = "req" /\ s[i].id = id
HasAnswer(s, id) == \E i \in 1 .. Len(s) : s[i].type \in {"res", "err"} /\ s[i].id = id
OneRequest(s) ==
    \A i, j \in 1 .. Len(s) :
        s[i].type = "req" /\ s[j].type = "req" /\ s[i].id = s[j].id => i = j
OneAnswer(s) ==
    \A i, j \in 1 .. Len(s) :
        s[i].type \in {"res", "err"} /\ s[j].type \in {"res", "err"} /\ s[i].id = s[j].id => i = j

\* Adding one frame at the end of a queue.
LEMMA ConcatJoined ==
    ASSUME NEW T, NEW s \in Seq(T), NEW f \in T
    PROVE  Joined(s \o <<f>>, s, f)
  BY DEF Joined

\* Adding two frames is adding the first and then the second.
LEMMA ConcatJoinedTwice ==
    ASSUME NEW T, NEW s \in Seq(T), NEW f \in T, NEW g \in T
    PROVE  Joined(s \o <<f, g>>, s \o <<f>>, g)
  BY DEF Joined

\* Reading a frame takes the first one.
LEMMA TailTaken ==
    ASSUME NEW T, NEW s \in Seq(T), s # <<>>
    PROVE  Taken(Tail(s), s) /\ Head(s) = s[1]
  BY DEF Taken

\* What a queue keeps is a stretch of it.
LEMMA Stretches ==
    ASSUME NEW T, NEW s \in Seq(T), NEW t \in Seq(T)
    PROVE  /\ Stretch(s, s)
           /\ Stretch(<<>>, s)
           /\ Taken(t, s) => Stretch(t, s)
           /\ \A n \in 0 .. Len(s) : Stretch(SubSeq(s, 1, n), s)
  <1>1. Stretch(s, s)
    <2>1. Len(s) + 0 <= Len(s) /\ \A i \in 1 .. Len(s) : s[i] = s[i + 0]
      BY LenProperties
    <2> QED
      BY <2>1 DEF Stretch
  <1>2. Stretch(<<>>, s)
    <2>1. Len(<<>>) + 0 <= Len(s) /\ \A i \in 1 .. Len(<<>>) : <<>>[i] = s[i + 0]
      BY LenProperties
    <2> QED
      BY <2>1 DEF Stretch
  <1>3. ASSUME Taken(t, s) PROVE Stretch(t, s)
    <2>1. Len(t) + 1 <= Len(s) /\ \A i \in 1 .. Len(t) : t[i] = s[i + 1]
      BY <1>3, LenProperties DEF Taken
    <2> QED
      BY <2>1 DEF Stretch
  <1>4. ASSUME NEW n \in 0 .. Len(s) PROVE Stretch(SubSeq(s, 1, n), s)
    <2> DEFINE u == SubSeq(s, 1, n)
    <2>1. Len(u) = n /\ \A i \in 1 .. n : u[i] = s[i]
      BY LenProperties
    <2> HIDE DEF u
    <2>2. Len(u) + 0 <= Len(s) /\ \A i \in 1 .. Len(u) : u[i] = s[i + 0]
      BY <2>1, LenProperties
    <2>3. Stretch(u, s)
      BY <2>2 DEF Stretch
    <2> QED
      BY <2>3 DEF u
  <1> QED
    BY <1>1, <1>2, <1>3, <1>4

\* A stretch of a queue holds nothing the queue did not, and repeats nothing.
LEMMA StretchKeeps ==
    ASSUME NEW s \in Seq(Frame), NEW t \in Seq(Frame), Stretch(t, s)
    PROVE  /\ \A i \in 1 .. Len(t) : \E j \in 1 .. Len(s) : t[i] = s[j]
           /\ \A id : HasRequest(t, id) => HasRequest(s, id)
           /\ \A id : HasAnswer(t, id) => HasAnswer(s, id)
           /\ OneRequest(s) => OneRequest(t)
           /\ OneAnswer(s) => OneAnswer(t)
  <1>1. PICK d \in Nat : Len(t) + d <= Len(s) /\ \A i \in 1 .. Len(t) : t[i] = s[i + d]
    BY DEF Stretch
  <1>2. Len(s) \in Nat /\ Len(t) \in Nat
    BY LenProperties
  <1>3. \A i \in 1 .. Len(t) : i + d \in 1 .. Len(s)
    BY <1>1, <1>2
  <1>4. OneRequest(s) => OneRequest(t)
    <2> SUFFICES ASSUME OneRequest(s), NEW i \in 1 .. Len(t), NEW j \in 1 .. Len(t),
                        t[i].type = "req", t[j].type = "req", t[i].id = t[j].id
                 PROVE  i = j
      BY DEF OneRequest
    <2>1. i + d = j + d
      BY <1>1, <1>3 DEF OneRequest
    <2> QED
      BY <2>1, <1>2
  <1>5. OneAnswer(s) => OneAnswer(t)
    <2> SUFFICES ASSUME OneAnswer(s), NEW i \in 1 .. Len(t), NEW j \in 1 .. Len(t),
                        t[i].type \in {"res", "err"}, t[j].type \in {"res", "err"}, t[i].id = t[j].id
                 PROVE  i = j
      BY DEF OneAnswer
    <2>1. i + d = j + d
      BY <1>1, <1>3 DEF OneAnswer
    <2> QED
      BY <2>1, <1>2
  <1> QED
    BY <1>1, <1>3, <1>4, <1>5 DEF HasRequest, HasAnswer

\* What a queue holds once a frame was added.
LEMMA JoinedHolds ==
    ASSUME NEW s \in Seq(Frame), NEW t \in Seq(Frame), NEW f, Joined(t, s, f)
    PROVE  /\ \A i \in 1 .. Len(t) : t[i] = f \/ \E j \in 1 .. Len(s) : t[i] = s[j]
           /\ \A id : HasRequest(t, id) <=> HasRequest(s, id) \/ (f.type = "req" /\ f.id = id)
           /\ \A id : HasAnswer(t, id) <=> HasAnswer(s, id) \/ (f.type \in {"res", "err"} /\ f.id = id)
           /\ OneRequest(s) /\ (f.type = "req" => ~HasRequest(s, f.id)) => OneRequest(t)
           /\ OneAnswer(s) /\ (f.type \in {"res", "err"} => ~HasAnswer(s, f.id)) => OneAnswer(t)
  <1>2. Len(s) \in Nat /\ Len(t) = Len(s) + 1
    BY LenProperties DEF Joined
  <1>3. \A i \in 1 .. Len(t) : (i \in 1 .. Len(s) /\ t[i] = s[i]) \/ (i = Len(s) + 1 /\ t[i] = f)
    BY <1>2 DEF Joined
  <1>4. \A i \in 1 .. Len(s) : i \in 1 .. Len(t) /\ t[i] = s[i]
    BY <1>2 DEF Joined
  <1>5. Len(s) + 1 \in 1 .. Len(t) /\ t[Len(s) + 1] = f
    BY <1>2 DEF Joined
  <1>6. \A i \in 1 .. Len(t) : t[i] = f \/ \E j \in 1 .. Len(s) : t[i] = s[j]
    BY <1>3
  <1>7. \A id : HasRequest(t, id) <=> HasRequest(s, id) \/ (f.type = "req" /\ f.id = id)
    BY <1>3, <1>4, <1>5 DEF HasRequest
  <1>8. \A id : HasAnswer(t, id) <=> HasAnswer(s, id) \/ (f.type \in {"res", "err"} /\ f.id = id)
    BY <1>3, <1>4, <1>5 DEF HasAnswer
  <1>9. OneRequest(s) /\ (f.type = "req" => ~HasRequest(s, f.id)) => OneRequest(t)
    BY <1>3 DEF OneRequest, HasRequest
  <1>10. OneAnswer(s) /\ (f.type \in {"res", "err"} => ~HasAnswer(s, f.id)) => OneAnswer(t)
    BY <1>3 DEF OneAnswer, HasAnswer
  <1> QED
    BY <1>6, <1>7, <1>8, <1>9, <1>10

\* A queue loses, with its first frame, the only request or answer with that id.
LEMMA TakenHolds ==
    ASSUME NEW s \in Seq(Frame), NEW t \in Seq(Frame), Taken(t, s)
    PROVE  /\ s[1].type = "req" /\ OneRequest(s) => ~HasRequest(t, s[1].id)
           /\ s[1].type \in {"res", "err"} /\ OneAnswer(s) => ~HasAnswer(t, s[1].id)
           /\ \A id : /\ HasRequest(s, id) => HasRequest(t, id) \/ (s[1].type = "req" /\ s[1].id = id)
                      /\ HasAnswer(s, id) => \/ HasAnswer(t, id)
                                             \/ s[1].type \in {"res", "err"} /\ s[1].id = id
  <1>1. Len(s) \in Nat /\ Len(t) \in Nat /\ 1 \in 1 .. Len(s)
    BY LenProperties DEF Taken
  <1>2. \A i \in 1 .. Len(t) : i + 1 \in 1 .. Len(s) /\ i + 1 # 1 /\ t[i] = s[i + 1]
    BY <1>1 DEF Taken
  <1>3. \A j \in 1 .. Len(s) : j = 1 \/ \E i \in 1 .. Len(t) : t[i] = s[j]
    <2> SUFFICES ASSUME NEW j \in 1 .. Len(s), j # 1 PROVE \E i \in 1 .. Len(t) : t[i] = s[j]
      OBVIOUS
    <2>1. j - 1 \in 1 .. Len(t) /\ j = (j - 1) + 1
      BY <1>1 DEF Taken
    <2> QED
      BY <2>1 DEF Taken
  <1>4. s[1].type = "req" /\ OneRequest(s) => ~HasRequest(t, s[1].id)
    BY <1>1, <1>2 DEF OneRequest, HasRequest
  <1>5. s[1].type \in {"res", "err"} /\ OneAnswer(s) => ~HasAnswer(t, s[1].id)
    BY <1>1, <1>2 DEF OneAnswer, HasAnswer
  <1> QED
    BY <1>3, <1>4, <1>5 DEF HasRequest, HasAnswer

-----------------------------------------------------------------------------
(* The twelve shapes of a step.  None of them says what becomes of the     *)
(* callers: that is CallersTurn.                                           *)

\* A frame of p, which said hello, joined the queue of the other end.
Speaks(p, f) ==
    /\ state[p] # "new" /\ port[p] = "open" /\ Reaches(p)
    /\ Joined(wire'[Other(p)], wire[Other(p)], f)
\* A frame of p joined that queue unless nobody will read it.
Says(p, f) ==
    IF Reaches(p) THEN Joined(wire'[Other(p)], wire[Other(p)], f)
                  ELSE wire'[Other(p)] = wire[Other(p)]
Silent(p) == wire'[Other(p)] = wire[Other(p)]
Reads(p) == Live(p) /\ port[p] = "open" /\ Taken(wire'[p], wire[p])

Ended(p) ==
    /\ state[p] # "closed" /\ state' = [state EXCEPT ![p] = "closed"]
    /\ state[p] # "new" \/ port[p] # "open"
    /\ pending' = [pending EXCEPT ![p] = {}] /\ active' = [active EXCEPT ![p] = {}]
    /\ \A q \in Peer : q # p => signalled'[q] = signalled[q] /\ streams'[q] = streams[q]
    /\ UNCHANGED <<remote, requestSequence, running, started, heard, link>>
    /\ port' = port \/ port' = [port EXCEPT ![p] = "closed"]
    /\ wire'[p] = <<>>
    /\ Silent(p) \/ \E f \in Frame : f.type = "close" /\ Speaks(p, f)

Opened(p) ==
    /\ state[p] = "new" /\ state' = [state EXCEPT ![p] = "handshaking"]
    /\ UNCHANGED <<remote, requestSequence, pending, active, signalled, running, started,
                   streams, heard, port, link>>
    /\ wire'[p] = wire[p]
    /\ \E f \in Frame : f.type = "hello" /\ Says(p, f)

Greeted(p) ==
    /\ state[p] = "handshaking" /\ state' = [state EXCEPT ![p] = "ready"]
    /\ \E r \in Remote : remote' = [remote EXCEPT ![p] = r]
    /\ UNCHANGED <<requestSequence, pending, active, signalled, running, started,
                   streams, heard, port, link>>
    /\ Reads(p) /\ wire[p][1].type = "hello" /\ Silent(p)

\* Pings, pongs and cancels, sent and received.
Noticed(p) ==
    /\ UNCHANGED <<state, remote, requestSequence, active, running, started,
                   streams, heard, port, link>>
    /\ \A q \in Peer : pending'[q] \subseteq pending[q]
    /\ \/ wire'[p] = wire[p] /\ signalled' = signalled
       \/ Reads(p) /\ wire[p][1].type \in {"ping", "pong"} /\ signalled' = signalled
       \/ /\ Reads(p) /\ wire[p][1].type = "cancel"
          /\ signalled' = [signalled EXCEPT ![p] = @ \cup ({wire[p][1].id} \cap active[p])]
    /\ \/ Silent(p)
       \/ \E f \in Frame :
            /\ f.type \in {"ping", "pong", "cancel"} /\ Speaks(p, f)
            /\ f.type = "cancel" => f.id # 0 /\ \E c \in Call :
                 /\ call'[p][c].id = f.id
                 /\ call'[p][c].aborted \/ call'[p][c].outcome = "TIMEOUT"

Emitted(p) ==
    /\ state[p] = "ready" /\ port[p] = "open"
    /\ \E k \in StreamKey, f \in Frame :
        /\ f.type = "evt" /\ f.key = k /\ f.seq = streams[p][k]
        /\ streams' = [streams EXCEPT ![p][k] = SequenceAfter(f.seq, f.end)]
        /\ Says(p, f)
    /\ wire'[p] = wire[p]
    /\ UNCHANGED <<state, remote, requestSequence, pending, active, signalled, running, started,
                   heard, port, link>>

Listened(p) ==
    /\ Reads(p) /\ wire[p][1].type = "evt" /\ wire[p][1].key \in StreamKey /\ Silent(p)
    /\ state[p] = "ready" =>
         heard' = [heard EXCEPT ![p][wire[p][1].key] =
                                   SequenceAfter(wire[p][1].seq, wire[p][1].end)]
    /\ UNCHANGED <<state, remote, requestSequence, pending, active, signalled, running, started,
                   streams, port, link>>

Answered(p) ==
    /\ Reads(p) /\ wire[p][1].type \in {"res", "err"} /\ Silent(p)
    /\ pending' = [pending EXCEPT ![p] = @ \ {wire[p][1].id}]
    /\ UNCHANGED <<state, remote, requestSequence, active, signalled, running, started,
                   streams, heard, port, link>>

Refused(p) ==
    /\ Reads(p) /\ wire[p][1].type = "req"
    /\ \E f \in Frame :
        /\ f.type = "err" /\ f.id = wire[p][1].id /\ f.code \in Refusal /\ Says(p, f)
        /\ f.code = "HANDSHAKE" => state[p] # "ready"
        /\ f.code = "DUPLICATE" => f.id \in active[p]
        /\ f.code = "RESERVED" => /\ state[p] = "ready" /\ wire[p][1].method = "rpc"
                                  /\ remote[p].minor < RpcDiscoverMinor
    /\ UNCHANGED <<state, remote, requestSequence, pending, active, signalled, running, started,
                   streams, heard, port, link>>

Accepted(p) ==
    /\ Reads(p) /\ wire[p][1].type = "req" /\ Silent(p)
    /\ state[p] = "ready" /\ ~(Cardinality(active[p]) >= conf[p].maxInFlight)
    /\ active' = [active EXCEPT ![p] = @ \cup {wire[p][1].id}]
    /\ running' = [running EXCEPT ![p] = @ \cup {wire[p][1].id}]
    /\ started' = [started EXCEPT ![p] = @ \cup {wire[p][1].id}]
    /\ UNCHANGED <<state, remote, requestSequence, pending, signalled,
                   streams, heard, port, link>>

Asked(p) ==
    /\ state[p] = "ready"
    /\ requestSequence' = [requestSequence EXCEPT ![p] = @ + 1]
    /\ wire'[p] = wire[p]
    /\ \/ pending' = pending /\ Silent(p)
       \/ /\ pending' = [pending EXCEPT ![p] = @ \cup {requestSequence[p] + 1}]
          /\ port[p] = "open"
          /\ \E f \in Frame :
              /\ f.type = "req" /\ f.id = requestSequence[p] + 1
              /\ f.method = "rpc" /\ remote[p].known => remote[p].minor >= RpcDiscoverMinor
              /\ \/ Says(p, f)
                 \/ /\ Reaches(p)
                    /\ \E c \in Call : call'[p][c].id = f.id /\ call'[p][c].aborted
                    /\ \E t \in Seq(Frame), g \in Frame :
                         /\ Joined(t, wire[Other(p)], f)
                         /\ g.type = "cancel" /\ g.id = f.id
                         /\ Joined(wire'[Other(p)], t, g)
    /\ UNCHANGED <<state, remote, active, signalled, running, started, streams, heard, port, link>>

Settles(p) ==
    /\ \E id \in running[p] :
        /\ active' = [active EXCEPT ![p] = @ \ {id}]
        /\ running' = [running EXCEPT ![p] = @ \ {id}]
        /\ signalled' = [signalled EXCEPT ![p] = @ \ {id}]
        /\ \E f \in Frame :
            /\ f.type \in {"res", "err"} /\ f.id = id
            /\ f.type = "err" => f.code \in Failure
            /\ f.size <= conf[p].maxFrame \/ f.size \in ErrorSizes
            /\ IF state[p] # "closed" /\ Sendable(p, f) THEN Says(p, f) ELSE Silent(p)
    /\ wire'[p] = wire[p]
    /\ UNCHANGED <<state, remote, requestSequence, pending, started, streams, heard, port, link>>

Broke(p) ==
    /\ port' = [port EXCEPT ![p] = "lost"] /\ port[p] = "open" /\ state[p] # "closed"
    /\ wire'[p] = <<>>
    /\ Len(wire'[Other(p)]) <= Len(wire[Other(p)])
    /\ \A i \in 1 .. Len(wire'[Other(p)]) : wire'[Other(p)][i] = wire[Other(p)][i]
    /\ UNCHANGED <<state, remote, requestSequence, pending, active, signalled, running, started,
                   streams, heard, link>>

Died ==
    /\ link' = "dead" /\ wire' = [p \in Peer |-> <<>>]
    /\ UNCHANGED <<state, remote, requestSequence, pending, active, signalled, running, started,
                   streams, heard, port>>

Idle == UNCHANGED <<state, remote, requestSequence, pending, active, signalled, running, started,
                    streams, heard, port, wire, link>>

Shape(p) ==
    \/ Ended(p) \/ Opened(p) \/ Greeted(p) \/ Noticed(p) \/ Emitted(p) \/ Listened(p)
    \/ Answered(p) \/ Refused(p) \/ Accepted(p) \/ Asked(p) \/ Settles(p) \/ Broke(p)

Unready(p) == state[p] \in {"new", "handshaking"} => requestSequence[p] = 0 /\ started[p] = {}

\* A frame given to the port joins the other end's queue, where anyone reads it.
LEMMA QueuedSays ==
    ASSUME TypeOK, NEW p \in Peer, NEW f \in Frame, wire' = Queued(wire, p, <<f>>)
    PROVE  Says(p, f) /\ wire'[p] = wire[p]
  <1>1. wire \in [Peer -> Seq(Frame)]
    BY DEF TypeOK
  <1>2. Other(p) \in Peer /\ Other(p) # p
    BY OtherType
  <1>3. Reaches(p) => wire'[Other(p)] = wire[Other(p)] \o <<f>> /\ wire'[p] = wire[p]
    BY <1>1, <1>2 DEF Queued
  <1>4. Joined(wire[Other(p)] \o <<f>>, wire[Other(p)], f)
    BY <1>1, <1>2, ConcatJoined
  <1> QED
    BY <1>3, <1>4 DEF Queued, Says

\* A frame taken off a queue.
LEMMA PoppedReads ==
    ASSUME TypeOK, NEW p \in Peer, wire[p] # <<>>, wire' = Popped(p)
    PROVE  Taken(wire'[p], wire[p]) /\ Head(wire[p]) = wire[p][1] /\ Silent(p)
  <1>1. wire \in [Peer -> Seq(Frame)]
    BY DEF TypeOK
  <1>2. Other(p) \in Peer /\ Other(p) # p
    BY OtherType
  <1>3. Taken(Tail(wire[p]), wire[p]) /\ Head(wire[p]) = wire[p][1]
    BY <1>1, TailTaken
  <1>4. wire'[p] = Tail(wire[p]) /\ wire'[Other(p)] = wire[Other(p)]
    BY <1>1, <1>2 DEF Popped
  <1> QED
    BY <1>3, <1>4 DEF Silent

\* A frame is read and its answer is given to the port.
LEMMA PoppedSays ==
    ASSUME TypeOK, NEW p \in Peer, NEW f \in Frame, wire[p] # <<>>,
           wire' = Queued(Popped(p), p, <<f>>)
    PROVE  Says(p, f) /\ Taken(wire'[p], wire[p]) /\ Head(wire[p]) = wire[p][1]
  <1>1. wire \in [Peer -> Seq(Frame)]
    BY DEF TypeOK
  <1>2. Other(p) \in Peer /\ Other(p) # p
    BY OtherType
  <1>3. Taken(Tail(wire[p]), wire[p]) /\ Head(wire[p]) = wire[p][1]
    BY <1>1, TailTaken
  <1>4. wire'[p] = Tail(wire[p])
    BY <1>1, <1>2 DEF Popped, Queued
  <1>5. Reaches(p) => wire'[Other(p)] = wire[Other(p)] \o <<f>>
    BY <1>1, <1>2 DEF Popped, Queued
  <1>6. ~Reaches(p) => wire'[Other(p)] = wire[Other(p)]
    BY <1>1, <1>2 DEF Popped, Queued
  <1>7. Joined(wire[Other(p)] \o <<f>>, wire[Other(p)], f)
    BY <1>1, <1>2, ConcatJoined
  <1> QED
    BY <1>3, <1>4, <1>5, <1>6, <1>7 DEF Says

\* #trySend drops the frame or speaks.
LEMMA TrySent ==
    ASSUME TypeOK, NEW p \in Peer, NEW f \in Frame, state[p] # "new",
           wire' = TrySend(wire, p, f)
    PROVE  wire'[p] = wire[p] /\ (Silent(p) \/ Speaks(p, f))
  <1>1. CASE state[p] # "closed" /\ Sendable(p, f)
    <2>1. Says(p, f) /\ wire'[p] = wire[p]
      BY <1>1, QueuedSays DEF TrySend
    <2> QED
      BY <1>1, <2>1 DEF Says, Speaks, Silent, Sendable
  <1>2. CASE ~(state[p] # "closed" /\ Sendable(p, f))
    BY <1>2 DEF TrySend, Silent
  <1> QED
    BY <1>1, <1>2

\* A session that is torn down has ended.
LEMMA TeardownShape ==
    ASSUME TypeOK, NEW p \in Peer, NEW code, state[p] # "closed",
           state[p] # "new" \/ port[p] # "open", Teardown(p, code), link' = link,
           port' = port \/ port' = [port EXCEPT ![p] = "closed"],
           wire'[p] = <<>>,
           Silent(p) \/ \E f \in Frame : f.type = "close" /\ Speaks(p, f)
    PROVE  Ended(p)
  <1>1. /\ state' = [state EXCEPT ![p] = "closed"]
        /\ pending' = [pending EXCEPT ![p] = {}] /\ active' = [active EXCEPT ![p] = {}]
        /\ remote' = remote /\ requestSequence' = requestSequence /\ running' = running
        /\ started' = started /\ heard' = heard
    BY DEF Teardown
  <1>2. \A q \in Peer : q # p => signalled'[q] = signalled[q] /\ streams'[q] = streams[q]
    BY DEF Teardown, TypeOK
  <1> QED
    BY <1>1, <1>2 DEF Ended

\* closeNow ends a session that said hello, or one whose port is gone.
LEMMA CloseNowShape ==
    ASSUME TypeOK, NEW p \in Peer, NEW code \in CloseCode, state[p] # "closed",
           state[p] # "new" \/ port[p] # "open", CloseNow(p, code)
    PROVE  Ended(p)
  <1>1. wire \in [Peer -> Seq(Frame)]
    BY DEF TypeOK
  <1>2. Other(p) \in Peer /\ Other(p) # p
    BY OtherType
  <1>3. CloseOf(code) \in Frame /\ CloseOf(code).type = "close"
    BY FrameTypes DEF CloseOf
  <1>4. wire'[p] = <<>>
    BY <1>1, <1>2 DEF CloseNow, Queued
  <1>5. CASE port[p] = "open" /\ Reaches(p)
    <2>1. wire'[Other(p)] = wire[Other(p)] \o <<CloseOf(code)>>
      BY <1>1, <1>2, <1>5 DEF CloseNow, Queued
    <2>2. Joined(wire[Other(p)] \o <<CloseOf(code)>>, wire[Other(p)], CloseOf(code))
      BY <1>1, <1>2, <1>3, ConcatJoined
    <2>3. Speaks(p, CloseOf(code))
      BY <1>5, <2>1, <2>2 DEF Speaks
    <2> QED
      BY <1>3, <1>4, <2>3, TeardownShape DEF CloseNow
  <1>6. CASE ~(port[p] = "open" /\ Reaches(p))
    <2>1. Silent(p)
      BY <1>1, <1>2, <1>6 DEF CloseNow, Queued, Silent
    <2> QED
      BY <1>4, <2>1, TeardownShape DEF CloseNow
  <1> QED
    BY <1>5, <1>6

\* A session whose transport ended has ended.
LEMMA PortClosedShape ==
    ASSUME TypeOK, NEW p \in Peer, NEW code, state[p] # "closed", state[p] # "new",
           PortClosed(p, code)
    PROVE  Ended(p)
  <1>1. wire'[p] = <<>> /\ Silent(p)
    BY OtherType DEF PortClosed, TypeOK, Silent
  <1> QED
    BY <1>1, TeardownShape DEF PortClosed

\* Reading a frame has one of the shapes.
LEMMA ReceiveShape ==
    ASSUME TypeOK, NEW p \in Peer, Receive(p)
    PROVE  Shape(p)
  <1>a. /\ Released \in CloseCode /\ ProtocolError \in CloseCode /\ ProtocolMismatch \in CloseCode
    BY DEF CloseCode
  <1>b. /\ Live(p) /\ port[p] = "open" /\ wire[p] # <<>>
        /\ state[p] # "closed" /\ state[p] # "new"
    BY DEF Receive, ReceiveHello, ReceiveRequest, ReceiveAnswer, ReceiveEvent,
           ReceiveCancel, ReceivePing, ReceivePong, ReceiveClose, ReceiveOversized, Arrives, Live
  <1>c. wire[p] \in Seq(Frame) /\ Head(wire[p]) \in Frame
    BY <1>b, HeadTailProperties DEF TypeOK
  <1>d. Head(wire[p]) = wire[p][1]
    BY <1>b, <1>c, TailTaken
  <1>1. CASE ReceiveHello(p)
    <2>1. CASE state[p] # "handshaking" \/ ~Agrees(conf[p], Head(wire[p]))
      BY <1>a, <1>b, <1>1, <2>1, CloseNowShape DEF ReceiveHello, Shape
    <2>2. CASE state[p] = "handshaking" /\ Agrees(conf[p], Head(wire[p]))
      <3>1. Head(wire[p]) \in HelloFrame
        BY <1>1, <1>c, FrameFields DEF ReceiveHello, Arrives
      <3>2. RemotePeer(conf[p], Head(wire[p])) \in Remote
        BY <3>1 DEF RemotePeer, EffectiveMinor, HelloFrame, Remote, TypeOK, Config
      <3>3. /\ state' = [state EXCEPT ![p] = "ready"]
            /\ remote' = [remote EXCEPT ![p] = RemotePeer(conf[p], Head(wire[p]))]
            /\ wire' = Popped(p) /\ wire[p][1].type = "hello"
            /\ UNCHANGED <<requestSequence, pending, active, signalled, running, started,
                           streams, heard, port, link>>
        BY <1>1, <1>d, <2>2 DEF ReceiveHello, Arrives, requestVars, answerVars, eventVars
      <3>4. Reads(p) /\ Silent(p)
        BY <1>b, <3>3, PoppedReads DEF Reads
      <3>5. Greeted(p)
        BY <2>2, <3>2, <3>3, <3>4 DEF Greeted
      <3> QED
        BY <3>5 DEF Shape
    <2> QED
      BY <2>1, <2>2
  <1>2. CASE ReceiveRequest(p)
    <2> DEFINE f == Head(wire[p])
    <2>1. f \in RequestFrame /\ f.type = "req"
      BY <1>2, <1>c, FrameFields DEF ReceiveRequest, Arrives
    <2>2. UNCHANGED <<state, remote, requestSequence, pending, streams, heard, port, link>>
      BY <1>2 DEF ReceiveRequest, handshakeVars, requestVars, eventVars
    <2>3. PICK routed \in BOOLEAN :
            \/ \E i \in 1 .. Len(RefusalOrder) :
                  /\ FirstRefusal(Refusals(p, f, routed), i)
                  /\ wire' = Respond(Popped(p), p, Err(f.id, RefusalOrder[i], 0))
                  /\ UNCHANGED answerVars
            \/ /\ \A i \in 1 .. Len(RefusalOrder) : ~Refusals(p, f, routed)[RefusalOrder[i]]
               /\ active' = [active EXCEPT ![p] = @ \cup {f.id}]
               /\ running' = [running EXCEPT ![p] = @ \cup {f.id}]
               /\ started' = [started EXCEPT ![p] = @ \cup {f.id}]
               /\ wire' = Popped(p)
               /\ UNCHANGED signalled
      BY <1>2 DEF ReceiveRequest
    <2>r. /\ Refusals(p, f, routed)["HANDSHAKE"] = (state[p] # "ready")
          /\ Refusals(p, f, routed)["IN_FLIGHT"] = (Cardinality(active[p]) >= conf[p].maxInFlight)
          /\ Refusals(p, f, routed)["DUPLICATE"] = (f.id \in active[p])
          /\ Refusals(p, f, routed)["RESERVED"] = (f.method = "rpc" /\ remote[p].minor < RpcDiscoverMinor)
      BY DEF Refusals
    <2>o. /\ Len(RefusalOrder) = 5 /\ RefusalOrder[1] = "HANDSHAKE" /\ RefusalOrder[2] = "IN_FLIGHT"
          /\ RefusalOrder[3] = "DUPLICATE" /\ RefusalOrder[4] = "RESERVED"
          /\ RefusalOrder[5] = "UNSUPPORTED"
      BY DEF RefusalOrder
    <2>4. ASSUME NEW i \in 1 .. Len(RefusalOrder),
                 FirstRefusal(Refusals(p, f, routed), i),
                 wire' = Respond(Popped(p), p, Err(f.id, RefusalOrder[i], 0)),
                 UNCHANGED answerVars
          PROVE  Refused(p)
      <3> DEFINE g == Err(f.id, RefusalOrder[i], 0)
      <3>0. i \in {1, 2, 3, 4, 5}
        BY <2>o, <2>4
      <3>1. RefusalOrder[i] \in Refusal
        BY <3>0, <2>o DEF Refusal
      <3>2. /\ g \in Frame /\ g.type = "err" /\ g.id = f.id /\ g.code = RefusalOrder[i]
            /\ g.size = 0
        BY <2>1, <3>1, FrameTypes DEF Err, RequestFrame
      <3>3. /\ RefusalOrder[i] = "HANDSHAKE" => state[p] # "ready"
            /\ RefusalOrder[i] = "DUPLICATE" => f.id \in active[p]
            /\ RefusalOrder[i] = "RESERVED" => f.method = "rpc" /\ remote[p].minor < RpcDiscoverMinor
        BY <2>4, <2>r DEF FirstRefusal
      <3>4. RefusalOrder[i] = "RESERVED" => state[p] = "ready"
        <4>1. RefusalOrder[i] = "RESERVED" => 1 \in 1 .. i - 1
          BY <2>o, <3>0
        <4> QED
          BY <4>1, <2>4, <2>r, <2>o DEF FirstRefusal
      <3>5. conf[p].maxFrame \in Nat
        BY DEF TypeOK, Config
      <3> HIDE DEF g
      <3>6. wire' = Queued(Popped(p), p, <<g>>)
        BY <1>b, <2>4, <3>2, <3>5 DEF Respond, TrySend, Sendable, g
      <3>7. Says(p, g) /\ Reads(p)
        BY <1>b, <3>2, <3>6, PoppedSays DEF Reads
      <3> QED
        BY <1>d, <2>1, <2>2, <2>4, <3>1, <3>2, <3>3, <3>4, <3>7 DEF Refused, answerVars
    <2>5. ASSUME \A i \in 1 .. Len(RefusalOrder) : ~Refusals(p, f, routed)[RefusalOrder[i]],
                 active' = [active EXCEPT ![p] = @ \cup {f.id}],
                 running' = [running EXCEPT ![p] = @ \cup {f.id}],
                 started' = [started EXCEPT ![p] = @ \cup {f.id}],
                 wire' = Popped(p),
                 UNCHANGED signalled
          PROVE  Accepted(p)
      <3>1. 1 \in 1 .. Len(RefusalOrder) /\ 2 \in 1 .. Len(RefusalOrder)
        BY <2>o
      <3>2. state[p] = "ready" /\ ~(Cardinality(active[p]) >= conf[p].maxInFlight)
        BY <2>5, <2>r, <2>o, <3>1
      <3>3. Reads(p) /\ Silent(p)
        BY <1>b, <2>5, PoppedReads DEF Reads
      <3> QED
        BY <1>d, <2>1, <2>2, <2>5, <3>2, <3>3 DEF Accepted
    <2> QED
      BY <2>3, <2>4, <2>5 DEF Shape
  <1>3. CASE ReceiveAnswer(p)
    <2>1. Reads(p) /\ Silent(p) /\ wire[p][1].type \in {"res", "err"}
      BY <1>b, <1>d, <1>3, PoppedReads DEF ReceiveAnswer, Reads, Arrives
    <2>2. pending' = [pending EXCEPT ![p] = @ \ {wire[p][1].id}]
      <3>1. CASE Head(wire[p]).id \in pending[p]
        BY <1>3, <1>d, <3>1 DEF ReceiveAnswer
      <3>2. CASE Head(wire[p]).id \notin pending[p]
        BY <1>3, <1>d, <3>2 DEF ReceiveAnswer, TypeOK
      <3> QED
        BY <3>1, <3>2
    <2>3. UNCHANGED <<state, remote, requestSequence, active, signalled, running, started,
                      streams, heard, port, link>>
      BY <1>3 DEF ReceiveAnswer, handshakeVars, answerVars, eventVars
    <2> QED
      BY <2>1, <2>2, <2>3 DEF Answered, Shape
  <1>4. CASE ReceiveEvent(p)
    <2>1. Reads(p) /\ Silent(p) /\ wire[p][1].type = "evt"
      BY <1>b, <1>d, <1>4, PoppedReads DEF ReceiveEvent, Reads, Arrives
    <2>2. wire[p][1].key \in StreamKey
      BY <1>c, <1>d, <2>1, FrameFields DEF EventFrame
    <2>3. /\ UNCHANGED <<state, remote, requestSequence, pending, active, signalled, running,
                         started, streams, port, link>>
          /\ state[p] = "ready" => heard' = [heard EXCEPT ![p][wire[p][1].key] =
                                                SequenceAfter(wire[p][1].seq, wire[p][1].end)]
      BY <1>4, <1>d DEF ReceiveEvent, handshakeVars, requestVars, answerVars
    <2> QED
      BY <2>1, <2>2, <2>3 DEF Listened, Shape
  <1>5. CASE ReceiveCancel(p)
    <2>1. Reads(p) /\ Silent(p) /\ wire[p][1].type = "cancel"
      BY <1>b, <1>d, <1>5, PoppedReads DEF ReceiveCancel, Reads, Arrives
    <2>2. /\ UNCHANGED <<state, remote, requestSequence, pending, active, running,
                         started, streams, heard, port, link>>
          /\ signalled' = [signalled EXCEPT ![p] = @ \cup ({wire[p][1].id} \cap active[p])]
      BY <1>5, <1>d DEF ReceiveCancel, Cancelled, handshakeVars, requestVars, eventVars
    <2> QED
      BY <2>1, <2>2 DEF Noticed, Shape
  <1>6. CASE ReceivePing(p)
    <2>1. UNCHANGED <<state, remote, requestSequence, pending, active, signalled, running,
                      started, streams, heard, port, link>>
      BY <1>6 DEF ReceivePing, handshakeVars, requestVars, answerVars, eventVars
    <2>2. Sign("pong") \in Frame /\ Sign("pong").type = "pong"
      BY FrameTypes DEF Sign
    <2>3. wire[p][1].type = "ping"
      BY <1>6, <1>d DEF ReceivePing, Arrives
    <2>4. CASE Sendable(p, Sign("pong"))
      <3>1. wire' = Queued(Popped(p), p, <<Sign("pong")>>)
        BY <1>6, <1>b, <2>4 DEF ReceivePing, TrySend
      <3>2. Says(p, Sign("pong")) /\ Reads(p)
        BY <1>b, <2>2, <3>1, PoppedSays DEF Reads
      <3>3. Silent(p) \/ Speaks(p, Sign("pong"))
        BY <1>b, <3>2 DEF Says, Speaks, Silent
      <3> QED
        BY <2>1, <2>2, <2>3, <3>2, <3>3 DEF Noticed, Shape
    <2>5. CASE ~Sendable(p, Sign("pong"))
      <3>1. wire' = Popped(p)
        BY <1>6, <2>5 DEF ReceivePing, TrySend
      <3>2. Reads(p) /\ Silent(p)
        BY <1>b, <3>1, PoppedReads DEF Reads
      <3> QED
        BY <2>1, <2>3, <3>2 DEF Noticed, Shape
    <2> QED
      BY <2>4, <2>5
  <1>7. CASE ReceivePong(p)
    <2>1. Reads(p) /\ Silent(p) /\ wire[p][1].type = "pong"
      BY <1>b, <1>d, <1>7, PoppedReads DEF ReceivePong, Reads, Arrives
    <2>2. UNCHANGED <<state, remote, requestSequence, pending, active, signalled, running,
                      started, streams, heard, port, link>>
      BY <1>7 DEF ReceivePong, handshakeVars, requestVars, answerVars, eventVars
    <2> QED
      BY <2>1, <2>2 DEF Noticed, Shape
  <1>8. CASE ReceiveClose(p)
    <2>1. wire'[p] = <<>> /\ Silent(p)
      BY <1>8, OtherType DEF ReceiveClose, TypeOK, Silent
    <2>2. Ended(p)
      BY <1>8, <1>b, <2>1, TeardownShape DEF ReceiveClose
    <2> QED
      BY <2>2 DEF Shape
  <1>9. CASE ReceiveOversized(p)
    BY <1>a, <1>b, <1>9, CloseNowShape DEF ReceiveOversized, Shape
  <1> QED
    BY <1>1, <1>2, <1>3, <1>4, <1>5, <1>6, <1>7, <1>8, <1>9 DEF Receive

\* What the application asks for has one of the shapes.
LEMMA RequestingShape ==
    ASSUME TypeOK, RequestInv, NEW p \in Peer, Unready(p), Requesting(p)
    PROVE  Shape(p) \/ Idle
  <1>1. PICK c \in Call : \/ \E m \in Method : Request(p, c, m)
                          \/ RequestRefused(p, c)
                          \/ \E s \in PayloadSizes : RequestSend(p, c, s)
                          \/ Abort(p, c)
                          \/ RequestTimeout(p, c)
    BY DEF Requesting
  <1>r. call[p][c] \in CallRecord /\ call[p][c].id \in Nat
    BY DEF TypeOK, CallRecord
  <1>t. TableOK(call[p], pending[p], requestSequence[p])
    BY DEF RequestInv
  <1>n. requestSequence[p] \in Nat
    BY DEF TypeOK
  <1>2. CASE (\E m \in Method : Request(p, c, m)) \/ RequestRefused(p, c)
    BY <1>2 DEF Request, RequestRefused, handshakeVars, answerVars, eventVars, netVars, Idle
  <1>3. ASSUME NEW s \in PayloadSizes, RequestSend(p, c, s) PROVE Asked(p)
    <2> DEFINE id == requestSequence[p] + 1
               r == [call[p][c] EXCEPT !.id = id]
               f == Req(id, r.method, s)
    <2>1. /\ state[p] = "ready" /\ ~Undefined(p, call[p][c].method)
          /\ requestSequence' = [requestSequence EXCEPT ![p] = @ + 1]
          /\ UNCHANGED <<state, remote, active, signalled, running, started, streams, heard, port, link>>
      BY <1>3 DEF RequestSend, NextId, handshakeVars, answerVars, eventVars
    <2>2. CASE s > SendLimit(p) \/ port[p] # "open"
      <3>1. pending' = pending /\ wire' = wire
        BY <1>3, <2>2, LimitType, SizesTyped DEF RequestSend
      <3> QED
        BY <2>1, <3>1 DEF Asked, Silent
    <2>3. CASE s <= SendLimit(p) /\ port[p] = "open"
      <3>0. s \in Nat /\ SendLimit(p) \in Nat /\ ~(s > SendLimit(p))
        BY <2>3, SizesTyped, LimitType
      <3>1. /\ pending' = [pending EXCEPT ![p] = @ \cup {id}]
            /\ call' = [call EXCEPT ![p][c] = [r EXCEPT !.state = "pending"]]
            /\ wire' = Queued(wire, p, RequestFrames(r, id, s))
        BY <1>3, <2>3, <3>0 DEF RequestSend, NextId
      <3>2. r.method = call[p][c].method /\ r.aborted = call[p][c].aborted /\ r.method \in Method
        BY <1>r DEF CallRecord
      <3>3. f \in Frame /\ f.type = "req" /\ f.id = id /\ f.method = r.method
        BY <1>n, <3>0, <3>2, FrameTypes DEF Req
      <3>4. f.method = "rpc" /\ remote[p].known => remote[p].minor >= RpcDiscoverMinor
        BY <2>1, <3>2, <3>3 DEF Undefined, TypeOK, Remote, RpcDiscoverMinor
      <3>5. /\ wire \in [Peer -> Seq(Frame)] /\ wire[Other(p)] \in Seq(Frame)
            /\ Other(p) \in Peer /\ Other(p) # p
        BY OtherType DEF TypeOK
      <3>6. wire'[p] = wire[p]
        BY <3>1, <3>5 DEF Queued
      <3>7. CASE ~r.aborted
        <4>1. RequestFrames(r, id, s) = <<f>>
          BY <3>7 DEF RequestFrames
        <4>2. Says(p, f)
          BY <3>1, <3>3, <4>1, QueuedSays
        <4> HIDE DEF f, r
        <4> QED
          BY <2>1, <2>3, <3>1, <3>3, <3>4, <3>6, <4>2 DEF Asked
      <3>8. CASE r.aborted
        <4> DEFINE g == Cancel(id)
                   t == wire[Other(p)] \o <<f>>
        <4>1. RequestFrames(r, id, s) = <<f, g>>
          BY <3>8 DEF RequestFrames
        <4>2. g \in Frame /\ g.type = "cancel" /\ g.id = id
          BY <1>n, FrameTypes DEF Cancel
        <4>3. call'[p][c].id = id /\ call'[p][c].aborted
          <5>1. call'[p][c] = [r EXCEPT !.state = "pending"]
            BY <3>1 DEF TypeOK
          <5>2. [r EXCEPT !.state = "pending"].id = id /\ [r EXCEPT !.state = "pending"].aborted = r.aborted
            BY <1>r DEF CallRecord
          <5> QED
            BY <3>8, <5>1, <5>2
        <4>4. CASE Reaches(p)
          <5>1. wire'[Other(p)] = wire[Other(p)] \o <<f, g>>
            BY <3>1, <3>5, <4>1, <4>4 DEF Queued
          <5> HIDE DEF f, g, r
          <5>2. t \in Seq(Frame) /\ Joined(t, wire[Other(p)], f)
            BY <3>3, <3>5, ConcatJoined
          <5>3. Joined(wire[Other(p)] \o <<f, g>>, t, g)
            BY <3>3, <3>5, <4>2, ConcatJoinedTwice
          <5> HIDE DEF t
          <5>4. Joined(wire'[Other(p)], t, g)
            BY <5>1, <5>3
          <5> QED
            BY <2>1, <2>3, <3>1, <3>3, <3>4, <3>6, <4>2, <4>3, <4>4, <5>2, <5>4 DEF Asked
        <4>5. CASE ~Reaches(p)
          <5>1. Says(p, f)
            BY <3>1, <4>5 DEF Queued, Says
          <5> HIDE DEF f, r
          <5> QED
            BY <2>1, <2>3, <3>1, <3>3, <3>4, <3>6, <5>1 DEF Asked
        <4> QED
          BY <4>4, <4>5
      <3> QED
        BY <3>7, <3>8
    <2> QED
      BY <2>2, <2>3, LimitType, SizesTyped
  <1>4. ASSUME call[p][c].state = "pending"
        PROVE  call[p][c].id # 0 /\ state[p] # "new" /\ Cancel(call[p][c].id) \in Frame
    <2>1. call[p][c].id # 0 /\ call[p][c].id <= requestSequence[p]
      BY <1>4, <1>t DEF TableOK
    <2> QED
      BY <1>r, <1>n, <2>1, FrameTypes DEF Unready
  <1>5. CASE Abort(p, c)
    <2>1. UNCHANGED <<state, remote, requestSequence, pending, active, signalled, running, started,
                      streams, heard, port, link>>
      BY <1>5 DEF Abort, handshakeVars, answerVars, eventVars
    <2>2. CASE call[p][c].state = "pending"
      <3> DEFINE f == Cancel(call[p][c].id)
      <3>1. f \in Frame /\ f.type = "cancel" /\ f.id = call[p][c].id /\ f.id # 0 /\ state[p] # "new"
        BY <1>4, <2>2 DEF Cancel
      <3>2. wire' = TrySend(wire, p, f)
        BY <1>5, <2>2 DEF Abort
      <3>3. wire'[p] = wire[p] /\ (Silent(p) \/ Speaks(p, f))
        BY <3>1, <3>2, TrySent
      <3>4. call'[p][c].id = f.id /\ call'[p][c].aborted
        <4>1. call'[p][c] = Aborted(call[p][c])
          BY <1>5 DEF Abort, TypeOK
        <4> QED
          BY <1>r, <3>1, <4>1 DEF Aborted, CallRecord
      <3> HIDE DEF f
      <3> QED
        BY <2>1, <3>1, <3>3, <3>4 DEF Noticed, Shape
    <2>3. CASE call[p][c].state # "pending"
      BY <1>5, <2>1, <2>3 DEF Abort, Idle
    <2> QED
      BY <2>2, <2>3
  <1>6. CASE RequestTimeout(p, c)
    <2> DEFINE f == Cancel(call[p][c].id)
    <2>1. /\ UNCHANGED <<state, remote, requestSequence, active, signalled, running, started,
                         streams, heard, port, link>>
          /\ call[p][c].state = "pending" /\ wire' = TrySend(wire, p, f)
      BY <1>6 DEF RequestTimeout, handshakeVars, answerVars, eventVars
    <2>2. \A q \in Peer : pending'[q] \subseteq pending[q]
      BY <1>6 DEF RequestTimeout, TypeOK
    <2>3. f \in Frame /\ f.type = "cancel" /\ f.id = call[p][c].id /\ f.id # 0 /\ state[p] # "new"
      BY <1>4, <2>1 DEF Cancel
    <2>4. wire'[p] = wire[p] /\ (Silent(p) \/ Speaks(p, f))
      BY <2>1, <2>3, TrySent
    <2>5. call'[p][c].id = f.id /\ call'[p][c].outcome = "TIMEOUT"
      <3>1. call'[p][c] = Settled(call[p][c], "TIMEOUT")
        BY <1>6 DEF RequestTimeout, TypeOK
      <3> QED
        BY <1>r, <2>3, <3>1 DEF Settled, CallRecord
    <2> HIDE DEF f
    <2> QED
      BY <2>1, <2>2, <2>3, <2>4, <2>5 DEF Noticed, Shape
  <1> QED
    BY <1>1, <1>2, <1>3, <1>5, <1>6 DEF Shape

\* A handler that settles has the shape of one.
LEMMA HandlingShape ==
    ASSUME TypeOK, NEW p \in Peer, Handling(p)
    PROVE  Shape(p)
  <1>1. ASSUME NEW id \in running[p], NEW f \in Frame, f.type \in {"res", "err"}, f.id = id,
               f.type = "err" => f.code \in Failure,
               f.size <= conf[p].maxFrame \/ f.size \in ErrorSizes,
               HandlerSettles(p, id, f)
        PROVE  Settles(p)
    <2>1. /\ active' = [active EXCEPT ![p] = @ \ {id}]
          /\ running' = [running EXCEPT ![p] = @ \ {id}]
          /\ signalled' = [signalled EXCEPT ![p] = @ \ {id}]
          /\ UNCHANGED <<state, remote, requestSequence, pending, started, streams, heard, port, link>>
          /\ wire' = TrySend(wire, p, f)
      BY <1>1 DEF HandlerSettles, Respond, handshakeVars, requestVars, eventVars
    <2>2. CASE state[p] # "closed" /\ Sendable(p, f)
      <3>1. Says(p, f) /\ wire'[p] = wire[p]
        BY <2>1, <2>2, QueuedSays DEF TrySend
      <3> QED
        BY <1>1, <2>1, <2>2, <3>1 DEF Settles
    <2>3. CASE ~(state[p] # "closed" /\ Sendable(p, f))
      <3>1. Silent(p) /\ wire'[p] = wire[p]
        BY <2>1, <2>3 DEF TrySend, Silent
      <3> QED
        BY <1>1, <2>1, <2>3, <3>1 DEF Settles
    <2> QED
      BY <2>2, <2>3
  <1>2. running[p] \subseteq Nat /\ conf[p].maxFrame \in Nat /\ SendLimit(p) \in Nat
    BY LimitType DEF TypeOK, Config
  <1>3. ASSUME NEW id \in running[p], NEW s \in PayloadSizes, HandlerReturns(p, id, s)
        PROVE  Settles(p)
    <2> DEFINE f == ResultAnswer(p, id, s)
    <2>0. id \in Nat /\ s \in Nat
      BY <1>2, SizesTyped
    <2>1. CASE s <= SendLimit(p)
      <3>1. f = Res(id, s)
        BY <2>1 DEF ResultAnswer
      <3>2. f \in Frame /\ f.type = "res" /\ f.id = id /\ f.size = s
        BY <2>0, <3>1, FrameTypes DEF Res
      <3>3. s <= conf[p].maxFrame
        BY <1>2, <2>0, <2>1 DEF SendLimit, TypeOK, Remote
      <3> HIDE DEF f
      <3>4. HandlerSettles(p, id, f)
        BY <1>3 DEF HandlerReturns, f
      <3> QED
        BY <1>1, <3>2, <3>3, <3>4
    <2>2. CASE ~(s <= SendLimit(p))
      <3>1. f = Err(id, "FRAME_TOO_LARGE", 0)
        BY <2>2 DEF ResultAnswer
      <3>2. f \in Frame /\ f.type = "err" /\ f.id = id /\ f.size = 0 /\ f.code \in Failure
        BY <2>0, <3>1, FrameTypes DEF Err, Failure
      <3> HIDE DEF f
      <3>4. HandlerSettles(p, id, f)
        BY <1>3 DEF HandlerReturns, f
      <3>5. f.size <= conf[p].maxFrame
        BY <1>2, <3>2
      <3> QED
        BY <1>1, <3>2, <3>4, <3>5
    <2> QED
      BY <2>1, <2>2
  <1>4. ASSUME NEW id \in running[p], NEW threw \in {"RemoteError", "AbortError", "Error"},
               NEW s \in ErrorSizes, HandlerThrows(p, id, threw, s)
        PROVE  Settles(p)
    <2> DEFINE f == Err(id, ErrorCode(p, id, threw), s)
    <2>0. id \in Nat /\ s \in Nat
      BY <1>2, SizesTyped
    <2>1. ErrorCode(p, id, threw) \in Failure
      BY DEF ErrorCode, Failure
    <2>2. f \in Frame /\ f.type = "err" /\ f.id = id /\ f.size = s /\ f.code \in Failure
      BY <2>0, <2>1, FrameTypes DEF Err
    <2> HIDE DEF f
    <2>3. HandlerSettles(p, id, f)
      BY <1>4 DEF HandlerThrows, f
    <2> QED
      BY <1>1, <2>2, <2>3
  <1> QED
    BY <1>3, <1>4 DEF Handling, Shape

\* Every step has one of the shapes.
LEMMA StepShape ==
    ASSUME TypeOK, RequestInv, \A q \in Peer : Unready(q), [Next]_vars
    PROVE  (\E p \in Peer : Shape(p)) \/ Died \/ Idle
  <1>a. /\ Released \in CloseCode /\ ProtocolError \in CloseCode /\ ProtocolMismatch \in CloseCode
    BY DEF CloseCode
  <1>1. ASSUME NEW p \in Peer, Open(p) PROVE Shape(p)
    <2>1. CASE port[p] = "open"
      <3>1. /\ state[p] = "new" /\ state' = [state EXCEPT ![p] = "handshaking"]
            /\ wire' = Queued(wire, p, <<Hello(conf[p])>>)
            /\ UNCHANGED <<remote, requestSequence, pending, active, signalled, running, started,
                           streams, heard, port, link>>
        BY <1>1, <2>1 DEF Open, requestVars, answerVars, eventVars
      <3>2. Hello(conf[p]) \in Frame /\ Hello(conf[p]).type = "hello"
        BY FrameTypes DEF TypeOK, Hello
      <3>3. Says(p, Hello(conf[p])) /\ wire'[p] = wire[p]
        BY <3>1, <3>2, QueuedSays
      <3> QED
        BY <3>1, <3>2, <3>3 DEF Opened, Shape
    <2>2. CASE port[p] # "open"
      BY <1>1, <1>a, <2>2, CloseNowShape DEF Open, Shape
    <2> QED
      BY <2>1, <2>2
  <1>2. ASSUME NEW p \in Peer, HandshakeTimeout(p) PROVE Shape(p)
    BY <1>2, <1>a, CloseNowShape DEF HandshakeTimeout, Shape
  <1>3. ASSUME NEW p \in Peer, LivenessTick(p) PROVE Shape(p)
    <2>1. CASE awaitingPong[p]
      BY <1>3, <1>a, <2>1, CloseNowShape DEF LivenessTick, Shape
    <2>2. CASE ~awaitingPong[p]
      <3>1. /\ state[p] = "ready" /\ wire' = TrySend(wire, p, Sign("ping"))
            /\ UNCHANGED <<state, remote, requestSequence, pending, active, signalled, running,
                           started, streams, heard, port, link>>
        BY <1>3, <2>2 DEF LivenessTick, handshakeVars, requestVars, answerVars, eventVars
      <3>2. Sign("ping") \in Frame /\ Sign("ping").type = "ping"
        BY FrameTypes DEF Sign
      <3>3. wire'[p] = wire[p] /\ (Silent(p) \/ Speaks(p, Sign("ping")))
        BY <3>1, <3>2, TrySent
      <3> QED
        BY <3>1, <3>2, <3>3 DEF Noticed, Shape
    <2> QED
      BY <2>1, <2>2
  <1>4. ASSUME NEW p \in Peer, NEW k \in StreamKey, NEW end \in BOOLEAN, NEW s \in PayloadSizes,
               Emit(p, k, end, s)
        PROVE  Shape(p)
    <2> DEFINE f == Evt(k, streams[p][k], end, s)
    <2>1. /\ state[p] = "ready" /\ port[p] = "open" /\ wire' = Queued(wire, p, <<f>>)
          /\ streams' = [streams EXCEPT ![p][k] = CounterAfter(@, end)]
          /\ UNCHANGED <<state, remote, requestSequence, pending, active, signalled, running,
                         started, heard, port, link>>
      BY <1>4 DEF Emit, handshakeVars, requestVars, answerVars
    <2>2. streams[p][k] \in Nat /\ s \in Nat
      BY SizesTyped DEF TypeOK
    <2>3. f \in Frame /\ f.type = "evt" /\ f.key = k /\ f.seq = streams[p][k] /\ f.end = end
      BY <2>2, FrameTypes DEF Evt
    <2>4. streams' = [streams EXCEPT ![p][k] = SequenceAfter(f.seq, f.end)]
      BY <2>1, <2>3 DEF CounterAfter, SequenceAfter
    <2> HIDE DEF f
    <2>5. Says(p, f) /\ wire'[p] = wire[p]
      BY <2>1, <2>3, QueuedSays
    <2> QED
      BY <2>1, <2>3, <2>4, <2>5 DEF Emitted, Shape
  <1>5. ASSUME NEW p \in Peer, Ping(p) PROVE Shape(p)
    <2>1. /\ state[p] # "new" /\ port[p] = "open" /\ wire' = Queued(wire, p, <<Sign("ping")>>)
          /\ UNCHANGED <<state, remote, requestSequence, pending, active, signalled, running,
                         started, streams, heard, port, link>>
      BY <1>5 DEF Ping, handshakeVars, requestVars, answerVars, eventVars
    <2>2. Sign("ping") \in Frame /\ Sign("ping").type = "ping"
      BY FrameTypes DEF Sign
    <2>3. Says(p, Sign("ping")) /\ wire'[p] = wire[p]
      BY <2>1, <2>2, QueuedSays
    <2>4. Silent(p) \/ Speaks(p, Sign("ping"))
      BY <2>1, <2>3 DEF Says, Silent, Speaks
    <2> QED
      BY <2>1, <2>2, <2>3, <2>4 DEF Noticed, Shape
  <1>6. ASSUME NEW p \in Peer, Close(p) PROVE Shape(p) \/ Idle
    <2>1. CASE state[p] = "closed"
      BY <1>6, <2>1 DEF Close, Idle, handshakeVars, requestVars, answerVars, eventVars, netVars
    <2>2. CASE state[p] # "closed"
      BY <1>6, <1>a, <2>2, CloseNowShape DEF Close, Shape
    <2> QED
      BY <2>1, <2>2
  <1>7. ASSUME NEW p \in Peer, CloseResolves(p) PROVE Idle
    BY <1>7 DEF CloseResolves, Idle, handshakeVars, requestVars, answerVars, eventVars, netVars
  <1>8. ASSUME NEW p \in Peer, PortLost(p) PROVE Shape(p)
    <2>1. /\ port' = [port EXCEPT ![p] = "lost"] /\ port[p] = "open" /\ state[p] # "closed"
          /\ UNCHANGED <<state, remote, requestSequence, pending, active, signalled, running,
                         started, streams, heard, link>>
      BY <1>8 DEF PortLost, handshakeVars, requestVars, answerVars, eventVars
    <2>2. PICK n \in 0 .. Len(wire[Other(p)]) :
             wire' = [q \in Peer |-> IF q = p THEN <<>> ELSE SubSeq(wire[q], 1, n)]
      BY <1>8 DEF PortLost
    <2>3. wire'[p] = <<>> /\ wire'[Other(p)] = SubSeq(wire[Other(p)], 1, n)
      BY <2>2, OtherType
    <2>4. wire[Other(p)] \in Seq(Frame)
      BY OtherType DEF TypeOK
    <2>5. /\ Len(wire'[Other(p)]) <= Len(wire[Other(p)])
          /\ \A i \in 1 .. Len(wire'[Other(p)]) : wire'[Other(p)][i] = wire[Other(p)][i]
      BY <2>3, <2>4, LenProperties
    <2> QED
      BY <2>1, <2>3, <2>5 DEF Broke, Shape
  <1>9. ASSUME NEW p \in Peer, PortReports(p) \/ PortEnds(p) PROVE Shape(p)
    BY <1>9, PortClosedShape DEF PortReports, PortEnds, Live, Shape
  <1>10. CASE LinkDies
    BY <1>10 DEF LinkDies, Died, handshakeVars, requestVars, answerVars, eventVars
  <1>11. CASE UNCHANGED vars
    BY <1>11 DEF vars, Idle, handshakeVars, requestVars, answerVars, eventVars, netVars
  <1> QED
    BY <1>1, <1>2, <1>3, <1>4, <1>5, <1>6, <1>7, <1>8, <1>9, <1>10, <1>11,
       ReceiveShape, RequestingShape, HandlingShape DEF Next

-----------------------------------------------------------------------------
(* What a step does to the callers.                                        *)

OutcomeOK(p) == \A c \in Call : call[p][c].outcome # "none" => call[p][c].state = "settled"

Waits(r) == r.state \in {"waiting", "pending"}

\* The ways the record r of one caller becomes t: it is made, its signal fires, it
\* is sent, it ends here, or it ends with what the head of the queue says.
Turns(p, r, t) ==
    \/ r.state = "idle" /\ \E m \in Method : t = Waiting(r, m)
    \/ Waits(r) /\ t = Aborted(r)
    \/ r.state = "waiting" /\ t = [[r EXCEPT !.id = NextId(p)] EXCEPT !.state = "pending"]
    \/ Waits(r) /\ \E o \in {"TIMEOUT", "UNAVAILABLE"} : t = Settled(r, o)
    \/ r.state = "waiting" /\ \E o \in {"INVALID_REQUEST", "MISMATCH"} : t = Settled(r, o)
    \/ r.state = "waiting" /\ \E o \in {"FRAME_TOO_LARGE", "UNAVAILABLE"} :
                                 t = Settled([r EXCEPT !.id = NextId(p)], o)
    \/ /\ r.state = "pending" /\ wire[p] # <<>> /\ wire[p][1].id = r.id
       /\ \/ wire[p][1].type = "res" /\ t = Settled(r, "result")
          \/ /\ wire[p][1].type = "err" /\ wire[p][1].code \in Refusal \cup Failure
             /\ t = Settled(r, wire[p][1].code)

\* An action that replaces one caller.
LEMMA ReplacedTurns ==
    ASSUME TypeOK, NEW p \in Peer, NEW c \in Call, NEW t, Turns(p, call[p][c], t),
           call' = [call EXCEPT ![p][c] = t], NEW q \in Peer, NEW d \in Call
    PROVE  call'[q][d] = call[q][d] \/ Turns(q, call[q][d], call'[q][d])
  <1>1. CASE q = p /\ d = c
    <2>1. call'[p][c] = t
      BY DEF TypeOK
    <2> QED
      BY <1>1, <2>1
  <1>2. CASE ~(q = p /\ d = c)
    BY <1>2 DEF TypeOK
  <1> QED
    BY <1>1, <1>2

\* A step that changes a caller changes it in one of these ways, and starts no handler.
LEMMA CallersTurn ==
    ASSUME TypeOK, RequestInv, [Next]_vars, NEW q \in Peer, NEW d \in Call
    PROVE  \/ call'[q][d] = call[q][d]
           \/ started' = started /\ Turns(q, call[q][d], call'[q][d])
  <1> DEFINE Goal == started' = started /\ Turns(q, call[q][d], call'[q][d])
  <1>r. \A p \in Peer, c \in Call :
          call[p][c].state = "pending" <=> call[p][c].id \in pending[p]
    BY DEF RequestInv, TableOK
  <1> SUFFICES ASSUME call'[q][d] # call[q][d] PROVE Goal
    OBVIOUS
  <1>t. ASSUME NEW p \in Peer, NEW code, Teardown(p, code) PROVE Goal
    <2>1. started' = started /\ call'[q][d] = Rejected(call[q][d])
      BY <1>t DEF Teardown, TypeOK
    <2>2. /\ call[q][d].state = "pending"
          /\ call'[q][d] = Settled(call[q][d], "UNAVAILABLE")
      BY <2>1 DEF Rejected, Settled
    <2> QED
      BY <2>1, <2>2 DEF Turns, Waits
  <1>1. ASSUME NEW p \in Peer, \/ Open(p) \/ HandshakeTimeout(p) \/ LivenessTick(p)
                               \/ ReceiveHello(p) \/ ReceiveClose(p) \/ ReceiveOversized(p)
                               \/ Close(p) \/ PortReports(p) \/ PortEnds(p)
        PROVE  Goal
    <2>1. call' = call \/ \E code : Teardown(p, code)
      BY <1>1 DEF Open, HandshakeTimeout, LivenessTick, ReceiveHello, ReceiveClose, ReceiveOversized,
                  Close, PortReports, PortEnds, CloseNow, PortClosed, requestVars
    <2> QED
      BY <2>1, <1>t
  <1>2. ASSUME NEW p \in Peer, \/ ReceiveRequest(p) \/ ReceiveEvent(p) \/ ReceiveCancel(p)
                               \/ ReceivePing(p) \/ ReceivePong(p) \/ Handling(p)
                               \/ Ping(p) \/ CloseResolves(p) \/ PortLost(p)
                               \/ \E k \in StreamKey, end \in BOOLEAN, s \in PayloadSizes :
                                     Emit(p, k, end, s)
        PROVE  Goal
    <2>1. call' = call
      BY <1>2 DEF ReceiveRequest, ReceiveEvent, ReceiveCancel, ReceivePing, ReceivePong, Handling,
                  HandlerReturns, HandlerThrows, HandlerSettles, Ping, CloseResolves, PortLost,
                  Emit, requestVars
    <2> QED
      BY <2>1
  <1>3. ASSUME NEW p \in Peer, ReceiveAnswer(p) PROVE Goal
    <2> DEFINE f == Head(wire[p])
               o == IF f.type = "res" THEN "result" ELSE f.code
    <2>1. wire[p] # <<>> /\ f \in Frame /\ f = wire[p][1] /\ f.type \in {"res", "err"}
      BY <1>3, TailTaken, HeadTailProperties DEF ReceiveAnswer, Arrives, TypeOK
    <2>2. f.type = "err" => f.code \in Refusal \cup Failure
      BY <2>1, FrameFields DEF ErrorFrame
    <2>3. /\ q = p /\ f.id \in pending[p] /\ call[p][d].id = f.id
          /\ call'[q][d] = Settled(call[p][d], o) /\ started' = started
      BY <1>3 DEF ReceiveAnswer, TypeOK, answerVars
    <2>4. call[p][d].state = "pending"
      BY <1>r, <2>3
    <2>5. \/ f.type = "res" /\ o = "result"
          \/ f.type = "err" /\ o = f.code
      BY <2>1
    <2> HIDE DEF o, f
    <2> QED
      BY <2>1, <2>2, <2>3, <2>4, <2>5 DEF Turns
  <1>4. ASSUME NEW p \in Peer, NEW c \in Call, NEW m \in Method, Request(p, c, m)
        PROVE  Goal
    <2>1. /\ call' = [call EXCEPT ![p][c] = Waiting(call[p][c], m)] /\ call[p][c].state = "idle"
          /\ started' = started
      BY <1>4 DEF Request, answerVars
    <2>2. Turns(p, call[p][c], Waiting(call[p][c], m))
      BY <2>1 DEF Turns
    <2> QED
      BY <2>1, <2>2, ReplacedTurns
  <1>5. ASSUME NEW p \in Peer, NEW c \in Call, RequestRefused(p, c)
        PROVE  Goal
    <2>1. PICK o \in {"INVALID_REQUEST", "MISMATCH", "UNAVAILABLE"} :
            /\ call' = [call EXCEPT ![p][c] = Settled(call[p][c], o)] /\ call[p][c].state = "waiting"
            /\ started' = started
      BY <1>5 DEF RequestRefused, answerVars
    <2>2. Turns(p, call[p][c], Settled(call[p][c], o))
      BY <2>1 DEF Turns, Waits
    <2> QED
      BY <2>1, <2>2, ReplacedTurns
  <1>6. ASSUME NEW p \in Peer, NEW c \in Call, NEW s \in PayloadSizes, RequestSend(p, c, s)
        PROVE  Goal
    <2> DEFINE r == [call[p][c] EXCEPT !.id = NextId(p)]
    <2>2. /\ call[p][c].state = "waiting" /\ started' = started
          /\ \/ call' = [call EXCEPT ![p][c] = Settled(r, "FRAME_TOO_LARGE")]
             \/ call' = [call EXCEPT ![p][c] = Settled(r, "UNAVAILABLE")]
             \/ call' = [call EXCEPT ![p][c] = [r EXCEPT !.state = "pending"]]
      BY <1>6 DEF RequestSend, answerVars
    <2>5. /\ Turns(p, call[p][c], Settled(r, "FRAME_TOO_LARGE"))
          /\ Turns(p, call[p][c], Settled(r, "UNAVAILABLE"))
          /\ Turns(p, call[p][c], [r EXCEPT !.state = "pending"])
      BY <2>2 DEF Turns
    <2> HIDE DEF r
    <2> QED
      BY <2>2, <2>5, ReplacedTurns
  <1>7. ASSUME NEW p \in Peer, NEW c \in Call, Abort(p, c) PROVE Goal
    <2>1. /\ call' = [call EXCEPT ![p][c] = Aborted(call[p][c])] /\ Waits(call[p][c])
          /\ started' = started
      BY <1>7 DEF Abort, answerVars, Waits
    <2>2. Turns(p, call[p][c], Aborted(call[p][c]))
      BY <2>1 DEF Turns
    <2> QED
      BY <2>1, <2>2, ReplacedTurns
  <1>8. ASSUME NEW p \in Peer, NEW c \in Call, RequestTimeout(p, c) PROVE Goal
    <2>1. /\ call' = [call EXCEPT ![p][c] = Settled(call[p][c], "TIMEOUT")] /\ Waits(call[p][c])
          /\ started' = started
      BY <1>8 DEF RequestTimeout, answerVars, Waits
    <2>2. Turns(p, call[p][c], Settled(call[p][c], "TIMEOUT"))
      BY <2>1 DEF Turns
    <2> QED
      BY <2>1, <2>2, ReplacedTurns
  <1>9. ASSUME LinkDies \/ UNCHANGED vars PROVE Goal
    BY <1>9 DEF LinkDies, vars, requestVars
  <1> QED
    BY <1>1, <1>2, <1>3, <1>4, <1>5, <1>6, <1>7, <1>8, <1>9 DEF Next, Receive, Requesting

\* From record r to record t of one caller: an id, an abort and a timeout stay,
\* and a result is what the frame at the head of the queue says.
Follows(p, r, t) ==
    /\ r.id # 0 => t.id = r.id
    /\ r.aborted => t.aborted
    /\ r.outcome = "TIMEOUT" => t.outcome = "TIMEOUT"
    /\ t.outcome # "none" => t.state = "settled"
    /\ t.outcome = "result" => \/ t = r
                               \/ /\ wire[p] # <<>> /\ wire[p][1].type = "res"
                                  /\ wire[p][1].id = t.id

\* No step forgets an id, an abort or a timeout, and none invents a result.
LEMMA CallersKeep ==
    ASSUME TypeOK, RequestInv, \A q \in Peer : OutcomeOK(q), [Next]_vars,
           NEW q \in Peer, NEW d \in Call
    PROVE  Follows(q, call[q][d], call'[q][d])
  <1>u. CASE call'[q][d] = call[q][d]
    BY <1>u DEF Follows, OutcomeOK
  <1>1. ASSUME NEW r \in CallRecord, NEW t, Turns(q, r, t), r.outcome # "none" => r.state = "settled",
               r.state = "waiting" => r.id = 0
        PROVE  Follows(q, r, t)
    <2>1. "result" \notin Refusal \cup Failure
      BY DEF Refusal, Failure
    <2> QED
      BY <1>1, <2>1 DEF Turns, Follows, CallRecord, Waits, Aborted, Waiting, Settled
  <1>2. /\ call[q][d] \in CallRecord /\ (call[q][d].outcome # "none" => call[q][d].state = "settled")
        /\ call[q][d].state = "waiting" => call[q][d].id = 0
    BY DEF TypeOK, OutcomeOK, RequestInv, TableOK
  <1> QED
    BY <1>u, <1>1, <1>2, CallersTurn

\* A caller that gave up stays one that gave up.
LEMMA GaveUpStays ==
    ASSUME TypeOK, RequestInv, \A q \in Peer : OutcomeOK(q), [Next]_vars,
           NEW p \in Peer, NEW id, id # 0, GaveUp(p, id)
    PROVE  GaveUp(p, id)'
  <1>1. PICK c \in Call : /\ call[p][c].id = id
                          /\ call[p][c].aborted \/ call[p][c].outcome = "TIMEOUT"
    BY DEF GaveUp
  <1>2. Follows(p, call[p][c], call'[p][c])
    BY CallersKeep
  <1>3. call'[p][c].id = id /\ (call'[p][c].aborted \/ call'[p][c].outcome = "TIMEOUT")
    BY <1>1, <1>2 DEF Follows
  <1> QED
    BY <1>3 DEF GaveUp

-----------------------------------------------------------------------------
(* The invariant.  A request of p is on the queue of the other end, active *)
(* there, or answered on the queue of p; that it is in one place only      *)
(* needs ids below the counter, and that nobody is refused needs the hello *)
(* ahead of everything else.                                               *)

\* Until e is ready, a hello comes first on its queue, or nothing will come.
HelloFirst(e) ==
    state[e] \in {"new", "handshaking"} =>
        \/ Len(wire[e]) > 0 /\ wire[e][1].type = "hello"
        \/ /\ Len(wire[e]) = 0
           /\ \/ state[Other(e)] = "new" \/ port[Other(e)] # "open"
              \/ port[e] # "open" \/ link = "dead"

\* What a frame on its way to e says of the two ends.
FrameOK(e, f) ==
    /\ f.type = "req" => /\ f.id \in 1 .. requestSequence[Other(e)]
                         /\ remote[Other(e)].known
                         /\ f.method = "rpc" => remote[Other(e)].minor >= RpcDiscoverMinor
    /\ f.type = "res" => f.id \in started[Other(e)]
    /\ f.type = "err" => /\ f.id \in 1 .. requestSequence[e]
                         /\ f.code \notin {"HANDSHAKE", "DUPLICATE", "RESERVED"}
    /\ f.type = "cancel" => f.id # 0 /\ GaveUp(Other(e), f.id)
WireOK(e) == \A i \in 1 .. Len(wire[e]) : FrameOK(e, wire[e][i])

\* The requests of p are in different places.
PlaceOK(p) ==
    /\ OneRequest(wire[Other(p)]) /\ OneAnswer(wire[p])
    /\ \A i \in 1 .. Len(wire[Other(p)]) : wire[Other(p)][i].type = "req" =>
         /\ wire[Other(p)][i].id \notin started[Other(p)]
         /\ ~HasAnswer(wire[p], wire[Other(p)][i].id)
    /\ \A id \in active[Other(p)] : ~HasAnswer(wire[p], id)

\* The handlers of p: what runs was started, and while p is open what runs is
\* what is active, within the limit.
ServeOK(p) ==
    /\ running[p] \subseteq started[p] /\ active[p] \subseteq started[p]
    /\ started[p] \subseteq 1 .. requestSequence[Other(p)]
    /\ state[p] = "closed" => active[p] = {}
    /\ state[p] # "closed" => /\ running[p] = active[p]
                              /\ IsFiniteSet(active[p])
                              /\ Cardinality(active[p]) <= conf[p].maxInFlight
                              /\ \A id \in signalled[p] : id # 0 /\ GaveUp(Other(p), id)

\* Every result a caller of p has is one of a handler that ran.
ResultOK(p) == \A c \in Call : call[p][c].outcome = "result" => call[p][c].id \in started[Other(p)]

PlaceInv ==
    \A p \in Peer : /\ HelloFirst(p) /\ Unready(p) /\ OutcomeOK(p)
                    /\ WireOK(p) /\ PlaceOK(p) /\ ServeOK(p) /\ ResultOK(p)

\* There are two ends.
LEMMA TwoEnds ==
    ASSUME NEW p \in Peer
    PROVE  /\ Other(p) \in Peer /\ Other(p) # p /\ Other(Other(p)) = p
           /\ \A e \in Peer : e = p \/ e = Other(p)
  BY PeersDiffer DEF Peer, Other

\* The types the proofs below need.
Typed ==
    /\ state \in [Peer -> {"new", "handshaking", "ready", "closed"}]
    /\ remote \in [Peer -> Remote]
    /\ requestSequence \in [Peer -> Nat]
    /\ pending \in [Peer -> SUBSET Nat]
    /\ active \in [Peer -> SUBSET Nat]
    /\ signalled \in [Peer -> SUBSET Nat]
    /\ running \in [Peer -> SUBSET Nat]
    /\ started \in [Peer -> SUBSET Nat]
    /\ streams \in [Peer -> [StreamKey -> Nat]]
    /\ heard \in [Peer -> [StreamKey -> Nat]]
    /\ port \in [Peer -> {"open", "lost", "closed"}]
    /\ wire \in [Peer -> Seq(Frame)]
    /\ \A e \in Peer : Len(wire[e]) \in Nat
    /\ link \in {"up", "dead"}

\* Type correctness gives them.
LEMMA TypedHere == TypeOK => Typed
  <1> SUFFICES ASSUME TypeOK PROVE Typed
    OBVIOUS
  <1>1. \A e \in Peer : Len(wire[e]) \in Nat
    BY LenProperties DEF TypeOK
  <1> QED
    BY <1>1 DEF TypeOK, Typed

\* Counters and started handlers only grow, and who has sent a request knows
\* its peer for good.
LEMMA OnlyGrows ==
    ASSUME Typed, \A e \in Peer : Unready(e), (\E p \in Peer : Shape(p)) \/ Died \/ Idle,
           NEW e \in Peer
    PROVE  /\ requestSequence'[e] \in Nat /\ requestSequence[e] <= requestSequence'[e]
           /\ started[e] \subseteq started'[e]
           /\ requestSequence[e] > 0 => remote'[e] = remote[e]
  <1>1. CASE Died \/ Idle
    BY <1>1 DEF Died, Idle, Typed
  <1>2. ASSUME NEW p \in Peer, Ended(p) \/ Opened(p) \/ Noticed(p) \/ Emitted(p) \/ Listened(p)
                               \/ Answered(p) \/ Refused(p) \/ Settles(p) \/ Broke(p)
        PROVE  requestSequence' = requestSequence /\ started' = started /\ remote' = remote
    BY <1>2 DEF Ended, Opened, Noticed, Emitted, Listened, Answered, Refused, Settles, Broke
  <1>3. ASSUME NEW p \in Peer, Greeted(p)
        PROVE  /\ requestSequence' = requestSequence /\ started' = started
               /\ requestSequence[e] > 0 => remote'[e] = remote[e]
    BY <1>3 DEF Greeted, Unready, Typed
  <1>4. ASSUME NEW p \in Peer, Accepted(p)
        PROVE  /\ requestSequence' = requestSequence /\ started[e] \subseteq started'[e]
               /\ remote' = remote
    BY <1>4 DEF Accepted, Typed
  <1>5. ASSUME NEW p \in Peer, Asked(p)
        PROVE  /\ requestSequence'[e] \in Nat /\ requestSequence[e] <= requestSequence'[e]
               /\ started' = started /\ remote' = remote
    BY <1>5 DEF Asked, Typed
  <1> QED
    BY <1>1, <1>2, <1>3, <1>4, <1>5 DEF Shape, Typed

\* An end that is not ready has neither sent a request nor served one.
LEMMA UnreadyStep ==
    ASSUME Typed, \A e \in Peer : Unready(e), (\E p \in Peer : Shape(p)) \/ Died \/ Idle,
           NEW e \in Peer
    PROVE  Unready(e)'
  <1>0. Unready(e)
    OBVIOUS
  <1>1. CASE Died \/ Idle
    BY <1>0, <1>1 DEF Died, Idle, Unready
  <1>2. ASSUME NEW p \in Peer, Ended(p) \/ Opened(p) \/ Greeted(p) PROVE Unready(e)'
    BY <1>0, <1>2 DEF Ended, Opened, Greeted, Unready, Typed
  <1>3. ASSUME NEW p \in Peer, Noticed(p) \/ Emitted(p) \/ Listened(p)
                               \/ Answered(p) \/ Refused(p) \/ Settles(p) \/ Broke(p)
        PROVE  Unready(e)'
    BY <1>0, <1>3 DEF Noticed, Emitted, Listened, Answered, Refused, Settles, Broke, Unready
  <1>4. ASSUME NEW p \in Peer, Accepted(p) \/ Asked(p) PROVE Unready(e)'
    BY <1>0, <1>4 DEF Accepted, Asked, Unready, Typed
  <1> QED
    BY <1>1, <1>2, <1>3, <1>4 DEF Shape

\* An outcome is there once the call settled.
LEMMA OutcomeStep ==
    ASSUME TypeOK, RequestInv, \A q \in Peer : OutcomeOK(q), [Next]_vars, NEW p \in Peer
    PROVE  OutcomeOK(p)'
  BY CallersKeep DEF OutcomeOK, Follows

\* Nothing overtakes a hello.
LEMMA HelloStep ==
    ASSUME Typed, Typed', \A q \in Peer : HelloFirst(q) /\ Unready(q) /\ running[q] \subseteq started[q],
           (\E p \in Peer : Shape(p)) \/ Died \/ Idle, NEW e \in Peer
    PROVE  HelloFirst(e)'
  <1>0. HelloFirst(e)
    OBVIOUS
  <1>t. /\ \A q \in Peer : Len(wire[q]) \in Nat /\ Len(wire'[q]) \in Nat
        /\ Other(e) \in Peer /\ Other(e) # e /\ Other(Other(e)) = e
    BY TwoEnds DEF Typed
  <1>1. CASE Died
    <2>1. Len(wire'[e]) = 0
      BY <1>1 DEF Died
    <2> QED
      BY <1>1, <2>1 DEF Died, HelloFirst
  <1>2. CASE Idle
    BY <1>0, <1>2 DEF Idle, HelloFirst
  <1>3. ASSUME NEW p \in Peer, Shape(p), e = p PROVE HelloFirst(e)'
    <2>1. CASE Ended(p)
      BY <1>3, <2>1 DEF Ended, HelloFirst, Typed
    <2>2. CASE Opened(p)
      BY <1>0, <1>3, <1>t, <2>2 DEF Opened, HelloFirst, Typed
    <2>3. CASE Greeted(p)
      BY <1>3, <2>3 DEF Greeted, HelloFirst, Typed
    <2>4. ASSUME Reads(p), wire[p][1].type # "hello", state' = state PROVE HelloFirst(e)'
      BY <1>0, <1>3, <1>t, <2>4 DEF Reads, Taken, HelloFirst
    <2>5. ASSUME wire'[p] = wire[p], state' = state, port' = port, link' = link PROVE HelloFirst(e)'
      BY <1>0, <1>3, <2>5 DEF HelloFirst
    <2>6. CASE Broke(p)
      <3>1. Len(wire'[e]) = 0 /\ port'[e] = "lost"
        BY <1>3, <2>6 DEF Broke, Typed
      <3> QED
        BY <3>1 DEF HelloFirst
    <2>7. CASE Noticed(p)
      <3>1. wire'[p] = wire[p] \/ (Reads(p) /\ wire[p][1].type # "hello")
        BY <2>7 DEF Noticed
      <3> QED
        BY <2>4, <2>5, <2>7, <3>1 DEF Noticed
    <2>8. CASE Listened(p) \/ Answered(p) \/ Refused(p) \/ Accepted(p)
      <3>1. Reads(p) /\ wire[p][1].type # "hello" /\ state' = state
        BY <2>8 DEF Listened, Answered, Refused, Accepted
      <3> QED
        BY <2>4, <3>1
    <2>9. CASE Emitted(p) \/ Asked(p) \/ Settles(p)
      <3>1. wire'[p] = wire[p] /\ state' = state /\ port' = port /\ link' = link
        BY <2>9 DEF Emitted, Asked, Settles
      <3> QED
        BY <2>5, <3>1
    <2> QED
      BY <1>3, <2>1, <2>2, <2>3, <2>6, <2>7, <2>8, <2>9 DEF Shape
  <1>4. ASSUME NEW p \in Peer, Shape(p), e = Other(p) PROVE HelloFirst(e)'
    <2>a. Other(e) = p /\ p # e
      BY <1>4, TwoEnds
    \* The queue of e stays as it is, and p does not come to life.
    <2>b. ASSUME Silent(p), state'[e] = state[e],
                 state'[p] = state[p] \/ state[p] # "new" \/ port[p] # "open",
                 port'[p] = port[p] \/ port'[p] # "open",
                 port'[e] = port[e], link' = link
          PROVE  HelloFirst(e)'
      BY <1>0, <1>4, <2>a, <2>b DEF Silent, HelloFirst
    \* A frame is added behind what is there.
    <2>c. ASSUME NEW f, Joined(wire'[e], wire[e], f), state'[e] = state[e],
                 \/ f.type = "hello"
                 \/ state[p] # "new" /\ port[p] = "open" /\ Reaches(p)
          PROVE  HelloFirst(e)'
      <3>1. CASE Len(wire[e]) > 0
        <4>1. wire'[e][1] = wire[e][1] /\ Len(wire'[e]) > 0
          BY <1>t, <2>c, <3>1 DEF Joined
        <4> QED
          BY <1>0, <1>t, <2>c, <3>1, <4>1 DEF HelloFirst
      <3>2. CASE Len(wire[e]) = 0
        <4>1. wire'[e][1] = f /\ Len(wire'[e]) > 0
          BY <1>t, <2>c, <3>2 DEF Joined
        <4> QED
          BY <1>0, <1>4, <2>a, <2>c, <3>2, <4>1 DEF HelloFirst, Reaches
      <3> QED
        BY <1>t, <3>1, <3>2
    <2>1. CASE Ended(p)
      <3>1. /\ state'[e] = state[e] /\ state'[p] # "new"
            /\ port'[e] = port[e] /\ link' = link /\ (port'[p] = port[p] \/ port'[p] # "open")
            /\ state[p] # "new" \/ port[p] # "open"
        BY <2>a, <2>1 DEF Ended, Typed
      <3>2. CASE \E f \in Frame : f.type = "close" /\ Speaks(p, f)
        BY <1>4, <2>c, <3>1, <3>2 DEF Speaks
      <3>3. CASE Silent(p)
        BY <2>b, <3>1, <3>3
      <3> QED
        BY <2>1, <3>2, <3>3 DEF Ended
    <2>2. CASE Opened(p)
      <3>1. /\ state'[e] = state[e] /\ port' = port /\ link' = link
        BY <2>a, <2>2 DEF Opened, Typed
      <3>2. PICK f \in Frame : f.type = "hello" /\ Says(p, f)
        BY <2>2 DEF Opened
      <3>3. CASE Reaches(p)
        BY <1>4, <2>c, <3>1, <3>2, <3>3 DEF Says
      <3>4. CASE ~Reaches(p)
        <4>1. wire'[e] = wire[e]
          BY <1>4, <3>2, <3>4 DEF Says
        <4> QED
          BY <1>0, <1>4, <2>a, <3>1, <3>4, <4>1 DEF HelloFirst, Reaches, Typed
      <3> QED
        BY <3>3, <3>4
    <2>3. CASE Greeted(p)
      <3>1. /\ state'[e] = state[e] /\ port' = port /\ link' = link /\ Silent(p)
            /\ state[p] # "new" /\ state'[p] # "new"
        BY <2>a, <2>3 DEF Greeted, Typed
      <3> QED
        BY <2>b, <3>1
    <2>4. CASE Noticed(p)
      <3>1. state' = state /\ port' = port /\ link' = link
        BY <2>4 DEF Noticed
      <3>2. CASE Silent(p)
        BY <2>b, <3>1, <3>2
      <3>3. CASE \E f \in Frame : Speaks(p, f)
        BY <1>4, <2>c, <3>1, <3>3 DEF Speaks
      <3> QED
        BY <2>4, <3>2, <3>3 DEF Noticed
    <2>5. ASSUME NEW f, Says(p, f), state' = state, port' = port, link' = link,
                 state[p] # "new", port[p] = "open"
          PROVE  HelloFirst(e)'
      <3>1. CASE Reaches(p)
        BY <1>4, <2>c, <2>5, <3>1 DEF Says
      <3>2. CASE ~Reaches(p)
        BY <2>b, <2>5, <3>2 DEF Says, Silent
      <3> QED
        BY <3>1, <3>2
    <2>6. CASE Emitted(p) \/ Refused(p)
      BY <2>5, <2>6 DEF Emitted, Refused, Reads, Live
    <2>7. CASE Listened(p) \/ Answered(p) \/ Accepted(p)
      BY <2>b, <2>7 DEF Listened, Answered, Accepted
    <2>8. CASE Settles(p)
      <3>1. /\ state' = state /\ port' = port /\ link' = link
            /\ running[p] # {}
        BY <2>8 DEF Settles
      <3>2. state[p] # "new"
        BY <3>1 DEF Unready
      <3>3. PICK f \in Frame : IF state[p] # "closed" /\ Sendable(p, f) THEN Says(p, f) ELSE Silent(p)
        BY <2>8 DEF Settles
      <3>4. CASE state[p] # "closed" /\ Sendable(p, f)
        BY <2>5, <3>1, <3>2, <3>3, <3>4 DEF Sendable
      <3>5. CASE ~(state[p] # "closed" /\ Sendable(p, f))
        BY <2>b, <3>1, <3>3, <3>5
      <3> QED
        BY <3>4, <3>5
    <2>9. CASE Broke(p)
      <3>1. /\ port'[p] = "lost" /\ state' = state /\ Len(wire'[e]) <= Len(wire[e])
            /\ \A i \in 1 .. Len(wire'[e]) : wire'[e][i] = wire[e][i]
        BY <1>4, <2>9 DEF Broke, Typed
      <3> QED
        BY <1>0, <1>t, <1>4, <2>a, <3>1 DEF HelloFirst
    <2>10. CASE Asked(p)
      <3>1. state' = state /\ port' = port /\ link' = link /\ state[p] = "ready"
        BY <2>10 DEF Asked
      <3>2. CASE Silent(p)
        BY <2>b, <3>1, <3>2
      <3>3. ASSUME NEW f, Says(p, f), port[p] = "open" PROVE HelloFirst(e)'
        BY <2>5, <3>1, <3>3
      <3>4. ASSUME NEW f, NEW t \in Seq(Frame), NEW g, port[p] = "open", Reaches(p),
                   Joined(t, wire[e], f), Joined(wire'[e], t, g)
            PROVE  HelloFirst(e)'
        <4>1. state[e] \in {"new", "handshaking"} => Len(wire[e]) > 0 /\ wire[e][1].type = "hello"
          BY <1>0, <1>4, <2>a, <3>1, <3>4 DEF HelloFirst, Reaches
        <4>2. Len(wire[e]) > 0 => Len(wire'[e]) > 0 /\ wire'[e][1] = wire[e][1]
          BY <1>t, <3>4, LenProperties DEF Joined
        <4> QED
          BY <3>1, <4>1, <4>2 DEF HelloFirst
      <3> QED
        BY <1>4, <2>10, <3>2, <3>3, <3>4 DEF Asked
    <2> QED
      BY <1>4, <2>1, <2>2, <2>3, <2>4, <2>6, <2>7, <2>8, <2>9, <2>10 DEF Shape
  <1>5. \A p \in Peer : e = p \/ e = Other(p)
    BY TwoEnds
  <1> QED
    BY <1>1, <1>2, <1>3, <1>4, <1>5

-----------------------------------------------------------------------------
(* What is on the queues.                                                  *)

\* An end loses frames of its own queue only from the front, or all of them.
LEMMA OwnQueue ==
    ASSUME Typed, Typed', NEW p \in Peer, Shape(p)
    PROVE  Stretch(wire'[p], wire[p])
  <1>1. wire[p] \in Seq(Frame) /\ wire'[p] \in Seq(Frame)
    BY DEF Typed
  <1>2. wire'[p] = wire[p] \/ wire'[p] = <<>> \/ Taken(wire'[p], wire[p])
    BY DEF Shape, Ended, Opened, Greeted, Noticed, Emitted, Listened, Answered, Refused,
           Accepted, Asked, Settles, Broke, Reads
  <1> QED
    BY <1>1, <1>2, Stretches

\* What a broken transport still delivers is a stretch of what was sent.
LEMMA BrokenQueue ==
    ASSUME Typed, Typed', NEW p \in Peer, Broke(p)
    PROVE  Stretch(wire'[Other(p)], wire[Other(p)])
  <1>1. /\ Len(wire'[Other(p)]) + 0 <= Len(wire[Other(p)])
        /\ \A i \in 1 .. Len(wire'[Other(p)]) : wire'[Other(p)][i] = wire[Other(p)][i + 0]
    BY TwoEnds DEF Broke, Typed
  <1> QED
    BY <1>1 DEF Stretch

\* A queue nobody touched is a stretch of itself.
LEMMA SilentQueue ==
    ASSUME Typed, NEW p \in Peer, Silent(p)
    PROVE  Stretch(wire'[Other(p)], wire[Other(p)])
  BY TwoEnds, Stretches DEF Silent, Typed

\* What a frame says stays true.
LEMMA FrameStays ==
    ASSUME TypeOK, RequestInv, PlaceInv, [Next]_vars, NEW e \in Peer, NEW g, FrameOK(e, g)
    PROVE  FrameOK(e, g)'
  <1>1. (\E p \in Peer : Shape(p)) \/ Died \/ Idle
    BY StepShape DEF PlaceInv
  <1>2. \A q \in Peer : /\ requestSequence[q] \in Nat /\ requestSequence'[q] \in Nat
                        /\ requestSequence[q] <= requestSequence'[q]
                        /\ started[q] \subseteq started'[q]
                        /\ requestSequence[q] > 0 => remote'[q] = remote[q]
    BY <1>1, OnlyGrows, TypedHere DEF PlaceInv, Typed
  <1>3. Other(e) \in Peer
    BY TwoEnds
  <1>4. g.type = "req" => requestSequence[Other(e)] > 0
    BY <1>2, <1>3 DEF FrameOK
  <1>5. g.type = "cancel" => GaveUp(Other(e), g.id)'
    BY <1>3, GaveUpStays DEF FrameOK, PlaceInv
  <1> QED
    BY <1>2, <1>3, <1>4, <1>5 DEF FrameOK

\* Every new frame is true when it is sent.
LEMMA NewFrames ==
    ASSUME TypeOK, Typed, Typed', KnowledgeInv, HandshakeAgreement, PlaceInv,
           NEW p \in Peer, Shape(p), NEW i \in 1 .. Len(wire'[Other(p)]),
           NEW g, g = wire'[Other(p)][i]
    PROVE  FrameOK(Other(p), g)' \/ \E j \in 1 .. Len(wire[Other(p)]) : g = wire[Other(p)][j]
  <1> DEFINE e == Other(p)
             Old == \E j \in 1 .. Len(wire[e]) : g = wire[e][j]
  <1>e. e \in Peer /\ e # p /\ Other(e) = p /\ wire[e] \in Seq(Frame) /\ wire'[e] \in Seq(Frame)
    BY TwoEnds DEF Typed
  <1>s. Silent(p) => Old
    BY DEF Silent
  <1>j. ASSUME NEW f, Joined(wire'[e], wire[e], f) PROVE g = f \/ Old
    BY <1>e, <1>j, JoinedHolds
  <1>y. ASSUME NEW f, Says(p, f) PROVE g = f \/ Old
    BY <1>s, <1>j, <1>y DEF Says, Silent
  <1>1. CASE Ended(p)
    <2>1. Old \/ g.type = "close"
      BY <1>1, <1>s, <1>j DEF Ended, Speaks
    <2> QED
      BY <2>1 DEF FrameOK
  <1>2. CASE Opened(p)
    <2>1. Old \/ g.type = "hello"
      BY <1>2, <1>y DEF Opened
    <2> QED
      BY <2>1 DEF FrameOK
  <1>3. CASE Greeted(p) \/ Listened(p) \/ Answered(p) \/ Accepted(p)
    BY <1>3, <1>s DEF Greeted, Listened, Answered, Accepted
  <1>4. CASE Noticed(p)
    <2>1. \/ Old
          \/ /\ g.type \in {"ping", "pong", "cancel"}
             /\ g.type = "cancel" => g.id # 0 /\ \E c \in Call :
                  /\ call'[p][c].id = g.id
                  /\ call'[p][c].aborted \/ call'[p][c].outcome = "TIMEOUT"
      BY <1>4, <1>s, <1>j DEF Noticed, Speaks
    <2>2. ASSUME g.type \in {"ping", "pong", "cancel"},
                 g.type = "cancel" => g.id # 0 /\ \E c \in Call :
                  /\ call'[p][c].id = g.id
                  /\ call'[p][c].aborted \/ call'[p][c].outcome = "TIMEOUT"
          PROVE  FrameOK(Other(p), g)'
      <3>1. g.type = "cancel" => g.id # 0 /\ GaveUp(Other(e), g.id)'
        BY <1>e, <2>2 DEF GaveUp
      <3> QED
        BY <2>2, <3>1 DEF FrameOK
    <2> QED
      BY <2>1, <2>2
  <1>5. CASE Emitted(p)
    <2>1. Old \/ g.type = "evt"
      BY <1>5, <1>y DEF Emitted
    <2> QED
      BY <2>1 DEF FrameOK
  <1>6. CASE Refused(p)
    <2>1. PICK f \in Frame :
            /\ f.type = "err" /\ f.id = wire[p][1].id /\ Says(p, f)
            /\ f.code = "HANDSHAKE" => state[p] # "ready"
            /\ f.code = "DUPLICATE" => f.id \in active[p]
            /\ f.code = "RESERVED" => /\ state[p] = "ready" /\ wire[p][1].method = "rpc"
                                      /\ remote[p].minor < RpcDiscoverMinor
      BY <1>6 DEF Refused
    <2>2. /\ Live(p) /\ wire[p][1].type = "req" /\ 1 \in 1 .. Len(wire[p])
          /\ requestSequence' = requestSequence
      BY <1>6 DEF Refused, Reads, Taken, Typed
    <2>3. FrameOK(p, wire[p][1])
      BY <2>2 DEF PlaceInv, WireOK
    <2>4. f.code # "HANDSHAKE"
      <3>1. state[p] = "handshaking" => wire[p][1].type = "hello"
        BY <2>2 DEF PlaceInv, HelloFirst
      <3> QED
        BY <2>1, <2>2, <3>1 DEF Live
    <2>5. f.code # "DUPLICATE"
      <3>1. wire[p][1].id \notin started[p]
        BY <1>e, <2>2 DEF PlaceInv, PlaceOK
      <3> QED
        BY <2>1, <3>1 DEF PlaceInv, ServeOK
    <2>6. f.code # "RESERVED"
      <3>1. state[p] = "ready" => remote[p].known
        BY DEF KnowledgeInv
      <3>2. remote[e].known /\ (wire[p][1].method = "rpc" => remote[e].minor >= RpcDiscoverMinor)
        BY <2>2, <2>3 DEF FrameOK
      <3>3. remote[p].known => remote[p].minor = remote[e].minor
        BY <1>e, <3>2 DEF HandshakeAgreement, Peer
      <3>4. remote[p].minor \in Nat /\ remote[e].minor \in Nat
        BY <1>e DEF Typed, Remote
      <3> QED
        BY <2>1, <3>1, <3>2, <3>3, <3>4 DEF RpcDiscoverMinor
    <2>7. f.id \in 1 .. requestSequence'[e]
      BY <2>1, <2>2, <2>3 DEF FrameOK
    <2>8. g = f => FrameOK(Other(p), g)'
      BY <2>1, <2>4, <2>5, <2>6, <2>7 DEF FrameOK
    <2> QED
      BY <1>y, <2>1, <2>8
  <1>7. CASE Asked(p)
    <2>1. /\ state[p] = "ready" /\ remote' = remote
          /\ requestSequence'[p] = requestSequence[p] + 1 /\ requestSequence[p] \in Nat
      BY <1>7 DEF Asked, Typed
    <2>2. remote[p].known
      BY <2>1 DEF KnowledgeInv
    <2>3. ASSUME NEW f, f.type = "req", f.id = requestSequence[p] + 1,
                 f.method = "rpc" /\ remote[p].known => remote[p].minor >= RpcDiscoverMinor
          PROVE  FrameOK(e, f)'
      <3>1. f.id \in 1 .. requestSequence'[p]
        BY <2>1, <2>3
      <3> QED
        BY <1>e, <2>1, <2>2, <2>3, <3>1 DEF FrameOK
    <2>4. ASSUME NEW f, f.type = "cancel", f.id = requestSequence[p] + 1,
                 \E c \in Call : call'[p][c].id = f.id /\ call'[p][c].aborted
          PROVE  FrameOK(e, f)'
      <3>1. f.id # 0
        BY <2>1, <2>4
      <3>2. GaveUp(Other(e), f.id)'
        BY <1>e, <2>4 DEF GaveUp
      <3> QED
        BY <2>4, <3>1, <3>2 DEF FrameOK
    <2>5. CASE Silent(p)
      BY <1>s, <2>5
    <2>6. CASE ~Silent(p)
      <3>1. PICK f \in Frame :
              /\ f.type = "req" /\ f.id = requestSequence[p] + 1
              /\ f.method = "rpc" /\ remote[p].known => remote[p].minor >= RpcDiscoverMinor
              /\ \/ Says(p, f)
                 \/ /\ \E c \in Call : call'[p][c].id = f.id /\ call'[p][c].aborted
                    /\ \E t \in Seq(Frame), h \in Frame :
                         /\ Joined(t, wire[Other(p)], f)
                         /\ h.type = "cancel" /\ h.id = f.id
                         /\ Joined(wire'[Other(p)], t, h)
        BY <1>7, <2>6 DEF Asked
      <3>2. FrameOK(e, f)'
        BY <2>3, <3>1
      <3>3. CASE Says(p, f)
        <4>1. g = f => FrameOK(e, g)'
          BY <3>2
        <4> QED
          BY <1>y, <3>3, <4>1
      <3>4. CASE ~Says(p, f)
        <4>1. PICK t \in Seq(Frame), h \in Frame :
                /\ Joined(t, wire[e], f) /\ h.type = "cancel" /\ h.id = f.id
                /\ Joined(wire'[e], t, h)
          BY <3>1, <3>4
        <4>2. FrameOK(e, h)'
          BY <2>4, <3>1, <3>4, <4>1
        <4>3. g = h \/ \E j \in 1 .. Len(t) : g = t[j]
          BY <1>e, <4>1, JoinedHolds
        <4>4. \A j \in 1 .. Len(t) : t[j] = f \/ \E k \in 1 .. Len(wire[e]) : t[j] = wire[e][k]
          BY <1>e, <4>1, JoinedHolds
        <4>5. g = h => FrameOK(e, g)'
          BY <4>2
        <4>6. g = f => FrameOK(e, g)'
          BY <3>2
        <4> QED
          BY <4>3, <4>4, <4>5, <4>6
      <3> QED
        BY <3>3, <3>4
    <2> QED
      BY <2>5, <2>6
  <1>8. CASE Settles(p)
    <2>1. PICK id \in running[p], f \in Frame :
            /\ f.type \in {"res", "err"} /\ f.id = id
            /\ f.type = "err" => f.code \in Failure
            /\ Says(p, f) \/ Silent(p)
      BY <1>8 DEF Settles
    <2>2. started' = started /\ requestSequence' = requestSequence
      BY <1>8 DEF Settles
    <2>3. id \in started[p] /\ id \in 1 .. requestSequence[e]
      BY DEF PlaceInv, ServeOK
    <2>4. FrameOK(e, f)'
      BY <1>e, <2>1, <2>2, <2>3 DEF FrameOK, Failure
    <2>5. g = f => FrameOK(e, g)'
      BY <2>4
    <2> QED
      BY <1>s, <1>y, <2>1, <2>5
  <1>9. CASE Broke(p)
    <2>1. Stretch(wire'[e], wire[e])
      BY <1>9, BrokenQueue
    <2>2. \A k \in 1 .. Len(wire'[e]) : \E j \in 1 .. Len(wire[e]) : wire'[e][k] = wire[e][j]
      BY <1>e, <2>1, StretchKeeps
    <2> QED
      BY <2>2
  <1> QED
    BY <1>1, <1>2, <1>3, <1>4, <1>5, <1>6, <1>7, <1>8, <1>9 DEF Shape

\* Every step keeps the frames under way true.
LEMMA WireStep ==
    ASSUME TypeOK, TypeOK', RequestInv, KnowledgeInv, HandshakeAgreement, PlaceInv, [Next]_vars,
           NEW e \in Peer
    PROVE  WireOK(e)'
  <1>0. Typed /\ Typed'
    <2>1. TypeOK' => Typed'
      BY TypedHere, PTL
    <2> QED
      BY <2>1, TypedHere
  <1>1. (\E p \in Peer : Shape(p)) \/ Died \/ Idle
    BY StepShape DEF PlaceInv
  <1>2. \A j \in 1 .. Len(wire[e]) : FrameOK(e, wire[e][j])
    BY DEF PlaceInv, WireOK
  <1>3. ASSUME NEW i \in 1 .. Len(wire'[e]), NEW g, g = wire'[e][i]
        PROVE  FrameOK(e, g)'
    <2>1. CASE \E j \in 1 .. Len(wire[e]) : g = wire[e][j]
      <3>1. FrameOK(e, g)
        BY <1>2, <2>1
      <3> QED
        BY <3>1, FrameStays
    <2>2. CASE Died
      <3>1. wire'[e] = <<>>
        BY <2>2 DEF Died
      <3> QED
        BY <1>3, <3>1
    <2>3. CASE Idle
      BY <1>3, <2>1, <2>3 DEF Idle
    <2>4. ASSUME NEW p \in Peer, Shape(p), e = p PROVE FrameOK(e, g)'
      <3>1. wire[e] \in Seq(Frame) /\ wire'[e] \in Seq(Frame)
        BY <1>0 DEF Typed
      <3>2. Stretch(wire'[e], wire[e])
        BY <1>0, <2>4, OwnQueue
      <3> QED
        BY <1>3, <2>1, <3>1, <3>2, StretchKeeps
    <2>5. ASSUME NEW p \in Peer, Shape(p), e = Other(p) PROVE FrameOK(e, g)'
      BY <1>0, <1>3, <2>1, <2>5, NewFrames
    <2>6. \A p \in Peer : e = p \/ e = Other(p)
      BY TwoEnds
    <2> QED
      BY <1>1, <2>2, <2>3, <2>4, <2>5, <2>6
  <1>4. ASSUME NEW i \in 1 .. Len(wire'[e]) PROVE FrameOK(e, wire[e][i])'
    <2>1. PICK g : g = wire'[e][i]
      OBVIOUS
    <2>2. FrameOK(e, g)'
      BY <1>3, <2>1
    <2> QED
      BY <2>1, <2>2 DEF FrameOK, GaveUp
  <1> QED
    BY <1>4 DEF WireOK

-----------------------------------------------------------------------------
(* Where requests are.                                                     *)

\* No request, or no answer, was added to a queue.
NoNewRequest(t, s) == Stretch(t, s) \/ \E f \in Frame : f.type # "req" /\ Joined(t, s, f)
NoNewAnswer(t, s) == Stretch(t, s) \/ \E f \in Frame : f.type \notin {"res", "err"} /\ Joined(t, s, f)

\* Then the queue has the requests, or the answers, it had or fewer.
LEMMA NoNew ==
    ASSUME NEW s \in Seq(Frame), NEW t \in Seq(Frame)
    PROVE  /\ NoNewRequest(t, s) =>
                /\ \A i \in 1 .. Len(t) : t[i].type = "req" =>
                      \E j \in 1 .. Len(s) : s[j].type = "req" /\ t[i].id = s[j].id
                /\ OneRequest(s) => OneRequest(t)
           /\ NoNewAnswer(t, s) =>
                /\ \A id : HasAnswer(t, id) => HasAnswer(s, id)
                /\ OneAnswer(s) => OneAnswer(t)
  <1>1. ASSUME NoNewRequest(t, s)
        PROVE  /\ \A i \in 1 .. Len(t) : t[i].type = "req" =>
                      \E j \in 1 .. Len(s) : s[j].type = "req" /\ t[i].id = s[j].id
               /\ OneRequest(s) => OneRequest(t)
    <2>1. CASE Stretch(t, s)
      <3>1. \A i \in 1 .. Len(t) : \E j \in 1 .. Len(s) : t[i] = s[j]
        BY <2>1, StretchKeeps
      <3>2. OneRequest(s) => OneRequest(t)
        BY <2>1, StretchKeeps
      <3> QED
        BY <3>1, <3>2
    <2>2. ASSUME NEW f \in Frame, f.type # "req", Joined(t, s, f)
          PROVE  /\ \A i \in 1 .. Len(t) : t[i].type = "req" =>
                      \E j \in 1 .. Len(s) : s[j].type = "req" /\ t[i].id = s[j].id
                 /\ OneRequest(s) => OneRequest(t)
      <3>1. \A i \in 1 .. Len(t) : t[i] = f \/ \E j \in 1 .. Len(s) : t[i] = s[j]
        BY <2>2, JoinedHolds
      <3>2. OneRequest(s) => OneRequest(t)
        BY <2>2, JoinedHolds
      <3> QED
        BY <2>2, <3>1, <3>2
    <2> QED
      BY <1>1, <2>1, <2>2 DEF NoNewRequest
  <1>2. ASSUME NoNewAnswer(t, s)
        PROVE  /\ \A id : HasAnswer(t, id) => HasAnswer(s, id)
               /\ OneAnswer(s) => OneAnswer(t)
    <2>1. CASE Stretch(t, s)
      BY <2>1, StretchKeeps
    <2>2. ASSUME NEW f \in Frame, f.type \notin {"res", "err"}, Joined(t, s, f)
          PROVE  /\ \A id : HasAnswer(t, id) => HasAnswer(s, id)
                 /\ OneAnswer(s) => OneAnswer(t)
      BY <2>2, JoinedHolds
    <2> QED
      BY <1>2, <2>1, <2>2 DEF NoNewAnswer
  <1> QED
    BY <1>1, <1>2

\* A step that sends no request of r, starts none and answers none.
LEMMA PlaceKept ==
    ASSUME Typed, Typed', NEW r \in Peer, PlaceOK(r),
           NoNewRequest(wire'[Other(r)], wire[Other(r)]), NoNewAnswer(wire'[r], wire[r]),
           active'[Other(r)] \subseteq active[Other(r)], started'[Other(r)] = started[Other(r)]
    PROVE  PlaceOK(r)'
  <1>1. /\ Other(r) \in Peer /\ wire[r] \in Seq(Frame) /\ wire'[r] \in Seq(Frame)
        /\ wire[Other(r)] \in Seq(Frame) /\ wire'[Other(r)] \in Seq(Frame)
    BY TwoEnds DEF Typed
  <1>2. /\ \A i \in 1 .. Len(wire'[Other(r)]) : wire'[Other(r)][i].type = "req" =>
             \E j \in 1 .. Len(wire[Other(r)]) :
                wire[Other(r)][j].type = "req" /\ wire'[Other(r)][i].id = wire[Other(r)][j].id
        /\ OneRequest(wire[Other(r)]) => OneRequest(wire'[Other(r)])
    BY <1>1, NoNew
  <1>3. /\ \A id : HasAnswer(wire'[r], id) => HasAnswer(wire[r], id)
        /\ OneAnswer(wire[r]) => OneAnswer(wire'[r])
    BY <1>1, NoNew
  <1>4. OneRequest(wire'[Other(r)]) /\ OneAnswer(wire'[r])
    BY <1>2, <1>3 DEF PlaceOK
  <1>5. ASSUME NEW i \in 1 .. Len(wire'[Other(r)]), wire'[Other(r)][i].type = "req"
        PROVE  /\ wire'[Other(r)][i].id \notin started'[Other(r)]
               /\ ~HasAnswer(wire'[r], wire'[Other(r)][i].id)
    BY <1>2, <1>3, <1>5 DEF PlaceOK
  <1>6. ASSUME NEW id \in active'[Other(r)] PROVE ~HasAnswer(wire'[r], id)
    BY <1>3, <1>6 DEF PlaceOK
  <1> QED
    BY <1>4, <1>5, <1>6 DEF PlaceOK

\* The ids of requests and answers under way are ids r handed out.
LEMMA IdsHandedOut ==
    ASSUME Typed, PlaceInv, NEW r \in Peer, NEW id
    PROVE  /\ HasRequest(wire[Other(r)], id) => id \in 1 .. requestSequence[r]
           /\ HasAnswer(wire[r], id) => id \in 1 .. requestSequence[r]
           /\ id \in started[Other(r)] => id \in 1 .. requestSequence[r]
  <1>1. Other(r) \in Peer /\ Other(Other(r)) = r
    BY TwoEnds
  <1>2. started[Other(r)] \subseteq 1 .. requestSequence[r]
    BY <1>1 DEF PlaceInv, ServeOK
  <1>3. WireOK(r) /\ WireOK(Other(r))
    BY <1>1 DEF PlaceInv
  <1> QED
    BY <1>1, <1>2, <1>3 DEF WireOK, FrameOK, HasRequest, HasAnswer

\* A request of r under way was not started, and is not answered.
LEMMA PlaceHas ==
    ASSUME NEW r \in Peer, PlaceOK(r), NEW id, HasRequest(wire[Other(r)], id)
    PROVE  id \notin started[Other(r)] /\ ~HasAnswer(wire[r], id)
  BY DEF PlaceOK, HasRequest

\* Every step keeps requests in different places.
LEMMA PlaceStep ==
    ASSUME Typed, Typed', PlaceInv, (\E p \in Peer : Shape(p)) \/ Died \/ Idle, NEW r \in Peer
    PROVE  PlaceOK(r)'
  <1> DEFINE s == Other(r)
  <1>0. PlaceOK(r)
    BY DEF PlaceInv
  <1>s. /\ s \in Peer /\ s # r /\ Other(s) = r /\ \A p \in Peer : p = r \/ p = s
        /\ wire[r] \in Seq(Frame) /\ wire'[r] \in Seq(Frame)
        /\ wire[s] \in Seq(Frame) /\ wire'[s] \in Seq(Frame)
    BY TwoEnds DEF Typed
  <1>n. /\ Stretch(wire'[s], wire[s]) => NoNewRequest(wire'[s], wire[s])
        /\ Stretch(wire'[r], wire[r]) => NoNewAnswer(wire'[r], wire[r])
    BY DEF NoNewRequest, NoNewAnswer
  <1>1. CASE Died
    <2>1. wire'[r] = <<>> /\ wire'[s] = <<>> /\ active' = active /\ started' = started
      BY <1>1, <1>s DEF Died
    <2>2. Stretch(wire'[s], wire[s]) /\ Stretch(wire'[r], wire[r])
      BY <1>s, <2>1, Stretches
    <2> QED
      BY <1>0, <1>n, <2>1, <2>2, PlaceKept
  <1>2. CASE Idle
    <2>1. wire' = wire /\ active' = active /\ started' = started
      BY <1>2 DEF Idle
    <2>2. Stretch(wire'[s], wire[s]) /\ Stretch(wire'[r], wire[r])
      BY <1>s, <2>1, Stretches
    <2> QED
      BY <1>0, <1>n, <2>1, <2>2, PlaceKept
  \* r acts: it may send one new request.
  <1>3. ASSUME Shape(r) PROVE PlaceOK(r)'
    <2>1. Stretch(wire'[r], wire[r])
      BY <1>3, OwnQueue
    <2>2. ASSUME NoNewRequest(wire'[s], wire[s]), active'[s] \subseteq active[s], started'[s] = started[s]
          PROVE  PlaceOK(r)'
      BY <1>0, <1>n, <2>1, <2>2, PlaceKept
    <2>3. Silent(r) => NoNewRequest(wire'[s], wire[s])
      BY <1>n, SilentQueue
    <2>4. ASSUME NEW f \in Frame, f.type # "req", Joined(wire'[s], wire[s], f)
          PROVE  NoNewRequest(wire'[s], wire[s])
      BY <2>4 DEF NoNewRequest
    <2>5. ASSUME NEW f \in Frame, f.type # "req", Says(r, f)
          PROVE  NoNewRequest(wire'[s], wire[s])
      BY <2>3, <2>4, <2>5 DEF Says, Silent
    <2>6. CASE Ended(r)
      <3>1. active'[s] = active[s] /\ started' = started
        BY <1>s, <2>6 DEF Ended, Typed
      <3>2. NoNewRequest(wire'[s], wire[s])
        BY <2>3, <2>4, <2>6 DEF Ended, Speaks
      <3> QED
        BY <2>2, <3>1, <3>2
    <2>7. CASE Opened(r) \/ Greeted(r) \/ Emitted(r) \/ Listened(r) \/ Answered(r) \/ Refused(r)
      <3>1. active' = active /\ started' = started
        BY <2>7 DEF Opened, Greeted, Emitted, Listened, Answered, Refused
      <3>2. Silent(r) \/ \E f \in Frame : f.type # "req" /\ Says(r, f)
        BY <2>7 DEF Opened, Greeted, Emitted, Listened, Answered, Refused
      <3> QED
        BY <2>2, <2>3, <2>5, <3>1, <3>2
    <2>8. CASE Noticed(r)
      <3>1. active' = active /\ started' = started
        BY <2>8 DEF Noticed
      <3>2. Silent(r) \/ \E f \in Frame : f.type # "req" /\ Joined(wire'[s], wire[s], f)
        BY <2>8 DEF Noticed, Speaks
      <3> QED
        BY <2>2, <2>3, <2>4, <3>1, <3>2
    <2>9. CASE Accepted(r)
      <3>1. active'[s] = active[s] /\ started'[s] = started[s] /\ Silent(r)
        BY <1>s, <2>9 DEF Accepted, Typed
      <3> QED
        BY <2>2, <2>3, <3>1
    <2>10. CASE Settles(r)
      <3>1. active'[s] = active[s] /\ started' = started
        BY <1>s, <2>10 DEF Settles, Typed
      <3>2. Silent(r) \/ \E f \in Frame : f.type # "req" /\ Says(r, f)
        BY <2>10 DEF Settles
      <3> QED
        BY <2>2, <2>3, <2>5, <3>1, <3>2
    <2>11. CASE Broke(r)
      <3>1. active' = active /\ started' = started
        BY <2>11 DEF Broke
      <3>2. Stretch(wire'[s], wire[s])
        BY <2>11, BrokenQueue
      <3> QED
        BY <1>n, <2>2, <3>1, <3>2
    <2>12. CASE Asked(r)
      <3>1. active' = active /\ started' = started /\ wire'[r] = wire[r]
        BY <2>12 DEF Asked
      <3>2. CASE Silent(r)
        BY <2>2, <2>3, <3>1, <3>2
      <3>3. ASSUME NEW f \in Frame, f.type = "req", f.id = requestSequence[r] + 1,
                   NEW t \in Seq(Frame), Joined(t, wire[s], f),
                   wire'[s] = t \/ \E g \in Frame : g.type = "cancel" /\ Joined(wire'[s], t, g)
            PROVE  PlaceOK(r)'
        <4>1. /\ ~HasRequest(wire[s], f.id) /\ ~HasAnswer(wire[r], f.id)
              /\ f.id \notin started[s]
          <5>1. requestSequence[r] \in Nat /\ f.id \notin 1 .. requestSequence[r]
            BY <3>3 DEF Typed
          <5> QED
            BY <5>1, IdsHandedOut
        <4>2. OneRequest(t)
          BY <1>0, <1>s, <3>3, <4>1, JoinedHolds DEF PlaceOK
        <4>3. OneRequest(wire'[s]) /\ \A id : HasRequest(wire'[s], id) => HasRequest(t, id)
          <5>1. CASE wire'[s] = t
            BY <4>2, <5>1
          <5>2. ASSUME NEW g \in Frame, g.type = "cancel", Joined(wire'[s], t, g)
                PROVE  OneRequest(wire'[s]) /\ \A id : HasRequest(wire'[s], id) => HasRequest(t, id)
            BY <1>s, <4>2, <5>2, JoinedHolds
          <5> QED
            BY <3>3, <5>1, <5>2
        <4>4. \A id : HasRequest(wire'[s], id) => HasRequest(wire[s], id) \/ id = f.id
          <5>1. \A id : HasRequest(t, id) => HasRequest(wire[s], id) \/ id = f.id
            BY <1>s, <3>3, JoinedHolds
          <5> QED
            BY <4>3, <5>1
        <4>5. \A id : HasRequest(wire'[s], id) => id \notin started[s] /\ ~HasAnswer(wire[r], id)
          BY <1>0, <4>1, <4>4, PlaceHas
        <4>6. \A i \in 1 .. Len(wire'[s]) : wire'[s][i].type = "req" =>
                /\ wire'[s][i].id \notin started'[s] /\ ~HasAnswer(wire'[r], wire'[s][i].id)
          BY <3>1, <4>5 DEF HasRequest
        <4>7. OneAnswer(wire'[r]) /\ \A id \in active'[s] : ~HasAnswer(wire'[r], id)
          BY <1>0, <3>1 DEF PlaceOK
        <4> QED
          BY <4>3, <4>6, <4>7 DEF PlaceOK
      <3>4. CASE ~Silent(r)
        <4>1. PICK f \in Frame :
                /\ f.type = "req" /\ f.id = requestSequence[r] + 1
                /\ \/ Says(r, f)
                   \/ \E t \in Seq(Frame), g \in Frame :
                         /\ Joined(t, wire[s], f) /\ g.type = "cancel"
                         /\ Joined(wire'[s], t, g)
          BY <2>12, <3>4 DEF Asked
        <4>2. CASE Says(r, f)
          <5>1. Joined(wire'[s], wire[s], f)
            BY <3>4, <4>2 DEF Says, Silent
          <5> QED
            BY <1>s, <3>3, <4>1, <5>1
        <4>3. CASE ~Says(r, f)
          BY <3>3, <4>1, <4>3
        <4> QED
          BY <4>2, <4>3
      <3> QED
        BY <3>2, <3>4
    <2> QED
      BY <1>3, <2>6, <2>7, <2>8, <2>9, <2>10, <2>11, <2>12 DEF Shape
  \* The other end acts: it may start a request of r, or answer one.
  <1>4. ASSUME Shape(s) PROVE PlaceOK(r)'
    <2>1. Stretch(wire'[s], wire[s])
      BY <1>4, <1>s, OwnQueue
    <2>2. ASSUME NoNewAnswer(wire'[r], wire[r]), active'[s] \subseteq active[s], started'[s] = started[s]
          PROVE  PlaceOK(r)'
      BY <1>0, <1>n, <2>1, <2>2, PlaceKept
    <2>3. Silent(s) => wire'[r] = wire[r] /\ NoNewAnswer(wire'[r], wire[r])
      BY <1>n, <1>s, SilentQueue DEF Silent
    <2>4. ASSUME NEW f \in Frame, f.type \notin {"res", "err"}, Joined(wire'[r], wire[r], f)
          PROVE  NoNewAnswer(wire'[r], wire[r])
      BY <2>4 DEF NoNewAnswer
    <2>5. ASSUME NEW f \in Frame, f.type \notin {"res", "err"}, Says(s, f)
          PROVE  NoNewAnswer(wire'[r], wire[r])
      BY <1>s, <2>3, <2>4, <2>5 DEF Says, Silent
    <2>6. CASE Ended(s)
      <3>1. active'[s] = {} /\ started' = started
        BY <1>s, <2>6 DEF Ended, Typed
      <3>2. NoNewAnswer(wire'[r], wire[r])
        BY <1>s, <2>3, <2>4, <2>6 DEF Ended, Speaks
      <3> QED
        BY <2>2, <3>1, <3>2
    <2>7. CASE Opened(s) \/ Greeted(s) \/ Emitted(s) \/ Listened(s) \/ Answered(s)
      <3>1. active' = active /\ started' = started
        BY <2>7 DEF Opened, Greeted, Emitted, Listened, Answered
      <3>2. Silent(s) \/ \E f \in Frame : f.type \notin {"res", "err"} /\ Says(s, f)
        BY <2>7 DEF Opened, Greeted, Emitted, Listened, Answered
      <3> QED
        BY <2>2, <2>3, <2>5, <3>1, <3>2
    <2>8. CASE Noticed(s)
      <3>1. active' = active /\ started' = started
        BY <2>8 DEF Noticed
      <3>2. Silent(s) \/ \E f \in Frame : f.type \notin {"res", "err"} /\ Joined(wire'[r], wire[r], f)
        BY <1>s, <2>8 DEF Noticed, Speaks
      <3> QED
        BY <2>2, <2>3, <2>4, <3>1, <3>2
    <2>9. CASE Asked(s)
      <3>1. active' = active /\ started' = started
        BY <2>9 DEF Asked
      <3>2. CASE Silent(s)
        BY <2>2, <2>3, <3>1, <3>2
      <3>3. ASSUME NEW f \in Frame, f.type = "req", NEW t \in Seq(Frame), Joined(t, wire[r], f),
                   NEW g \in Frame, g.type = "cancel", Joined(wire'[r], t, g)
            PROVE  PlaceOK(r)'
        <4>1. /\ \A id : HasAnswer(wire'[r], id) => HasAnswer(wire[r], id)
              /\ OneAnswer(wire[r]) => OneAnswer(wire'[r])
          <5>1. /\ \A id : HasAnswer(t, id) => HasAnswer(wire[r], id)
                /\ OneAnswer(wire[r]) => OneAnswer(t)
            BY <1>s, <3>3, JoinedHolds
          <5>2. /\ \A id : HasAnswer(wire'[r], id) => HasAnswer(t, id)
                /\ OneAnswer(t) => OneAnswer(wire'[r])
            BY <1>s, <3>3, JoinedHolds
          <5> QED
            BY <5>1, <5>2
        <4>2. wire'[s] = wire[s]
          BY <2>9 DEF Asked
        <4> QED
          BY <1>0, <3>1, <4>1, <4>2 DEF PlaceOK
      <3>4. ASSUME NEW f \in Frame, f.type = "req", Says(s, f) PROVE PlaceOK(r)'
        BY <2>2, <2>5, <3>1, <3>4
      <3>5. CASE ~Silent(s)
        <4>1. PICK f \in Frame :
                /\ f.type = "req"
                /\ \/ Says(s, f)
                   \/ \E t \in Seq(Frame), g \in Frame :
                         /\ Joined(t, wire[r], f) /\ g.type = "cancel"
                         /\ Joined(wire'[r], t, g)
          BY <1>s, <2>9, <3>5 DEF Asked
        <4> QED
          BY <3>3, <3>4, <4>1
      <3> QED
        BY <3>2, <3>5
    <2>10. CASE Broke(s)
      <3>1. active' = active /\ started' = started
        BY <2>10 DEF Broke
      <3>2. Stretch(wire'[r], wire[r])
        BY <1>s, <2>10, BrokenQueue
      <3> QED
        BY <1>n, <2>2, <3>1, <3>2
    \* A request of r is taken off the queue: it was the only one with its id.
    <2>a. ASSUME Reads(s), wire[s][1].type = "req"
          PROVE  /\ ~HasRequest(wire'[s], wire[s][1].id) /\ HasRequest(wire[s], wire[s][1].id)
                 /\ wire[s][1].id \notin started[s] /\ ~HasAnswer(wire[r], wire[s][1].id)
                 /\ OneRequest(wire'[s]) /\ \A id : HasRequest(wire'[s], id) => HasRequest(wire[s], id)
      <3>1. Taken(wire'[s], wire[s]) /\ 1 \in 1 .. Len(wire[s])
        BY <1>s, <2>a DEF Reads, Taken, Typed
      <3>2. ~HasRequest(wire'[s], wire[s][1].id)
        BY <1>0, <1>s, <2>a, <3>1, TakenHolds DEF PlaceOK
      <3>3. HasRequest(wire[s], wire[s][1].id)
        BY <2>a, <3>1 DEF HasRequest
      <3>4. OneRequest(wire'[s]) /\ \A id : HasRequest(wire'[s], id) => HasRequest(wire[s], id)
        BY <1>0, <1>s, <2>1, StretchKeeps DEF PlaceOK
      <3> QED
        BY <1>0, <3>2, <3>3, <3>4, PlaceHas
    <2>11. CASE Accepted(s)
      <3> DEFINE id == wire[s][1].id
      <3>1. /\ Reads(s) /\ wire[s][1].type = "req" /\ wire'[r] = wire[r]
            /\ active'[s] = active[s] \cup {id} /\ started'[s] = started[s] \cup {id}
        BY <1>s, <2>11 DEF Accepted, Silent, Typed
      <3>2. \A x : HasRequest(wire'[s], x) => x \notin started'[s] /\ ~HasAnswer(wire'[r], x)
        BY <1>0, <2>a, <3>1, PlaceHas
      <3>3. \A i \in 1 .. Len(wire'[s]) : wire'[s][i].type = "req" =>
              /\ wire'[s][i].id \notin started'[s] /\ ~HasAnswer(wire'[r], wire'[s][i].id)
        BY <3>2 DEF HasRequest
      <3>4. \A x \in active'[s] : ~HasAnswer(wire'[r], x)
        BY <1>0, <2>a, <3>1 DEF PlaceOK
      <3>5. OneRequest(wire'[s]) /\ OneAnswer(wire'[r])
        BY <1>0, <2>a, <3>1 DEF PlaceOK
      <3> QED
        BY <3>3, <3>4, <3>5 DEF PlaceOK
    <2>12. CASE Refused(s)
      <3>0. Reads(s) /\ wire[s][1].type = "req" /\ active' = active /\ started' = started
        BY <2>12 DEF Refused
      <3>1. PICK f \in Frame : f.type = "err" /\ f.id = wire[s][1].id /\ Says(s, f)
        BY <2>12 DEF Refused
      <3>2. CASE ~Reaches(s)
        BY <1>s, <2>2, <2>3, <3>0, <3>1, <3>2 DEF Says, Silent
      <3>3. CASE Reaches(s)
        <4>1. Joined(wire'[r], wire[r], f)
          BY <1>s, <3>1, <3>3 DEF Says
        <4>2. /\ \A x : HasAnswer(wire'[r], x) <=> HasAnswer(wire[r], x) \/ x = f.id
              /\ OneAnswer(wire'[r])
          <5>1. ~HasAnswer(wire[r], f.id)
            BY <2>a, <3>0, <3>1
          <5> QED
            BY <1>0, <1>s, <3>1, <4>1, <5>1, JoinedHolds DEF PlaceOK
        <4>3. \A x : HasRequest(wire'[s], x) => x \notin started'[s] /\ ~HasAnswer(wire'[r], x)
          BY <1>0, <2>a, <3>0, <3>1, <4>2, PlaceHas
        <4>4. \A i \in 1 .. Len(wire'[s]) : wire'[s][i].type = "req" =>
                /\ wire'[s][i].id \notin started'[s] /\ ~HasAnswer(wire'[r], wire'[s][i].id)
          BY <4>3 DEF HasRequest
        <4>5. active[s] \subseteq started[s]
          BY <1>s DEF PlaceInv, ServeOK
        <4>6. \A x \in active'[s] : ~HasAnswer(wire'[r], x)
          BY <1>0, <2>a, <3>0, <3>1, <4>2, <4>5 DEF PlaceOK
        <4> QED
          BY <2>a, <3>0, <4>2, <4>4, <4>6 DEF PlaceOK
      <3> QED
        BY <3>2, <3>3
    <2>13. CASE Settles(s)
      <3>1. PICK id \in running[s], f \in Frame :
              /\ active' = [active EXCEPT ![s] = @ \ {id}]
              /\ f.type \in {"res", "err"} /\ f.id = id
              /\ IF state[s] # "closed" /\ Sendable(s, f) THEN Says(s, f) ELSE Silent(s)
        BY <2>13 DEF Settles
      <3>2. started' = started /\ wire'[s] = wire[s] /\ active'[s] = active[s] \ {id}
        BY <1>s, <2>13, <3>1 DEF Settles, Typed
      <3>3. CASE Silent(s)
        BY <2>2, <2>3, <3>2, <3>3
      <3>4. CASE ~Silent(s)
        <4>1. state[s] # "closed" /\ Joined(wire'[r], wire[r], f)
          BY <1>s, <3>1, <3>4 DEF Says, Silent
        <4>2. id \in active[s] /\ id \in started[s]
          BY <1>s, <3>1, <4>1 DEF PlaceInv, ServeOK
        <4>3. ~HasAnswer(wire[r], id)
          BY <1>0, <4>2 DEF PlaceOK
        <4>4. /\ \A x : HasAnswer(wire'[r], x) <=> HasAnswer(wire[r], x) \/ x = id
              /\ OneAnswer(wire'[r])
          BY <1>0, <1>s, <3>1, <4>1, <4>3, JoinedHolds DEF PlaceOK
        <4>5. \A i \in 1 .. Len(wire'[s]) : wire'[s][i].type = "req" =>
                /\ wire'[s][i].id \notin started'[s] /\ ~HasAnswer(wire'[r], wire'[s][i].id)
          BY <1>0, <3>2, <4>2, <4>4 DEF PlaceOK
        <4>6. \A x \in active'[s] : ~HasAnswer(wire'[r], x)
          BY <1>0, <3>2, <4>4 DEF PlaceOK
        <4>7. OneRequest(wire'[s])
          BY <1>0, <3>2 DEF PlaceOK
        <4> QED
          BY <4>4, <4>5, <4>6, <4>7 DEF PlaceOK
      <3> QED
        BY <3>3, <3>4
    <2> QED
      BY <1>4, <2>6, <2>7, <2>8, <2>9, <2>10, <2>11, <2>12, <2>13 DEF Shape
  <1> QED
    BY <1>1, <1>2, <1>3, <1>4, <1>s

-----------------------------------------------------------------------------
(* What runs.                                                              *)

\* Every step keeps account of the handlers.
LEMMA ServeStep ==
    ASSUME TypeOK, TypeOK', RequestInv, PlaceInv, [Next]_vars, NEW e \in Peer
    PROVE  ServeOK(e)'
  <1>0. ServeOK(e) /\ WireOK(e) /\ Typed /\ Other(e) \in Peer /\ Other(Other(e)) = e
    BY TypedHere, TwoEnds DEF PlaceInv
  <1>1. (\E p \in Peer : Shape(p)) \/ Died \/ Idle
    BY StepShape DEF PlaceInv
  <1>2. conf' = conf /\ conf[e].maxInFlight \in Nat
    BY ConfConstant DEF TypeOK, Config
  <1>3. /\ requestSequence'[Other(e)] \in Nat /\ requestSequence[Other(e)] \in Nat
        /\ requestSequence[Other(e)] <= requestSequence'[Other(e)]
    BY <1>0, <1>1, OnlyGrows DEF PlaceInv, Typed
  <1>4. started[e] \subseteq 1 .. requestSequence'[Other(e)]
    BY <1>0, <1>3 DEF ServeOK
  <1>5. \A id : id # 0 /\ GaveUp(Other(e), id) => GaveUp(Other(e), id)'
    BY <1>0, GaveUpStays DEF PlaceInv
  \* Nothing starts, settles or ends at e.
  <1>k. ASSUME (state'[e] = "closed") <=> (state[e] = "closed"),
               active'[e] = active[e], running'[e] = running[e], started'[e] = started[e],
               \A id \in signalled'[e] :
                  id \in signalled[e] \/ (state[e] # "closed" => id # 0 /\ GaveUp(Other(e), id))
        PROVE  ServeOK(e)'
    <2>1. state[e] # "closed" => \A id \in signalled'[e] : id # 0 /\ GaveUp(Other(e), id)'
      BY <1>0, <1>5, <1>k DEF ServeOK
    <2> QED
      BY <1>0, <1>2, <1>4, <1>k, <2>1 DEF ServeOK
  <1>6. CASE Died \/ Idle
    BY <1>6, <1>k DEF Died, Idle
  <1>7. ASSUME NEW p \in Peer, Shape(p), p # e PROVE ServeOK(e)'
    <2>1. /\ state'[e] = state[e] /\ active'[e] = active[e] /\ running'[e] = running[e]
          /\ started'[e] = started[e] /\ signalled'[e] = signalled[e]
      <3>1. CASE Ended(p) \/ Opened(p) \/ Greeted(p)
        BY <1>0, <1>7, <3>1 DEF Ended, Opened, Greeted, Typed
      <3>2. CASE Noticed(p) \/ Accepted(p) \/ Settles(p)
        BY <1>0, <1>7, <3>2 DEF Noticed, Accepted, Settles, Typed
      <3>3. CASE Emitted(p) \/ Listened(p) \/ Answered(p) \/ Refused(p) \/ Asked(p) \/ Broke(p)
        BY <3>3 DEF Emitted, Listened, Answered, Refused, Asked, Broke
      <3> QED
        BY <1>7, <3>1, <3>2, <3>3 DEF Shape
    <2> QED
      BY <1>k, <2>1
  <1>8. CASE Ended(e)
    <2>1. state'[e] = "closed" /\ active'[e] = {} /\ running' = running /\ started' = started
      BY <1>0, <1>8 DEF Ended, Typed
    <2> QED
      BY <1>0, <1>4, <2>1 DEF ServeOK
  <1>9. CASE Opened(e) \/ Greeted(e)
    <2>1. /\ state[e] # "closed" /\ state'[e] # "closed" /\ active' = active /\ running' = running
          /\ started' = started /\ signalled' = signalled
      BY <1>0, <1>9 DEF Opened, Greeted, Typed
    <2> QED
      BY <1>k, <2>1
  <1>10. CASE Emitted(e) \/ Listened(e) \/ Answered(e) \/ Refused(e) \/ Asked(e) \/ Broke(e)
    <2>1. /\ state' = state /\ active' = active /\ running' = running
          /\ started' = started /\ signalled' = signalled
      BY <1>10 DEF Emitted, Listened, Answered, Refused, Asked, Broke
    <2> QED
      BY <1>k, <2>1
  \* The head of the queue, when e reads it.
  <1>h. ASSUME Reads(e) PROVE 1 \in 1 .. Len(wire[e]) /\ FrameOK(e, wire[e][1])
    <2>1. 1 \in 1 .. Len(wire[e])
      BY <1>0, <1>h DEF Reads, Taken, Typed
    <2> QED
      BY <1>0, <2>1 DEF WireOK
  <1>11. CASE Noticed(e)
    <2>1. state' = state /\ active' = active /\ running' = running /\ started' = started
      BY <1>11 DEF Noticed
    <2>2. CASE signalled' = signalled
      BY <1>k, <2>1, <2>2
    <2>3. CASE signalled' # signalled
      <3>1. /\ Reads(e) /\ wire[e][1].type = "cancel"
            /\ signalled' = [signalled EXCEPT ![e] = @ \cup ({wire[e][1].id} \cap active[e])]
        BY <1>11, <2>3 DEF Noticed
      <3>2. \A id \in signalled'[e] : id \in signalled[e] \/ id = wire[e][1].id
        BY <1>0, <3>1 DEF Typed
      <3>3. wire[e][1].id # 0 /\ GaveUp(Other(e), wire[e][1].id)
        BY <1>h, <3>1 DEF FrameOK
      <3> QED
        BY <1>k, <2>1, <3>2, <3>3
    <2> QED
      BY <2>2, <2>3
  <1>12. CASE Accepted(e)
    <2> DEFINE id == wire[e][1].id
    <2>1. /\ Reads(e) /\ wire[e][1].type = "req" /\ state[e] = "ready" /\ state' = state
          /\ signalled' = signalled
          /\ active'[e] = active[e] \cup {id} /\ running'[e] = running[e] \cup {id}
          /\ started'[e] = started[e] \cup {id}
          /\ ~(Cardinality(active[e]) >= conf[e].maxInFlight)
      BY <1>0, <1>12 DEF Accepted, Typed
    <2>2. id \in 1 .. requestSequence'[Other(e)]
      BY <1>3, <1>h, <2>1 DEF FrameOK
    <2>3. IsFiniteSet(active[e])
      BY <1>0, <2>1 DEF ServeOK
    <2>4. /\ IsFiniteSet(active[e] \cup {id}) /\ Cardinality(active[e]) \in Nat
          /\ Cardinality(active[e] \cup {id}) \in {Cardinality(active[e]), Cardinality(active[e]) + 1}
      BY <2>3, FS_AddElement, FS_CardinalityType
    <2>5. Cardinality(active'[e]) <= conf'[e].maxInFlight /\ IsFiniteSet(active'[e])
      BY <1>2, <2>1, <2>4
    <2>6. \A x \in signalled'[e] : x # 0 /\ GaveUp(Other(e), x)'
      BY <1>0, <1>5, <2>1 DEF ServeOK
    <2>7. /\ running'[e] \subseteq started'[e] /\ active'[e] \subseteq started'[e]
          /\ started'[e] \subseteq 1 .. requestSequence'[Other(e)]
          /\ running'[e] = active'[e] /\ state'[e] # "closed"
      BY <1>0, <1>4, <2>1, <2>2 DEF ServeOK
    <2> QED
      BY <2>5, <2>6, <2>7 DEF ServeOK
  <1>13. CASE Settles(e)
    <2>1. PICK id \in running[e] :
            /\ active' = [active EXCEPT ![e] = @ \ {id}]
            /\ running' = [running EXCEPT ![e] = @ \ {id}]
            /\ signalled' = [signalled EXCEPT ![e] = @ \ {id}]
      BY <1>13 DEF Settles
    <2>2. /\ state' = state /\ started' = started /\ active'[e] = active[e] \ {id}
          /\ running'[e] = running[e] \ {id} /\ signalled'[e] = signalled[e] \ {id}
      BY <1>0, <1>13, <2>1 DEF Settles, Typed
    <2>3. /\ running'[e] \subseteq started'[e] /\ active'[e] \subseteq started'[e]
          /\ started'[e] \subseteq 1 .. requestSequence'[Other(e)]
          /\ state'[e] = "closed" => active'[e] = {}
      BY <1>0, <1>4, <2>2 DEF ServeOK
    <2>4. ASSUME state[e] # "closed"
          PROVE  /\ running'[e] = active'[e] /\ IsFiniteSet(active'[e])
                 /\ Cardinality(active'[e]) <= conf'[e].maxInFlight
      <3>1. /\ running[e] = active[e] /\ IsFiniteSet(active[e])
            /\ Cardinality(active[e]) <= conf[e].maxInFlight
        BY <1>0, <2>4 DEF ServeOK
      <3>2. /\ IsFiniteSet(active[e] \ {id}) /\ Cardinality(active[e]) \in Nat
            /\ Cardinality(active[e] \ {id}) \in {Cardinality(active[e]), Cardinality(active[e]) - 1}
        BY <3>1, FS_RemoveElement, FS_CardinalityType
      <3>3. /\ active'[e] = active[e] \ {id} /\ conf'[e] = conf[e] /\ running'[e] = active'[e]
        BY <1>2, <2>2, <3>1
      <3> QED
        BY <1>2, <3>1, <3>2, <3>3
    <2>5. state[e] # "closed" => \A x \in signalled'[e] : x # 0 /\ GaveUp(Other(e), x)'
      BY <1>0, <1>5, <2>2 DEF ServeOK
    <2> QED
      BY <2>2, <2>3, <2>4, <2>5 DEF ServeOK
  <1> QED
    BY <1>1, <1>6, <1>7, <1>8, <1>9, <1>10, <1>11, <1>12, <1>13 DEF Shape

\* A caller that has a result has it from a handler that ran before this step.
LEMMA ResultsRan ==
    ASSUME TypeOK, RequestInv, PlaceInv, [Next]_vars, NEW p \in Peer, NEW c \in Call,
           call'[p][c].outcome = "result"
    PROVE  call'[p][c].id \in started[Other(p)]
  <1>1. Follows(p, call[p][c], call'[p][c]) /\ ResultOK(p) /\ WireOK(p)
    BY CallersKeep DEF PlaceInv
  <1>2. CASE call'[p][c] = call[p][c]
    BY <1>1, <1>2 DEF ResultOK
  <1>3. CASE call'[p][c] # call[p][c]
    <2>1. wire[p] # <<>> /\ wire[p][1].type = "res" /\ wire[p][1].id = call'[p][c].id
      BY <1>1, <1>3 DEF Follows
    <2>2. 1 \in 1 .. Len(wire[p])
      BY <2>1, EmptySeq, LenProperties DEF TypeOK
    <2> QED
      BY <1>1, <2>1, <2>2 DEF WireOK, FrameOK
  <1> QED
    BY <1>2, <1>3

\* A handler starts only for a request no handler was started for.
LEMMA StartsFresh ==
    ASSUME TypeOK, RequestInv, PlaceInv, [Next]_vars, NEW e \in Peer,
           NEW id \in running'[e] \ running[e]
    PROVE  id \notin started[e]
  <1>0. Typed /\ Other(e) \in Peer /\ Other(Other(e)) = e
    BY TypedHere, TwoEnds
  <1>1. (\E p \in Peer : Shape(p)) \/ Died \/ Idle
    BY StepShape DEF PlaceInv
  <1>2. CASE Died \/ Idle
    BY <1>2 DEF Died, Idle
  <1>3. ASSUME NEW p \in Peer, Shape(p), ~Accepted(p) PROVE FALSE
    <2>1. running' = running \/ Settles(p)
      BY <1>3 DEF Shape, Ended, Opened, Greeted, Noticed, Emitted, Listened, Answered, Refused,
                  Asked, Broke
    <2>2. running' = running \/ \E x : running' = [running EXCEPT ![p] = @ \ {x}]
      BY <2>1 DEF Settles
    <2> QED
      BY <1>0, <2>2 DEF Typed
  <1>4. ASSUME NEW p \in Peer, Accepted(p) PROVE id \notin started[e]
    <2>1. p = e /\ id = wire[e][1].id /\ Reads(e) /\ wire[e][1].type = "req"
      BY <1>0, <1>4 DEF Accepted, Typed
    <2>2. 1 \in 1 .. Len(wire[e])
      BY <1>0, <2>1 DEF Reads, Taken, Typed
    <2>3. PlaceOK(Other(e))
      BY <1>0 DEF PlaceInv
    <2> QED
      BY <1>0, <2>1, <2>2, <2>3 DEF PlaceOK
  <1> QED
    BY <1>1, <1>2, <1>3, <1>4

-----------------------------------------------------------------------------
(* The invariant holds, and what follows from it.                          *)

\* At first no end is ready and nothing is under way.
LEMMA PlaceInit == Init => PlaceInv
  <1> SUFFICES ASSUME Init, NEW p \in Peer
               PROVE  /\ HelloFirst(p) /\ Unready(p) /\ OutcomeOK(p)
                      /\ WireOK(p) /\ PlaceOK(p) /\ ServeOK(p) /\ ResultOK(p)
    BY DEF PlaceInv
  <1>1. /\ Other(p) \in Peer
        /\ \A q \in Peer : /\ state[q] = "new" /\ wire[q] = <<>> /\ Len(wire[q]) = 0
                           /\ requestSequence[q] = 0 /\ started[q] = {} /\ active[q] = {}
                           /\ running[q] = {} /\ signalled[q] = {}
                           /\ \A c \in Call : call[q][c] = NoCall
    BY TwoEnds DEF Init
  <1>2. \A q \in Peer : conf[q].maxInFlight \in Nat
    BY ConfigsTyped DEF Init, Config
  <1>3. HelloFirst(p) /\ Unready(p)
    BY <1>1 DEF HelloFirst, Unready
  <1>4. OutcomeOK(p) /\ ResultOK(p)
    BY <1>1 DEF OutcomeOK, ResultOK, NoCall
  <1>5. WireOK(p) /\ PlaceOK(p)
    BY <1>1 DEF WireOK, PlaceOK, OneRequest, OneAnswer, HasAnswer
  <1>6. IsFiniteSet({}) /\ Cardinality({}) = 0
    BY FS_EmptySet
  <1>7. ServeOK(p)
    <2>0. active[p] = {} /\ conf[p].maxInFlight \in Nat
      BY <1>1, <1>2
    <2>a. IsFiniteSet(active[p]) /\ Cardinality(active[p]) = 0
      BY <1>6, <2>0, Zenon
    <2>1. Cardinality(active[p]) <= conf[p].maxInFlight /\ IsFiniteSet(active[p])
      BY <2>0, <2>a
    <2> QED
      BY <1>1, <2>1 DEF ServeOK
  <1> QED
    BY <1>3, <1>4, <1>5, <1>7

\* Every step keeps the invariant.
LEMMA PlacePreserved ==
    ASSUME TypeOK, TypeOK', RequestInv, KnowledgeInv, HandshakeAgreement, PlaceInv, [Next]_vars
    PROVE  PlaceInv'
  <1>1. Typed
    BY TypedHere
  <1>2. Typed'
    BY TypedHere, PTL
  <1>3. (\E p \in Peer : Shape(p)) \/ Died \/ Idle
    BY StepShape DEF PlaceInv
  <1> SUFFICES ASSUME NEW e \in Peer
               PROVE  /\ HelloFirst(e)' /\ Unready(e)' /\ OutcomeOK(e)'
                      /\ WireOK(e)' /\ PlaceOK(e)' /\ ServeOK(e)' /\ ResultOK(e)'
    BY DEF PlaceInv
  <1>4. HelloFirst(e)'
    <2>1. \A q \in Peer : HelloFirst(q) /\ Unready(q) /\ running[q] \subseteq started[q]
      BY DEF PlaceInv, ServeOK
    <2> QED
      BY <1>1, <1>2, <1>3, <2>1, HelloStep
  <1>5. Unready(e)'
    BY <1>1, <1>3, UnreadyStep DEF PlaceInv
  <1>6. OutcomeOK(e)'
    BY OutcomeStep DEF PlaceInv
  <1>7. WireOK(e)' /\ ServeOK(e)'
    BY WireStep, ServeStep
  <1>8. PlaceOK(e)'
    BY <1>1, <1>2, <1>3, PlaceStep
  <1>9. ResultOK(e)'
    <2>1. started[Other(e)] \subseteq started'[Other(e)]
      BY <1>1, <1>3, OnlyGrows, TwoEnds DEF PlaceInv
    <2>2. \A c \in Call : call'[e][c].outcome = "result" => call'[e][c].id \in started[Other(e)]
      BY ResultsRan
    <2> QED
      BY <2>1, <2>2 DEF ResultOK
  <1> QED
    BY <1>4, <1>5, <1>6, <1>7, <1>8, <1>9

\* The invariant holds in every state.
LEMMA PlaceAlways == Spec => []PlaceInv
  <1>1. HandshakeInv => KnowledgeInv
    BY DEF HandshakeInv
  <1>2. /\ TypeOK /\ TypeOK' /\ RequestInv /\ KnowledgeInv /\ HandshakeAgreement
        /\ PlaceInv /\ [Next]_vars
        => PlaceInv'
    BY PlacePreserved
  <1> QED
    BY <1>1, <1>2, PlaceInit, TypeCorrect, RequestAlways, HandshakeAlways, HandshakeSound, PTL DEF Spec

\* Between two ends that run this code no request is refused because it came
\* before the hello, reused an id or named a method the peer does not have
\* (#dispatch, #receiveHello, request).
THEOREM NobodyBreaksTheProtocol == Spec => []NoProtocolRefusal
  <1>1. PlaceInv => NoProtocolRefusal
    BY DEF PlaceInv, WireOK, FrameOK, NoProtocolRefusal
  <1> QED
    BY <1>1, PlaceAlways, PTL

\* An open session never runs more handlers than it announced, none outside its
\* table, and none it told to abort has a caller that still waits without having
\* given up (#dispatch, the cancel case of #receive).
THEOREM HandlersAreAccounted == Spec => []HandlersAccounted
  <1>1. PlaceInv => HandlersAccounted
    <2> SUFFICES ASSUME PlaceInv, NEW p \in Peer, state[p] # "closed"
                 PROVE  /\ running[p] = active[p]
                        /\ Cardinality(running[p]) <= conf[p].maxInFlight
                        /\ \A id \in signalled[p] : GaveUp(Other(p), id)
      BY DEF HandlersAccounted
    <2> QED
      BY DEF PlaceInv, ServeOK
  <1> QED
    BY <1>1, PlaceAlways, PTL

\* No request runs twice, and no caller gets a result that no handler of the
\* other end produced (#dispatch, #settle).
THEOREM HandlersRunAtMostOnce == Spec => HandlersRunOnce
  <1> DEFINE Once ==
        \A p \in Peer :
          /\ \A id \in running'[p] \ running[p] : id \notin started[p]
          /\ \A c \in Call : call'[p][c].outcome = "result" => call'[p][c].id \in started[Other(p)]
  <1>1. TypeOK /\ RequestInv /\ PlaceInv /\ [Next]_vars => Once
    BY StartsFresh, ResultsRan
  <1>2. HandlersRunOnce <=> [][Once]_vars
    BY DEF HandlersRunOnce
  <1> QED
    BY <1>1, <1>2, TypeCorrect, RequestAlways, PlaceAlways, PTL DEF Spec

-----------------------------------------------------------------------------
(* Nothing is forgotten while the connection is intact.                    *)

Somewhere(p) ==
    Intact => \A id \in pending[p] :
        HasRequest(wire[Other(p)], id) \/ id \in active[Other(p)] \/ HasAnswer(wire[p], id)

\* A connection does not become intact again.
LEMMA IntactBefore ==
    ASSUME Typed, NEW p \in Peer, Shape(p), Intact'
    PROVE  Intact /\ ~Ended(p) /\ ~Broke(p) /\ \A q \in Peer : port[q] = "open" /\ Reaches(q)
  <1>1. \A q \in Peer : port'[q] = "open" /\ state'[q] # "closed" /\ link' = "up"
    BY DEF Intact
  <1>2. ~Ended(p) /\ ~Broke(p)
    BY <1>1 DEF Ended, Broke, Typed
  <1>3. port' = port /\ link' = link
    BY <1>2 DEF Shape, Opened, Greeted, Noticed, Emitted, Listened, Answered, Refused, Accepted,
                Asked, Settles
  <1>4. \A q \in Peer : state[q] # "closed"
    <2>1. state' = state \/ Opened(p) \/ Greeted(p)
      BY <1>2 DEF Shape, Noticed, Emitted, Listened, Answered, Refused, Accepted, Asked, Settles
    <2> QED
      BY <1>1, <2>1 DEF Opened, Greeted, Typed
  <1>5. Intact
    BY <1>1, <1>3, <1>4 DEF Intact
  <1> QED
    BY <1>2, <1>5, TwoEnds DEF Intact, Reaches

\* An intact queue of the other end loses nothing.
LEMMA OtherQueueKeeps ==
    ASSUME Typed, Typed', NEW p \in Peer, Shape(p), Reaches(p), ~Ended(p), ~Broke(p), NEW id
    PROVE  /\ HasRequest(wire[Other(p)], id) => HasRequest(wire'[Other(p)], id)
           /\ HasAnswer(wire[Other(p)], id) => HasAnswer(wire'[Other(p)], id)
  <1> DEFINE e == Other(p)
             K == /\ HasRequest(wire[e], id) => HasRequest(wire'[e], id)
                  /\ HasAnswer(wire[e], id) => HasAnswer(wire'[e], id)
  <1>1. e \in Peer /\ wire[e] \in Seq(Frame) /\ wire'[e] \in Seq(Frame)
    BY TwoEnds DEF Typed
  <1>2. ASSUME NEW f, Joined(wire'[e], wire[e], f) PROVE K
    BY <1>1, <1>2, JoinedHolds
  <1>3. ASSUME NEW f, NEW g, NEW t \in Seq(Frame), Joined(t, wire[e], f), Joined(wire'[e], t, g)
        PROVE  K
    <2>1. /\ HasRequest(wire[e], id) => HasRequest(t, id)
          /\ HasAnswer(wire[e], id) => HasAnswer(t, id)
      BY <1>1, <1>3, JoinedHolds
    <2>2. /\ HasRequest(t, id) => HasRequest(wire'[e], id)
          /\ HasAnswer(t, id) => HasAnswer(wire'[e], id)
      BY <1>1, <1>3, JoinedHolds
    <2> QED
      BY <2>1, <2>2
  <1>4. CASE Silent(p)
    BY <1>4 DEF Silent
  <1>5. CASE \E f : Says(p, f)
    BY <1>2, <1>5 DEF Says
  <1>6. CASE \E f : Speaks(p, f)
    BY <1>2, <1>6 DEF Speaks
  <1>7. CASE Asked(p)
    BY <1>3, <1>4, <1>5, <1>7 DEF Asked
  <1>8. CASE ~Asked(p)
    <2>1. Silent(p) \/ (\E f : Says(p, f)) \/ (\E f : Speaks(p, f))
      BY <1>8 DEF Shape, Opened, Greeted, Noticed, Emitted, Listened, Answered, Refused, Accepted,
                  Settles
    <2> QED
      BY <1>4, <1>5, <1>6, <2>1
  <1> QED
    BY <1>7, <1>8

\* What an end reads from its own queue is dealt with.
LEMMA OwnQueueKeeps ==
    ASSUME Typed, Typed', NEW p \in Peer, Shape(p), ~Ended(p), ~Broke(p), NEW id
    PROVE  /\ HasRequest(wire[p], id) =>
                \/ HasRequest(wire'[p], id)
                \/ wire[p][1].id = id /\ (Refused(p) \/ Accepted(p))
           /\ HasAnswer(wire[p], id) =>
                \/ HasAnswer(wire'[p], id)
                \/ wire[p][1].id = id /\ Answered(p)
  <1>1. CASE wire'[p] = wire[p]
    BY <1>1
  <1>2. CASE wire'[p] # wire[p]
    <2>1. Reads(p)
      BY <1>2 DEF Shape, Opened, Greeted, Noticed, Emitted, Listened, Answered, Refused, Accepted,
                  Asked, Settles
    <2>2. /\ wire[p][1].type = "req" => Refused(p) \/ Accepted(p)
          /\ wire[p][1].type \in {"res", "err"} => Answered(p)
      BY <1>2 DEF Shape, Opened, Greeted, Noticed, Emitted, Listened, Answered, Refused, Accepted,
                  Asked, Settles
    <2>3. /\ HasRequest(wire[p], id) =>
                HasRequest(wire'[p], id) \/ (wire[p][1].type = "req" /\ wire[p][1].id = id)
          /\ HasAnswer(wire[p], id) =>
                HasAnswer(wire'[p], id) \/ (wire[p][1].type \in {"res", "err"} /\ wire[p][1].id = id)
      BY <2>1, TakenHolds DEF Reads, Typed
    <2> QED
      BY <2>2, <2>3
  <1> QED
    BY <1>1, <1>2

\* No request is forgotten, if the errors handlers cause fit the ceilings.
LEMMA SomewhereStep ==
    ASSUME TypeOK, Typed, Typed', PlaceInv, \A q \in Peer : Somewhere(q), ErrorsFit,
           conf \in [Peer -> Configs], (\E p \in Peer : Shape(p)) \/ Died \/ Idle, NEW r \in Peer
    PROVE  Somewhere(r)'
  <1> DEFINE s == Other(r)
  <1> SUFFICES ASSUME Intact', NEW id \in pending'[r]
               PROVE  HasRequest(wire'[s], id) \/ id \in active'[s] \/ HasAnswer(wire'[r], id)
    BY DEF Somewhere
  <1>s. /\ s \in Peer /\ s # r /\ Other(s) = r /\ wire[r] \in Seq(Frame) /\ wire'[r] \in Seq(Frame)
        /\ wire[s] \in Seq(Frame) /\ wire'[s] \in Seq(Frame)
        /\ \A p \in Peer : p = r \/ p = s
    BY TwoEnds DEF Typed
  <1>1. CASE Died
    BY <1>1, <1>s DEF Died, Intact
  <1>2. CASE Idle
    BY <1>2 DEF Idle, Intact, Somewhere
  \* The requester acts.
  <1>3. ASSUME Shape(r)
        PROVE  HasRequest(wire'[s], id) \/ id \in active'[s] \/ HasAnswer(wire'[r], id)
    <2>1. Intact /\ ~Ended(r) /\ ~Broke(r) /\ Reaches(r) /\ port[r] = "open"
      BY <1>3, IntactBefore
    <2>2. active'[s] = active[s]
      <3>1. active' = active \/ Accepted(r) \/ Settles(r)
        BY <1>3, <2>1 DEF Shape, Opened, Greeted, Noticed, Emitted, Listened, Answered, Refused, Asked
      <3> QED
        BY <1>s, <3>1 DEF Accepted, Settles, Typed
    <2>3. ASSUME id \in pending[r], ~(wire[r][1].id = id /\ Answered(r))
          PROVE  HasRequest(wire'[s], id) \/ id \in active'[s] \/ HasAnswer(wire'[r], id)
      <3>1. HasRequest(wire[s], id) \/ id \in active[s] \/ HasAnswer(wire[r], id)
        BY <2>1, <2>3 DEF Somewhere
      <3>2. HasRequest(wire[s], id) => HasRequest(wire'[s], id)
        BY <1>3, <2>1, OtherQueueKeeps
      <3>3. HasAnswer(wire[r], id) => HasAnswer(wire'[r], id)
        BY <1>3, <2>1, <2>3, OwnQueueKeeps
      <3> QED
        BY <2>2, <3>1, <3>2, <3>3
    <2>4. CASE Answered(r)
      <3>1. id \in pending[r] /\ id # wire[r][1].id
        BY <2>4 DEF Answered, Typed
      <3> QED
        BY <2>3, <3>1
    <2>5. CASE Asked(r) /\ id \notin pending[r]
      <3>1. PICK f \in Frame :
              /\ f.type = "req" /\ f.id = id
              /\ \/ Says(r, f)
                 \/ \E t \in Seq(Frame), g \in Frame : Joined(t, wire[s], f) /\ Joined(wire'[s], t, g)
        BY <2>5 DEF Asked, Typed
      <3>2. CASE Says(r, f)
        BY <1>s, <2>1, <3>1, <3>2, JoinedHolds DEF Says
      <3>3. ASSUME NEW t \in Seq(Frame), NEW g \in Frame, Joined(t, wire[s], f), Joined(wire'[s], t, g)
            PROVE  HasRequest(wire'[s], id)
        <4>1. HasRequest(t, id)
          BY <1>s, <3>1, <3>3, JoinedHolds
        <4> QED
          BY <1>s, <3>3, <4>1, JoinedHolds
      <3> QED
        BY <3>1, <3>2, <3>3
    <2>6. CASE ~Answered(r) /\ ~Asked(r)
      <3>1. pending'[r] \subseteq pending[r]
        BY <1>3, <2>1, <2>6 DEF Shape, Opened, Greeted, Noticed, Emitted, Listened, Refused,
                                Accepted, Settles
      <3> QED
        BY <2>3, <2>6, <3>1
    <2>7. CASE Asked(r) /\ id \in pending[r] /\ ~Answered(r)
      BY <2>3, <2>7
    <2> QED
      BY <2>4, <2>5, <2>6, <2>7
  \* The other end acts.
  <1>4. ASSUME Shape(s)
        PROVE  HasRequest(wire'[s], id) \/ id \in active'[s] \/ HasAnswer(wire'[r], id)
    <2>1. Intact /\ ~Ended(s) /\ ~Broke(s) /\ Reaches(s) /\ port[s] = "open" /\ state[s] # "closed"
      BY <1>4, <1>s, IntactBefore DEF Intact
    <2>2. id \in pending[r]
      <3>1. pending'[r] \subseteq pending[r]
        <4>1. CASE Asked(s)
          BY <1>s, <4>1 DEF Asked, Typed
        <4>2. CASE Answered(s)
          BY <1>s, <4>2 DEF Answered, Typed
        <4>3. CASE ~Asked(s) /\ ~Answered(s)
          BY <1>4, <1>s, <2>1, <4>3 DEF Shape, Opened, Greeted, Noticed, Emitted, Listened, Refused,
                                        Accepted, Settles
        <4> QED
          BY <4>1, <4>2, <4>3
      <3> QED
        BY <3>1
    <2>3. HasRequest(wire[s], id) \/ id \in active[s] \/ HasAnswer(wire[r], id)
      BY <2>1, <2>2 DEF Somewhere
    <2>4. HasAnswer(wire[r], id) => HasAnswer(wire'[r], id)
      BY <1>4, <1>s, <2>1, OtherQueueKeeps
    <2>5. CASE HasRequest(wire[s], id)
      <3>1. CASE HasRequest(wire'[s], id)
        BY <3>1
      <3>2. CASE Accepted(s) /\ wire[s][1].id = id
        BY <1>s, <3>2 DEF Accepted, Typed
      <3>3. CASE Refused(s) /\ wire[s][1].id = id
        <4>1. PICK f \in Frame : f.type = "err" /\ f.id = id /\ Says(s, f)
          BY <3>3 DEF Refused
        <4>2. Joined(wire'[r], wire[r], f)
          BY <1>s, <2>1, <4>1 DEF Says
        <4> QED
          BY <1>s, <4>1, <4>2, JoinedHolds
      <3> QED
        BY <1>4, <1>s, <2>1, <2>5, <3>1, <3>2, <3>3, OwnQueueKeeps
    <2>6. CASE id \in active[s]
      <3>1. CASE Settles(s)
        <4>1. PICK x \in running[s], f \in Frame :
                /\ active' = [active EXCEPT ![s] = @ \ {x}]
                /\ f.type \in {"res", "err"} /\ f.id = x
                /\ f.size <= conf[s].maxFrame \/ f.size \in ErrorSizes
                /\ IF state[s] # "closed" /\ Sendable(s, f) THEN Says(s, f) ELSE Silent(s)
          BY <3>1 DEF Settles
        <4>2. CASE x # id
          BY <1>s, <2>6, <4>1, <4>2 DEF Typed
        <4>3. CASE x = id
          <5>1. f.size <= conf[s].maxFrame
            BY <1>s, <4>1 DEF ErrorsFit
          <5>2. Joined(wire'[r], wire[r], f)
            BY <1>s, <2>1, <4>1, <5>1 DEF Sendable, Says
          <5> QED
            BY <1>s, <4>1, <4>3, <5>2, JoinedHolds
        <4> QED
          BY <4>2, <4>3
      <3>2. CASE ~Settles(s)
        <4>1. active' = active \/ Accepted(s)
          BY <1>4, <2>1, <3>2 DEF Shape, Opened, Greeted, Noticed, Emitted, Listened, Answered,
                                  Refused, Asked
        <4> QED
          BY <1>s, <2>6, <4>1 DEF Accepted, Typed
      <3> QED
        BY <3>1, <3>2
    <2> QED
      BY <2>3, <2>4, <2>5, <2>6
  <1> QED
    BY <1>1, <1>2, <1>3, <1>4, <1>s

\* A set without two different elements has at most one.
LEMMA AtMostOne ==
    ASSUME NEW S, \A i, j \in S : i = j
    PROVE  /\ Cardinality(S) \in Nat /\ Cardinality(S) <= 1
           /\ Cardinality(S) = 0 <=> S = {}
  <1>1. CASE S = {}
    BY <1>1, FS_EmptySet
  <1>2. ASSUME NEW i \in S PROVE Cardinality(S) = 1
    <2>1. S = {i}
      BY <1>2
    <2> QED
      BY <2>1, FS_Singleton
  <1> QED
    BY <1>1, <1>2

\* The copies of a request of p: none or one, and none only if it is nowhere.
LEMMA CopiesOf ==
    ASSUME Typed, PlaceInv, NEW p \in Peer, NEW id
    PROVE  /\ Copies(p, id) \in {0, 1}
           /\ HasRequest(wire[Other(p)], id) \/ id \in active[Other(p)] \/ HasAnswer(wire[p], id)
              => Copies(p, id) = 1
  <1> DEFINE R == ReqsOnWire(Other(p), id)
             A == AnswersOnWire(p, id)
  <1>1. Other(p) \in Peer /\ PlaceOK(p) /\ active[Other(p)] \subseteq started[Other(p)]
    BY TwoEnds DEF PlaceInv, ServeOK
  <1>2. R # {} <=> HasRequest(wire[Other(p)], id)
    BY DEF ReqsOnWire, HasRequest
  <1>3. A # {} <=> HasAnswer(wire[p], id)
    BY DEF AnswersOnWire, HasAnswer
  <1>4. \A i, j \in R : i = j
    BY <1>1 DEF PlaceOK, OneRequest, ReqsOnWire
  <1>5. \A i, j \in A : i = j
    BY <1>1 DEF PlaceOK, OneAnswer, AnswersOnWire
  <1>6. HasRequest(wire[Other(p)], id) => id \notin active[Other(p)] /\ ~HasAnswer(wire[p], id)
    BY <1>1, PlaceHas
  <1>7. id \in active[Other(p)] => ~HasAnswer(wire[p], id)
    BY <1>1 DEF PlaceOK
  <1>8. /\ Cardinality(R) \in Nat /\ Cardinality(R) <= 1 /\ (Cardinality(R) = 0 <=> R = {})
        /\ Cardinality(A) \in Nat /\ Cardinality(A) <= 1 /\ (Cardinality(A) = 0 <=> A = {})
    BY <1>4, <1>5, AtMostOne
  <1>9. Copies(p, id) = Cardinality(R) + (IF id \in active[Other(p)] THEN 1 ELSE 0) + Cardinality(A)
    BY DEF Copies
  <1> HIDE DEF R, A
  <1> QED
    BY <1>2, <1>3, <1>6, <1>7, <1>8, <1>9

\* As long as the errors that handlers cause fit, a request is in one place: on
\* its way, being handled, or answered, and a pending one is somewhere while the
\* connection is intact (#dispatch, #settle, request).  Without that condition
\* an answer can be lost: see the run session_lost_answer.
THEOREM OnePlace == Spec /\ ErrorsFit => []RequestInOnePlace
  <1> DEFINE C == conf \in [Peer -> Configs]
             S == \A p \in Peer : Somewhere(p)
  <1>1. Init => C /\ S
    BY TwoEnds DEF Init, Somewhere
  <1>2. C /\ [Next]_vars => C'
    BY ConfConstant
  <1>3. ErrorsFit /\ [Next]_vars => ErrorsFit'
    BY DEF ErrorsFit
  <1>4. ASSUME TypeOK, TypeOK', RequestInv, PlaceInv, ErrorsFit, C, S, [Next]_vars PROVE S'
    <2>1. Typed /\ Typed'
      <3>1. Typed
        BY <1>4, TypedHere
      <3>2. Typed'
        BY <1>4, TypedHere, PTL
      <3> QED
        BY <3>1, <3>2
    <2>2. (\E p \in Peer : Shape(p)) \/ Died \/ Idle
      BY <1>4, StepShape DEF PlaceInv
    <2>3. ASSUME NEW r \in Peer PROVE Somewhere(r)'
      BY <1>4, <2>1, <2>2, SomewhereStep
    <2> QED
      BY <2>3
  <1>5. TypeOK /\ PlaceInv /\ S => RequestInOnePlace
    <2> SUFFICES ASSUME TypeOK, PlaceInv, S, NEW p \in Peer, NEW id \in 1 .. requestSequence[p]
                 PROVE  /\ Copies(p, id) <= 1
                        /\ Intact /\ id \in pending[p] => Copies(p, id) = 1
      BY DEF RequestInOnePlace
    <2>1. Copies(p, id) \in {0, 1}
      BY TypedHere, CopiesOf
    <2>2. Copies(p, id) <= 1
      BY <2>1
    <2>3. ASSUME Intact, id \in pending[p] PROVE Copies(p, id) = 1
      <3>1. HasRequest(wire[Other(p)], id) \/ id \in active[Other(p)] \/ HasAnswer(wire[p], id)
        BY <2>3 DEF Somewhere
      <3> QED
        BY <3>1, TypedHere, CopiesOf
    <2> QED
      BY <2>2, <2>3
  <1> HIDE DEF C, S
  <1> QED
    BY <1>1, <1>2, <1>3, <1>4, <1>5, TypeCorrect, RequestAlways, PlaceAlways, PTL DEF Spec

\* A request is never executed or answered in two places at once, whatever the
\* sizes of the errors handlers cause.
NeverTwice == \A p \in Peer : \A id \in 1 .. requestSequence[p] : Copies(p, id) <= 1

\* That part of it needs no condition (#dispatch, #settle, request).
THEOREM NeverInTwoPlaces == Spec => []NeverTwice
  <1>1. TypeOK /\ PlaceInv => NeverTwice
    <2> SUFFICES ASSUME TypeOK, PlaceInv, NEW p \in Peer, NEW id \in 1 .. requestSequence[p]
                 PROVE  Copies(p, id) <= 1
      BY DEF NeverTwice
    <2>1. Copies(p, id) \in {0, 1}
      BY TypedHere, CopiesOf
    <2> QED
      BY <2>1
  <1> QED
    BY <1>1, PlaceAlways, TypeCorrect, PTL

-----------------------------------------------------------------------------
(* Events are heard in order.                                              *)

LastOf(s, k, i) == OfStream(s[i], k) /\ \A n \in i + 1 .. Len(s) : ~OfStream(s[n], k)
\* Whoever has read the queue, from h on, expects event n of stream k.
LeadsTo(s, k, h, n) ==
    /\ \A i \in 1 .. Len(s) : LastOf(s, k, i) => n = SequenceAfter(s[i].seq, s[i].end)
    /\ (\A i \in 1 .. Len(s) : ~OfStream(s[i], k)) => n = h

\* A frame that joins the queue, if it is an event of the stream the next one.
LEMMA GapJoined ==
    ASSUME NEW s \in Seq(Frame), NEW t \in Seq(Frame), NEW f, Joined(t, s, f), NEW k, NEW h,
           GapFree(s, k, h), OfStream(f, k) => LeadsTo(s, k, h, f.seq)
    PROVE  /\ GapFree(t, k, h)
           /\ OfStream(f, k) => LeadsTo(t, k, h, SequenceAfter(f.seq, f.end))
           /\ ~OfStream(f, k) => \A n : LeadsTo(s, k, h, n) => LeadsTo(t, k, h, n)
  <1>1. Len(s) \in Nat /\ Len(t) = Len(s) + 1
    BY LenProperties DEF Joined
  <1>2. \A i \in 1 .. Len(t) : (i \in 1 .. Len(s) /\ t[i] = s[i]) \/ (i = Len(s) + 1 /\ t[i] = f)
    BY <1>1 DEF Joined
  <1>3. \A i \in 1 .. Len(s) : i \in 1 .. Len(t) /\ t[i] = s[i]
    BY <1>1 DEF Joined
  <1>4. Len(s) + 1 \in 1 .. Len(t) /\ t[Len(s) + 1] = f
    BY <1>1 DEF Joined
  <1>5. ASSUME NEW i \in 1 .. Len(t), FirstOf(t, k, i) PROVE t[i].seq = h
    <2>1. CASE i \in 1 .. Len(s)
      <3>1. \A n \in 1 .. i - 1 : n \in 1 .. Len(s) /\ t[n] = s[n]
        BY <1>1, <1>3, <2>1
      <3>2. FirstOf(s, k, i)
        BY <1>3, <1>5, <2>1, <3>1 DEF FirstOf
      <3> QED
        BY <1>3, <2>1, <3>2 DEF GapFree
    <2>2. CASE i = Len(s) + 1
      <3>1. OfStream(f, k) /\ \A n \in 1 .. Len(s) : ~OfStream(t[n], k)
        BY <1>1, <1>4, <1>5, <2>2 DEF FirstOf
      <3>2. \A n \in 1 .. Len(s) : ~OfStream(s[n], k)
        BY <1>3, <3>1
      <3> QED
        BY <1>4, <2>2, <3>1, <3>2 DEF LeadsTo
    <2> QED
      BY <1>2, <2>1, <2>2
  <1>6. ASSUME NEW i \in 1 .. Len(t), NEW j \in 1 .. Len(t), NextOf(t, k, i, j)
        PROVE  t[j].seq = SequenceAfter(t[i].seq, t[i].end)
    <2>0. i < j /\ i \in 1 .. Len(s)
      BY <1>1, <1>6 DEF NextOf
    <2>1. CASE j \in 1 .. Len(s)
      <3>1. \A n \in i + 1 .. j - 1 : n \in 1 .. Len(s) /\ t[n] = s[n]
        BY <1>1, <1>3, <2>0, <2>1
      <3>2. NextOf(s, k, i, j)
        BY <1>3, <1>6, <2>0, <2>1, <3>1 DEF NextOf
      <3> QED
        BY <1>3, <2>0, <2>1, <3>2 DEF GapFree
    <2>2. CASE j = Len(s) + 1
      <3>1. /\ OfStream(f, k) /\ OfStream(s[i], k)
            /\ \A n \in i + 1 .. Len(s) : ~OfStream(t[n], k)
        BY <1>1, <1>3, <1>4, <1>6, <2>0, <2>2 DEF NextOf
      <3>2. \A n \in i + 1 .. Len(s) : ~OfStream(s[n], k)
        BY <1>1, <1>3, <2>0, <3>1
      <3>3. LastOf(s, k, i)
        BY <3>1, <3>2 DEF LastOf
      <3> QED
        BY <1>3, <1>4, <2>0, <2>2, <3>1, <3>3 DEF LeadsTo
    <2> QED
      BY <1>2, <2>1, <2>2
  <1>7. ASSUME OfStream(f, k) PROVE LeadsTo(t, k, h, SequenceAfter(f.seq, f.end))
    <2>1. \A i \in 1 .. Len(t) : LastOf(t, k, i) => i = Len(s) + 1
      <3> SUFFICES ASSUME NEW i \in 1 .. Len(t), LastOf(t, k, i), i # Len(s) + 1 PROVE FALSE
        OBVIOUS
      <3>1. Len(s) + 1 \in i + 1 .. Len(t)
        BY <1>1
      <3> QED
        BY <1>4, <1>7, <3>1 DEF LastOf
    <2>2. ~\A i \in 1 .. Len(t) : ~OfStream(t[i], k)
      BY <1>4, <1>7
    <2> QED
      BY <1>4, <2>1, <2>2 DEF LeadsTo
  <1>8. ASSUME ~OfStream(f, k), NEW n, LeadsTo(s, k, h, n) PROVE LeadsTo(t, k, h, n)
    <2>1. ASSUME NEW i \in 1 .. Len(t), LastOf(t, k, i)
          PROVE  n = SequenceAfter(t[i].seq, t[i].end)
      <3>1. i \in 1 .. Len(s) /\ t[i] = s[i]
        BY <1>2, <1>8, <2>1 DEF LastOf
      <3>2. \A m \in i + 1 .. Len(s) : m \in i + 1 .. Len(t) /\ m \in 1 .. Len(s)
        BY <1>1, <3>1
      <3>3. LastOf(s, k, i)
        BY <1>3, <2>1, <3>1, <3>2 DEF LastOf
      <3> QED
        BY <1>8, <3>1, <3>3 DEF LeadsTo
    <2>2. (\A i \in 1 .. Len(t) : ~OfStream(t[i], k)) => \A i \in 1 .. Len(s) : ~OfStream(s[i], k)
      BY <1>3
    <2> QED
      BY <1>8, <2>1, <2>2 DEF LeadsTo
  <1> QED
    BY <1>5, <1>6, <1>7, <1>8 DEF GapFree

\* Reading the first frame, an event of the stream or not.
LEMMA GapTaken ==
    ASSUME NEW s \in Seq(Frame), NEW t \in Seq(Frame), Taken(t, s), NEW k, NEW h, NEW g,
           GapFree(s, k, h),
           g = IF OfStream(s[1], k) THEN SequenceAfter(s[1].seq, s[1].end) ELSE h
    PROVE  GapFree(t, k, g) /\ \A n : LeadsTo(s, k, h, n) => LeadsTo(t, k, g, n)
  <1>1. Len(s) \in Nat /\ Len(t) \in Nat /\ Len(t) = Len(s) - 1 /\ 1 \in 1 .. Len(s)
    BY LenProperties DEF Taken
  <1>2. \A i \in 1 .. Len(t) : i + 1 \in 1 .. Len(s) /\ t[i] = s[i + 1]
    BY <1>1 DEF Taken
  <1>3. ASSUME NEW i \in 1 .. Len(t), FirstOf(t, k, i) PROVE t[i].seq = g
    <2>1. \A n \in 2 .. (i + 1) - 1 : ~OfStream(s[n], k)
      <3> SUFFICES ASSUME NEW n \in 2 .. (i + 1) - 1 PROVE ~OfStream(s[n], k)
        OBVIOUS
      <3>1. n - 1 \in 1 .. i - 1 /\ n - 1 \in 1 .. Len(t) /\ (n - 1) + 1 = n
        BY <1>1
      <3> QED
        BY <1>2, <1>3, <3>1 DEF FirstOf
    <2>2. OfStream(s[i + 1], k) /\ t[i] = s[i + 1] /\ i + 1 \in 1 .. Len(s)
      BY <1>2, <1>3 DEF FirstOf
    <2>3. CASE OfStream(s[1], k)
      <3>1. 1 < i + 1 /\ 1 + 1 = 2
        BY <1>1
      <3>2. NextOf(s, k, 1, i + 1)
        BY <2>1, <2>2, <2>3, <3>1 DEF NextOf
      <3> QED
        BY <1>1, <2>2, <2>3, <3>2 DEF GapFree
    <2>4. CASE ~OfStream(s[1], k)
      <3>1. \A n \in 1 .. (i + 1) - 1 : n = 1 \/ n \in 2 .. (i + 1) - 1
        BY <1>1
      <3>2. FirstOf(s, k, i + 1)
        BY <2>1, <2>2, <2>4, <3>1 DEF FirstOf
      <3> QED
        BY <2>2, <2>4, <3>2 DEF GapFree
    <2> QED
      BY <2>3, <2>4
  <1>4. ASSUME NEW i \in 1 .. Len(t), NEW j \in 1 .. Len(t), NextOf(t, k, i, j)
        PROVE  t[j].seq = SequenceAfter(t[i].seq, t[i].end)
    <2>1. \A n \in (i + 1) + 1 .. (j + 1) - 1 : ~OfStream(s[n], k)
      <3> SUFFICES ASSUME NEW n \in (i + 1) + 1 .. (j + 1) - 1 PROVE ~OfStream(s[n], k)
        OBVIOUS
      <3>1. n - 1 \in i + 1 .. j - 1 /\ n - 1 \in 1 .. Len(t) /\ (n - 1) + 1 = n
        BY <1>1
      <3> QED
        BY <1>2, <1>4, <3>1 DEF NextOf
    <2>2. i + 1 < j + 1
      BY <1>1, <1>4 DEF NextOf
    <2>3. NextOf(s, k, i + 1, j + 1)
      BY <1>2, <1>4, <2>1, <2>2 DEF NextOf
    <2> QED
      BY <1>2, <2>3 DEF GapFree
  <1>5. ASSUME NEW n, LeadsTo(s, k, h, n) PROVE LeadsTo(t, k, g, n)
    <2>1. ASSUME NEW i \in 1 .. Len(t), LastOf(t, k, i)
          PROVE  n = SequenceAfter(t[i].seq, t[i].end)
      <3>1. \A m \in (i + 1) + 1 .. Len(s) : ~OfStream(s[m], k)
        <4> SUFFICES ASSUME NEW m \in (i + 1) + 1 .. Len(s) PROVE ~OfStream(s[m], k)
          OBVIOUS
        <4>1. m - 1 \in i + 1 .. Len(t) /\ m - 1 \in 1 .. Len(t) /\ (m - 1) + 1 = m
          BY <1>1
        <4> QED
          BY <1>2, <2>1, <4>1 DEF LastOf
      <3>2. LastOf(s, k, i + 1)
        BY <1>2, <2>1, <3>1 DEF LastOf
      <3> QED
        BY <1>2, <1>5, <3>2 DEF LeadsTo
    <2>2. ASSUME \A i \in 1 .. Len(t) : ~OfStream(t[i], k) PROVE n = g
      <3>1. \A m \in 1 + 1 .. Len(s) : ~OfStream(s[m], k)
        <4> SUFFICES ASSUME NEW m \in 1 + 1 .. Len(s) PROVE ~OfStream(s[m], k)
          OBVIOUS
        <4>1. m - 1 \in 1 .. Len(t) /\ (m - 1) + 1 = m
          BY <1>1
        <4> QED
          BY <1>2, <2>2, <4>1
      <3>2. CASE OfStream(s[1], k)
        <4>1. LastOf(s, k, 1)
          BY <3>1, <3>2 DEF LastOf
        <4> QED
          BY <1>1, <1>5, <3>2, <4>1 DEF LeadsTo
      <3>3. CASE ~OfStream(s[1], k)
        <4>1. \A m \in 1 .. Len(s) : m = 1 \/ m \in 1 + 1 .. Len(s)
          BY <1>1
        <4>2. \A m \in 1 .. Len(s) : ~OfStream(s[m], k)
          BY <3>1, <3>3, <4>1
        <4> QED
          BY <1>5, <3>3, <4>2 DEF LeadsTo
      <3> QED
        BY <3>2, <3>3
    <2> QED
      BY <2>1, <2>2 DEF LeadsTo
  <1> QED
    BY <1>3, <1>4, <1>5 DEF GapFree

\* What is left when the end of a queue is lost.
LEMMA GapPrefix ==
    ASSUME NEW s \in Seq(Frame), NEW t \in Seq(Frame), Len(t) <= Len(s),
           \A i \in 1 .. Len(t) : t[i] = s[i], NEW k, NEW h, GapFree(s, k, h)
    PROVE  GapFree(t, k, h)
  <1>1. Len(s) \in Nat /\ Len(t) \in Nat /\ \A i \in 1 .. Len(t) : i \in 1 .. Len(s)
    BY LenProperties
  <1>2. ASSUME NEW i \in 1 .. Len(t), FirstOf(t, k, i) PROVE t[i].seq = h
    <2>1. \A n \in 1 .. i - 1 : n \in 1 .. Len(t)
      BY <1>1
    <2>2. FirstOf(s, k, i)
      BY <1>2, <2>1 DEF FirstOf
    <2> QED
      BY <1>1, <2>2 DEF GapFree
  <1>3. ASSUME NEW i \in 1 .. Len(t), NEW j \in 1 .. Len(t), NextOf(t, k, i, j)
        PROVE  t[j].seq = SequenceAfter(t[i].seq, t[i].end)
    <2>1. \A n \in i + 1 .. j - 1 : n \in 1 .. Len(t)
      BY <1>1
    <2>2. NextOf(s, k, i, j)
      BY <1>3, <2>1 DEF NextOf
    <2> QED
      BY <1>1, <2>2 DEF GapFree
  <1> QED
    BY <1>2, <1>3 DEF GapFree

\* Both ends are up as far as the sender can tell.
Connected(e) == state[Other(e)] # "closed" /\ port[Other(e)] = "open" /\ port[e] = "open" /\ link = "up"
\* What is on its way to e goes on from what e heard, and, while nothing is
\* lost, up to what the other end will send next.
StreamOK(e) ==
    state[e] # "closed" => \A k \in StreamKey :
        /\ GapFree(wire[e], k, heard[e][k])
        /\ Connected(e) => LeadsTo(wire[e], k, heard[e][k], streams[Other(e)][k])

\* An event is read by an end that is ready: the hello comes first.
LEMMA ListenersReady ==
    ASSUME Typed, NEW p \in Peer, HelloFirst(p), Listened(p)
    PROVE  /\ state[p] = "ready"
           /\ heard' = [heard EXCEPT ![p][wire[p][1].key] = SequenceAfter(wire[p][1].seq, wire[p][1].end)]
  <1>1. /\ Live(p) /\ Len(wire[p]) > 0 /\ wire[p][1].type = "evt"
    BY DEF Listened, Reads, Taken
  <1>2. state[p] # "handshaking"
    BY <1>1 DEF HelloFirst, Typed
  <1> QED
    BY <1>1, <1>2 DEF Live, Listened

\* An empty queue is in order.
LEMMA GapEmpty == ASSUME NEW k, NEW h PROVE GapFree(<<>>, k, h)
  <1>1. Len(<<>>) = 0 /\ 1 .. 0 = {}
    OBVIOUS
  <1> QED
    BY <1>1 DEF GapFree

\* Every step keeps the streams in order.
LEMMA StreamStep ==
    ASSUME Typed, Typed', \A q \in Peer : HelloFirst(q) /\ StreamOK(q),
           (\E p \in Peer : Shape(p)) \/ Died \/ Idle, NEW e \in Peer
    PROVE  StreamOK(e)'
  <1> DEFINE q == Other(e)
  <1>e. /\ q \in Peer /\ q # e /\ Other(q) = e /\ \A p \in Peer : p = e \/ p = q
        /\ wire[e] \in Seq(Frame) /\ wire'[e] \in Seq(Frame)
    BY TwoEnds DEF Typed
  <1>1. CASE Died
    <2>1. wire'[e] = <<>> /\ link' = "dead"
      BY <1>1 DEF Died
    <2> QED
      BY <2>1, GapEmpty DEF StreamOK, Connected
  <1>2. CASE Idle
    <2>1. StreamOK(e)
      OBVIOUS
    <2> QED
      BY <1>2, <2>1 DEF Idle, StreamOK, Connected
  <1>3. ASSUME NEW p \in Peer, Shape(p) PROVE StreamOK(e)'
    <2> SUFFICES ASSUME state'[e] # "closed", NEW k \in StreamKey
                 PROVE  /\ GapFree(wire'[e], k, heard'[e][k])
                        /\ Connected(e)' => LeadsTo(wire'[e], k, heard'[e][k], streams'[q][k])
      BY DEF StreamOK
    <2> DEFINE Goal == /\ GapFree(wire'[e], k, heard'[e][k])
                       /\ Connected(e)' => LeadsTo(wire'[e], k, heard'[e][k], streams'[q][k])
    <2>0. state[e] # "closed"
      <3>1. CASE Ended(p) \/ Opened(p) \/ Greeted(p)
        BY <3>1 DEF Ended, Opened, Greeted, Typed
      <3>2. CASE ~Ended(p) /\ ~Opened(p) /\ ~Greeted(p)
        BY <1>3, <3>2 DEF Shape, Noticed, Emitted, Listened, Answered, Refused, Accepted, Asked,
                          Settles, Broke
      <3> QED
        BY <3>1, <3>2
    <2>1. /\ GapFree(wire[e], k, heard[e][k])
          /\ Connected(e) => LeadsTo(wire[e], k, heard[e][k], streams[q][k])
      BY <2>0 DEF StreamOK
    <2>s. ASSUME wire'[e] = wire[e], heard'[e][k] = heard[e][k], streams'[q][k] = streams[q][k],
                 Connected(e)' => Connected(e)
          PROVE  Goal
      BY <2>1, <2>s
    \* A frame that is no event joins the queue.
    <2>j. ASSUME NEW f, Joined(wire'[e], wire[e], f), f.type # "evt", heard'[e][k] = heard[e][k],
                 Connected(e)' => Connected(e) /\ streams'[q][k] = streams[q][k]
          PROVE  Goal
      <3>1. ~OfStream(f, k)
        BY <2>j DEF OfStream
      <3>2. /\ GapFree(wire'[e], k, heard[e][k])
            /\ \A n : LeadsTo(wire[e], k, heard[e][k], n) => LeadsTo(wire'[e], k, heard[e][k], n)
        BY <1>e, <2>1, <2>j, <3>1, GapJoined
      <3> QED
        BY <2>1, <2>j, <3>2
    <2>4. CASE p = e
      <3>0. ~Ended(e)
        BY <1>3, <2>4 DEF Ended, Typed
      <3>1. CASE Opened(e) \/ Asked(e) \/ Settles(e)
        <4>1. /\ wire'[e] = wire[e] /\ heard' = heard /\ streams' = streams /\ port' = port
              /\ link' = link /\ state'[q] = state[q]
          BY <1>e, <3>1 DEF Opened, Asked, Settles, Typed
        <4> QED
          BY <2>s, <4>1 DEF Connected
      <3>2. CASE Emitted(e)
        <4>1. /\ wire'[e] = wire[e] /\ heard' = heard /\ port' = port /\ link' = link /\ state' = state
              /\ streams'[q] = streams[q]
          BY <1>e, <3>2 DEF Emitted, Typed
        <4> QED
          BY <2>s, <4>1 DEF Connected
      <3>3. ASSUME Reads(e), wire[e][1].type # "evt", heard' = heard, streams' = streams,
                   port' = port, link' = link, state'[q] = state[q]
            PROVE  Goal
        <4>1. ~OfStream(wire[e][1], k) /\ Taken(wire'[e], wire[e])
          BY <3>3 DEF OfStream, Reads
        <4>2. /\ GapFree(wire'[e], k, heard[e][k])
              /\ \A n : LeadsTo(wire[e], k, heard[e][k], n) => LeadsTo(wire'[e], k, heard[e][k], n)
          BY <1>e, <2>1, <4>1, GapTaken
        <4>3. Connected(e)' => Connected(e)
          BY <3>3 DEF Connected
        <4> QED
          BY <2>1, <3>3, <4>2, <4>3
      <3>4. CASE Greeted(e) \/ Answered(e) \/ Refused(e) \/ Accepted(e)
        <4>1. /\ Reads(e) /\ wire[e][1].type # "evt" /\ heard' = heard /\ streams' = streams
              /\ port' = port /\ link' = link /\ state'[q] = state[q]
          BY <1>e, <3>4 DEF Greeted, Answered, Refused, Accepted, Typed
        <4> QED
          BY <3>3, <4>1
      <3>5. CASE Noticed(e)
        <4>1. /\ heard' = heard /\ streams' = streams /\ port' = port /\ link' = link /\ state' = state
              /\ wire'[e] = wire[e] \/ (Reads(e) /\ wire[e][1].type # "evt")
          BY <3>5 DEF Noticed
        <4>2. CASE wire'[e] = wire[e]
          BY <2>s, <4>1, <4>2 DEF Connected
        <4> QED
          BY <3>3, <4>1, <4>2
      <3>6. CASE Listened(e)
        <4> DEFINE f == wire[e][1]
        <4>1. /\ Taken(wire'[e], wire[e]) /\ f.type = "evt" /\ f.key \in StreamKey
              /\ streams' = streams /\ port' = port /\ link' = link /\ state' = state
          BY <3>6 DEF Listened, Reads
        <4>2. heard' = [heard EXCEPT ![e][f.key] = SequenceAfter(f.seq, f.end)]
          BY <3>6, ListenersReady
        <4>3. heard'[e][k] = IF OfStream(f, k) THEN SequenceAfter(f.seq, f.end) ELSE heard[e][k]
          BY <4>1, <4>2 DEF OfStream, Typed
        <4>4. /\ GapFree(wire'[e], k, heard'[e][k])
              /\ \A n : LeadsTo(wire[e], k, heard[e][k], n) => LeadsTo(wire'[e], k, heard'[e][k], n)
          BY <1>e, <2>1, <4>1, <4>3, GapTaken
        <4>5. Connected(e)' => Connected(e)
          BY <4>1 DEF Connected
        <4> QED
          BY <2>1, <4>1, <4>4, <4>5
      <3>7. CASE Broke(e)
        <4>1. wire'[e] = <<>> /\ port'[e] = "lost"
          BY <3>7 DEF Broke, Typed
        <4> QED
          BY <4>1, GapEmpty DEF Connected
      <3> QED
        BY <1>3, <2>4, <3>0, <3>1, <3>2, <3>4, <3>5, <3>6, <3>7 DEF Shape
    <2>5. CASE p = q
      <3>h. heard'[e] = heard[e]
        <4>1. CASE Listened(q)
          <5>1. heard' = [heard EXCEPT ![q][wire[q][1].key] =
                                          SequenceAfter(wire[q][1].seq, wire[q][1].end)]
            BY <1>e, <4>1, ListenersReady
          <5> QED
            BY <1>e, <5>1 DEF Typed
        <4>2. CASE ~Listened(q)
          BY <1>3, <2>5, <4>2 DEF Shape, Ended, Opened, Greeted, Noticed, Emitted, Answered, Refused,
                                  Accepted, Asked, Settles, Broke
        <4> QED
          BY <4>1, <4>2
      <3>1. CASE Ended(q)
        <4>1. state'[q] = "closed"
          BY <1>e, <3>1 DEF Ended, Typed
        <4>2. ~Connected(e)'
          BY <4>1 DEF Connected
        <4>3. CASE Silent(q)
          <5>1. wire'[e] = wire[e]
            BY <1>e, <4>3 DEF Silent
          <5> QED
            BY <2>1, <3>h, <4>2, <5>1
        <4>4. CASE \E f \in Frame : f.type = "close" /\ Speaks(q, f)
          <5>1. PICK f \in Frame : f.type = "close" /\ Joined(wire'[e], wire[e], f)
            BY <1>e, <4>4 DEF Speaks
          <5> QED
            BY <2>j, <3>h, <4>2, <5>1
        <4> QED
          BY <3>1, <4>3, <4>4 DEF Ended
      <3>2. CASE Broke(q)
        <4>1. /\ Len(wire'[e]) <= Len(wire[e]) /\ port'[q] = "lost"
              /\ \A i \in 1 .. Len(wire'[e]) : wire'[e][i] = wire[e][i]
          BY <1>e, <3>2 DEF Broke, Typed
        <4>2. GapFree(wire'[e], k, heard[e][k])
          BY <1>e, <2>1, <4>1, GapPrefix
        <4> QED
          BY <3>h, <4>1, <4>2 DEF Connected
      <3>3. CASE Emitted(q)
        <4>1. PICK x \in StreamKey, f \in Frame :
                /\ f.type = "evt" /\ f.key = x /\ f.seq = streams[q][x]
                /\ streams' = [streams EXCEPT ![q][x] = SequenceAfter(f.seq, f.end)]
                /\ Says(q, f)
          BY <3>3 DEF Emitted
        <4>2. state[q] = "ready" /\ port[q] = "open" /\ state' = state /\ port' = port /\ link' = link
          BY <3>3 DEF Emitted
        <4>3. CASE ~Reaches(q)
          <5>1. wire'[e] = wire[e] /\ ~Connected(e)'
            BY <1>e, <2>0, <4>1, <4>2, <4>3 DEF Says, Reaches, Connected
          <5> QED
            BY <2>1, <3>h, <5>1
        <4>4. CASE Reaches(q)
          <5>1. Joined(wire'[e], wire[e], f) /\ Connected(e)
            BY <1>e, <4>1, <4>2, <4>4 DEF Says, Reaches, Connected
          <5>2. LeadsTo(wire[e], k, heard[e][k], streams[q][k])
            BY <2>1, <5>1
          <5>3. /\ OfStream(f, k) <=> x = k
                /\ OfStream(f, k) => LeadsTo(wire[e], k, heard[e][k], f.seq)
            BY <4>1, <5>2 DEF OfStream
          <5>4. /\ GapFree(wire'[e], k, heard[e][k])
                /\ OfStream(f, k) => LeadsTo(wire'[e], k, heard[e][k], SequenceAfter(f.seq, f.end))
                /\ ~OfStream(f, k) => LeadsTo(wire'[e], k, heard[e][k], streams[q][k])
            BY <1>e, <2>1, <5>1, <5>2, <5>3, GapJoined
          <5>5. streams'[q][k] = IF x = k THEN SequenceAfter(f.seq, f.end) ELSE streams[q][k]
            <6>1. /\ streams' = [streams EXCEPT ![q][x] = SequenceAfter(f.seq, f.end)]
                  /\ streams \in [Peer -> [StreamKey -> Nat]]
              BY <4>1 DEF Typed
            <6> QED
              BY <1>e, <6>1
          <5> QED
            BY <3>h, <5>3, <5>4, <5>5
        <4> QED
          BY <4>3, <4>4
      <3>4. CASE ~Ended(q) /\ ~Broke(q) /\ ~Emitted(q)
        <4>1. streams' = streams /\ port' = port /\ link' = link
          BY <1>3, <2>5, <3>4 DEF Shape, Opened, Greeted, Noticed, Listened, Answered, Refused,
                                  Accepted, Asked, Settles
        <4>2. state[q] # "closed" \/ state' = state
          BY <1>3, <2>5, <3>4 DEF Shape, Opened, Greeted, Noticed, Listened, Answered, Refused,
                                  Accepted, Asked, Settles
        <4>3. Connected(e)' => Connected(e)
          BY <4>1, <4>2 DEF Connected
        <4>4. CASE Silent(q)
          <5>1. wire'[e] = wire[e]
            BY <1>e, <4>4 DEF Silent
          <5> QED
            BY <2>s, <3>h, <4>1, <4>3, <5>1
        <4>5. CASE \E f \in Frame : f.type # "evt" /\ Joined(wire'[e], wire[e], f)
          BY <2>j, <3>h, <4>1, <4>3, <4>5
        <4>6. CASE \E t \in Seq(Frame), f \in Frame, g \in Frame :
                     /\ f.type # "evt" /\ g.type # "evt"
                     /\ Joined(t, wire[e], f) /\ Joined(wire'[e], t, g)
          <5>1. PICK t \in Seq(Frame), f \in Frame, g \in Frame :
                     /\ f.type # "evt" /\ g.type # "evt"
                     /\ Joined(t, wire[e], f) /\ Joined(wire'[e], t, g)
            BY <4>6
          <5>2. ~OfStream(f, k) /\ ~OfStream(g, k)
            BY <5>1 DEF OfStream
          <5>3. /\ GapFree(t, k, heard[e][k])
                /\ \A n : LeadsTo(wire[e], k, heard[e][k], n) => LeadsTo(t, k, heard[e][k], n)
            BY <1>e, <2>1, <5>1, <5>2, GapJoined
          <5>4. /\ GapFree(wire'[e], k, heard[e][k])
                /\ \A n : LeadsTo(t, k, heard[e][k], n) => LeadsTo(wire'[e], k, heard[e][k], n)
            BY <1>e, <5>1, <5>2, <5>3, GapJoined
          <5> QED
            BY <2>1, <3>h, <4>1, <4>3, <5>3, <5>4
        <4>7. \/ Silent(q) \/ \E f \in Frame : f.type # "evt" /\ Joined(wire'[e], wire[e], f)
              \/ \E t \in Seq(Frame), f \in Frame, g \in Frame :
                     /\ f.type # "evt" /\ g.type # "evt"
                     /\ Joined(t, wire[e], f) /\ Joined(wire'[e], t, g)
          <5>1. ASSUME NEW f \in Frame, f.type # "evt", Says(q, f)
                PROVE  Silent(q) \/ \E g \in Frame : g.type # "evt" /\ Joined(wire'[e], wire[e], g)
            BY <1>e, <5>1 DEF Says, Silent
          <5>2. CASE Opened(q) \/ Refused(q)
            BY <5>1, <5>2 DEF Opened, Refused
          <5>3. CASE Noticed(q)
            BY <1>e, <5>3 DEF Noticed, Speaks
          <5>4. CASE Settles(q)
            BY <5>1, <5>4 DEF Settles
          <5>5. CASE Asked(q)
            <6>1. CASE Silent(q)
              BY <6>1
            <6>2. CASE ~Silent(q)
              <7>1. PICK f \in Frame :
                      /\ f.type = "req"
                      /\ \/ Says(q, f)
                         \/ \E t \in Seq(Frame), g \in Frame :
                               Joined(t, wire[e], f) /\ g.type = "cancel" /\ Joined(wire'[e], t, g)
                BY <1>e, <5>5, <6>2 DEF Asked
              <7>2. CASE Says(q, f)
                BY <5>1, <7>1, <7>2
              <7>3. CASE ~Says(q, f)
                BY <7>1, <7>3
              <7> QED
                BY <7>2, <7>3
            <6> QED
              BY <6>1, <6>2
          <5>6. CASE Greeted(q) \/ Listened(q) \/ Answered(q) \/ Accepted(q)
            BY <5>6 DEF Greeted, Listened, Answered, Accepted
          <5> QED
            BY <1>3, <2>5, <3>4, <5>2, <5>3, <5>4, <5>5, <5>6 DEF Shape
        <4> QED
          BY <4>4, <4>5, <4>6, <4>7
      <3> QED
        BY <3>1, <3>2, <3>3, <3>4
    <2> QED
      BY <1>3, <1>e, <2>4, <2>5
  <1> QED
    BY <1>1, <1>2, <1>3

\* A listener hears the events of a stream without a gap, a repeat or a loss to
\* the handshake, whatever happens to the transport (emit, #receive).
THEOREM EventsInOrder == Spec => []StreamsGapFree
  <1> DEFINE S == \A p \in Peer : StreamOK(p)
  <1>1. Init => S
    <2> SUFFICES ASSUME Init, NEW p \in Peer PROVE StreamOK(p)
      OBVIOUS
    <2>1. /\ wire[p] = <<>>
          /\ \A k \in StreamKey : heard[p][k] = 0 /\ streams[Other(p)][k] = 0
      BY TwoEnds DEF Init
    <2>2. \A k : LeadsTo(<<>>, k, 0, 0)
      <3>1. Len(<<>>) = 0 /\ 1 .. 0 = {}
        OBVIOUS
      <3> QED
        BY <3>1 DEF LeadsTo
    <2> QED
      BY <2>1, <2>2, GapEmpty DEF StreamOK
  <1>2. ASSUME TypeOK, TypeOK', RequestInv, PlaceInv, S, [Next]_vars PROVE S'
    <2>1. Typed
      BY <1>2, TypedHere
    <2>2. Typed'
      BY <1>2, TypedHere, PTL
    <2>3. (\E p \in Peer : Shape(p)) \/ Died \/ Idle
      BY <1>2, StepShape DEF PlaceInv
    <2>4. \A q \in Peer : HelloFirst(q) /\ StreamOK(q)
      BY <1>2 DEF PlaceInv
    <2>5. ASSUME NEW e \in Peer PROVE StreamOK(e)'
      BY <2>1, <2>2, <2>3, <2>4, StreamStep
    <2> QED
      BY <2>5
  <1>3. S => StreamsGapFree
    BY DEF StreamOK, StreamsGapFree
  <1> HIDE DEF S
  <1> QED
    BY <1>1, <1>2, <1>3, TypeCorrect, RequestAlways, PlaceAlways, PTL DEF Spec

-----------------------------------------------------------------------------
(* What the callers are promised.  A refusal, on its way back or told to a *)
(* caller, is of a request that no handler was started for, and none will  *)
(* be: the request is no longer under way.                                 *)

Unsent == {"INVALID_REQUEST", "MISMATCH"}

\* An err frame on its way to p tells the truth about the handler.
ErrorTrue(p, f) ==
    /\ f.code \in Refusal => f.id \notin started[Other(p)]
    /\ f.code \in Failure => f.id \in started[Other(p)]
\* A caller of p that was refused has no handler and will have none.
RefusalTrue(p, r) ==
    /\ r.outcome \in Refusal => /\ r.id \notin started[Other(p)]
                                /\ ~HasRequest(wire[Other(p)], r.id)
    /\ r.outcome \in Unsent => r.id = 0

RefusalInv ==
    \A p \in Peer :
        /\ \A i \in 1 .. Len(wire[p]) : wire[p][i].type = "err" => ErrorTrue(p, wire[p][i])
        /\ \A c \in Call : RefusalTrue(p, call[p][c])

\* The only request a step adds to a queue has the next id of its sender.
LEMMA RequestsAdded ==
    ASSUME Typed, Typed', (\E p \in Peer : Shape(p)) \/ Died \/ Idle, NEW r \in Peer, NEW id,
           HasRequest(wire'[Other(r)], id)
    PROVE  HasRequest(wire[Other(r)], id) \/ id = requestSequence[r] + 1
  <1> DEFINE s == Other(r)
             Goal == HasRequest(wire[s], id) \/ id = requestSequence[r] + 1
  <1>s. /\ s \in Peer /\ s # r /\ Other(s) = r /\ \A p \in Peer : p = r \/ p = s
        /\ wire[s] \in Seq(Frame) /\ wire'[s] \in Seq(Frame)
    BY TwoEnds DEF Typed
  <1>a. Stretch(wire'[s], wire[s]) => Goal
    BY <1>s, StretchKeeps
  <1>b. ASSUME NEW f, f.type # "req", Joined(wire'[s], wire[s], f) PROVE Goal
    BY <1>s, <1>b, JoinedHolds
  <1>c. ASSUME NEW f, f.type # "req", Says(r, f) PROVE Goal
    BY <1>b, <1>c DEF Says
  <1>d. Silent(r) => Goal
    BY DEF Silent
  <1>1. CASE Died
    <2>1. wire'[s] = <<>>
      BY <1>1, <1>s DEF Died
    <2> QED
      BY <1>a, <1>s, <2>1, Stretches
  <1>2. CASE Idle
    BY <1>2 DEF Idle
  <1>3. CASE Shape(s)
    BY <1>3, <1>a, <1>s, OwnQueue
  <1>4. CASE Shape(r) /\ ~Asked(r) /\ ~Broke(r)
    <2>1. \/ Silent(r)
          \/ \E f \in Frame : f.type # "req" /\ (Says(r, f) \/ Joined(wire'[s], wire[s], f))
      BY <1>4 DEF Shape, Ended, Opened, Greeted, Noticed, Emitted, Listened, Answered, Refused,
                  Accepted, Settles, Speaks
    <2> QED
      BY <1>b, <1>c, <1>d, <2>1
  <1>5. CASE Broke(r)
    BY <1>5, <1>a, BrokenQueue
  <1>6. CASE Asked(r)
    <2>1. ASSUME NEW f \in Frame, f.id = requestSequence[r] + 1, NEW t \in Seq(Frame),
                 Joined(t, wire[s], f), HasRequest(t, id)
          PROVE  Goal
      BY <1>s, <2>1, JoinedHolds
    <2>2. ASSUME NEW f \in Frame, f.id = requestSequence[r] + 1, Says(r, f) PROVE Goal
      BY <1>d, <1>s, <2>1, <2>2 DEF Says, Silent
    <2>3. ASSUME NEW f \in Frame, f.id = requestSequence[r] + 1, NEW t \in Seq(Frame),
                 NEW g \in Frame, Joined(t, wire[s], f), g.type = "cancel", Joined(wire'[s], t, g)
          PROVE  Goal
      <3>1. HasRequest(t, id)
        BY <1>s, <2>3, JoinedHolds
      <3> QED
        BY <2>1, <2>3, <3>1
    <2>4. \/ Silent(r)
          \/ \E f \in Frame :
              /\ f.id = requestSequence[r] + 1
              /\ \/ Says(r, f)
                 \/ \E t \in Seq(Frame), g \in Frame :
                      /\ Joined(t, wire[s], f) /\ g.type = "cancel" /\ Joined(wire'[s], t, g)
      BY <1>6 DEF Asked
    <2> QED
      BY <1>d, <2>2, <2>3, <2>4
  <1> QED
    BY <1>1, <1>2, <1>3, <1>4, <1>5, <1>6, <1>s

\* The only error a step adds to a queue refuses the request at the head of the
\* other queue, or is of a handler that ran.
LEMMA ErrorsAdded ==
    ASSUME Typed, Typed', (\E p \in Peer : Shape(p)) \/ Died \/ Idle, NEW r \in Peer,
           NEW i \in 1 .. Len(wire'[r]), NEW g, g = wire'[r][i], g.type = "err"
    PROVE  \/ \E j \in 1 .. Len(wire[r]) : g = wire[r][j]
           \/ /\ Refused(Other(r)) /\ g.code \in Refusal /\ g.id = wire[Other(r)][1].id
           \/ Settles(Other(r)) /\ g.code \in Failure /\ g.id \in running[Other(r)]
  <1> DEFINE s == Other(r)
             Old == \E j \in 1 .. Len(wire[r]) : g = wire[r][j]
  <1>s. /\ s \in Peer /\ s # r /\ Other(s) = r /\ \A p \in Peer : p = r \/ p = s
        /\ wire[r] \in Seq(Frame) /\ wire'[r] \in Seq(Frame)
    BY TwoEnds DEF Typed
  <1>a. Stretch(wire'[r], wire[r]) => Old
    BY <1>s, StretchKeeps
  <1>b. ASSUME NEW f, Joined(wire'[r], wire[r], f) PROVE g = f \/ Old
    BY <1>s, <1>b, JoinedHolds
  <1>d. Silent(s) => Old
    BY <1>s DEF Silent
  <1>c. ASSUME NEW f, Says(s, f) PROVE g = f \/ Old
    BY <1>b, <1>c, <1>d, <1>s DEF Says, Silent
  <1>1. CASE Died
    <2>1. wire'[r] = <<>>
      BY <1>1 DEF Died
    <2> QED
      BY <1>a, <1>s, <2>1, Stretches
  <1>2. CASE Idle
    BY <1>2 DEF Idle
  <1>3. CASE Shape(r)
    BY <1>3, <1>a, OwnQueue
  <1>4. CASE \/ Ended(s) \/ Opened(s) \/ Greeted(s) \/ Noticed(s) \/ Emitted(s) \/ Listened(s)
             \/ Answered(s) \/ Accepted(s)
    <2>1. \/ Silent(s)
          \/ \E f \in Frame : f.type # "err" /\ (Says(s, f) \/ Joined(wire'[r], wire[r], f))
      BY <1>4, <1>s DEF Ended, Opened, Greeted, Noticed, Emitted, Listened, Answered,
                  Accepted, Speaks
    <2> QED
      BY <1>b, <1>c, <1>d, <2>1
  <1>5. CASE Broke(s)
    BY <1>5, <1>a, <1>s, BrokenQueue
  <1>6. CASE Asked(s)
    <2>1. ASSUME NEW f \in Frame, f.type = "req", NEW t \in Seq(Frame), NEW h \in Frame,
                 Joined(t, wire[r], f), h.type = "cancel", Joined(wire'[r], t, h)
          PROVE  Old
      <3>1. g = h \/ \E j \in 1 .. Len(t) : g = t[j]
        BY <1>s, <2>1, JoinedHolds
      <3>2. \A j \in 1 .. Len(t) : t[j] = f \/ \E k \in 1 .. Len(wire[r]) : t[j] = wire[r][k]
        BY <1>s, <2>1, JoinedHolds
      <3> QED
        BY <2>1, <3>1, <3>2
    <2>2. \/ Silent(s)
          \/ \E f \in Frame :
              /\ f.type = "req"
              /\ \/ Says(s, f)
                 \/ \E t \in Seq(Frame), h \in Frame :
                      /\ Joined(t, wire[r], f) /\ h.type = "cancel" /\ Joined(wire'[r], t, h)
      BY <1>6, <1>s DEF Asked
    <2> QED
      BY <1>c, <1>d, <2>1, <2>2
  <1>7. CASE Refused(s)
    <2>1. PICK f \in Frame : f.id = wire[s][1].id /\ f.code \in Refusal /\ Says(s, f)
      BY <1>7 DEF Refused
    <2> QED
      BY <1>7, <1>c, <2>1
  <1>8. CASE Settles(s)
    <2>1. PICK f \in Frame : /\ f.id \in running[s] /\ (f.type = "err" => f.code \in Failure)
                             /\ Says(s, f) \/ Silent(s)
      BY <1>8 DEF Settles
    <2> QED
      BY <1>8, <1>c, <1>d, <2>1
  <1> QED
    BY <1>1, <1>2, <1>3, <1>4, <1>5, <1>6, <1>7, <1>8, <1>s DEF Shape

\* A step starts the handler of the request at the head of the queue, or none.
LEMMA Starts ==
    ASSUME Typed, PlaceInv, (\E p \in Peer : Shape(p)) \/ Died \/ Idle, NEW p \in Peer
    PROVE  \/ started'[Other(p)] = started[Other(p)]
           \/ \E id : /\ started'[Other(p)] = started[Other(p)] \cup {id} /\ id # 0
                      /\ Accepted(Other(p)) /\ HasRequest(wire[Other(p)], id)
  <1>0. Other(p) \in Peer /\ Other(p) # p
    BY TwoEnds
  <1>1. CASE Died \/ Idle
    BY <1>1 DEF Died, Idle
  <1>2. ASSUME NEW q \in Peer, Shape(q), ~Accepted(q) PROVE started' = started
    BY <1>2 DEF Shape, Ended, Opened, Greeted, Noticed, Emitted, Listened, Answered, Refused,
                Asked, Settles, Broke
  <1>3. ASSUME NEW q \in Peer, Accepted(q), q # Other(p) PROVE started'[Other(p)] = started[Other(p)]
    BY <1>0, <1>3 DEF Accepted, Typed
  <1>4. CASE Accepted(Other(p))
    <2> DEFINE e == Other(p)
    <2>1. /\ wire[e][1].type = "req" /\ 1 \in 1 .. Len(wire[e])
          /\ started'[e] = started[e] \cup {wire[e][1].id}
      BY <1>0, <1>4 DEF Accepted, Reads, Taken, Typed
    <2>2. HasRequest(wire[e], wire[e][1].id)
      BY <2>1 DEF HasRequest
    <2>3. wire[e][1].id # 0
      <3>1. wire[e][1].id \in 1 .. requestSequence[p]
        BY <2>2, IdsHandedOut
      <3> QED
        BY <3>1 DEF Typed
    <2> QED
      BY <1>4, <2>1, <2>2, <2>3
  <1> QED
    BY <1>1, <1>2, <1>3, <1>4

\* What the ways a caller's record changes do to its id and its outcome.
Turned(p, r, t) ==
    \/ r.state = "idle" /\ t.state = "waiting" /\ t.id = r.id /\ t.outcome = "none"
    \/ /\ Waits(r) /\ Waits(t) /\ t.outcome = "none"
       /\ t.id = r.id \/ (r.id = 0 /\ t.id = NextId(p))
    \/ /\ Waits(r) /\ t.state = "settled"
       /\ t.outcome \in {"TIMEOUT", "UNAVAILABLE", "FRAME_TOO_LARGE"}
       /\ t.id = r.id \/ (r.id = 0 /\ t.id = NextId(p))
    \/ Waits(r) /\ t.state = "settled" /\ t.outcome \in Unsent /\ r.id = 0 /\ t.id = 0
    \/ /\ Waits(r) /\ t.state = "settled" /\ t.id = r.id
       /\ wire[p] # <<>> /\ wire[p][1].id = r.id
       /\ \/ wire[p][1].type = "res" /\ t.outcome = "result"
          \/ /\ wire[p][1].type = "err" /\ wire[p][1].code \in Refusal \cup Failure
             /\ t.outcome = wire[p][1].code

\* A caller that changes has no outcome yet, and changes in one of these ways.
LEMMA CallersTurned ==
    ASSUME TypeOK, RequestInv, PlaceInv, [Next]_vars, NEW p \in Peer, NEW c \in Call,
           call'[p][c] # call[p][c]
    PROVE  started' = started /\ call[p][c].outcome = "none" /\ Turned(p, call[p][c], call'[p][c])
  <1>1. ASSUME NEW r \in CallRecord, NEW t, Turns(p, r, t), r.outcome # "none" => r.state = "settled",
               r.state \in {"idle", "waiting"} => r.id = 0
        PROVE  r.outcome = "none" /\ Turned(p, r, t)
    BY <1>1 DEF Turns, Turned, CallRecord, Waits, Aborted, Waiting, Settled, Unsent
  <1>2. /\ call[p][c] \in CallRecord /\ (call[p][c].outcome # "none" => call[p][c].state = "settled")
        /\ call[p][c].state \in {"idle", "waiting"} => call[p][c].id = 0
    BY DEF TypeOK, PlaceInv, OutcomeOK, RequestInv, TableOK
  <1> QED
    BY <1>1, <1>2, CallersTurn

\* Every step keeps refusals true.
LEMMA RefusalStep ==
    ASSUME TypeOK, TypeOK', RequestInv, PlaceInv, RefusalInv, [Next]_vars
    PROVE  RefusalInv'
  <1>1. Typed
    BY TypedHere
  <1>2. Typed'
    BY TypedHere, PTL
  <1>3. (\E p \in Peer : Shape(p)) \/ Died \/ Idle
    BY StepShape DEF PlaceInv
  <1> SUFFICES ASSUME NEW p \in Peer
               PROVE  /\ \A i \in 1 .. Len(wire'[p]) : wire'[p][i].type = "err" => ErrorTrue(p, wire[p][i])'
                      /\ \A c \in Call : RefusalTrue(p, call[p][c])'
    BY DEF RefusalInv
  <1> DEFINE e == Other(p)
  <1>e. e \in Peer /\ PlaceOK(p) /\ ServeOK(e) /\ requestSequence[p] \in Nat
    BY <1>1, TwoEnds DEF PlaceInv, Typed
  <1>g. started[e] \subseteq started'[e]
    BY <1>1, <1>3, <1>e, OnlyGrows DEF PlaceInv
  <1>s. \/ started'[e] = started[e]
        \/ \E id : /\ started'[e] = started[e] \cup {id} /\ id # 0
                   /\ Accepted(e) /\ HasRequest(wire[e], id)
    BY <1>1, <1>3, Starts
  <1>n. \A id : HasRequest(wire'[e], id) => HasRequest(wire[e], id) \/ id = requestSequence[p] + 1
    BY <1>1, <1>2, <1>3, RequestsAdded
  <1>4. ASSUME NEW i \in 1 .. Len(wire'[p]), NEW g, g = wire'[p][i], g.type = "err"
        PROVE  ErrorTrue(p, g)'
    <2>0. \/ \E j \in 1 .. Len(wire[p]) : g = wire[p][j]
          \/ Refused(e) /\ g.code \in Refusal /\ g.id = wire[e][1].id
          \/ Settles(e) /\ g.code \in Failure /\ g.id \in running[e]
      BY <1>1, <1>2, <1>3, <1>4, ErrorsAdded
    <2>d. Refusal \cap Failure = {}
      BY DEF Refusal, Failure
    <2>1. ASSUME NEW j \in 1 .. Len(wire[p]), g = wire[p][j] PROVE ErrorTrue(p, g)'
      <3>1. HasAnswer(wire[p], g.id) /\ ErrorTrue(p, g)
        BY <1>4, <2>1 DEF HasAnswer, RefusalInv
      <3>2. ~HasRequest(wire[e], g.id)
        BY <1>e, <3>1, PlaceHas
      <3> QED
        BY <1>s, <3>1, <3>2 DEF ErrorTrue
    <2>2. ASSUME Refused(e), g.code \in Refusal, g.id = wire[e][1].id PROVE ErrorTrue(p, g)'
      <3>1. HasRequest(wire[e], g.id)
        BY <1>1, <1>e, <2>2 DEF Refused, Reads, Taken, Typed, HasRequest
      <3>2. g.id \notin started[e] /\ started' = started
        BY <1>e, <2>2, <3>1, PlaceHas DEF Refused
      <3> QED
        BY <2>2, <2>d, <3>2 DEF ErrorTrue
    <2>3. ASSUME g.code \in Failure, g.id \in running[e] PROVE ErrorTrue(p, g)'
      BY <1>e, <1>g, <2>3, <2>d DEF ErrorTrue, ServeOK
    <2> QED
      BY <2>0, <2>1, <2>2, <2>3
  <1>5. ASSUME NEW c \in Call PROVE RefusalTrue(p, call[p][c])'
    <2> DEFINE r == call[p][c]
               t == call'[p][c]
    <2>1. /\ r \in CallRecord /\ RefusalTrue(p, r) /\ r.id <= requestSequence[p]
          /\ r.state \in {"idle", "waiting"} => r.id = 0
          /\ r.outcome # "none" => r.state = "settled"
      BY DEF TypeOK, RefusalInv, RequestInv, TableOK, PlaceInv, OutcomeOK
    <2>2. CASE t = r
      <3>1. r.id # requestSequence[p] + 1
        BY <1>e, <2>1 DEF CallRecord
      <3> QED
        BY <1>s, <1>n, <2>1, <2>2, <3>1 DEF RefusalTrue
    <2>3. CASE started' = started /\ Turned(p, r, t)
      <3>m. {"none", "TIMEOUT", "UNAVAILABLE", "FRAME_TOO_LARGE", "result"}
              \cap (Refusal \cup Unsent) = {}
        BY DEF Refusal, Unsent
      <3>o. Unsent \cap (Refusal \cup Failure) = {} /\ Unsent = {"INVALID_REQUEST", "MISMATCH"}
        BY DEF Refusal, Failure, Unsent
      <3>1. \/ t.outcome \notin Refusal \cup Unsent
            \/ t.outcome \in Unsent /\ t.id = 0
            \/ /\ t.id = r.id /\ wire[p] # <<>> /\ wire[p][1].id = r.id /\ wire[p][1].type = "err"
               /\ t.outcome = wire[p][1].code /\ t.outcome \notin Unsent
        <4> HIDE DEF r, t
        <4>1. \/ t.outcome \in {"none", "TIMEOUT", "UNAVAILABLE", "FRAME_TOO_LARGE", "result"}
              \/ t.outcome \in Unsent /\ t.id = 0
              \/ /\ t.id = r.id /\ wire[p] # <<>> /\ wire[p][1].id = r.id /\ wire[p][1].type = "err"
                 /\ t.outcome = wire[p][1].code /\ t.outcome \in Refusal \cup Failure
          BY <2>3 DEF Turned
        <4> QED
          BY <4>1, <3>m, <3>o
      <3>2. CASE t.outcome \notin Refusal \cup Unsent
        BY <3>2 DEF RefusalTrue
      <3>3. CASE t.outcome \in Unsent /\ t.id = 0
        <4>1. t.outcome \notin Refusal
          BY <3>3, <3>o
        <4> QED
          BY <3>3, <4>1 DEF RefusalTrue
      <3>4. ASSUME t.id = r.id, wire[p] # <<>>, wire[p][1].id = r.id, wire[p][1].type = "err",
                   t.outcome = wire[p][1].code, t.outcome \notin Unsent
            PROVE  RefusalTrue(p, call[p][c])'
        <4>1. 1 \in 1 .. Len(wire[p])
          BY <3>4, EmptySeq, LenProperties DEF TypeOK
        <4>2. ErrorTrue(p, wire[p][1]) /\ HasAnswer(wire[p], r.id)
          BY <3>4, <4>1 DEF RefusalInv, HasAnswer
        <4>3. ~HasRequest(wire[e], r.id)
          BY <1>e, <4>2, PlaceHas
        <4>4. ~HasRequest(wire'[e], r.id)
          <5>1. r.id # requestSequence[p] + 1
            BY <1>e, <2>1 DEF CallRecord
          <5> QED
            BY <1>n, <4>3, <5>1
        <4> QED
          BY <2>3, <3>4, <4>2, <4>4 DEF RefusalTrue, ErrorTrue
      <3> QED
        BY <3>1, <3>2, <3>3, <3>4
    <2> QED
      BY <2>2, <2>3, CallersTurned
  <1> QED
    BY <1>4, <1>5

\* At first no caller was refused and nothing is under way.
LEMMA RefusalInit == Init => RefusalInv
  <1> SUFFICES ASSUME Init, NEW p \in Peer
               PROVE  /\ \A i \in 1 .. Len(wire[p]) : wire[p][i].type = "err" => ErrorTrue(p, wire[p][i])
                      /\ \A c \in Call : RefusalTrue(p, call[p][c])
    BY DEF RefusalInv
  <1>1. Len(wire[p]) = 0 /\ \A c \in Call : call[p][c].outcome = "none"
    BY DEF Init, NoCall
  <1>2. "none" \notin Refusal \cup Unsent
    BY DEF Refusal, Unsent
  <1> QED
    BY <1>1, <1>2 DEF RefusalTrue

\* Refusals are true in every state.
LEMMA RefusalAlways == Spec => []RefusalInv
  <1>1. TypeOK /\ TypeOK' /\ RequestInv /\ PlaceInv /\ RefusalInv /\ [Next]_vars => RefusalInv'
    BY RefusalStep
  <1> QED
    BY <1>1, RefusalInit, TypeCorrect, RequestAlways, PlaceAlways, PTL DEF Spec

\* What a call has come to.
LEMMA WorkFields ==
    ASSUME NEW h, NEW o, NEW b
    PROVE  /\ Promise!Work(h, o, b).phase = h /\ Promise!Work(h, o, b).outcome = o
           /\ Promise!Work(h, o, b).begun = b
  BY DEF Promise!Work

\* A call that changes is made, ends, or stays as far as it was promised.
LEMMA TurnedMoves ==
    ASSUME NEW r, NEW t, NEW b \in BOOLEAN, NEW d \in BOOLEAN,
           r.outcome = "none",
           \/ r.state = "idle" /\ t.state = "waiting" /\ t.outcome = "none" /\ d = b
           \/ Waits(r) /\ Waits(t) /\ t.outcome = "none" /\ d = b
           \/ /\ Waits(r) /\ t.state = "settled" /\ d = b
              /\ \/ t.outcome \in {"TIMEOUT", "UNAVAILABLE", "FRAME_TOO_LARGE"}
                 \/ t.outcome \in {"result", "CANCELLED", "INTERNAL", "REMOTE"} /\ b
                 \/ t.outcome \in Refusal \cup Unsent /\ ~b
    PROVE  Promise!Moves(Promise!Work(Phase(r), r.outcome, b), Promise!Work(Phase(t), t.outcome, d))
  <1> DEFINE x == Promise!Work(Phase(r), r.outcome, b)
             y == Promise!Work(Phase(t), t.outcome, d)
  <1>x. x.phase = Phase(r) /\ x.outcome = r.outcome /\ x.begun = b
    BY WorkFields
  <1>1. CASE r.state = "idle" /\ t.state = "waiting" /\ t.outcome = "none" /\ d = b
    <2>0. Phase(r) = "idle" /\ Phase(t) = "open"
      BY <1>1 DEF Phase
    <2>1. x.phase = "idle" /\ y = Promise!Work("open", x.outcome, x.begun)
      BY <1>x, <1>1, <2>0, Zenon
    <2> QED
      BY <2>1, Zenon DEF Promise!Moves, Promise!Asks
  <1>2. CASE Waits(r) /\ Waits(t) /\ t.outcome = "none" /\ d = b
    <2>0. Phase(r) = "open" /\ Phase(t) = "open"
      BY <1>2 DEF Phase, Waits
    <2>1. y = x
      BY <1>2, <2>0, Zenon
    <2> QED
      BY <2>1, Zenon DEF Promise!Moves
  <1>3. ASSUME Waits(r), t.state = "settled", d = b,
               \/ t.outcome \in {"TIMEOUT", "UNAVAILABLE", "FRAME_TOO_LARGE"}
               \/ t.outcome \in {"result", "CANCELLED", "INTERNAL", "REMOTE"} /\ b
               \/ t.outcome \in Refusal \cup Unsent /\ ~b
        PROVE  Promise!Moves(x, y)
    <2>0. Phase(r) = "open" /\ Phase(t) = "settled"
      BY <1>3 DEF Phase, Waits
    <2>1. x.phase = "open" /\ x.begun = b /\ y = Promise!Work("settled", t.outcome, x.begun)
      BY <1>x, <1>3, <2>0, Zenon
    <2>2. t.outcome \in {"TIMEOUT", "UNAVAILABLE", "FRAME_TOO_LARGE"}
                        \cup (IF b THEN {"result", "CANCELLED", "INTERNAL", "REMOTE"}
                              ELSE Refusal \cup {"INVALID_REQUEST", "MISMATCH"})
      BY <1>3 DEF Unsent
    <2> HIDE DEF x, y
    <2>3. Promise!Ends(x, y)
      BY <2>1, <2>2, Zenon DEF Promise!Ends
    <2> QED
      BY <2>3, Zenon DEF Promise!Moves
  <1> QED
    BY <1>1, <1>2, <1>3

\* A call whose handler begins moves as promised unless it was refused.
LEMMA BegunMoves ==
    ASSUME NEW h, NEW o, NEW b \in BOOLEAN, ~b, h # "idle",
           o \notin Refusal \cup {"INVALID_REQUEST", "MISMATCH"}
    PROVE  Promise!Moves(Promise!Work(h, o, b), Promise!Work(h, o, TRUE))
  <1> DEFINE x == Promise!Work(h, o, b)
             y == Promise!Work(h, o, TRUE)
  <1>1. x.phase = h /\ x.outcome = o /\ x.begun = b
    BY WorkFields
  <1>2. y = Promise!Work(x.phase, x.outcome, TRUE)
    BY <1>1, Zenon
  <1> HIDE DEF x, y
  <1>3. Promise!Begins(x, y)
    BY <1>1, <1>2, Zenon DEF Promise!Begins
  <1> QED
    BY <1>3, Zenon DEF Promise!Moves, x, y

\* Every step moves each call as promised, or leaves it alone.
LEMMA CallsMove ==
    ASSUME TypeOK, RequestInv, PlaceInv, RefusalInv, [Next]_vars, NEW p \in Peer, NEW c \in Call
    PROVE  Promise!Moves(Progress(p, call[p][c]), Progress(p, call[p][c])')
  <1> DEFINE r == call[p][c]
             t == call'[p][c]
             e == Other(p)
  <1>1. Typed /\ ((\E q \in Peer : Shape(q)) \/ Died \/ Idle)
    BY TypedHere, StepShape DEF PlaceInv
  <1>e. /\ e \in Peer /\ PlaceOK(p) /\ RefusalTrue(p, r) /\ requestSequence[p] \in Nat
        /\ started[e] \subseteq 1 .. requestSequence[p]
        /\ r.state \in {"idle", "waiting"} => r.id = 0
    BY <1>1, TwoEnds DEF PlaceInv, ServeOK, Typed, RefusalInv, RequestInv, TableOK
  <1>z. 0 \notin started[e] /\ NextId(p) \notin started[e]
    BY <1>e DEF NextId
  <1>p. /\ Progress(p, r) = Promise!Work(Phase(r), r.outcome, r.id \in started[e])
        /\ Progress(p, call[p][c])' = Promise!Work(Phase(t), t.outcome, t.id \in started'[e])
    BY Zenon DEF Progress, Promise!Work, Phase
  <1>2. CASE t = r
    <2>1. CASE (r.id \in started'[e]) = (r.id \in started[e])
      BY <1>2, <1>p, <2>1 DEF Promise!Moves
    <2>2. CASE (r.id \in started'[e]) # (r.id \in started[e])
      <3>1. PICK id : /\ started'[e] = started[e] \cup {id} /\ id # 0
                      /\ HasRequest(wire[e], id)
        BY <1>1, <2>2, Starts
      <3>2. r.id = id /\ r.id \notin started[e] /\ r.id \in started'[e]
        BY <2>2, <3>1
      <3>3. r.outcome \notin Refusal \cup {"INVALID_REQUEST", "MISMATCH"}
        BY <1>e, <3>1, <3>2 DEF RefusalTrue, Unsent
      <3>4. Phase(r) # "idle"
        BY <1>e, <3>1, <3>2 DEF Phase
      <3> DEFINE b == r.id \in started[e]
      <3>5. b \in BOOLEAN /\ ~b
        BY <3>2
      <3>6. (t.id \in started'[e]) = TRUE /\ t = r
        BY <1>2, <3>2
      <3> HIDE DEF b, r, t, e
      <3>7. Promise!Moves(Promise!Work(Phase(r), r.outcome, b), Promise!Work(Phase(r), r.outcome, TRUE))
        BY <3>3, <3>4, <3>5, BegunMoves
      <3> QED
        BY <1>p, <3>6, <3>7, Zenon DEF b, r
    <2> QED
      BY <2>1, <2>2
  <1>3. CASE t # r
    <2>1. started' = started /\ r.outcome = "none" /\ Turned(p, r, t)
      BY <1>3, CallersTurned
    <2>2. r.id = 0 \/ t.id = r.id
      BY <2>1 DEF Turned
    <2>3. (t.id \in started'[e]) = (r.id \in started[e])
      BY <1>z, <2>1 DEF Turned
    <2>4. ASSUME wire[p] # <<>>, wire[p][1].id = r.id
          PROVE  /\ wire[p][1].type = "res" => r.id \in started[e]
                 /\ wire[p][1].type = "err" => ErrorTrue(p, wire[p][1])
      <3>1. 1 \in 1 .. Len(wire[p])
        BY <2>4, EmptySeq, LenProperties DEF TypeOK
      <3> QED
        BY <2>4, <3>1 DEF RefusalInv, PlaceInv, WireOK, FrameOK
    <2>5. \/ r.state = "idle" /\ t.state = "waiting" /\ t.outcome = "none"
          \/ Waits(r) /\ Waits(t) /\ t.outcome = "none"
          \/ /\ Waits(r) /\ t.state = "settled"
             /\ \/ t.outcome \in {"TIMEOUT", "UNAVAILABLE", "FRAME_TOO_LARGE"}
                \/ /\ t.outcome \in {"result", "CANCELLED", "INTERNAL", "REMOTE"}
                   /\ r.id \in started[e]
                \/ t.outcome \in Refusal \cup Unsent /\ r.id \notin started[e]
      <3>1. \A o \in Failure : o = "FRAME_TOO_LARGE" \/ o \in {"CANCELLED", "INTERNAL", "REMOTE"}
        BY DEF Failure
      <3> HIDE DEF r, t, e
      <3>2. wire[p] # <<>> /\ wire[p][1].id = r.id /\ wire[p][1].type = "err" =>
              /\ wire[p][1].code \in Refusal => r.id \notin started[e]
              /\ wire[p][1].code \in Failure => r.id \in started[e]
        BY <2>4 DEF ErrorTrue, e
      <3> QED
        BY <1>z, <2>1, <2>4, <3>1, <3>2 DEF Turned
    <2> HIDE DEF r, t, e
    <2>6. Promise!Moves(Promise!Work(Phase(r), r.outcome, r.id \in started[e]),
                        Promise!Work(Phase(t), t.outcome, t.id \in started'[e]))
      <3> DEFINE b == r.id \in started[e]
                 d == t.id \in started'[e]
      <3>1. b \in BOOLEAN /\ d \in BOOLEAN /\ d = b
        BY <2>3
      <3>2. \/ r.state = "idle" /\ t.state = "waiting" /\ t.outcome = "none"
            \/ Waits(r) /\ Waits(t) /\ t.outcome = "none"
            \/ /\ Waits(r) /\ t.state = "settled"
               /\ \/ t.outcome \in {"TIMEOUT", "UNAVAILABLE", "FRAME_TOO_LARGE"}
                  \/ t.outcome \in {"result", "CANCELLED", "INTERNAL", "REMOTE"} /\ b
                  \/ t.outcome \in Refusal \cup Unsent /\ ~b
        BY <2>5
      <3> HIDE DEF b, d
      <3>3. Promise!Moves(Promise!Work(Phase(r), r.outcome, b),
                          Promise!Work(Phase(t), t.outcome, d))
        BY <2>1, <3>1, <3>2, TurnedMoves
      <3> QED
        BY <3>3 DEF b, d
    <2> QED
      BY <1>p, <2>6 DEF r
  <1> QED
    BY <1>2, <1>3

\* Both sessions implement CallPromise: a call ends once, its handler begins at
\* most once, what its caller hears of the handler's end is of a handler that
\* began, and a refused one never begins (request, #dispatch, #settle).
THEOREM CallsKeepPromise == Spec => KeepsCallPromise
  <1> DEFINE Calls == [x \in Peer \X Call |-> Progress(x[1], call[x[1]][x[2]])]
  <1>1. Init => Promise!Init
    <2> SUFFICES ASSUME Init PROVE Promise!Init
      OBVIOUS
    <2>1. ASSUME NEW p \in Peer, NEW c \in Call
          PROVE  Progress(p, call[p][c]) = Promise!Work("idle", "none", FALSE)
      <3>1. call[p][c] = NoCall /\ started[Other(p)] = {}
        BY TwoEnds DEF Init
      <3>2. (call[p][c].id \in started[Other(p)]) = FALSE
        BY <3>1
      <3>3. Phase(call[p][c]) = "idle" /\ call[p][c].outcome = "none"
        BY <3>1 DEF Phase, NoCall
      <3> QED
        BY <3>2, <3>3, Zenon DEF Progress, Promise!Work
    <2> QED
      BY <2>1 DEF Promise!Init
  <1>2. TypeOK /\ RequestInv /\ PlaceInv /\ RefusalInv /\ [Next]_vars => [Promise!Next]_Calls
    <2> SUFFICES ASSUME TypeOK, RequestInv, PlaceInv, RefusalInv, [Next]_vars
                 PROVE  Promise!Next
      OBVIOUS
    <2>1. \A x \in Peer \X Call :
            Promise!Moves(Progress(x[1], call[x[1]][x[2]]), Progress(x[1], call[x[1]][x[2]])')
      BY CallsMove
    <2> QED
      BY <2>1 DEF Promise!Next
  <1> QED
    BY <1>1, <1>2, TypeCorrect, RequestAlways, PlaceAlways, RefusalAlways, PTL
       DEF Spec, KeepsCallPromise, Promise!Spec
=============================================================================
