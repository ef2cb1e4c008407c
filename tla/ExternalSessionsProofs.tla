----------------------- MODULE ExternalSessionsProofs -----------------------
(***************************************************************************)
(* Proofs about ExternalSessions, for every number of chats, bindings,     *)
(* sessions, steps with failing writes, and crashes.                       *)
(***************************************************************************)
EXTENDS ExternalSessions, TLAPS

LiveType == [sid : Nat, conv : Nat, bind : Nat]
OpenerType == [pc : Opening, reaped : {"no", "keep", "drop"}, bind : Nat, resume : Nat,
               pending : BOOLEAN, sid : Nat, conv : Nat, first : BOOLEAN]
RowType == [conv : Nat, sid : Nat, bind : Nat, pending : BOOLEAN, unres : BOOLEAN]
EndReason == {"completed", "vendor-finished", "refused", "stopped", "vendor-broke"}
TurnType == [st : TurnStates, sid : Nat, conv : Nat, bind : Nat,
             end : {"none", "clear", "mark"}, ckpt : BOOLEAN]

Typed ==
    /\ kind \in Kinds /\ consent \in {"given", "withdrawn", "known"}
    /\ stopping \in BOOLEAN /\ conn \in BOOLEAN /\ born \subseteq Chat
    /\ live \in [Chat -> LiveType] /\ opener \in [Chat -> OpenerType]
    /\ row \in [Chat -> RowType] /\ turn \in [Chat -> TurnType]
    /\ lease \in [Conv -> [chat : Chat \cup {0}, fresh : BOOLEAN]]
    /\ unwritten \in [Chat -> Nat]
    /\ remote \subseteq Nat /\ lost \subseteq Nat /\ listening \subseteq Chat /\ minted \in Nat
    /\ killed \subseteq Nat
    /\ forgot \in [memory : SUBSET Nat, checkpoint : SUBSET Nat, unheard : SUBSET Nat]
    /\ faults \in Nat /\ crashes \in Nat

-----------------------------------------------------------------------------
(* Sessions and their owners.                                              *)

\* A chat opens a session only while it has none.
OpensWithoutSession == \A c \in Chat : live[c].sid # 0 => opener[c].pc = "idle"

\* An open whose session the runtime had before the hub learned that consent is
\* withdrawn carries the reap that undoes it.
WithdrawnReapsOpens ==
    consent = "known" =>
        \A c \in Chat : Underway(c) => opener[c].reaped # "no"

\* Sessions the runtime was asked for have a number.
Numbered ==
    /\ 0 \notin remote
    /\ \A c \in Chat : opener[c].pc = "call" \/ Underway(c) => opener[c].sid # 0

SessionInv ==
    /\ Typed /\ OpensWithoutSession /\ Numbered /\ NoOrphanSession
    /\ WithdrawnMeansClosed /\ WithdrawnReapsOpens

-----------------------------------------------------------------------------
(* Killed turns and the conversations that hold them. Only a vendor that   *)
(* goes on with a killed turn leaves any.                                  *)

Forgotten == forgot.memory \cup forgot.checkpoint \cup forgot.unheard
\* Conversations that must not be offered to the vendor again.
Poisoned == killed \ Forgotten

Started(c) == IF opener[c].sid = 0 THEN {} ELSE {opener[c].sid + 1}
\* The conversations a chat points to, and the sessions.
Convs(c) == ({row[c].conv, live[c].conv, turn[c].conv, opener[c].resume, opener[c].conv}
                \cup Started(c)) \ {0}
Sids(c) == {live[c].sid, turn[c].sid, opener[c].sid} \ {0}
\* The vendor has the turn, or may have it.
Handed(c) == turn[c].st \in {"sent", "taken", "running"}

\* No two chats share a session or a conversation, and none is handed out twice.
Apart ==
    /\ \A c \in Chat : (\A v \in Convs(c) : v <= minted + 1) /\ (\A s \in Sids(c) : s <= minted)
    /\ \A c, d \in Chat : c # d => Convs(c) \cap Convs(d) = {} /\ Sids(c) \cap Sids(d) = {}
    /\ \A v \in killed : v # 0 /\ v <= minted + 1

\* What a registered session, an open about to be settled and a turn agree on with the row.
Agree(c) ==
    /\ live[c].sid # 0 => /\ row[c].sid = live[c].sid /\ row[c].conv = live[c].conv
                          /\ row[c].conv # 0
    /\ Underway(c) => opener[c].sid # 0 /\ opener[c].conv # 0
    /\ opener[c].pc = "call" => opener[c].sid # 0
    /\ opener[c].pc \in {"idle", "client"} => opener[c].sid = 0 /\ opener[c].conv = 0
    /\ opener[c].pc = "idle" => opener[c].resume = 0
    /\ opener[c].pc = "check" /\ opener[c].reaped = "no" =>
          row[c].sid = opener[c].sid /\ row[c].conv = opener[c].conv
    /\ opener[c].sid # 0 => opener[c].sid # turn[c].sid
    /\ Handed(c) => /\ opener[c].pc = "idle" /\ turn[c].conv # 0
                    /\ row[c].conv # 0 => row[c].sid = turn[c].sid
    /\ turn[c].st # "none" => /\ turn[c].sid # 0
                              /\ row[c].conv # 0 /\ row[c].sid = turn[c].sid => row[c].conv = turn[c].conv
    /\ turn[c].st \in Active \cup {"none"} => turn[c].ckpt = FALSE

\* A killed turn whose end is not yet known to the stored conversation.
Pending(c) ==
    /\ turn[c].st # "none" /\ turn[c].sid = row[c].sid
    /\ turn[c].st \in {"taken", "running"} \/ (turn[c].st = "ended" /\ turn[c].end = "mark")

\* A killed turn is not reported as completed, its conversation is marked or about to be
\* marked, and an open in flight does not carry it.
Guarded(c) ==
    /\ turn[c].st \in {"taken", "running"} /\ turn[c].conv \in killed => turn[c].sid \notin remote
    /\ turn[c].st = "ended" /\ turn[c].end = "clear" => turn[c].conv \notin killed
    /\ row[c].conv \in Poisoned => /\ StartsFresh(c) \/ Pending(c)
                                   /\ turn[c].st # "none" => turn[c].sid = row[c].sid
    /\ ({opener[c].resume, opener[c].conv} \cup Started(c)) \cap Poisoned = {}

KilledInv ==
    IF ContinuesKilledTurn THEN Apart /\ \A c \in Chat : Agree(c) /\ Guarded(c)
    ELSE killed = {}
-----------------------------------------------------------------------------
(* What the pieces of the handlers return.                                 *)

\* No session, no open, no row and no turn are of their types.
LEMMA NoneTypes == NoLive \in LiveType /\ Idle \in OpenerType /\ NoRow \in RowType /\ NoTurn \in TurnType
BY DEF NoLive, LiveType, Idle, OpenerType, Opening, NoRow, RowType, NoTurn, TurnType, TurnStates

\* The end of a turn (terminate, finalize).
LEMMA EndedFields ==
    ASSUME NEW t \in TurnType, NEW reason
    PROVE  LET r == Ended(t, reason) IN
           /\ r \in TurnType /\ r.sid = t.sid /\ r.conv = t.conv /\ r.ckpt = t.ckpt
           /\ t.st \notin Active => r = t
           /\ t.st \in Active => r.st = "ended" /\ r.end = EndEffect(reason, t.st = "running")
<1>1. EndEffect(reason, t.st = "running") \in {"none", "clear", "mark"}
  BY DEF EndEffect
<1>. QED
  BY <1>1 DEF Ended, TurnType, TurnStates

\* An open that a reap caught up with.
LEMMA BumpedFields ==
    ASSUME NEW o \in OpenerType, NEW keep \in BOOLEAN
    PROVE  LET r == Bumped(o, keep) IN
           /\ r \in OpenerType /\ r.pc = o.pc /\ r.sid = o.sid /\ r.conv = o.conv /\ r.resume = o.resume
           /\ o.pc = "idle" => r = o
           /\ o.pc # "idle" => r.reaped # "no"
BY DEF Bumped, OpenerType

\* What dies with a set of chats.
LEMMA KilledByFields ==
    ASSUME Typed, NEW cs \in SUBSET Chat
    PROVE  /\ KilledBy(cs) \subseteq Nat
           /\ \A v \in KilledBy(cs) : /\ ContinuesKilledTurn
                                      /\ \E d \in cs : turn[d].st \in {"taken", "running"} /\ turn[d].conv = v
<1>1. \A d \in Chat : turn[d].conv \in Nat
  BY DEF Typed, TurnType
<1>. QED
  BY <1>1 DEF KilledBy

\* The released leases.
LEMMA ReleasedFields ==
    ASSUME Typed, NEW cs \in SUBSET Chat
    PROVE  Released(cs) \in [Conv -> [chat : Chat \cup {0}, fresh : BOOLEAN]]
BY DEF Typed, Released

\* What the database work of a reap and the close after it leave: a session of the
\* chats that still runs is lost.
DropLeaves(cs) ==
    /\ row' \in [Chat -> RowType]
    /\ lease' \in [Conv -> [chat : Chat \cup {0}, fresh : BOOLEAN]]
    /\ faults' \in Nat /\ remote' \subseteq remote /\ lost' \subseteq Nat /\ lost \subseteq lost'
    /\ \A s \in remote' : s \in lost' \/ \A d \in cs : live[d].sid # s
    /\ \A d \in Chat : row'[d] \in {row[d], NoRow} /\ (d \notin cs => row'[d] = row[d])
    /\ \E rs \in SUBSET Chat : lease' = lease \/ lease' = Released(rs)

LEMMA DropFields ==
    ASSUME Typed, NEW cs \in SUBSET Chat, NEW keep \in BOOLEAN, NEW undeleted \in SUBSET cs,
           NEW unreleased \in SUBSET cs, DropAndClose(cs, keep, undeleted, unreleased)
    PROVE  /\ DropLeaves(cs)
           /\ undeleted \cup unreleased = {} /\ ~keep => \A d \in cs : row'[d] = NoRow
<1>. DEFINE failed == undeleted \cup unreleased
            closed == {live[d].sid : d \in cs \ failed}
            left == {live[d].sid : d \in failed}
<1>1. row' = [d \in Chat |-> IF d \in cs \ undeleted /\ ~keep THEN NoRow ELSE row[d]]
  BY DEF DropAndClose
<1>2. row' \in [Chat -> RowType]
  BY <1>1, NoneTypes DEF Typed
<1>3. \A d \in Chat : row'[d] \in {row[d], NoRow} /\ (d \notin cs => row'[d] = row[d])
  BY <1>1
<1>4. failed = {} /\ ~keep => \A d \in cs : row'[d] = NoRow
  BY <1>1
<1>5. \E rs \in SUBSET Chat : lease' = lease \/ lease' = Released(rs)
  <2>1. cs \ failed \in SUBSET Chat
    OBVIOUS
  <2>2. lease' = lease \/ lease' = Released(cs \ failed)
    BY DEF DropAndClose
  <2>. QED
    BY <2>1, <2>2
<1>6. lease' \in [Conv -> [chat : Chat \cup {0}, fresh : BOOLEAN]]
  BY <1>5, ReleasedFields DEF Typed
<1>7. faults' \in Nat
  BY DEF DropAndClose, Fault, Typed
<1>8. remote' = remote \ closed /\ lost' = lost \cup (remote \cap left)
  BY DEF DropAndClose
<1>9. \A d \in cs : live[d].sid \in closed \cup left
  OBVIOUS
<1>. HIDE DEF closed, left
<1>10. remote' \subseteq remote /\ lost' \subseteq Nat /\ lost \subseteq lost'
  BY <1>8 DEF Typed
<1>11. \A s \in remote' : s \in lost' \/ \A d \in cs : live[d].sid # s
  BY <1>8, <1>9
<1>12. DropLeaves(cs)
  BY <1>2, <1>3, <1>5, <1>6, <1>7, <1>10, <1>11 DEF DropLeaves
<1>. QED
  BY <1>4, <1>12

\* What reap() leaves: its types, the sessions it took that still run are lost,
\* claims are released if anything, and only its chats change.
ReapTyped ==
    /\ live' \in [Chat -> LiveType] /\ opener' \in [Chat -> OpenerType]
    /\ row' \in [Chat -> RowType] /\ turn' \in [Chat -> TurnType]
    /\ lease' \in [Conv -> [chat : Chat \cup {0}, fresh : BOOLEAN]]
    /\ killed' \subseteq Nat /\ faults' \in Nat
    /\ remote' \subseteq remote /\ lost' \subseteq Nat

ReapLoses(cs) ==
    /\ remote' \subseteq remote /\ lost \subseteq lost'
    /\ \A s \in remote' : s \in lost' \/ \A d \in cs : live[d].sid # s

ReapLeases == \E rs \in SUBSET Chat : lease' = lease \/ lease' = Released(rs)

ReapTurns(cs, retiring) ==
    \A d \in Chat :
       /\ row'[d] \in {row[d], NoRow} /\ (d \notin cs => row'[d] = row[d])
       /\ \/ d \notin cs /\ turn'[d] = turn[d]
          \/ d \in cs /\ ~retiring /\ turn'[d] = Ended(turn[d], "reaped")
          \/ d \in cs /\ retiring /\ turn'[d] \in {turn[d], Ended(turn[d], "refused")}

LEMMA ReapFields ==
    ASSUME Typed, NEW cs \in SUBSET Chat, NEW keep \in BOOLEAN, NEW retiring \in BOOLEAN,
           ReapOf(cs, keep, retiring)
    PROVE  ReapTyped /\ ReapLoses(cs) /\ ReapLeases /\ ReapTurns(cs, retiring)
<1>1. \A d \in Chat : live[d] \in LiveType /\ opener[d] \in OpenerType /\ row[d] \in RowType /\ turn[d] \in TurnType
  BY DEF Typed
<1>2. live' \in [Chat -> LiveType]
  BY <1>1, NoneTypes DEF ReapOf
<1>3. opener' \in [Chat -> OpenerType]
  <2>1. \A d \in Chat : Bumped(opener[d], keep) \in OpenerType
    BY <1>1, BumpedFields
  <2>. QED
    BY <1>1, <2>1 DEF ReapOf
<1>4. killed' \subseteq Nat
  BY KilledByFields DEF ReapOf, Typed
<1>5. PICK undeleted \in SUBSET cs, unreleased \in SUBSET cs :
         /\ DropAndClose(cs, keep, undeleted, unreleased)
         /\ turn' = [c \in Chat |->
                CASE c \in cs /\ ~retiring -> Ended(turn[c], "reaped")
                  [] c \in undeleted \cup unreleased /\ retiring -> Ended(turn[c], "refused")
                  [] OTHER -> turn[c]]
  BY DEF ReapOf
<1>6. \A d \in Chat :
         \/ d \notin cs /\ turn'[d] = turn[d]
         \/ d \in cs /\ ~retiring /\ turn'[d] = Ended(turn[d], "reaped")
         \/ d \in cs /\ retiring /\ turn'[d] \in {turn[d], Ended(turn[d], "refused")}
  BY <1>5
<1>7. turn' \in [Chat -> TurnType]
  <2>1. \A d \in Chat : Ended(turn[d], "reaped") \in TurnType /\ Ended(turn[d], "refused") \in TurnType
    BY <1>1, EndedFields
  <2>2. \A d \in Chat : turn'[d] \in TurnType
    BY <1>1, <1>6, <2>1
  <2>3. turn' = [d \in Chat |-> turn'[d]]
    BY <1>5
  <2>. QED
    BY <2>2, <2>3
<1>8. /\ row' \in [Chat -> RowType]
      /\ lease' \in [Conv -> [chat : Chat \cup {0}, fresh : BOOLEAN]]
      /\ faults' \in Nat /\ remote' \subseteq remote /\ lost' \subseteq Nat /\ lost \subseteq lost'
      /\ \A s \in remote' : s \in lost' \/ \A d \in cs : live[d].sid # s
      /\ \A d \in Chat : row'[d] \in {row[d], NoRow} /\ (d \notin cs => row'[d] = row[d])
      /\ \E rs \in SUBSET Chat : lease' = lease \/ lease' = Released(rs)
  <2>1. DropAndClose(cs, keep, undeleted, unreleased)
    BY <1>5
  <2>2. DropLeaves(cs)
    BY <2>1, DropFields
  <2>. QED
    BY <2>2 DEF DropLeaves
<1>9. ReapTyped
  BY <1>2, <1>3, <1>4, <1>7, <1>8 DEF ReapTyped
<1>10. ReapLoses(cs)
  BY <1>8 DEF ReapLoses
<1>11. ReapLeases
  BY <1>8 DEF ReapLeases
<1>12. ReapTurns(cs, retiring)
  BY <1>6, <1>8 DEF ReapTurns
<1>. QED
  BY <1>9, <1>10, <1>11, <1>12

\* The open reads the row.
LEMMA OpenFromFields ==
    ASSUME Typed, NEW c \in Chat, NEW b \in Nat, NEW first \in BOOLEAN, OpenFrom(c, b, first)
    PROVE  /\ opener' \in [Chat -> OpenerType] /\ row' \in [Chat -> RowType]
           /\ lease' \in [Conv -> [chat : Chat \cup {0}, fresh : BOOLEAN]]
           /\ \A d \in Chat : d # c => opener'[d] = opener[d] /\ row'[d] = row[d]
           /\ row'[c] \in {row[c], NoRow}
           /\ opener'[c].pc = "client" /\ opener'[c].sid = 0 /\ opener'[c].conv = 0
           /\ \/ opener'[c].resume = 0
              \/ opener'[c].resume = row[c].conv /\ row[c].conv # 0 /\ ~StartsFresh(c)
<1>. DEFINE resumes == Resumes(c, b)
            o == [Idle EXCEPT !.pc = "client", !.bind = b, !.first = first,
                              !.resume = IF resumes THEN row[c].conv ELSE 0,
                              !.pending = resumes /\ row[c].pending]
<1>1. row[c].conv \in Nat /\ row[c].pending \in BOOLEAN
  BY DEF Typed, RowType
<1>2. (resumes /\ row[c].pending) \in BOOLEAN
  BY <1>1
<1>3. /\ o \in OpenerType /\ o.pc = "client" /\ o.sid = 0 /\ o.conv = 0
      /\ o.resume = IF resumes THEN row[c].conv ELSE 0
  BY <1>1, <1>2 DEF OpenerType, Opening, Idle
<1>4. opener' = [opener EXCEPT ![c] = o] /\ (resumes => row[c].conv # 0 /\ ~StartsFresh(c))
  BY DEF OpenFrom, Resumes, Matches
<1>5. row' \in [Chat -> RowType] /\ row'[c] \in {row[c], NoRow} /\ \A d \in Chat : d # c => row'[d] = row[d]
  BY NoneTypes DEF OpenFrom, Typed
<1>6. lease' \in [Conv -> [chat : Chat \cup {0}, fresh : BOOLEAN]]
  BY ReleasedFields DEF OpenFrom, Typed
<1>7. opener' \in [Chat -> OpenerType] /\ opener'[c] = o /\ \A d \in Chat : d # c => opener'[d] = opener[d]
  BY <1>3, <1>4 DEF Typed
<1>. HIDE DEF o, resumes
<1>. QED
  BY <1>3, <1>4, <1>5, <1>6, <1>7

\* The open asks the runtime for a session.
LEMMA OpenCallFields ==
    ASSUME Typed, NEW c \in Chat, OpenCall(c)
    PROVE  /\ opener' \in [Chat -> OpenerType]
           /\ \A d \in Chat : d # c => opener'[d] = opener[d]
           /\ opener'[c].pc = "call" /\ opener'[c].sid = minted + 1 /\ minted' = minted + 1
           /\ opener'[c].resume = opener[c].resume /\ opener'[c].conv = opener[c].conv
           /\ opener'[c].reaped = opener[c].reaped
<1>. DEFINE o == [opener[c] EXCEPT !.pc = "call", !.sid = minted + 1]
<1>1. opener[c] \in OpenerType /\ minted + 1 \in Nat
  BY DEF Typed
<1>2. /\ o \in OpenerType /\ o.pc = "call" /\ o.sid = minted + 1 /\ o.resume = opener[c].resume
      /\ o.conv = opener[c].conv /\ o.reaped = opener[c].reaped
  BY <1>1 DEF OpenerType, Opening
<1>3. opener' = [opener EXCEPT ![c] = o] /\ minted' = minted + 1
  BY DEF OpenCall, Typed
<1>. HIDE DEF o
<1>. QED
  BY <1>2, <1>3 DEF Typed

\* The vendor opened.
LEMMA OpenedFields ==
    ASSUME Typed, NEW c \in Chat, Opened(c)
    PROVE  /\ opener' \in [Chat -> OpenerType]
           /\ \A d \in Chat : d # c => opener'[d] = opener[d]
           /\ opener[c].pc = "call" /\ opener'[c].pc = "answer" /\ opener'[c].sid = opener[c].sid
           /\ opener'[c].resume = opener[c].resume /\ opener'[c].reaped = opener[c].reaped
           /\ \/ opener'[c].conv = opener[c].resume /\ opener[c].resume # 0
              \/ opener'[c].conv = opener[c].sid + 1
<1>1. opener[c] \in OpenerType /\ opener[c].sid \in Nat /\ opener[c].resume \in Nat
  BY DEF Typed, OpenerType
<1>2. PICK v \in (IF opener[c].resume = 0 THEN {} ELSE {opener[c].resume})
                \cup (IF opener[c].resume # 0 /\ Strict(opener[c]) THEN {} ELSE {opener[c].sid + 1}) :
           opener' = [opener EXCEPT ![c].pc = "answer", ![c].conv = v]
  BY DEF Opened
<1>3. /\ (v = opener[c].resume /\ opener[c].resume # 0) \/ v = opener[c].sid + 1
      /\ v \in Nat
      /\ opener' = [opener EXCEPT ![c].pc = "answer", ![c].conv = v]
  BY <1>1, <1>2
<1>. DEFINE o == [opener[c] EXCEPT !.pc = "answer", !.conv = v]
<1>4. /\ o \in OpenerType /\ o.pc = "answer" /\ o.sid = opener[c].sid /\ o.resume = opener[c].resume
      /\ o.conv = v /\ o.reaped = opener[c].reaped
  BY <1>1, <1>3 DEF OpenerType, Opening
<1>5. opener' = [opener EXCEPT ![c] = o] /\ opener[c].pc = "call"
  BY <1>3 DEF Opened, Typed
<1>. HIDE DEF o
<1>. QED
  BY ZenonT(60), <1>3, <1>4, <1>5 DEF Typed

\* The answer reaches the hub.
LEMMA AnsweredFields ==
    ASSUME Typed, NEW c \in Chat, Answered(c)
    PROVE  /\ opener' \in [Chat -> OpenerType]
           /\ \A d \in Chat : d # c => opener'[d] = opener[d]
           /\ opener[c].pc = "answer" /\ opener'[c].pc = "write" /\ opener'[c].sid = opener[c].sid
           /\ opener'[c].resume = opener[c].resume /\ opener'[c].reaped = opener[c].reaped
           /\ opener'[c].conv = opener[c].conv
<1>. DEFINE o == [opener[c] EXCEPT !.pc = "write"]
<1>1. opener[c] \in OpenerType
  BY DEF Typed
<1>2. /\ o \in OpenerType /\ o.pc = "write" /\ o.sid = opener[c].sid /\ o.resume = opener[c].resume
      /\ o.conv = opener[c].conv /\ o.reaped = opener[c].reaped
  BY <1>1 DEF OpenerType, Opening
<1>3. opener' = [opener EXCEPT ![c] = o] /\ opener[c].pc = "answer"
  BY DEF Answered, Typed
<1>. HIDE DEF o
<1>. QED
  BY <1>2, <1>3 DEF Typed

\* An open is given up after the vendor started.
LEMMA AbandonFields ==
    ASSUME Typed, NEW c \in Chat, Abandon(c)
    PROVE  /\ opener' \in [Chat -> OpenerType] /\ lost' \subseteq Nat
           /\ \A d \in Chat : d # c => opener'[d] = opener[d]
           /\ opener'[c] = Idle /\ lost' = lost \cup ({opener[c].sid} \cap remote)
           /\ UNCHANGED <<row, remote, minted, live, turn, unwritten, killed, forgot, kind, consent>>
<1>1. opener' = [opener EXCEPT ![c] = Idle] /\ lost' = lost \cup ({opener[c].sid} \cap remote)
  BY DEF Abandon
<1>2. opener' \in [Chat -> OpenerType] /\ opener'[c] = Idle /\ \A d \in Chat : d # c => opener'[d] = opener[d]
  BY <1>1, NoneTypes DEF Typed
<1>3. lost' \subseteq Nat
  BY <1>1 DEF Typed
<1>4. UNCHANGED <<row, remote, minted, live, turn, unwritten, killed, forgot, kind, consent>>
  BY DEF Abandon, OpenerOnly
<1>. QED
  BY <1>1, <1>2, <1>3, <1>4

\* A write of the open fails.
LEMMA OpenWriteFailsFields ==
    ASSUME Typed, NEW c \in Chat, OpenWriteFails(c)
    PROVE  /\ Abandon(c) /\ Fault /\ opener[c].pc \in {"write", "check"}
           /\ listening' \subseteq Chat /\ lease' \in {lease, Refreshed(c)}
           /\ lease' \in [Conv -> [chat : Chat \cup {0}, fresh : BOOLEAN]]
<1>1. Refreshed(c) \in [Conv -> [chat : Chat \cup {0}, fresh : BOOLEAN]]
  BY ZenonT(60) DEF Refreshed, Typed
<1>2. lease' \in {lease, Refreshed(c)} /\ listening' \in {listening, listening \cup {c}}
  BY DEF OpenWriteFails
<1>3. Abandon(c) /\ Fault /\ opener[c].pc \in {"write", "check"}
  BY DEF OpenWriteFails
<1>. QED
  BY <1>1, <1>2, <1>3 DEF Typed

\* The pointer is written (writeContinuation).
LEMMA WriteRowFields ==
    ASSUME Typed, NEW c \in Chat, WriteRow(c)
    PROVE  /\ opener' \in [Chat -> OpenerType] /\ row' \in [Chat -> RowType]
           /\ \A d \in Chat : d # c => opener'[d] = opener[d] /\ row'[d] = row[d]
           /\ opener[c].pc = "write" /\ opener'[c].pc = "check" /\ opener'[c].sid = opener[c].sid
           /\ opener'[c].resume = opener[c].resume /\ opener'[c].reaped = opener[c].reaped
           /\ opener'[c].conv = opener[c].conv
           /\ row'[c].conv = opener[c].conv /\ row'[c].sid = opener[c].sid
<1>. DEFINE o == [opener[c] EXCEPT !.pc = "check"]
            w == [conv |-> opener[c].conv, sid |-> opener[c].sid, bind |-> opener[c].bind,
                  pending |-> opener[c].pending /\ opener[c].conv # opener[c].resume, unres |-> FALSE]
<1>1. opener[c] \in OpenerType
  BY DEF Typed
<1>2. (opener[c].pending /\ opener[c].conv # opener[c].resume) \in BOOLEAN
  BY <1>1 DEF OpenerType
<1>3. w \in RowType /\ w.conv = opener[c].conv /\ w.sid = opener[c].sid
  BY <1>1, <1>2 DEF OpenerType, RowType
<1>4. /\ o \in OpenerType /\ o.pc = "check" /\ o.sid = opener[c].sid /\ o.resume = opener[c].resume
      /\ o.conv = opener[c].conv /\ o.reaped = opener[c].reaped
  BY <1>1 DEF OpenerType, Opening
<1>5. opener' = [opener EXCEPT ![c] = o] /\ opener[c].pc = "write"
  BY DEF WriteRow, Typed
<1>6. row' = [row EXCEPT ![c] = w]
  BY DEF WriteRow
<1>. HIDE DEF o, w
<1>. QED
  BY <1>3, <1>4, <1>5, <1>6 DEF Typed

\* The open is settled.
LEMMA SettleFields ==
    ASSUME Typed, NEW c \in Chat, Settle(c)
    PROVE  /\ live' \in [Chat -> LiveType] /\ turn' \in [Chat -> TurnType] /\ row' \in [Chat -> RowType]
           /\ opener' \in [Chat -> OpenerType] /\ unwritten' \in [Chat -> Nat] /\ remote' \subseteq Nat
           /\ \A d \in Chat : d # c => /\ live'[d] = live[d] /\ turn'[d] = turn[d] /\ row'[d] = row[d]
                                       /\ opener'[d] = opener[d] /\ unwritten'[d] = unwritten[d]
           /\ opener[c].pc = "check" /\ opener'[c] = Idle
           /\ \/ /\ opener[c].reaped = "no" /\ row' = row /\ remote' = remote
                 /\ live'[c].sid = opener[c].sid /\ live'[c].conv = opener[c].conv
                 /\ \/ turn' = turn
                    \/ /\ turn[c].st \in {"none", "held"} /\ turn'[c].st = "held"
                       /\ turn'[c].sid = opener[c].sid /\ turn'[c].conv = opener[c].conv
                       /\ turn'[c].ckpt = turn[c].ckpt
              \/ /\ opener[c].reaped # "no" /\ row'[c] = NoRow /\ UNCHANGED <<live, turn, unwritten>>
                 /\ remote' = remote \ {opener[c].sid}
<1>. DEFINE n == [sid |-> opener[c].sid, conv |-> opener[c].conv, bind |-> opener[c].bind]
            on == [turn[c] EXCEPT !.sid = opener[c].sid, !.conv = opener[c].conv, !.bind = opener[c].bind]
            held == [on EXCEPT !.st = "held"]
<1>1. /\ opener[c] \in OpenerType /\ turn[c] \in TurnType
      /\ opener[c].sid \in Nat /\ opener[c].conv \in Nat /\ opener[c].bind \in Nat
  BY DEF Typed, OpenerType
<1>2. n \in LiveType /\ n.sid = opener[c].sid /\ n.conv = opener[c].conv
  BY <1>1 DEF LiveType
<1>3. /\ on \in TurnType /\ on.sid = opener[c].sid /\ on.conv = opener[c].conv /\ on.st = turn[c].st
      /\ on.ckpt = turn[c].ckpt
  BY <1>1 DEF TurnType
<1>4. /\ held \in TurnType /\ held.sid = opener[c].sid /\ held.conv = opener[c].conv /\ held.st = "held"
      /\ held.ckpt = turn[c].ckpt
  BY <1>3 DEF TurnType, TurnStates
<1>5. opener[c].pc = "check" /\ opener' = [opener EXCEPT ![c] = Idle]
  BY DEF Settle
<1>6. CASE opener[c].reaped = "no"
  <2>1. /\ live' = [live EXCEPT ![c] = n] /\ row' = row /\ remote' = remote
        /\ unwritten' = [unwritten EXCEPT ![c] = 0]
    BY <1>6 DEF Settle, Register
  <2>2. \/ turn[c].st = "none" /\ turn' = [turn EXCEPT ![c] = held]
        \/ turn[c].st = "held" /\ turn' = [turn EXCEPT ![c] = on]
        \/ turn' = turn
    BY <1>6 DEF Settle, Register
  <2>. HIDE DEF n, on, held
  <2>. QED
    BY <1>2, <1>3, <1>4, <1>5, <1>6, <2>1, <2>2, NoneTypes DEF Typed
<1>7. CASE opener[c].reaped # "no"
  <2>1. /\ row' = [row EXCEPT ![c] = NoRow] /\ remote' = remote \ {opener[c].sid}
        /\ UNCHANGED <<live, unwritten, turn>>
    BY <1>7 DEF Settle, Undo
  <2>. HIDE DEF n, on, held
  <2>. QED
    BY <1>5, <1>7, <2>1, NoneTypes DEF Typed
<1>. QED
  BY <1>6, <1>7

\* One field of a turn changes.
TurnMoves(c, st) ==
    /\ turn' \in [Chat -> TurnType]
    /\ \A d \in Chat : d # c => turn'[d] = turn[d]
    /\ turn'[c].st = st /\ turn'[c].sid = turn[c].sid /\ turn'[c].conv = turn[c].conv
    /\ turn'[c].end = turn[c].end

\* The submission moves on.
LEMMA TurnMovesOn ==
    ASSUME Typed, NEW c \in Chat, NEW st \in TurnStates, turn' = [turn EXCEPT ![c].st = st]
    PROVE  TurnMoves(c, st) /\ turn'[c].ckpt = turn[c].ckpt
<1>. DEFINE t == [turn[c] EXCEPT !.st = st]
<1>1. turn[c] \in TurnType
  BY DEF Typed
<1>2. /\ t \in TurnType /\ t.st = st /\ t.sid = turn[c].sid /\ t.conv = turn[c].conv /\ t.end = turn[c].end
      /\ t.ckpt = turn[c].ckpt
  BY <1>1 DEF TurnType
<1>3. turn' = [turn EXCEPT ![c] = t]
  BY DEF Typed
<1>. HIDE DEF t
<1>. QED
  BY <1>2, <1>3 DEF Typed, TurnMoves

\* A late transcript write.
LEMMA CheckpointFields ==
    ASSUME Typed, NEW c \in Chat, Checkpoint(c)
    PROVE  TurnMoves(c, turn[c].st) /\ turn[c].st \in {"ended", "recorded"}
<1>. DEFINE t == [turn[c] EXCEPT !.ckpt = TRUE]
<1>1. turn[c] \in TurnType
  BY DEF Typed
<1>2. /\ t \in TurnType /\ t.st = turn[c].st /\ t.sid = turn[c].sid /\ t.conv = turn[c].conv
      /\ t.end = turn[c].end
  BY <1>1 DEF TurnType
<1>3. turn' = [turn EXCEPT ![c] = t] /\ turn[c].st \in {"ended", "recorded"}
  BY DEF Checkpoint, Typed
<1>. HIDE DEF t
<1>. QED
  BY <1>2, <1>3 DEF Typed, TurnMoves

\* The end of the turn reaches the stored conversation, or stays in memory.
LEMMA RecordEndFields ==
    ASSUME Typed, NEW c \in Chat, RecordEnd(c)
    PROVE  /\ TurnMoves(c, "recorded") /\ turn[c].st = "ended"
           /\ row' \in [Chat -> RowType] /\ unwritten' \in [Chat -> Nat] /\ faults' \in Nat
           /\ \A d \in Chat : d # c => row'[d] = row[d] /\ unwritten'[d] = unwritten[d]
           /\ row'[c].conv = row[c].conv /\ row'[c].sid = row[c].sid
           /\ turn[c].end = "none" => row' = row /\ unwritten' = unwritten
           /\ turn[c].end = "mark" /\ row[c].conv # 0 /\ row[c].sid = turn[c].sid =>
                 row'[c].unres = TRUE \/ unwritten'[c] = turn[c].sid
<1>0. row[c] \in RowType /\ turn[c] \in TurnType /\ turn[c].sid \in Nat
  BY DEF Typed, TurnType
<1>. DEFINE w == [row[c] EXCEPT !.unres = turn[c].end = "mark"]
<1>1. /\ w \in RowType /\ w.conv = row[c].conv /\ w.sid = row[c].sid
      /\ turn[c].end = "mark" => w.unres = TRUE
  BY <1>0 DEF RowType
<1>2. TurnMoves(c, "recorded") /\ turn[c].st = "ended"
  BY TurnMovesOn DEF RecordEnd, TurnStates
<1>3. \/ /\ turn[c].end # "none" /\ row[c].conv # 0 /\ row[c].sid = turn[c].sid
         /\ row' = [row EXCEPT ![c] = w]
         /\ unwritten' \in {unwritten, [unwritten EXCEPT ![c] = 0]}
      \/ /\ row' = row
         /\ turn[c].end # "none" => ~(row[c].conv # 0 /\ row[c].sid = turn[c].sid)
         /\ turn[c].end = "none" => unwritten' = unwritten
         /\ unwritten' \in {unwritten, [unwritten EXCEPT ![c] = 0]}
      \/ /\ row' = row
         /\ unwritten' = IF turn[c].end = "mark" THEN [unwritten EXCEPT ![c] = turn[c].sid] ELSE unwritten
  BY DEF RecordEnd, Typed
<1>4. faults' \in Nat
  BY DEF RecordEnd, Typed, Fault
<1>. HIDE DEF w
<1>. QED
  BY <1>0, <1>1, <1>2, <1>3, <1>4 DEF Typed

\* A session of another binding is reaped before the open that replaces it, which
\* does not begin when the reap fails.
LEMMA EnsureReplaces ==
    ASSUME Typed, NEW c \in Chat, NEW b \in Bind, Ensure(c, b), live[c].sid # 0, live[c].bind # b
    PROVE  /\ live' \in [Chat -> LiveType] /\ opener' \in [Chat -> OpenerType] /\ row' \in [Chat -> RowType]
           /\ lease' \in [Conv -> [chat : Chat \cup {0}, fresh : BOOLEAN]]
           /\ faults' \in Nat /\ remote' \subseteq remote /\ lost' \subseteq Nat /\ lost \subseteq lost'
           /\ \A s \in remote' : s \in lost' \/ live[c].sid # s
           /\ \E rs \in SUBSET Chat : lease' = lease \/ lease' = Released(rs)
           /\ \A d \in Chat : d # c => opener'[d] = opener[d] /\ live'[d] = live[d] /\ row'[d] = row[d]
           /\ live'[c] = NoLive /\ row'[c] \in {row[c], NoRow} /\ opener[c].pc = "idle" /\ turn[c].st = "none"
           /\ \/ opener'[c] = opener[c]
              \/ /\ row'[c] = NoRow /\ opener'[c].pc = "client" /\ opener'[c].sid = 0
                 /\ opener'[c].conv = 0 /\ opener'[c].resume = 0
           /\ UNCHANGED <<turn, killed>> /\ EnsureUnchanged
<1>. DEFINE o == [Idle EXCEPT !.pc = "client", !.bind = b, !.first = TRUE]
            cs == {c}
<1>0. b \in Nat /\ cs \in SUBSET Chat
  BY SessionBounds DEF Bind
<1>1. o \in OpenerType /\ o.pc = "client" /\ o.sid = 0 /\ o.conv = 0 /\ o.resume = 0
  BY <1>0 DEF Idle, OpenerType, Opening
<1>2. PICK undeleted \in SUBSET cs, unreleased \in SUBSET cs :
         /\ DropAndClose(cs, FALSE, undeleted, unreleased)
         /\ opener' = IF undeleted \cup unreleased # {} THEN opener ELSE [opener EXCEPT ![c] = o]
  BY DEF Ensure
<1>3. /\ live' = [live EXCEPT ![c] = NoLive] /\ UNCHANGED <<turn, killed>> /\ EnsureUnchanged
      /\ opener[c].pc = "idle" /\ turn[c].st = "none"
  BY DEF Ensure, MaySend
<1>4. /\ row' \in [Chat -> RowType]
      /\ lease' \in [Conv -> [chat : Chat \cup {0}, fresh : BOOLEAN]]
      /\ faults' \in Nat /\ remote' \subseteq remote /\ lost' \subseteq Nat /\ lost \subseteq lost'
      /\ \A s \in remote' : s \in lost' \/ \A d \in cs : live[d].sid # s
      /\ \A d \in Chat : row'[d] \in {row[d], NoRow} /\ (d \notin cs => row'[d] = row[d])
      /\ undeleted \cup unreleased = {} => \A d \in cs : row'[d] = NoRow
      /\ \E rs \in SUBSET Chat : lease' = lease \/ lease' = Released(rs)
  <2>1. DropAndClose(cs, FALSE, undeleted, unreleased) /\ FALSE \in BOOLEAN
    BY <1>2
  <2>. HIDE DEF cs
  <2>2. DropLeaves(cs) /\ (undeleted \cup unreleased = {} => \A d \in cs : row'[d] = NoRow)
    BY <1>0, <2>1, DropFields
  <2>. QED
    BY <2>2 DEF DropLeaves
<1>. HIDE DEF o
<1>5. /\ opener' \in [Chat -> OpenerType] /\ \A d \in Chat : d # c => opener'[d] = opener[d]
      /\ opener'[c] = opener[c] \/ (opener'[c] = o /\ undeleted \cup unreleased = {})
  BY <1>1, <1>2 DEF Typed
<1>6. live' \in [Chat -> LiveType] /\ live'[c] = NoLive /\ \A d \in Chat : d # c => live'[d] = live[d]
  BY <1>3, NoneTypes DEF Typed
<1>7. /\ \/ opener'[c] = opener[c]
         \/ /\ row'[c] = NoRow /\ opener'[c].pc = "client" /\ opener'[c].sid = 0
            /\ opener'[c].conv = 0 /\ opener'[c].resume = 0
      /\ \A s \in remote' : s \in lost' \/ live[c].sid # s
      /\ row'[c] \in {row[c], NoRow} /\ \A d \in Chat : d # c => row'[d] = row[d]
  BY <1>1, <1>4, <1>5
<1>. QED
  BY <1>3, <1>4, <1>5, <1>6, <1>7

\* The row cannot be dropped, and nothing is opened.
LEMMA DropFailsFields ==
    ASSUME Typed, NEW c \in Chat, NEW b \in Bind, DropFails(c, b)
    PROVE  /\ row' \in [Chat -> RowType] /\ \A d \in Chat : d # c => row'[d] = row[d]
           /\ row'[c] \in {row[c], NoRow} /\ opener[c].pc = "idle" /\ live[c].sid = 0
           /\ turn[c].st \in {"none", "held"} /\ faults' \in Nat
           /\ UNCHANGED <<live, opener, lease, turn, killed, remote, lost>> /\ EnsureUnchanged
<1>1. row' \in {row, [row EXCEPT ![c] = NoRow]}
  BY DEF DropFails
<1>2. faults' \in Nat
  BY DEF DropFails, Fault, Typed
<1>3. /\ opener[c].pc = "idle" /\ live[c].sid = 0 /\ turn[c].st \in {"none", "held"}
      /\ UNCHANGED <<live, opener, lease, turn, killed, remote, lost>> /\ EnsureUnchanged
  BY DEF DropFails, MaySend, MayReopen
<1>. QED
  BY <1>1, <1>2, <1>3, NoneTypes DEF Typed

\* The marks a restart forgets.
LEMMA RestartForgets ==
    ASSUME Typed, Restart
    PROVE  forgot' \in [memory : SUBSET Nat, checkpoint : SUBSET Nat, unheard : SUBSET Nat]
<1>1. \A d \in Chat : row[d].conv \in Nat /\ turn[d].conv \in Nat
  BY DEF Typed, RowType, TurnType
<1>. DEFINE M == forgot.memory \cup {row[d].conv : d \in {e \in Chat \ Swept : unwritten[e] # 0}}
            K == forgot.checkpoint \cup {turn[d].conv : d \in
                   {e \in Chat : turn[e].st = "ended" /\ turn[e].end = "mark" /\ turn[e].ckpt}}
<1>2. forgot.memory \subseteq Nat /\ forgot.checkpoint \subseteq Nat
  BY DEF Typed
<1>3. M \subseteq Nat /\ K \subseteq Nat
  BY <1>1, <1>2
<1>4. forgot' = [forgot EXCEPT !.memory = M, !.checkpoint = K]
  BY DEF Restart, Typed
<1>. HIDE DEF M, K
<1>. QED
  BY <1>3, <1>4 DEF Typed

\* Every step keeps the types.
LEMMA TypedStep == Typed /\ [Next]_vars => Typed'
<1>. SUFFICES ASSUME Typed, [Next]_vars PROVE Typed'
  OBVIOUS
<1>. USE DEF Typed
<1>1. ASSUME NEW c \in Chat, NEW b \in Bind, Ensure(c, b) PROVE Typed'
  <2>0. b \in Nat
    BY SessionBounds DEF Bind
  <2>1. CASE live[c].sid = 0
    BY <1>1, <2>0, <2>1, OpenFromFields DEF Ensure, EnsureUnchanged
  <2>2. CASE live[c].sid # 0 /\ live[c].bind = b
    <3>1. [NoTurn EXCEPT !.st = "held", !.sid = live[c].sid, !.conv = live[c].conv, !.bind = b] \in TurnType
      BY <2>0 DEF LiveType, NoTurn, TurnType, TurnStates
    <3>. QED
      BY <1>1, <2>2, <3>1 DEF Ensure, EnsureUnchanged
  <2>3. CASE live[c].sid # 0 /\ live[c].bind # b
    <3>1. /\ live' \in [Chat -> LiveType] /\ opener' \in [Chat -> OpenerType] /\ row' \in [Chat -> RowType]
          /\ lease' \in [Conv -> [chat : Chat \cup {0}, fresh : BOOLEAN]]
          /\ faults' \in Nat /\ remote' \subseteq remote /\ lost' \subseteq Nat
          /\ UNCHANGED <<turn, killed>> /\ EnsureUnchanged
      BY <1>1, <2>3, EnsureReplaces
    <3>. QED
      BY <3>1 DEF EnsureUnchanged
  <2>. QED
    BY <2>1, <2>2, <2>3
<1>2. ASSUME NEW c \in Chat, Reacquire(c) PROVE Typed'
  <2>1. turn[c].bind \in Nat
    BY DEF TurnType
  <2>. QED
    BY <1>2, <2>1, OpenFromFields DEF Reacquire, EnsureUnchanged
<1>2a. ASSUME NEW c \in Chat, NEW b \in Bind, DropFails(c, b) PROVE Typed'
  <2>1. /\ row' \in [Chat -> RowType] /\ faults' \in Nat
        /\ UNCHANGED <<live, opener, lease, turn, killed, remote, lost>> /\ EnsureUnchanged
    BY <1>2a, DropFailsFields
  <2>. QED
    BY <2>1 DEF EnsureUnchanged
<1>3. ASSUME NEW c \in Chat, OpenCall(c) PROVE Typed'
  <2>1. opener' \in [Chat -> OpenerType] /\ minted' \in Nat
    <3>1. opener' \in [Chat -> OpenerType] /\ minted' = minted + 1
      BY <1>3, OpenCallFields
    <3>. QED
      BY <3>1
  <2>2. UNCHANGED <<row, lease, remote, lost, listening, faults>> /\ OpenerOnly
    BY <1>3 DEF OpenCall
  <2>. QED
    BY <2>1, <2>2 DEF OpenerOnly
<1>4. ASSUME NEW c \in Chat, OpenFails(c) PROVE Typed'
  BY <1>4, NoneTypes DEF OpenFails, OpenerOnly
<1>5. ASSUME NEW c \in Chat, Opened(c) PROVE Typed'
  <2>1. opener[c].sid \in Nat
    BY DEF OpenerType
  <2>2. opener' \in [Chat -> OpenerType]
    BY <1>5, OpenedFields
  <2>3. /\ remote' = remote \cup {opener[c].sid}
        /\ UNCHANGED <<row, lease, lost, listening, minted, faults>> /\ OpenerOnly
    BY <1>5 DEF Opened
  <2>. QED
    BY <2>1, <2>2, <2>3 DEF OpenerOnly
<1>5a. ASSUME NEW c \in Chat, Answered(c) PROVE Typed'
  <2>1. opener' \in [Chat -> OpenerType]
    BY <1>5a, AnsweredFields
  <2>2. UNCHANGED <<row, lease, remote, lost, listening, minted, faults>> /\ OpenerOnly
    BY <1>5a DEF Answered
  <2>. QED
    BY <2>1, <2>2 DEF OpenerOnly
<1>5b. ASSUME NEW c \in Chat, AnswerTooLate(c) PROVE Typed'
  <2>1. opener' \in [Chat -> OpenerType] /\ lost' \subseteq Nat
    BY <1>5b, AbandonFields DEF AnswerTooLate
  <2>2. UNCHANGED <<row, remote, minted, lease, listening, faults>> /\ OpenerOnly
    BY <1>5b DEF AnswerTooLate, Abandon
  <2>. QED
    BY <2>1, <2>2 DEF OpenerOnly
<1>6. ASSUME NEW c \in Chat, WriteRow(c) PROVE Typed'
  BY <1>6, WriteRowFields DEF WriteRow, OpenerOnly
<1>7. ASSUME NEW c \in Chat, OpenWriteFails(c) PROVE Typed'
  <2>1. /\ Abandon(c) /\ Fault /\ listening' \subseteq Chat
        /\ lease' \in [Conv -> [chat : Chat \cup {0}, fresh : BOOLEAN]]
    BY <1>7, OpenWriteFailsFields
  <2>2. opener' \in [Chat -> OpenerType] /\ lost' \subseteq Nat
    BY <2>1, AbandonFields
  <2>3. faults' \in Nat
    BY <2>1 DEF Fault
  <2>4. UNCHANGED <<row, remote, minted>> /\ OpenerOnly
    BY <2>1 DEF Abandon
  <2>. QED
    BY <2>1, <2>2, <2>3, <2>4 DEF OpenerOnly
<1>8. ASSUME NEW c \in Chat, Settle(c) PROVE Typed'
  <2>1. lease' \in [Conv -> [chat : Chat \cup {0}, fresh : BOOLEAN]]
    BY ZenonT(60), <1>8 DEF Settle, Refreshed
  <2>2. RegisterUnchanged
    BY <1>8 DEF Settle
  <2>. QED
    BY <1>8, <2>1, <2>2, SettleFields DEF RegisterUnchanged
<1>9. ASSUME NEW c \in Chat, Send(c) PROVE Typed'
  <2>1. turn' = [turn EXCEPT ![c].st = "sent"]
    BY <1>9 DEF Send
  <2>2. "sent" \in TurnStates
    BY DEF TurnStates
  <2>3. turn' \in [Chat -> TurnType]
    BY <2>1, <2>2, TurnMovesOn DEF TurnMoves
  <2>. QED
    BY <1>9, <2>3 DEF Send, TurnOnly
<1>10. ASSUME NEW c \in Chat, VendorTakes(c) PROVE Typed'
  <2>1. turn' = [turn EXCEPT ![c].st = "taken"]
    BY <1>10 DEF VendorTakes
  <2>2. "taken" \in TurnStates
    BY DEF TurnStates
  <2>3. turn' \in [Chat -> TurnType]
    BY <2>1, <2>2, TurnMovesOn DEF TurnMoves
  <2>. QED
    BY <1>10, <2>3 DEF VendorTakes, TurnOnly
<1>11. ASSUME NEW c \in Chat, Accepted(c) PROVE Typed'
  <2>1. turn' = [turn EXCEPT ![c].st = "running"]
    BY <1>11 DEF Accepted
  <2>2. "running" \in TurnStates
    BY DEF TurnStates
  <2>3. turn' \in [Chat -> TurnType]
    BY <2>1, <2>2, TurnMovesOn DEF TurnMoves
  <2>. QED
    BY <1>11, <2>3 DEF Accepted, TurnOnly
<1>12. ASSUME NEW c \in Chat, NotSubmitted(c) PROVE Typed'
  <2>1. turn' = [turn EXCEPT ![c].st = "held"]
    BY <1>12 DEF NotSubmitted
  <2>2. "held" \in TurnStates
    BY DEF TurnStates
  <2>3. turn' \in [Chat -> TurnType]
    BY <2>1, <2>2, TurnMovesOn DEF TurnMoves
  <2>. QED
    BY <1>12, <2>3 DEF NotSubmitted, TurnOnly
<1>13. ASSUME NEW c \in Chat, Checkpoint(c) PROVE Typed'
  BY <1>13, CheckpointFields DEF Checkpoint, TurnOnly, TurnMoves
<1>14. ASSUME NEW c \in Chat, RecordEnd(c) PROVE Typed'
  <2>1. /\ turn' \in [Chat -> TurnType] /\ row' \in [Chat -> RowType]
        /\ unwritten' \in [Chat -> Nat] /\ faults' \in Nat
    BY <1>14, RecordEndFields DEF TurnMoves
  <2>2. UNCHANGED killed /\ TurnOnly
    BY <1>14 DEF RecordEnd
  <2>. QED
    BY <2>1, <2>2 DEF TurnOnly
<1>15. ASSUME NEW c \in Chat, SettleMessage(c) PROVE Typed'
  BY <1>15, NoneTypes DEF SettleMessage, TurnOnly
<1>16. ASSUME NEW c \in Chat, NEW drop \in BOOLEAN, Retire(c, drop) PROVE Typed'
  <2>1. ReapOf({c}, ~drop, TRUE) /\ {c} \in SUBSET Chat
    BY <1>16 DEF Retire
  <2>2. /\ live' \in [Chat -> LiveType] /\ opener' \in [Chat -> OpenerType]
        /\ row' \in [Chat -> RowType] /\ turn' \in [Chat -> TurnType]
        /\ lease' \in [Conv -> [chat : Chat \cup {0}, fresh : BOOLEAN]] /\ killed' \subseteq Nat
        /\ faults' \in Nat /\ remote' \subseteq remote /\ lost' \subseteq Nat
    BY <2>1, ReapFields DEF ReapTyped
  <2>. QED
    BY <1>16, <2>2 DEF Retire, ReapUnchanged
<1>17. ASSUME NEW c \in Chat, NEW r \in EndReason, EndTurn(c, r) PROVE Typed'
  <2>1. turn' \in [Chat -> TurnType]
    BY <1>17, EndedFields DEF EndTurn
  <2>2. killed' \subseteq Nat
    BY <1>17, KilledByFields DEF EndTurn
  <2>3. forgot' \in [memory : SUBSET Nat, checkpoint : SUBSET Nat, unheard : SUBSET Nat]
    <3>1. turn[c].conv \in Nat
      BY DEF TurnType
    <3>. QED
      BY <1>17, <3>1 DEF EndTurn
  <2>. QED
    BY <1>17, <2>1, <2>2, <2>3 DEF EndTurn
<1>18. ASSUME NEW c \in Chat, ReapChat(c) PROVE Typed'
  <2>1. ReapOf({c}, FALSE, FALSE) /\ {c} \in SUBSET Chat
    BY <1>18 DEF ReapChat
  <2>2. /\ live' \in [Chat -> LiveType] /\ opener' \in [Chat -> OpenerType]
        /\ row' \in [Chat -> RowType] /\ turn' \in [Chat -> TurnType]
        /\ lease' \in [Conv -> [chat : Chat \cup {0}, fresh : BOOLEAN]] /\ killed' \subseteq Nat
        /\ faults' \in Nat /\ remote' \subseteq remote /\ lost' \subseteq Nat
    BY <2>1, ReapFields DEF ReapTyped
  <2>. QED
    BY <1>18, <2>2 DEF ReapChat, ReapUnchanged
<1>19. ASSUME NEW c \in Chat, NEW v \in Conv, Adopt(c, v) PROVE Typed'
  <2>1. PICK b \in Bind : row' = [row EXCEPT ![c] = [NoRow EXCEPT !.conv = v, !.bind = b, !.pending = TRUE]]
    BY <1>19, Zenon DEF Adopt
  <2>. DEFINE w == [NoRow EXCEPT !.conv = v, !.bind = b, !.pending = TRUE]
  <2>2. v \in Nat /\ b \in Nat
    BY SessionBounds DEF Conv, Bind
  <2>3. w \in RowType
    BY <2>2 DEF NoRow, RowType
  <2>4. row' = [row EXCEPT ![c] = w]
    BY <2>1
  <2>. HIDE DEF w
  <2>5. row' \in [Chat -> RowType]
    BY <2>3, <2>4
  <2>6. lease' \in [Conv -> [chat : Chat \cup {0}, fresh : BOOLEAN]]
    BY <1>19 DEF Adopt
  <2>. QED
    BY <1>19, <2>5, <2>6 DEF Adopt, volatile
<1>20. CASE ReapScopeKeep
  <2>1. ReapOf(Scope, TRUE, FALSE) /\ Scope \in SUBSET Chat
    BY <1>20 DEF ReapScopeKeep, Scope
  <2>2. /\ live' \in [Chat -> LiveType] /\ opener' \in [Chat -> OpenerType]
        /\ row' \in [Chat -> RowType] /\ turn' \in [Chat -> TurnType]
        /\ lease' \in [Conv -> [chat : Chat \cup {0}, fresh : BOOLEAN]] /\ killed' \subseteq Nat
        /\ faults' \in Nat /\ remote' \subseteq remote /\ lost' \subseteq Nat
    BY <2>1, ReapFields DEF ReapTyped
  <2>. QED
    BY <1>20, <2>2 DEF ReapScopeKeep, ReapUnchanged
<1>21. CASE Withdraw
  BY <1>21, KilledByFields DEF Withdraw
<1>22. CASE ConsentRevoked
  <2>1. ReapOf(Scope, FALSE, FALSE) /\ Scope \in SUBSET Chat
    BY <1>22 DEF ConsentRevoked, Scope
  <2>2. /\ live' \in [Chat -> LiveType] /\ opener' \in [Chat -> OpenerType]
        /\ row' \in [Chat -> RowType] /\ turn' \in [Chat -> TurnType]
        /\ lease' \in [Conv -> [chat : Chat \cup {0}, fresh : BOOLEAN]] /\ killed' \subseteq Nat
        /\ faults' \in Nat /\ remote' \subseteq remote /\ lost' \subseteq Nat
    BY <2>1, ReapFields DEF ReapTyped
  <2>. QED
    BY <1>22, <2>2 DEF ConsentRevoked, ReapUnchanged
<1>23. CASE Consent
  BY <1>23 DEF Consent
<1>24. CASE ReapAll
  <2>1. ReapOf({d \in Chat : live[d].sid # 0 \/ Submitting(d)}, TRUE, FALSE) /\ {d \in Chat : live[d].sid # 0 \/ Submitting(d)} \in SUBSET Chat
    BY <1>24 DEF ReapAll
  <2>2. /\ live' \in [Chat -> LiveType] /\ opener' \in [Chat -> OpenerType]
        /\ row' \in [Chat -> RowType] /\ turn' \in [Chat -> TurnType]
        /\ lease' \in [Conv -> [chat : Chat \cup {0}, fresh : BOOLEAN]] /\ killed' \subseteq Nat
        /\ faults' \in Nat /\ remote' \subseteq remote /\ lost' \subseteq Nat
    BY <2>1, ReapFields DEF ReapTyped
  <2>. QED
    BY <1>24, <2>2 DEF ReapAll, ReapUnchanged
<1>25. CASE Disconnect
  <2>1. \A d \in Chat : Bumped(opener[d], TRUE) \in OpenerType /\ Ended(turn[d], "runtime-disconnected") \in TurnType
    BY BumpedFields, EndedFields
  <2>2. opener' \in [Chat -> OpenerType]
    BY <1>25, <2>1, NoneTypes DEF Disconnect
  <2>3. turn' \in [Chat -> TurnType]
    BY <1>25, <2>1 DEF Disconnect
  <2>. QED
    BY <1>25, <2>2, <2>3, NoneTypes, KilledByFields DEF Disconnect
<1>26. CASE Connect
  BY <1>26 DEF Connect
<1>27. CASE Restart
  <2>1. \A d \in Chat : SweptRows[d] \in RowType
    <3>. SUFFICES ASSUME NEW d \in Chat PROVE SweptRows[d] \in RowType
      OBVIOUS
    <3>1. row[d] \in RowType /\ [row[d] EXCEPT !.unres = TRUE] \in RowType
      BY DEF RowType
    <3>. QED
      BY <3>1 DEF SweptRows
  <2>2. row' \in [Chat -> RowType]
    BY <1>27, <2>1 DEF Restart, SweptRows
  <2>3. forgot' \in [memory : SUBSET Nat, checkpoint : SUBSET Nat, unheard : SUBSET Nat]
    BY <1>27, RestartForgets
  <2>4. /\ stopping' = FALSE /\ conn' = FALSE /\ crashes' = crashes + 1
        /\ live' = [d \in Chat |-> NoLive] /\ opener' = [d \in Chat |-> Idle]
        /\ turn' = [d \in Chat |-> NoTurn] /\ unwritten' = [d \in Chat |-> 0]
        /\ remote' = {} /\ lost' = {} /\ listening' = {} /\ killed' = killed \cup KilledBy(Chat)
        /\ UNCHANGED <<kind, consent, born, lease, minted, faults>>
    BY <1>27 DEF Restart
  <2>5. killed' \subseteq Nat
    BY <2>4, KilledByFields
  <2>6. live' \in [Chat -> LiveType] /\ opener' \in [Chat -> OpenerType] /\ turn' \in [Chat -> TurnType]
    BY <2>4, NoneTypes
  <2>7. /\ kind' \in Kinds /\ consent' \in {"given", "withdrawn", "known"}
        /\ stopping' \in BOOLEAN /\ conn' \in BOOLEAN /\ born' \subseteq Chat
        /\ lease' \in [Conv -> [chat : Chat \cup {0}, fresh : BOOLEAN]]
    BY <2>4
  <2>8. /\ unwritten' \in [Chat -> Nat] /\ remote' \subseteq Nat /\ lost' \subseteq Nat
        /\ listening' \subseteq Chat /\ minted' \in Nat /\ faults' \in Nat /\ crashes' \in Nat
    BY <2>4
  <2>. QED
    BY <2>2, <2>3, <2>5, <2>6, <2>7, <2>8
<1>28. ASSUME NEW v \in Conv, LeaseExpires(v) PROVE Typed'
  BY <1>28 DEF LeaseExpires, volatile
<1>29. CASE UNCHANGED vars
  BY <1>29 DEF vars, volatile, durable
<1>. HIDE DEF Typed
<1>. QED
  BY <1>1, <1>2, <1>2a, <1>3, <1>4, <1>5, <1>5a, <1>5b, <1>6, <1>7, <1>8, <1>9, <1>10, <1>11, <1>12, <1>13,
     <1>14, <1>15, <1>16, <1>17, <1>18, <1>19, <1>20, <1>21, <1>22, <1>23, <1>24, <1>25,
     <1>26, <1>27, <1>28, <1>29
     DEF Next, OpenStep, TurnStep, EndReason


\* The parts of a chat that reap() leaves as they are, and what it sets (reap).
LEMMA ReapedChats ==
    ASSUME Typed, NEW cs \in SUBSET Chat, NEW keep \in BOOLEAN, NEW retiring \in BOOLEAN,
           ReapOf(cs, keep, retiring)
    PROVE  \A d \in Chat :
              /\ live'[d].sid = IF d \in cs THEN 0 ELSE live[d].sid
              /\ opener'[d].pc = opener[d].pc /\ opener'[d].sid = opener[d].sid
              /\ d \notin cs => opener'[d] = opener[d] /\ live'[d] = live[d] /\ turn'[d] = turn[d]
              /\ d \in cs /\ opener[d].pc # "idle" => opener'[d].reaped # "no"
              /\ opener[d].reaped # "no" /\ opener[d].pc # "idle" => opener'[d].reaped # "no"
<1>. SUFFICES ASSUME NEW d \in Chat
     PROVE  /\ live'[d].sid = IF d \in cs THEN 0 ELSE live[d].sid
            /\ opener'[d].pc = opener[d].pc /\ opener'[d].sid = opener[d].sid
            /\ d \notin cs => opener'[d] = opener[d] /\ live'[d] = live[d] /\ turn'[d] = turn[d]
            /\ d \in cs /\ opener[d].pc # "idle" => opener'[d].reaped # "no"
            /\ opener[d].reaped # "no" /\ opener[d].pc # "idle" => opener'[d].reaped # "no"
  OBVIOUS
<1>1. /\ live'[d] = IF d \in cs THEN NoLive ELSE live[d]
      /\ opener'[d] = IF d \in cs THEN Bumped(opener[d], keep) ELSE opener[d]
  BY DEF ReapOf
<1>1a. d \notin cs => turn'[d] = turn[d]
  BY ReapFields DEF ReapTurns
<1>2. opener[d] \in OpenerType
  BY DEF Typed
<1>3. LET r == Bumped(opener[d], keep) IN
      /\ r.pc = opener[d].pc /\ r.sid = opener[d].sid /\ (opener[d].pc # "idle" => r.reaped # "no")
  BY <1>2, BumpedFields
<1>4. NoLive.sid = 0
  BY DEF NoLive
<1>5. CASE d \in cs
  <2>. DEFINE r == Bumped(opener[d], keep)
  <2>1. opener'[d] = r /\ live'[d].sid = 0
    BY <1>1, <1>4, <1>5
  <2>2. r.pc = opener[d].pc /\ r.sid = opener[d].sid /\ (opener[d].pc # "idle" => r.reaped # "no")
    BY <1>3
  <2>. HIDE DEF r
  <2>. QED
    BY <1>5, <2>1, <2>2
<1>6. CASE d \notin cs
  BY <1>1, <1>1a, <1>6
<1>. QED
  BY <1>5, <1>6

\* The parts that a dropped connection changes (onClose).
LEMMA DisconnectFields ==
    ASSUME Typed, OpensWithoutSession, Disconnect
    PROVE  \A d \in Chat :
              /\ live'[d] = NoLive /\ row'[d] = row[d]
              /\ \/ opener[d].pc \in {"call", "answer"} /\ opener'[d] = Idle
                 \/ /\ opener[d].pc \notin {"call", "answer"} /\ opener'[d].pc = opener[d].pc
                    /\ opener'[d].sid = opener[d].sid /\ opener'[d].conv = opener[d].conv
                    /\ opener'[d].resume = opener[d].resume
                    /\ opener[d].pc \in {"write", "check"} => opener'[d].reaped # "no"
              /\ turn'[d] = turn[d] \/ turn'[d] = Ended(turn[d], "runtime-disconnected")
<1>. SUFFICES ASSUME NEW d \in Chat
     PROVE  /\ live'[d] = NoLive /\ row'[d] = row[d]
            /\ \/ opener[d].pc \in {"call", "answer"} /\ opener'[d] = Idle
               \/ /\ opener[d].pc \notin {"call", "answer"} /\ opener'[d].pc = opener[d].pc
                  /\ opener'[d].sid = opener[d].sid /\ opener'[d].conv = opener[d].conv
                  /\ opener'[d].resume = opener[d].resume
                  /\ opener[d].pc \in {"write", "check"} => opener'[d].reaped # "no"
            /\ turn'[d] = turn[d] \/ turn'[d] = Ended(turn[d], "runtime-disconnected")
  OBVIOUS
<1>1. opener[d] \in OpenerType
  BY DEF Typed
<1>2. LET r == Bumped(opener[d], TRUE) IN
      /\ r.pc = opener[d].pc /\ r.sid = opener[d].sid /\ r.conv = opener[d].conv
      /\ r.resume = opener[d].resume /\ (opener[d].pc # "idle" => r.reaped # "no")
  BY <1>1, BumpedFields
<1>3. live'[d] = NoLive /\ row'[d] = row[d]
  BY DEF Disconnect
<1>4. \/ opener[d].pc \in {"call", "answer"} /\ opener'[d] = Idle
      \/ /\ opener[d].pc \notin {"call", "answer"}
         /\ \/ opener'[d] = Bumped(opener[d], TRUE)
            \/ opener'[d] = opener[d] /\ opener[d].pc \notin {"write", "check"}
  BY DEF Disconnect
<1>5. turn'[d] = turn[d] \/ turn'[d] = Ended(turn[d], "runtime-disconnected")
  BY DEF Disconnect
<1>6. CASE opener'[d] = Bumped(opener[d], TRUE) /\ opener[d].pc \notin {"call", "answer"}
  <2>. DEFINE r == Bumped(opener[d], TRUE)
  <2>1. opener'[d] = r
    BY <1>6
  <2>2. /\ r.pc = opener[d].pc /\ r.sid = opener[d].sid /\ r.conv = opener[d].conv
        /\ r.resume = opener[d].resume /\ (opener[d].pc # "idle" => r.reaped # "no")
    BY <1>2
  <2>. HIDE DEF r
  <2>. QED
    BY <1>3, <1>5, <1>6, <2>1, <2>2
<1>7. CASE opener[d].pc \in {"call", "answer"} /\ opener'[d] = Idle
  BY <1>3, <1>5, <1>7
<1>8. CASE opener'[d] = opener[d] /\ opener[d].pc \notin {"call", "answer", "write", "check"}
  BY <1>3, <1>5, <1>8
<1>. QED
  BY <1>4, <1>6, <1>7, <1>8

\* A chat opens only while it has no session.
LEMMA OpensStep == Typed /\ OpensWithoutSession /\ [Next]_vars => OpensWithoutSession'
<1>. SUFFICES ASSUME Typed, OpensWithoutSession, [Next]_vars PROVE OpensWithoutSession'
  OBVIOUS
<1>. USE DEF OpensWithoutSession
<1>1. ASSUME NEW c \in Chat, NEW b \in Bind, Ensure(c, b) PROVE OpensWithoutSession'
  <2>0. b \in Nat
    BY SessionBounds DEF Bind
  <2>1. CASE live[c].sid = 0
    <3>1. \A d \in Chat : d # c => opener'[d] = opener[d]
      BY <1>1, <2>0, <2>1, OpenFromFields DEF Ensure
    <3>. QED
      BY <1>1, <2>1, <3>1 DEF Ensure, EnsureUnchanged
  <2>2. CASE live[c].sid # 0 /\ live[c].bind = b
    BY <1>1, <2>2 DEF Ensure, EnsureUnchanged
  <2>3. CASE live[c].sid # 0 /\ live[c].bind # b
    BY <1>1, <2>3, EnsureReplaces DEF NoLive
  <2>. QED
    BY <2>1, <2>2, <2>3
<1>2. ASSUME NEW c \in Chat, Reacquire(c) PROVE OpensWithoutSession'
  <2>0. turn[c].bind \in Nat
    BY DEF Typed, TurnType
  <2>1. \A d \in Chat : d # c => opener'[d] = opener[d]
    BY <1>2, <2>0, OpenFromFields DEF Reacquire
  <2>. QED
    BY <1>2, <2>1 DEF Reacquire, MayReopen, EnsureUnchanged
<1>2a. ASSUME NEW c \in Chat, NEW b \in Bind, DropFails(c, b) PROVE OpensWithoutSession'
  BY <1>2a, DropFailsFields
<1>3. ASSUME NEW c \in Chat, OpenCall(c) PROVE OpensWithoutSession'
  BY <1>3, OpenCallFields DEF OpenCall, OpenerOnly
<1>4. ASSUME NEW c \in Chat, OpenFails(c) PROVE OpensWithoutSession'
  BY <1>4 DEF OpenFails, OpenerOnly, Idle, Typed
<1>5. ASSUME NEW c \in Chat, Opened(c) PROVE OpensWithoutSession'
  BY <1>5, OpenedFields DEF Opened, OpenerOnly
<1>5a. ASSUME NEW c \in Chat, Answered(c) PROVE OpensWithoutSession'
  BY <1>5a, AnsweredFields DEF Answered, OpenerOnly
<1>5b. ASSUME NEW c \in Chat, AnswerTooLate(c) PROVE OpensWithoutSession'
  BY <1>5b, AbandonFields DEF AnswerTooLate, Idle
<1>6. ASSUME NEW c \in Chat, WriteRow(c) PROVE OpensWithoutSession'
  BY <1>6, WriteRowFields DEF WriteRow, OpenerOnly
<1>7. ASSUME NEW c \in Chat, OpenWriteFails(c) PROVE OpensWithoutSession'
  BY <1>7, AbandonFields, OpenWriteFailsFields DEF Idle
<1>8. ASSUME NEW c \in Chat, Settle(c) PROVE OpensWithoutSession'
  BY <1>8, SettleFields DEF Idle
<1>9. ASSUME NEW c \in Chat, Send(c) PROVE OpensWithoutSession'
  BY <1>9 DEF Send, TurnOnly
<1>10. ASSUME NEW c \in Chat, VendorTakes(c) PROVE OpensWithoutSession'
  BY <1>10 DEF VendorTakes, TurnOnly
<1>11. ASSUME NEW c \in Chat, Accepted(c) PROVE OpensWithoutSession'
  BY <1>11 DEF Accepted, TurnOnly
<1>12. ASSUME NEW c \in Chat, NotSubmitted(c) PROVE OpensWithoutSession'
  BY <1>12 DEF NotSubmitted, TurnOnly
<1>13. ASSUME NEW c \in Chat, Checkpoint(c) PROVE OpensWithoutSession'
  BY <1>13 DEF Checkpoint, TurnOnly
<1>14. ASSUME NEW c \in Chat, RecordEnd(c) PROVE OpensWithoutSession'
  BY <1>14 DEF RecordEnd, TurnOnly
<1>15. ASSUME NEW c \in Chat, SettleMessage(c) PROVE OpensWithoutSession'
  BY <1>15 DEF SettleMessage, TurnOnly
<1>16. ASSUME NEW c \in Chat, NEW drop \in BOOLEAN, Retire(c, drop) PROVE OpensWithoutSession'
  <2>. DEFINE cs == {c}
  <2>1. ReapOf(cs, ~drop, TRUE) /\ cs \in SUBSET Chat
    BY <1>16 DEF Retire
  <2>2. \A d \in Chat :
           /\ live'[d].sid = IF d \in cs THEN 0 ELSE live[d].sid
           /\ opener'[d].pc = opener[d].pc /\ opener'[d].sid = opener[d].sid
           /\ d \notin cs => opener'[d] = opener[d] /\ live'[d] = live[d] /\ turn'[d] = turn[d]
           /\ d \in cs /\ opener[d].pc # "idle" => opener'[d].reaped # "no"
           /\ opener[d].reaped # "no" /\ opener[d].pc # "idle" => opener'[d].reaped # "no"
    BY <2>1, ReapedChats
  <2>. QED
    BY <2>2
<1>17. ASSUME NEW c \in Chat, NEW r \in EndReason, EndTurn(c, r) PROVE OpensWithoutSession'
  BY <1>17 DEF EndTurn
<1>18. ASSUME NEW c \in Chat, ReapChat(c) PROVE OpensWithoutSession'
  <2>. DEFINE cs == {c}
  <2>1. ReapOf(cs, FALSE, FALSE) /\ cs \in SUBSET Chat
    BY <1>18 DEF ReapChat
  <2>2. \A d \in Chat :
           /\ live'[d].sid = IF d \in cs THEN 0 ELSE live[d].sid
           /\ opener'[d].pc = opener[d].pc /\ opener'[d].sid = opener[d].sid
           /\ d \notin cs => opener'[d] = opener[d] /\ live'[d] = live[d] /\ turn'[d] = turn[d]
           /\ d \in cs /\ opener[d].pc # "idle" => opener'[d].reaped # "no"
           /\ opener[d].reaped # "no" /\ opener[d].pc # "idle" => opener'[d].reaped # "no"
    BY <2>1, ReapedChats
  <2>. QED
    BY <2>2
<1>19. ASSUME NEW c \in Chat, NEW v \in Conv, Adopt(c, v) PROVE OpensWithoutSession'
  BY <1>19 DEF Adopt, volatile
<1>20. CASE ReapScopeKeep
  <2>. DEFINE cs == Scope
  <2>1. ReapOf(cs, TRUE, FALSE) /\ cs \in SUBSET Chat
    BY <1>20 DEF ReapScopeKeep, Scope
  <2>2. \A d \in Chat :
           /\ live'[d].sid = IF d \in cs THEN 0 ELSE live[d].sid
           /\ opener'[d].pc = opener[d].pc /\ opener'[d].sid = opener[d].sid
           /\ d \notin cs => opener'[d] = opener[d] /\ live'[d] = live[d] /\ turn'[d] = turn[d]
           /\ d \in cs /\ opener[d].pc # "idle" => opener'[d].reaped # "no"
           /\ opener[d].reaped # "no" /\ opener[d].pc # "idle" => opener'[d].reaped # "no"
    BY <2>1, ReapedChats
  <2>. QED
    BY <2>2
<1>21. CASE Withdraw
  BY <1>21 DEF Withdraw
<1>22. CASE ConsentRevoked
  <2>. DEFINE cs == Scope
  <2>1. ReapOf(cs, FALSE, FALSE) /\ cs \in SUBSET Chat
    BY <1>22 DEF ConsentRevoked, Scope
  <2>2. \A d \in Chat :
           /\ live'[d].sid = IF d \in cs THEN 0 ELSE live[d].sid
           /\ opener'[d].pc = opener[d].pc /\ opener'[d].sid = opener[d].sid
           /\ d \notin cs => opener'[d] = opener[d] /\ live'[d] = live[d] /\ turn'[d] = turn[d]
           /\ d \in cs /\ opener[d].pc # "idle" => opener'[d].reaped # "no"
           /\ opener[d].reaped # "no" /\ opener[d].pc # "idle" => opener'[d].reaped # "no"
    BY <2>1, ReapedChats
  <2>. QED
    BY <2>2
<1>23. CASE Consent
  BY <1>23 DEF Consent
<1>24. CASE ReapAll
  <2>. DEFINE cs == {d \in Chat : live[d].sid # 0 \/ Submitting(d)}
  <2>1. ReapOf(cs, TRUE, FALSE) /\ cs \in SUBSET Chat
    BY <1>24 DEF ReapAll
  <2>2. \A d \in Chat :
           /\ live'[d].sid = IF d \in cs THEN 0 ELSE live[d].sid
           /\ opener'[d].pc = opener[d].pc /\ opener'[d].sid = opener[d].sid
           /\ d \notin cs => opener'[d] = opener[d] /\ live'[d] = live[d] /\ turn'[d] = turn[d]
           /\ d \in cs /\ opener[d].pc # "idle" => opener'[d].reaped # "no"
           /\ opener[d].reaped # "no" /\ opener[d].pc # "idle" => opener'[d].reaped # "no"
    BY <2>1, ReapedChats
  <2>. QED
    BY <2>2
<1>25. CASE Disconnect
  BY <1>25, DisconnectFields DEF NoLive
<1>26. CASE Connect
  BY <1>26 DEF Connect
<1>27. CASE Restart
  BY <1>27 DEF Restart, NoLive
<1>28. ASSUME NEW v \in Conv, LeaseExpires(v) PROVE OpensWithoutSession'
  BY <1>28 DEF LeaseExpires, volatile
<1>29. CASE UNCHANGED vars
  BY <1>29 DEF vars, volatile, durable
<1>. HIDE DEF OpensWithoutSession
<1>. QED
  BY <1>1, <1>2, <1>2a, <1>3, <1>4, <1>5, <1>5a, <1>5b, <1>6, <1>7, <1>8, <1>9, <1>10, <1>11, <1>12, <1>13,
     <1>14, <1>15, <1>16, <1>17, <1>18, <1>19, <1>20, <1>21, <1>22, <1>23, <1>24, <1>25,
     <1>26, <1>27, <1>28, <1>29
     DEF Next, OpenStep, TurnStep, EndReason

\* The sessions asked for have a number.
LEMMA NumberedStep == Typed /\ OpensWithoutSession /\ Numbered /\ [Next]_vars => Numbered'
<1>. SUFFICES ASSUME Typed, OpensWithoutSession, Numbered, [Next]_vars PROVE Numbered'
  OBVIOUS
<1>. USE DEF Numbered, Underway
<1>1. ASSUME NEW c \in Chat, NEW b \in Bind, Ensure(c, b) PROVE Numbered'
  <2>0. b \in Nat
    BY SessionBounds DEF Bind
  <2>1. CASE live[c].sid = 0
    <3>1. (\A d \in Chat : d # c => opener'[d] = opener[d]) /\ opener'[c].pc = "client"
      BY <1>1, <2>0, <2>1, OpenFromFields DEF Ensure
    <3>. QED
      BY <1>1, <2>1, <3>1 DEF Ensure, EnsureUnchanged
  <2>2. CASE live[c].sid # 0 /\ live[c].bind = b
    BY <1>1, <2>2 DEF Ensure, EnsureUnchanged
  <2>3. CASE live[c].sid # 0 /\ live[c].bind # b
    <3>1. /\ opener'[c] = opener[c] \/ opener'[c].pc = "client"
          /\ (\A d \in Chat : d # c => opener'[d] = opener[d]) /\ remote' \subseteq remote
      BY <1>1, <2>3, EnsureReplaces
    <3>. QED
      BY <3>1
  <2>. QED
    BY <2>1, <2>2, <2>3
<1>2. ASSUME NEW c \in Chat, Reacquire(c) PROVE Numbered'
  <2>0. turn[c].bind \in Nat
    BY DEF Typed, TurnType
  <2>1. (\A d \in Chat : d # c => opener'[d] = opener[d]) /\ opener'[c].pc = "client"
    BY <1>2, <2>0, OpenFromFields DEF Reacquire
  <2>. QED
    BY <1>2, <2>1 DEF Reacquire, EnsureUnchanged
<1>2a. ASSUME NEW c \in Chat, NEW b \in Bind, DropFails(c, b) PROVE Numbered'
  BY <1>2a, DropFailsFields
<1>3. ASSUME NEW c \in Chat, OpenCall(c) PROVE Numbered'
  <2>1. /\ \A d \in Chat : d # c => opener'[d] = opener[d]
        /\ opener'[c].sid = minted + 1
    BY <1>3, OpenCallFields
  <2>2. minted \in Nat /\ remote' = remote
    BY <1>3 DEF OpenCall, Typed
  <2>. QED
    BY <2>1, <2>2
<1>4. ASSUME NEW c \in Chat, OpenFails(c) PROVE Numbered'
  BY <1>4 DEF OpenFails, OpenerOnly, Idle, Typed
<1>5. ASSUME NEW c \in Chat, Opened(c) PROVE Numbered'
  <2>1. /\ \A d \in Chat : d # c => opener'[d] = opener[d]
        /\ opener[c].pc = "call" /\ opener'[c].sid = opener[c].sid
    BY <1>5, OpenedFields
  <2>2. remote' = remote \cup {opener[c].sid}
    BY <1>5 DEF Opened
  <2>. QED
    BY <2>1, <2>2
<1>5a. ASSUME NEW c \in Chat, Answered(c) PROVE Numbered'
  BY <1>5a, AnsweredFields DEF Answered, OpenerOnly
<1>5b. ASSUME NEW c \in Chat, AnswerTooLate(c) PROVE Numbered'
  BY <1>5b, AbandonFields DEF AnswerTooLate, Idle
<1>6. ASSUME NEW c \in Chat, WriteRow(c) PROVE Numbered'
  BY <1>6, WriteRowFields DEF WriteRow, OpenerOnly
<1>7. ASSUME NEW c \in Chat, OpenWriteFails(c) PROVE Numbered'
  BY <1>7, AbandonFields, OpenWriteFailsFields DEF Idle
<1>8. ASSUME NEW c \in Chat, Settle(c) PROVE Numbered'
  <2>1. /\ \A d \in Chat : d # c => opener'[d] = opener[d]
        /\ opener'[c] = Idle /\ remote' \subseteq remote
    BY <1>8, SettleFields
  <2>. QED
    BY <2>1 DEF Idle
<1>9. ASSUME NEW c \in Chat, Send(c) PROVE Numbered'
  BY <1>9 DEF Send, TurnOnly
<1>10. ASSUME NEW c \in Chat, VendorTakes(c) PROVE Numbered'
  BY <1>10 DEF VendorTakes, TurnOnly
<1>11. ASSUME NEW c \in Chat, Accepted(c) PROVE Numbered'
  BY <1>11 DEF Accepted, TurnOnly
<1>12. ASSUME NEW c \in Chat, NotSubmitted(c) PROVE Numbered'
  BY <1>12 DEF NotSubmitted, TurnOnly
<1>13. ASSUME NEW c \in Chat, Checkpoint(c) PROVE Numbered'
  BY <1>13 DEF Checkpoint, TurnOnly
<1>14. ASSUME NEW c \in Chat, RecordEnd(c) PROVE Numbered'
  BY <1>14 DEF RecordEnd, TurnOnly
<1>15. ASSUME NEW c \in Chat, SettleMessage(c) PROVE Numbered'
  BY <1>15 DEF SettleMessage, TurnOnly
<1>16. ASSUME NEW c \in Chat, NEW drop \in BOOLEAN, Retire(c, drop) PROVE Numbered'
  <2>. DEFINE cs == {c}
  <2>1. ReapOf(cs, ~drop, TRUE) /\ cs \in SUBSET Chat
    BY <1>16 DEF Retire
  <2>2. \A d \in Chat :
           /\ live'[d].sid = IF d \in cs THEN 0 ELSE live[d].sid
           /\ opener'[d].pc = opener[d].pc /\ opener'[d].sid = opener[d].sid
           /\ d \notin cs => opener'[d] = opener[d] /\ live'[d] = live[d] /\ turn'[d] = turn[d]
           /\ d \in cs /\ opener[d].pc # "idle" => opener'[d].reaped # "no"
           /\ opener[d].reaped # "no" /\ opener[d].pc # "idle" => opener'[d].reaped # "no"
    BY <2>1, ReapedChats
  <2>3. remote' \subseteq remote
    BY <2>1, ReapFields DEF ReapLoses
  <2>. QED
    BY <2>2, <2>3
<1>17. ASSUME NEW c \in Chat, NEW r \in EndReason, EndTurn(c, r) PROVE Numbered'
  BY <1>17 DEF EndTurn
<1>18. ASSUME NEW c \in Chat, ReapChat(c) PROVE Numbered'
  <2>. DEFINE cs == {c}
  <2>1. ReapOf(cs, FALSE, FALSE) /\ cs \in SUBSET Chat
    BY <1>18 DEF ReapChat
  <2>2. \A d \in Chat :
           /\ live'[d].sid = IF d \in cs THEN 0 ELSE live[d].sid
           /\ opener'[d].pc = opener[d].pc /\ opener'[d].sid = opener[d].sid
           /\ d \notin cs => opener'[d] = opener[d] /\ live'[d] = live[d] /\ turn'[d] = turn[d]
           /\ d \in cs /\ opener[d].pc # "idle" => opener'[d].reaped # "no"
           /\ opener[d].reaped # "no" /\ opener[d].pc # "idle" => opener'[d].reaped # "no"
    BY <2>1, ReapedChats
  <2>3. remote' \subseteq remote
    BY <2>1, ReapFields DEF ReapLoses
  <2>. QED
    BY <2>2, <2>3
<1>19. ASSUME NEW c \in Chat, NEW v \in Conv, Adopt(c, v) PROVE Numbered'
  BY <1>19 DEF Adopt, volatile
<1>20. CASE ReapScopeKeep
  <2>. DEFINE cs == Scope
  <2>1. ReapOf(cs, TRUE, FALSE) /\ cs \in SUBSET Chat
    BY <1>20 DEF ReapScopeKeep, Scope
  <2>2. \A d \in Chat :
           /\ live'[d].sid = IF d \in cs THEN 0 ELSE live[d].sid
           /\ opener'[d].pc = opener[d].pc /\ opener'[d].sid = opener[d].sid
           /\ d \notin cs => opener'[d] = opener[d] /\ live'[d] = live[d] /\ turn'[d] = turn[d]
           /\ d \in cs /\ opener[d].pc # "idle" => opener'[d].reaped # "no"
           /\ opener[d].reaped # "no" /\ opener[d].pc # "idle" => opener'[d].reaped # "no"
    BY <2>1, ReapedChats
  <2>3. remote' \subseteq remote
    BY <2>1, ReapFields DEF ReapLoses
  <2>. QED
    BY <2>2, <2>3
<1>21. CASE Withdraw
  BY <1>21 DEF Withdraw
<1>22. CASE ConsentRevoked
  <2>. DEFINE cs == Scope
  <2>1. ReapOf(cs, FALSE, FALSE) /\ cs \in SUBSET Chat
    BY <1>22 DEF ConsentRevoked, Scope
  <2>2. \A d \in Chat :
           /\ live'[d].sid = IF d \in cs THEN 0 ELSE live[d].sid
           /\ opener'[d].pc = opener[d].pc /\ opener'[d].sid = opener[d].sid
           /\ d \notin cs => opener'[d] = opener[d] /\ live'[d] = live[d] /\ turn'[d] = turn[d]
           /\ d \in cs /\ opener[d].pc # "idle" => opener'[d].reaped # "no"
           /\ opener[d].reaped # "no" /\ opener[d].pc # "idle" => opener'[d].reaped # "no"
    BY <2>1, ReapedChats
  <2>3. remote' \subseteq remote
    BY <2>1, ReapFields DEF ReapLoses
  <2>. QED
    BY <2>2, <2>3
<1>23. CASE Consent
  BY <1>23 DEF Consent
<1>24. CASE ReapAll
  <2>. DEFINE cs == {d \in Chat : live[d].sid # 0 \/ Submitting(d)}
  <2>1. ReapOf(cs, TRUE, FALSE) /\ cs \in SUBSET Chat
    BY <1>24 DEF ReapAll
  <2>2. \A d \in Chat :
           /\ live'[d].sid = IF d \in cs THEN 0 ELSE live[d].sid
           /\ opener'[d].pc = opener[d].pc /\ opener'[d].sid = opener[d].sid
           /\ d \notin cs => opener'[d] = opener[d] /\ live'[d] = live[d] /\ turn'[d] = turn[d]
           /\ d \in cs /\ opener[d].pc # "idle" => opener'[d].reaped # "no"
           /\ opener[d].reaped # "no" /\ opener[d].pc # "idle" => opener'[d].reaped # "no"
    BY <2>1, ReapedChats
  <2>3. remote' \subseteq remote
    BY <2>1, ReapFields DEF ReapLoses
  <2>. QED
    BY <2>2, <2>3
<1>25. CASE Disconnect
  <2>1. remote' = {}
    BY <1>25 DEF Disconnect
  <2>. QED
    BY <1>25, <2>1, DisconnectFields DEF Idle
<1>26. CASE Connect
  BY <1>26 DEF Connect
<1>27. CASE Restart
  BY <1>27 DEF Restart, Idle
<1>28. ASSUME NEW v \in Conv, LeaseExpires(v) PROVE Numbered'
  BY <1>28 DEF LeaseExpires, volatile
<1>29. CASE UNCHANGED vars
  BY <1>29 DEF vars, volatile, durable
<1>. HIDE DEF Numbered, Underway
<1>. QED
  BY <1>1, <1>2, <1>2a, <1>3, <1>4, <1>5, <1>5a, <1>5b, <1>6, <1>7, <1>8, <1>9, <1>10, <1>11, <1>12, <1>13,
     <1>14, <1>15, <1>16, <1>17, <1>18, <1>19, <1>20, <1>21, <1>22, <1>23, <1>24, <1>25,
     <1>26, <1>27, <1>28, <1>29
     DEF Next, OpenStep, TurnStep, EndReason

\* Every session the runtime runs has an owner.
LEMMA OwnedStep == Typed /\ OpensWithoutSession /\ Numbered /\ NoOrphanSession /\ [Next]_vars => NoOrphanSession'
<1>. SUFFICES ASSUME Typed, OpensWithoutSession, Numbered, NoOrphanSession, [Next]_vars PROVE NoOrphanSession'
  OBVIOUS
<1>0. NoOrphanSession' <=>
        \A s \in remote' : \/ s \in lost'
                           \/ \E d \in Chat : live'[d].sid = s
                           \/ \E d \in Chat : opener'[d].pc \in {"answer", "write", "check"} /\ opener'[d].sid = s
  BY DEF NoOrphanSession, Underway
<1>00. \A s \in remote : \/ s \in lost
                         \/ \E d \in Chat : live[d].sid = s
                         \/ \E d \in Chat : opener[d].pc \in {"answer", "write", "check"} /\ opener[d].sid = s
  BY DEF NoOrphanSession, Underway
<1>1. ASSUME NEW c \in Chat, NEW b \in Bind, Ensure(c, b) PROVE NoOrphanSession'
  <2>0. b \in Nat
    BY SessionBounds DEF Bind
  <2>1. CASE live[c].sid = 0
    <3>1. (\A d \in Chat : d # c => opener'[d] = opener[d]) /\ opener[c].pc = "idle" /\ UNCHANGED <<live, remote, lost>>
      BY <1>1, <2>0, <2>1, OpenFromFields DEF Ensure, MaySend, EnsureUnchanged
    <3>. QED
      BY <3>1, <1>0, <1>00
  <2>2. CASE live[c].sid # 0 /\ live[c].bind = b
    <3>1. UNCHANGED <<live, opener, remote, lost>>
      BY <1>1, <2>2 DEF Ensure, EnsureUnchanged
    <3>. QED
      BY <3>1, <1>0, <1>00
  <2>3. CASE live[c].sid # 0 /\ live[c].bind # b
    <3>1. /\ \A d \in Chat : d # c => opener'[d] = opener[d] /\ live'[d] = live[d]
          /\ opener[c].pc = "idle" /\ remote' \subseteq remote /\ lost \subseteq lost'
          /\ \A s \in remote' : s \in lost' \/ live[c].sid # s
      BY <1>1, <2>3, EnsureReplaces
    <3>. QED
      BY <3>1, <1>0, <1>00
  <2>. QED
    BY <2>1, <2>2, <2>3
<1>2. ASSUME NEW c \in Chat, Reacquire(c) PROVE NoOrphanSession'
  <2>0. turn[c].bind \in Nat
    BY DEF Typed, TurnType
  <2>1. (\A d \in Chat : d # c => opener'[d] = opener[d]) /\ opener[c].pc = "idle" /\ UNCHANGED <<live, remote, lost>>
    BY <1>2, <2>0, OpenFromFields DEF Reacquire, MayReopen, EnsureUnchanged
  <2>. QED
    BY <2>1, <1>0, <1>00
<1>2a. ASSUME NEW c \in Chat, NEW b \in Bind, DropFails(c, b) PROVE NoOrphanSession'
  <2>1. UNCHANGED <<live, opener, remote, lost>>
    BY <1>2a, DropFailsFields
  <2>. QED
    BY <2>1, <1>0, <1>00
<1>3. ASSUME NEW c \in Chat, OpenCall(c) PROVE NoOrphanSession'
  <2>1. (\A d \in Chat : d # c => opener'[d] = opener[d]) /\ opener[c].pc = "client" /\ UNCHANGED <<live, remote, lost>>
    BY <1>3, OpenCallFields DEF OpenCall, OpenerOnly
  <2>. QED
    BY <2>1, <1>0, <1>00
<1>4. ASSUME NEW c \in Chat, OpenFails(c) PROVE NoOrphanSession'
  <2>1. (\A d \in Chat : d # c => opener'[d] = opener[d]) /\ opener[c].pc \in {"client", "call"} /\ UNCHANGED <<live, remote, lost>>
    BY <1>4 DEF OpenFails, OpenerOnly, Typed
  <2>. QED
    BY <2>1, <1>0, <1>00
<1>5. ASSUME NEW c \in Chat, Opened(c) PROVE NoOrphanSession'
  <2>1. /\ \A d \in Chat : d # c => opener'[d] = opener[d]
        /\ opener'[c].pc = "answer" /\ opener[c].pc = "call" /\ opener'[c].sid = opener[c].sid
    BY <1>5, OpenedFields
  <2>2. remote' = remote \cup {opener[c].sid} /\ UNCHANGED <<live, lost>>
    BY <1>5 DEF Opened, OpenerOnly
  <2>. QED
    BY <2>1, <2>2, <1>0, <1>00
<1>5a. ASSUME NEW c \in Chat, Answered(c) PROVE NoOrphanSession'
  <2>1. /\ \A d \in Chat : d # c => opener'[d] = opener[d]
        /\ opener'[c].pc = "write" /\ opener'[c].sid = opener[c].sid
    BY <1>5a, AnsweredFields
  <2>2. UNCHANGED <<live, remote, lost>>
    BY <1>5a DEF Answered, OpenerOnly
  <2>. QED
    BY <2>1, <2>2, <1>0, <1>00
<1>5b. ASSUME NEW c \in Chat, AnswerTooLate(c) PROVE NoOrphanSession'
  <2>1. /\ \A d \in Chat : d # c => opener'[d] = opener[d]
        /\ lost' = lost \cup ({opener[c].sid} \cap remote) /\ UNCHANGED <<live, remote>>
    BY <1>5b, AbandonFields DEF AnswerTooLate
  <2>. QED
    BY <2>1, <1>0, <1>00
<1>6. ASSUME NEW c \in Chat, WriteRow(c) PROVE NoOrphanSession'
  <2>1. /\ \A d \in Chat : d # c => opener'[d] = opener[d]
        /\ opener'[c].pc = "check" /\ opener'[c].sid = opener[c].sid
    BY <1>6, WriteRowFields
  <2>2. UNCHANGED <<live, remote, lost>>
    BY <1>6 DEF WriteRow, OpenerOnly
  <2>. QED
    BY <2>1, <2>2, <1>0, <1>00
<1>7. ASSUME NEW c \in Chat, OpenWriteFails(c) PROVE NoOrphanSession'
  <2>1. /\ \A d \in Chat : d # c => opener'[d] = opener[d]
        /\ lost' = lost \cup ({opener[c].sid} \cap remote) /\ UNCHANGED <<live, remote>>
    BY <1>7, AbandonFields, OpenWriteFailsFields
  <2>. QED
    BY <2>1, <1>0, <1>00
<1>8. ASSUME NEW c \in Chat, Settle(c) PROVE NoOrphanSession'
  <2>1. \A d \in Chat : d # c => opener'[d] = opener[d] /\ live'[d] = live[d]
    BY <1>8, SettleFields
  <2>2. \/ remote' = remote /\ live'[c].sid = opener[c].sid
        \/ remote' = remote \ {opener[c].sid} /\ live' = live
    BY <1>8, SettleFields
  <2>3. live[c].sid = 0 /\ 0 \notin remote /\ lost' = lost
    BY <1>8 DEF Settle, RegisterUnchanged, OpensWithoutSession, Numbered
  <2>. QED
    BY <2>1, <2>2, <2>3, <1>0, <1>00
<1>9. ASSUME NEW c \in Chat, Send(c) PROVE NoOrphanSession'
  <2>1. UNCHANGED <<live, opener, remote, lost>>
    BY <1>9 DEF Send, TurnOnly
  <2>. QED
    BY <2>1, <1>0, <1>00
<1>10. ASSUME NEW c \in Chat, VendorTakes(c) PROVE NoOrphanSession'
  <2>1. UNCHANGED <<live, opener, remote, lost>>
    BY <1>10 DEF VendorTakes, TurnOnly
  <2>. QED
    BY <2>1, <1>0, <1>00
<1>11. ASSUME NEW c \in Chat, Accepted(c) PROVE NoOrphanSession'
  <2>1. UNCHANGED <<live, opener, remote, lost>>
    BY <1>11 DEF Accepted, TurnOnly
  <2>. QED
    BY <2>1, <1>0, <1>00
<1>12. ASSUME NEW c \in Chat, NotSubmitted(c) PROVE NoOrphanSession'
  <2>1. UNCHANGED <<live, opener, remote, lost>>
    BY <1>12 DEF NotSubmitted, TurnOnly
  <2>. QED
    BY <2>1, <1>0, <1>00
<1>13. ASSUME NEW c \in Chat, Checkpoint(c) PROVE NoOrphanSession'
  <2>1. UNCHANGED <<live, opener, remote, lost>>
    BY <1>13 DEF Checkpoint, TurnOnly
  <2>. QED
    BY <2>1, <1>0, <1>00
<1>14. ASSUME NEW c \in Chat, RecordEnd(c) PROVE NoOrphanSession'
  <2>1. UNCHANGED <<live, opener, remote, lost>>
    BY <1>14 DEF RecordEnd, TurnOnly
  <2>. QED
    BY <2>1, <1>0, <1>00
<1>15. ASSUME NEW c \in Chat, SettleMessage(c) PROVE NoOrphanSession'
  <2>1. UNCHANGED <<live, opener, remote, lost>>
    BY <1>15 DEF SettleMessage, TurnOnly
  <2>. QED
    BY <2>1, <1>0, <1>00
<1>16. ASSUME NEW c \in Chat, NEW drop \in BOOLEAN, Retire(c, drop) PROVE NoOrphanSession'
  <2>. DEFINE cs == {c}
  <2>1. ReapOf(cs, ~drop, TRUE) /\ cs \in SUBSET Chat
    BY <1>16 DEF Retire
  <2>2. \A d \in Chat :
           /\ live'[d].sid = IF d \in cs THEN 0 ELSE live[d].sid
           /\ opener'[d].pc = opener[d].pc /\ opener'[d].sid = opener[d].sid
           /\ d \notin cs => opener'[d] = opener[d] /\ live'[d] = live[d] /\ turn'[d] = turn[d]
           /\ d \in cs /\ opener[d].pc # "idle" => opener'[d].reaped # "no"
           /\ opener[d].reaped # "no" /\ opener[d].pc # "idle" => opener'[d].reaped # "no"
    BY <2>1, ReapedChats
  <2>3. /\ remote' \subseteq remote /\ lost \subseteq lost'
        /\ \A s \in remote' : s \in lost' \/ \A d \in cs : live[d].sid # s
    BY <2>1, ReapFields DEF ReapLoses
  <2>. QED
    BY <2>2, <2>3, <1>0, <1>00
<1>17. ASSUME NEW c \in Chat, NEW r \in EndReason, EndTurn(c, r) PROVE NoOrphanSession'
  <2>1. UNCHANGED <<live, opener, remote, lost>>
    BY <1>17 DEF EndTurn
  <2>. QED
    BY <2>1, <1>0, <1>00
<1>18. ASSUME NEW c \in Chat, ReapChat(c) PROVE NoOrphanSession'
  <2>. DEFINE cs == {c}
  <2>1. ReapOf(cs, FALSE, FALSE) /\ cs \in SUBSET Chat
    BY <1>18 DEF ReapChat
  <2>2. \A d \in Chat :
           /\ live'[d].sid = IF d \in cs THEN 0 ELSE live[d].sid
           /\ opener'[d].pc = opener[d].pc /\ opener'[d].sid = opener[d].sid
           /\ d \notin cs => opener'[d] = opener[d] /\ live'[d] = live[d] /\ turn'[d] = turn[d]
           /\ d \in cs /\ opener[d].pc # "idle" => opener'[d].reaped # "no"
           /\ opener[d].reaped # "no" /\ opener[d].pc # "idle" => opener'[d].reaped # "no"
    BY <2>1, ReapedChats
  <2>3. /\ remote' \subseteq remote /\ lost \subseteq lost'
        /\ \A s \in remote' : s \in lost' \/ \A d \in cs : live[d].sid # s
    BY <2>1, ReapFields DEF ReapLoses
  <2>. QED
    BY <2>2, <2>3, <1>0, <1>00
<1>19. ASSUME NEW c \in Chat, NEW v \in Conv, Adopt(c, v) PROVE NoOrphanSession'
  <2>1. UNCHANGED <<live, opener, remote, lost>>
    BY <1>19 DEF Adopt, volatile
  <2>. QED
    BY <2>1, <1>0, <1>00
<1>20. CASE ReapScopeKeep
  <2>. DEFINE cs == Scope
  <2>1. ReapOf(cs, TRUE, FALSE) /\ cs \in SUBSET Chat
    BY <1>20 DEF ReapScopeKeep, Scope
  <2>2. \A d \in Chat :
           /\ live'[d].sid = IF d \in cs THEN 0 ELSE live[d].sid
           /\ opener'[d].pc = opener[d].pc /\ opener'[d].sid = opener[d].sid
           /\ d \notin cs => opener'[d] = opener[d] /\ live'[d] = live[d] /\ turn'[d] = turn[d]
           /\ d \in cs /\ opener[d].pc # "idle" => opener'[d].reaped # "no"
           /\ opener[d].reaped # "no" /\ opener[d].pc # "idle" => opener'[d].reaped # "no"
    BY <2>1, ReapedChats
  <2>3. /\ remote' \subseteq remote /\ lost \subseteq lost'
        /\ \A s \in remote' : s \in lost' \/ \A d \in cs : live[d].sid # s
    BY <2>1, ReapFields DEF ReapLoses
  <2>. QED
    BY <2>2, <2>3, <1>0, <1>00
<1>21. CASE Withdraw
  <2>1. remote' = {}
    BY <1>21 DEF Withdraw
  <2>. QED
    BY <2>1, <1>0, <1>00
<1>22. CASE ConsentRevoked
  <2>. DEFINE cs == Scope
  <2>1. ReapOf(cs, FALSE, FALSE) /\ cs \in SUBSET Chat
    BY <1>22 DEF ConsentRevoked, Scope
  <2>2. \A d \in Chat :
           /\ live'[d].sid = IF d \in cs THEN 0 ELSE live[d].sid
           /\ opener'[d].pc = opener[d].pc /\ opener'[d].sid = opener[d].sid
           /\ d \notin cs => opener'[d] = opener[d] /\ live'[d] = live[d] /\ turn'[d] = turn[d]
           /\ d \in cs /\ opener[d].pc # "idle" => opener'[d].reaped # "no"
           /\ opener[d].reaped # "no" /\ opener[d].pc # "idle" => opener'[d].reaped # "no"
    BY <2>1, ReapedChats
  <2>3. /\ remote' \subseteq remote /\ lost \subseteq lost'
        /\ \A s \in remote' : s \in lost' \/ \A d \in cs : live[d].sid # s
    BY <2>1, ReapFields DEF ReapLoses
  <2>. QED
    BY <2>2, <2>3, <1>0, <1>00
<1>23. CASE Consent
  <2>1. UNCHANGED <<live, opener, remote, lost>>
    BY <1>23 DEF Consent
  <2>. QED
    BY <2>1, <1>0, <1>00
<1>24. CASE ReapAll
  <2>. DEFINE cs == {d \in Chat : live[d].sid # 0 \/ Submitting(d)}
  <2>1. ReapOf(cs, TRUE, FALSE) /\ cs \in SUBSET Chat
    BY <1>24 DEF ReapAll
  <2>2. \A d \in Chat :
           /\ live'[d].sid = IF d \in cs THEN 0 ELSE live[d].sid
           /\ opener'[d].pc = opener[d].pc /\ opener'[d].sid = opener[d].sid
           /\ d \notin cs => opener'[d] = opener[d] /\ live'[d] = live[d] /\ turn'[d] = turn[d]
           /\ d \in cs /\ opener[d].pc # "idle" => opener'[d].reaped # "no"
           /\ opener[d].reaped # "no" /\ opener[d].pc # "idle" => opener'[d].reaped # "no"
    BY <2>1, ReapedChats
  <2>3. /\ remote' \subseteq remote /\ lost \subseteq lost'
        /\ \A s \in remote' : s \in lost' \/ \A d \in cs : live[d].sid # s
    BY <2>1, ReapFields DEF ReapLoses
  <2>. QED
    BY <2>2, <2>3, <1>0, <1>00
<1>25. CASE Disconnect
  <2>1. remote' = {}
    BY <1>25 DEF Disconnect
  <2>. QED
    BY <2>1, <1>0, <1>00
<1>26. CASE Connect
  <2>1. UNCHANGED <<live, opener, remote, lost>>
    BY <1>26 DEF Connect
  <2>. QED
    BY <2>1, <1>0, <1>00
<1>27. CASE Restart
  <2>1. remote' = {}
    BY <1>27 DEF Restart
  <2>. QED
    BY <2>1, <1>0, <1>00
<1>28. ASSUME NEW v \in Conv, LeaseExpires(v) PROVE NoOrphanSession'
  <2>1. UNCHANGED <<live, opener, remote, lost>>
    BY <1>28 DEF LeaseExpires, volatile
  <2>. QED
    BY <2>1, <1>0, <1>00
<1>29. CASE UNCHANGED vars
  <2>1. UNCHANGED <<live, opener, remote, lost>>
    BY <1>29 DEF vars, volatile, durable
  <2>. QED
    BY <2>1, <1>0, <1>00
<1>. QED
  BY <1>1, <1>2, <1>2a, <1>3, <1>4, <1>5, <1>5a, <1>5b, <1>6, <1>7, <1>8, <1>9, <1>10, <1>11, <1>12, <1>13,
     <1>14, <1>15, <1>16, <1>17, <1>18, <1>19, <1>20, <1>21, <1>22, <1>23, <1>24, <1>25,
     <1>26, <1>27, <1>28, <1>29
     DEF Next, OpenStep, TurnStep, EndReason

\* Withdrawn consent leaves no session and no open that will register one.
LEMMA WithdrawnStep == Typed /\ OpensWithoutSession /\ WithdrawnMeansClosed /\ WithdrawnReapsOpens /\ [Next]_vars => (WithdrawnMeansClosed /\ WithdrawnReapsOpens)'
<1>. SUFFICES ASSUME Typed, OpensWithoutSession, WithdrawnMeansClosed, WithdrawnReapsOpens, [Next]_vars PROVE (WithdrawnMeansClosed /\ WithdrawnReapsOpens)'
  OBVIOUS
<1>. USE DEF WithdrawnMeansClosed, WithdrawnReapsOpens, Underway
<1>1. ASSUME NEW c \in Chat, NEW b \in Bind, Ensure(c, b) PROVE (WithdrawnMeansClosed /\ WithdrawnReapsOpens)'
  <2>0. b \in Nat
    BY SessionBounds DEF Bind
  <2>1. CASE live[c].sid = 0
    <3>1. (\A d \in Chat : d # c => opener'[d] = opener[d]) /\ opener'[c].pc = "client"
      BY <1>1, <2>0, <2>1, OpenFromFields DEF Ensure
    <3>. QED
      BY <1>1, <2>1, <3>1 DEF Ensure, EnsureUnchanged
  <2>2. CASE live[c].sid # 0 /\ live[c].bind = b
    BY <1>1, <2>2 DEF Ensure, EnsureUnchanged
  <2>3. CASE live[c].sid # 0 /\ live[c].bind # b
    <3>1. (opener'[c] = opener[c] \/ opener'[c].pc = "client") /\ (\A d \in Chat : d # c => opener'[d] = opener[d]) /\ (\A d \in Chat : live'[d].sid = 0 \/ live'[d].sid = live[d].sid) /\ consent' = consent
      BY <1>1, <2>3, EnsureReplaces DEF EnsureUnchanged, NoLive
    <3>. QED
      BY <3>1
  <2>. QED
    BY <2>1, <2>2, <2>3
<1>2. ASSUME NEW c \in Chat, Reacquire(c) PROVE (WithdrawnMeansClosed /\ WithdrawnReapsOpens)'
  <2>0. turn[c].bind \in Nat
    BY DEF Typed, TurnType
  <2>1. (\A d \in Chat : d # c => opener'[d] = opener[d]) /\ opener'[c].pc = "client"
    BY <1>2, <2>0, OpenFromFields DEF Reacquire
  <2>. QED
    BY <1>2, <2>1 DEF Reacquire, EnsureUnchanged
<1>2a. ASSUME NEW c \in Chat, NEW b \in Bind, DropFails(c, b) PROVE (WithdrawnMeansClosed /\ WithdrawnReapsOpens)'
  BY <1>2a, DropFailsFields DEF EnsureUnchanged
<1>3. ASSUME NEW c \in Chat, OpenCall(c) PROVE (WithdrawnMeansClosed /\ WithdrawnReapsOpens)'
  BY <1>3, OpenCallFields DEF OpenCall, OpenerOnly
<1>4. ASSUME NEW c \in Chat, OpenFails(c) PROVE (WithdrawnMeansClosed /\ WithdrawnReapsOpens)'
  BY <1>4 DEF OpenFails, OpenerOnly, Idle, Typed
<1>5. ASSUME NEW c \in Chat, Opened(c) PROVE (WithdrawnMeansClosed /\ WithdrawnReapsOpens)'
  BY <1>5 DEF Opened, OpenerOnly
<1>5a. ASSUME NEW c \in Chat, Answered(c) PROVE (WithdrawnMeansClosed /\ WithdrawnReapsOpens)'
  BY <1>5a, AnsweredFields DEF Answered, OpenerOnly
<1>5b. ASSUME NEW c \in Chat, AnswerTooLate(c) PROVE (WithdrawnMeansClosed /\ WithdrawnReapsOpens)'
  BY <1>5b, AbandonFields DEF AnswerTooLate, Idle
<1>6. ASSUME NEW c \in Chat, WriteRow(c) PROVE (WithdrawnMeansClosed /\ WithdrawnReapsOpens)'
  BY <1>6, WriteRowFields DEF WriteRow, OpenerOnly
<1>7. ASSUME NEW c \in Chat, OpenWriteFails(c) PROVE (WithdrawnMeansClosed /\ WithdrawnReapsOpens)'
  BY <1>7, AbandonFields, OpenWriteFailsFields DEF Idle
<1>8. ASSUME NEW c \in Chat, Settle(c) PROVE (WithdrawnMeansClosed /\ WithdrawnReapsOpens)'
  <2>1. /\ \A d \in Chat : d # c => opener'[d] = opener[d] /\ live'[d] = live[d]
        /\ opener'[c] = Idle /\ consent' = consent /\ opener[c].pc = "check"
    BY ZenonT(60), <1>8, SettleFields DEF Settle, RegisterUnchanged
  <2>2. consent = "known" => live' = live
    BY <1>8, <2>1, SettleFields
  <2>. QED
    BY <2>1, <2>2 DEF Idle
<1>9. ASSUME NEW c \in Chat, Send(c) PROVE (WithdrawnMeansClosed /\ WithdrawnReapsOpens)'
  BY <1>9 DEF Send, TurnOnly
<1>10. ASSUME NEW c \in Chat, VendorTakes(c) PROVE (WithdrawnMeansClosed /\ WithdrawnReapsOpens)'
  BY <1>10 DEF VendorTakes, TurnOnly
<1>11. ASSUME NEW c \in Chat, Accepted(c) PROVE (WithdrawnMeansClosed /\ WithdrawnReapsOpens)'
  BY <1>11 DEF Accepted, TurnOnly
<1>12. ASSUME NEW c \in Chat, NotSubmitted(c) PROVE (WithdrawnMeansClosed /\ WithdrawnReapsOpens)'
  BY <1>12 DEF NotSubmitted, TurnOnly
<1>13. ASSUME NEW c \in Chat, Checkpoint(c) PROVE (WithdrawnMeansClosed /\ WithdrawnReapsOpens)'
  BY <1>13 DEF Checkpoint, TurnOnly
<1>14. ASSUME NEW c \in Chat, RecordEnd(c) PROVE (WithdrawnMeansClosed /\ WithdrawnReapsOpens)'
  BY <1>14 DEF RecordEnd, TurnOnly
<1>15. ASSUME NEW c \in Chat, SettleMessage(c) PROVE (WithdrawnMeansClosed /\ WithdrawnReapsOpens)'
  BY <1>15 DEF SettleMessage, TurnOnly
<1>16. ASSUME NEW c \in Chat, NEW drop \in BOOLEAN, Retire(c, drop) PROVE (WithdrawnMeansClosed /\ WithdrawnReapsOpens)'
  <2>. DEFINE cs == {c}
  <2>1. ReapOf(cs, ~drop, TRUE) /\ cs \in SUBSET Chat
    BY <1>16 DEF Retire
  <2>2. \A d \in Chat :
           /\ live'[d].sid = IF d \in cs THEN 0 ELSE live[d].sid
           /\ opener'[d].pc = opener[d].pc /\ opener'[d].sid = opener[d].sid
           /\ d \notin cs => opener'[d] = opener[d] /\ live'[d] = live[d] /\ turn'[d] = turn[d]
           /\ d \in cs /\ opener[d].pc # "idle" => opener'[d].reaped # "no"
           /\ opener[d].reaped # "no" /\ opener[d].pc # "idle" => opener'[d].reaped # "no"
    BY <2>1, ReapedChats
  <2>4. consent' = consent
    BY <1>16 DEF Retire, ReapUnchanged
  <2>. QED
    BY <2>2, <2>4
<1>17. ASSUME NEW c \in Chat, NEW r \in EndReason, EndTurn(c, r) PROVE (WithdrawnMeansClosed /\ WithdrawnReapsOpens)'
  BY <1>17 DEF EndTurn
<1>18. ASSUME NEW c \in Chat, ReapChat(c) PROVE (WithdrawnMeansClosed /\ WithdrawnReapsOpens)'
  <2>. DEFINE cs == {c}
  <2>1. ReapOf(cs, FALSE, FALSE) /\ cs \in SUBSET Chat
    BY <1>18 DEF ReapChat
  <2>2. \A d \in Chat :
           /\ live'[d].sid = IF d \in cs THEN 0 ELSE live[d].sid
           /\ opener'[d].pc = opener[d].pc /\ opener'[d].sid = opener[d].sid
           /\ d \notin cs => opener'[d] = opener[d] /\ live'[d] = live[d] /\ turn'[d] = turn[d]
           /\ d \in cs /\ opener[d].pc # "idle" => opener'[d].reaped # "no"
           /\ opener[d].reaped # "no" /\ opener[d].pc # "idle" => opener'[d].reaped # "no"
    BY <2>1, ReapedChats
  <2>4. consent' = consent
    BY <1>18 DEF ReapChat, ReapUnchanged
  <2>. QED
    BY <2>2, <2>4
<1>19. ASSUME NEW c \in Chat, NEW v \in Conv, Adopt(c, v) PROVE (WithdrawnMeansClosed /\ WithdrawnReapsOpens)'
  BY <1>19 DEF Adopt, volatile
<1>20. CASE ReapScopeKeep
  <2>. DEFINE cs == Scope
  <2>1. ReapOf(cs, TRUE, FALSE) /\ cs \in SUBSET Chat
    BY <1>20 DEF ReapScopeKeep, Scope
  <2>2. \A d \in Chat :
           /\ live'[d].sid = IF d \in cs THEN 0 ELSE live[d].sid
           /\ opener'[d].pc = opener[d].pc /\ opener'[d].sid = opener[d].sid
           /\ d \notin cs => opener'[d] = opener[d] /\ live'[d] = live[d] /\ turn'[d] = turn[d]
           /\ d \in cs /\ opener[d].pc # "idle" => opener'[d].reaped # "no"
           /\ opener[d].reaped # "no" /\ opener[d].pc # "idle" => opener'[d].reaped # "no"
    BY <2>1, ReapedChats
  <2>4. consent' = consent
    BY <1>20 DEF ReapScopeKeep, ReapUnchanged
  <2>. QED
    BY <2>2, <2>4
<1>21. CASE Withdraw
  BY <1>21 DEF Withdraw
<1>22. CASE ConsentRevoked
  <2>. DEFINE cs == Scope
  <2>1. ReapOf(cs, FALSE, FALSE) /\ cs \in SUBSET Chat
    BY <1>22 DEF ConsentRevoked, Scope
  <2>2. \A d \in Chat :
           /\ live'[d].sid = IF d \in cs THEN 0 ELSE live[d].sid
           /\ opener'[d].pc = opener[d].pc /\ opener'[d].sid = opener[d].sid
           /\ d \notin cs => opener'[d] = opener[d] /\ live'[d] = live[d] /\ turn'[d] = turn[d]
           /\ d \in cs /\ opener[d].pc # "idle" => opener'[d].reaped # "no"
           /\ opener[d].reaped # "no" /\ opener[d].pc # "idle" => opener'[d].reaped # "no"
    BY <2>1, ReapedChats
  <2>4. \A d \in Chat : live[d].sid # 0 \/ opener[d].pc # "idle" => d \in cs
    BY DEF Scope
  <2>. QED
    BY <2>2, <2>4
<1>23. CASE Consent
  BY <1>23 DEF Consent
<1>24. CASE ReapAll
  <2>. DEFINE cs == {d \in Chat : live[d].sid # 0 \/ Submitting(d)}
  <2>1. ReapOf(cs, TRUE, FALSE) /\ cs \in SUBSET Chat
    BY <1>24 DEF ReapAll
  <2>2. \A d \in Chat :
           /\ live'[d].sid = IF d \in cs THEN 0 ELSE live[d].sid
           /\ opener'[d].pc = opener[d].pc /\ opener'[d].sid = opener[d].sid
           /\ d \notin cs => opener'[d] = opener[d] /\ live'[d] = live[d] /\ turn'[d] = turn[d]
           /\ d \in cs /\ opener[d].pc # "idle" => opener'[d].reaped # "no"
           /\ opener[d].reaped # "no" /\ opener[d].pc # "idle" => opener'[d].reaped # "no"
    BY <2>1, ReapedChats
  <2>4. consent' = consent
    BY <1>24 DEF ReapAll, ReapUnchanged
  <2>. QED
    BY <2>2, <2>4
<1>25. CASE Disconnect
  <2>1. consent' = consent
    BY <1>25 DEF Disconnect
  <2>. QED
    BY <1>25, <2>1, DisconnectFields DEF NoLive, Idle
<1>26. CASE Connect
  BY <1>26 DEF Connect
<1>27. CASE Restart
  BY <1>27 DEF Restart, NoLive, Idle
<1>28. ASSUME NEW v \in Conv, LeaseExpires(v) PROVE (WithdrawnMeansClosed /\ WithdrawnReapsOpens)'
  BY <1>28 DEF LeaseExpires, volatile
<1>29. CASE UNCHANGED vars
  BY <1>29 DEF vars, volatile, durable
<1>. HIDE DEF WithdrawnMeansClosed, WithdrawnReapsOpens, Underway
<1>. QED
  BY <1>1, <1>2, <1>2a, <1>3, <1>4, <1>5, <1>5a, <1>5b, <1>6, <1>7, <1>8, <1>9, <1>10, <1>11, <1>12, <1>13,
     <1>14, <1>15, <1>16, <1>17, <1>18, <1>19, <1>20, <1>21, <1>22, <1>23, <1>24, <1>25,
     <1>26, <1>27, <1>28, <1>29
     DEF Next, OpenStep, TurnStep, EndReason

\* Initially nothing is open.
LEMMA SessionInit == Init => SessionInv
<1>. SUFFICES ASSUME Init PROVE SessionInv
  OBVIOUS
<1>1. Typed
  BY NoneTypes, SessionBounds DEF Init, Typed
<1>2. OpensWithoutSession /\ Numbered /\ WithdrawnMeansClosed /\ WithdrawnReapsOpens
  BY DEF Init, OpensWithoutSession, Numbered, WithdrawnMeansClosed, WithdrawnReapsOpens, Underway, NoLive, Idle
<1>3. NoOrphanSession
  BY DEF Init, NoOrphanSession
<1>. QED
  BY <1>1, <1>2, <1>3 DEF SessionInv

\* SessionInv holds in every reachable state: the owners of sessions and opens
\* (ensureSession, openSession, reap, reapScope).
THEOREM SessionsInvariant == Spec => []SessionInv
<1>1. SessionInv /\ [Next]_vars => SessionInv'
  BY TypedStep, OpensStep, NumberedStep, OwnedStep, WithdrawnStep DEF SessionInv
<1>. QED
  BY <1>1, SessionInit, PTL DEF Spec

\* The types of the specification.
THEOREM SessionTypes == Spec => []TypeOK
<1>1. SessionInv => TypeOK
  BY DEF SessionInv, Typed, TypeOK, LiveType, OpenerType, RowType, TurnType
<1>. QED
  BY <1>1, SessionsInvariant, PTL

\* No vendor session runs without an owner, through reaps, opens that overlap them,
\* dropped connections and crashes, but for the ones in `lost`: those of a reap, an
\* undo or an open whose database write threw, and those of an open answered after
\* the hub's timer (openSession and its undo, reap).
THEOREM NoSessionIsOrphaned == Spec => []NoOrphanSession
<1>1. SessionInv => NoOrphanSession
  BY DEF SessionInv
<1>. QED
  BY <1>1, SessionsInvariant, PTL

\* No chat has a session once the hub knows that consent is withdrawn (reapScope,
\* openSession after its last await).
THEOREM WithdrawalCloses == Spec => []WithdrawnMeansClosed
<1>1. SessionInv => WithdrawnMeansClosed
  BY DEF SessionInv
<1>. QED
  BY <1>1, SessionsInvariant, PTL

-----------------------------------------------------------------------------
(* The adoption lease.                                                     *)

\* A step that moves a claim moves one that was released or had expired.
MovesFreeClaims ==
    \A v \in Conv :
          /\ lease[v].chat # 0 /\ lease[v].fresh
          /\ lease'[v].chat # 0
          => lease'[v].chat = lease[v].chat

\* No step takes a live claim from its holder.
LEMMA LeaseStep == Typed /\ [Next]_vars => MovesFreeClaims
<1>. SUFFICES ASSUME Typed, [Next]_vars PROVE MovesFreeClaims
  OBVIOUS
<1>. USE DEF Typed, MovesFreeClaims
<1>1. ASSUME NEW c \in Chat, NEW b \in Bind, Ensure(c, b) PROVE MovesFreeClaims
  <2>1. \E rs \in SUBSET Chat : lease' = lease \/ lease' = Released(rs)
    <3>1. CASE live[c].sid # 0 /\ live[c].bind # b
      BY <1>1, <3>1, EnsureReplaces
    <3>2. CASE ~(live[c].sid # 0 /\ live[c].bind # b)
      <4>1. lease' = lease \/ lease' = Released({c})
        BY <1>1, <3>2 DEF Ensure, OpenFrom
      <4>. QED
        BY <4>1
    <3>. QED
      BY <3>1, <3>2
  <2>. QED
    BY <2>1 DEF Released
<1>2. ASSUME NEW c \in Chat, Reacquire(c) PROVE MovesFreeClaims
  <2>1. lease' = lease \/ lease' = Released({c})
    BY <1>2 DEF Reacquire, EnsureUnchanged, OpenFrom
  <2>. QED
    BY <2>1 DEF Released
<1>2a. ASSUME NEW c \in Chat, NEW b \in Bind, DropFails(c, b) PROVE MovesFreeClaims
  <2>1. lease' = lease
    BY <1>2a, DropFailsFields
  <2>. QED
    BY <2>1
<1>3. ASSUME NEW c \in Chat, OpenCall(c) PROVE MovesFreeClaims
  <2>1. lease' = lease
    BY <1>3 DEF OpenCall, OpenerOnly
  <2>. QED
    BY <2>1
<1>4. ASSUME NEW c \in Chat, OpenFails(c) PROVE MovesFreeClaims
  <2>1. lease' = lease
    BY <1>4 DEF OpenFails, OpenerOnly
  <2>. QED
    BY <2>1
<1>5. ASSUME NEW c \in Chat, Opened(c) PROVE MovesFreeClaims
  <2>1. lease' = lease
    BY <1>5 DEF Opened, OpenerOnly
  <2>. QED
    BY <2>1
<1>5a. ASSUME NEW c \in Chat, Answered(c) PROVE MovesFreeClaims
  <2>1. lease' = lease
    BY <1>5a DEF Answered
  <2>. QED
    BY <2>1
<1>5b. ASSUME NEW c \in Chat, AnswerTooLate(c) PROVE MovesFreeClaims
  <2>1. lease' = lease
    BY <1>5b DEF AnswerTooLate
  <2>. QED
    BY <2>1
<1>6. ASSUME NEW c \in Chat, WriteRow(c) PROVE MovesFreeClaims
  <2>1. lease' = lease
    BY <1>6 DEF WriteRow, OpenerOnly
  <2>. QED
    BY <2>1
<1>7. ASSUME NEW c \in Chat, OpenWriteFails(c) PROVE MovesFreeClaims
  BY <1>7, OpenWriteFailsFields DEF Refreshed
<1>8. ASSUME NEW c \in Chat, Settle(c) PROVE MovesFreeClaims
  BY <1>8 DEF Settle, Refreshed
<1>9. ASSUME NEW c \in Chat, Send(c) PROVE MovesFreeClaims
  <2>1. lease' = lease
    BY <1>9 DEF Send, TurnOnly
  <2>. QED
    BY <2>1
<1>10. ASSUME NEW c \in Chat, VendorTakes(c) PROVE MovesFreeClaims
  <2>1. lease' = lease
    BY <1>10 DEF VendorTakes, TurnOnly
  <2>. QED
    BY <2>1
<1>11. ASSUME NEW c \in Chat, Accepted(c) PROVE MovesFreeClaims
  <2>1. lease' = lease
    BY <1>11 DEF Accepted, TurnOnly
  <2>. QED
    BY <2>1
<1>12. ASSUME NEW c \in Chat, NotSubmitted(c) PROVE MovesFreeClaims
  <2>1. lease' = lease
    BY <1>12 DEF NotSubmitted, TurnOnly
  <2>. QED
    BY <2>1
<1>13. ASSUME NEW c \in Chat, Checkpoint(c) PROVE MovesFreeClaims
  <2>1. lease' = lease
    BY <1>13 DEF Checkpoint, TurnOnly
  <2>. QED
    BY <2>1
<1>14. ASSUME NEW c \in Chat, RecordEnd(c) PROVE MovesFreeClaims
  <2>1. lease' = lease
    BY <1>14 DEF RecordEnd, TurnOnly
  <2>. QED
    BY <2>1
<1>15. ASSUME NEW c \in Chat, SettleMessage(c) PROVE MovesFreeClaims
  <2>1. lease' = lease
    BY <1>15 DEF SettleMessage, TurnOnly
  <2>. QED
    BY <2>1
<1>16. ASSUME NEW c \in Chat, NEW drop \in BOOLEAN, Retire(c, drop) PROVE MovesFreeClaims
  <2>1. ReapOf({c}, ~drop, TRUE) /\ {c} \in SUBSET Chat
    BY <1>16 DEF Retire
  <2>2. \E rs \in SUBSET Chat : lease' = lease \/ lease' = Released(rs)
    BY <2>1, ReapFields DEF ReapLeases
  <2>. QED
    BY <2>2 DEF Released
<1>17. ASSUME NEW c \in Chat, NEW r \in EndReason, EndTurn(c, r) PROVE MovesFreeClaims
  <2>1. lease' = lease
    BY <1>17 DEF EndTurn
  <2>. QED
    BY <2>1
<1>18. ASSUME NEW c \in Chat, ReapChat(c) PROVE MovesFreeClaims
  <2>1. ReapOf({c}, FALSE, FALSE) /\ {c} \in SUBSET Chat
    BY <1>18 DEF ReapChat
  <2>2. \E rs \in SUBSET Chat : lease' = lease \/ lease' = Released(rs)
    BY <2>1, ReapFields DEF ReapLeases
  <2>. QED
    BY <2>2 DEF Released
<1>19. ASSUME NEW c \in Chat, NEW v \in Conv, Adopt(c, v) PROVE MovesFreeClaims
  BY <1>19 DEF Adopt, volatile
<1>20. CASE ReapScopeKeep
  <2>1. ReapOf(Scope, TRUE, FALSE) /\ Scope \in SUBSET Chat
    BY <1>20 DEF ReapScopeKeep, Scope
  <2>2. \E rs \in SUBSET Chat : lease' = lease \/ lease' = Released(rs)
    BY <2>1, ReapFields DEF ReapLeases
  <2>. QED
    BY <2>2 DEF Released
<1>21. CASE Withdraw
  <2>1. lease' = lease
    BY <1>21 DEF Withdraw
  <2>. QED
    BY <2>1
<1>22. CASE ConsentRevoked
  <2>1. ReapOf(Scope, FALSE, FALSE) /\ Scope \in SUBSET Chat
    BY <1>22 DEF ConsentRevoked, Scope
  <2>2. \E rs \in SUBSET Chat : lease' = lease \/ lease' = Released(rs)
    BY <2>1, ReapFields DEF ReapLeases
  <2>. QED
    BY <2>2 DEF Released
<1>23. CASE Consent
  <2>1. lease' = lease
    BY <1>23 DEF Consent
  <2>. QED
    BY <2>1
<1>24. CASE ReapAll
  <2>1. ReapOf({d \in Chat : live[d].sid # 0 \/ Submitting(d)}, TRUE, FALSE) /\ {d \in Chat : live[d].sid # 0 \/ Submitting(d)} \in SUBSET Chat
    BY <1>24 DEF ReapAll
  <2>2. \E rs \in SUBSET Chat : lease' = lease \/ lease' = Released(rs)
    BY <2>1, ReapFields DEF ReapLeases
  <2>. QED
    BY <2>2 DEF Released
<1>25. CASE Disconnect
  <2>1. lease' = lease
    BY <1>25 DEF Disconnect
  <2>. QED
    BY <2>1
<1>26. CASE Connect
  <2>1. lease' = lease
    BY <1>26 DEF Connect
  <2>. QED
    BY <2>1
<1>27. CASE Restart
  <2>1. lease' = lease
    BY <1>27 DEF Restart
  <2>. QED
    BY <2>1
<1>28. ASSUME NEW v \in Conv, LeaseExpires(v) PROVE MovesFreeClaims
  BY <1>28 DEF LeaseExpires, volatile
<1>29. CASE UNCHANGED vars
  <2>1. lease' = lease
    BY <1>29 DEF vars, volatile, durable
  <2>. QED
    BY <2>1
<1>. HIDE DEF Typed, MovesFreeClaims
<1>. QED
  BY <1>1, <1>2, <1>2a, <1>3, <1>4, <1>5, <1>5a, <1>5b, <1>6, <1>7, <1>8, <1>9, <1>10, <1>11, <1>12, <1>13,
     <1>14, <1>15, <1>16, <1>17, <1>18, <1>19, <1>20, <1>21, <1>22, <1>23, <1>24, <1>25,
     <1>26, <1>27, <1>28, <1>29
     DEF Next, OpenStep, TurnStep, EndReason

\* A live claim on a conversation changes hands only after it was released or
\* expired (refresh and claim of the adoption lease repository).
THEOREM LeasesAreHonoured == Spec => LeaseChangesHandsWhenFree
<1>1. SessionInv /\ [Next]_vars => MovesFreeClaims
  BY LeaseStep DEF SessionInv
<1>2. SessionInv /\ [Next]_vars =>
        [\A v \in Conv :
            /\ lease[v].chat # 0 /\ lease[v].fresh
            /\ lease'[v].chat # 0
            => lease'[v].chat = lease[v].chat]_vars
  BY <1>1 DEF MovesFreeClaims
<1>. QED
  BY <1>2, SessionsInvariant, PTL DEF Spec, LeaseChangesHandsWhenFree

-----------------------------------------------------------------------------
(* Killed turns.                                                           *)

\* A chat that a step leaves alone.
Same(d) ==
    /\ live'[d] = live[d] /\ opener'[d] = opener[d] /\ row'[d] = row[d] /\ turn'[d] = turn[d]
    /\ unwritten'[d] = unwritten[d]

\* Conversations and sessions are numbered from 1.
LEMMA PointersAreNumbers ==
    ASSUME Typed, NEW c \in Chat
    PROVE  Convs(c) \subseteq Nat \ {0} /\ Sids(c) \subseteq Nat \ {0}
<1>1. /\ row[c].conv \in Nat /\ live[c].conv \in Nat /\ turn[c].conv \in Nat /\ opener[c].resume \in Nat
      /\ opener[c].conv \in Nat /\ live[c].sid \in Nat /\ turn[c].sid \in Nat /\ opener[c].sid \in Nat
  BY DEF Typed, RowType, LiveType, TurnType, OpenerType
<1>2. Started(c) \subseteq Nat
  BY <1>1 DEF Started
<1>. QED
  BY <1>1, <1>2 DEF Convs, Sids

\* What a chat points to stays its own, and only an open asks for a new session.
LEMMA ApartKept ==
    ASSUME Typed, Apart, NEW c \in Chat, minted' \in {minted, minted + 1},
           \A d \in Chat :
              /\ \A v \in Convs(d)' : v \in Convs(d) \/ (d = c /\ minted' = minted + 1 /\ v = minted + 2)
              /\ \A s \in Sids(d)' : s \in Sids(d) \/ (d = c /\ minted' = minted + 1 /\ s = minted + 1),
           \A v \in killed' : v \in killed \/ \E d \in Chat : v \in Convs(d)
    PROVE  Apart'
<1>0. minted \in Nat /\ minted' \in Nat /\ minted <= minted' /\ killed \subseteq Nat
  BY DEF Typed
<1>1. \A d \in Chat : Convs(d) \subseteq Nat \ {0} /\ Sids(d) \subseteq Nat \ {0}
  BY PointersAreNumbers
<1>2. \A d \in Chat : (\A v \in Convs(d) : v <= minted + 1) /\ (\A s \in Sids(d) : s <= minted)
  BY DEF Apart
<1>3. \A d \in Chat : (\A v \in Convs(d)' : v <= minted' + 1) /\ (\A s \in Sids(d)' : s <= minted')
  BY <1>0, <1>1, <1>2
<1>4. ASSUME NEW d \in Chat, NEW e \in Chat, d # e
      PROVE  Convs(d)' \cap Convs(e)' = {} /\ Sids(d)' \cap Sids(e)' = {}
  <2>1. Convs(d) \cap Convs(e) = {} /\ Sids(d) \cap Sids(e) = {}
    BY <1>4 DEF Apart
  <2>2. minted + 2 \notin Convs(d) /\ minted + 2 \notin Convs(e)
    BY <1>0, <1>1, <1>2
  <2>3. minted + 1 \notin Sids(d) /\ minted + 1 \notin Sids(e)
    BY <1>0, <1>1, <1>2
  <2>4. \A v : ~(v \in Convs(d)' /\ v \in Convs(e)')
    BY <1>4, <2>1, <2>2
  <2>5. \A s : ~(s \in Sids(d)' /\ s \in Sids(e)')
    BY <1>4, <2>1, <2>3
  <2>. QED
    BY <2>4, <2>5
<1>5. \A v \in killed' : v # 0 /\ v <= minted' + 1
  <2>. SUFFICES ASSUME NEW v \in killed' PROVE v # 0 /\ v <= minted' + 1
    OBVIOUS
  <2>1. CASE v \in killed
    <3>1. v \in Nat /\ v # 0 /\ v <= minted + 1
      BY <1>0, <2>1 DEF Apart
    <3>2. \A a, b, e \in Nat : a <= b + 1 /\ b <= e => a <= e + 1
      OBVIOUS
    <3>. QED
      BY <1>0, <3>1, <3>2
  <2>2. CASE \E d \in Chat : v \in Convs(d)
    BY <1>0, <1>1, <1>2, <2>2
  <2>. QED
    BY <2>1, <2>2
<1>. QED
  BY <1>3, <1>4, <1>5 DEF Apart

\* A turn killed by a lost session is of the chat that points to its conversation.
LEMMA KilledLocal ==
    ASSUME Typed, Apart, NEW d \in Chat, Agree(d), NEW cs \in SUBSET Chat, NEW v \in KilledBy(cs),
           \A e \in Chat : Agree(e)
    PROVE  /\ \E e \in Chat : v \in Convs(e)
           /\ v \in Convs(d) => d \in cs /\ turn[d].st \in {"taken", "running"} /\ turn[d].conv = v
<1>1. PICK e \in cs : turn[e].st \in {"taken", "running"} /\ turn[e].conv = v
  BY KilledByFields
<1>2. turn[e].conv # 0 /\ e \in Chat
  BY <1>1 DEF Agree, Handed
<1>3. v \in Convs(e)
  BY <1>1, <1>2 DEF Convs
<1>. QED
  BY <1>1, <1>2, <1>3 DEF Apart

\* What a chat keeps when a step leaves it alone and kills no turn of it.
LEMMA QuietChat ==
    ASSUME NEW d \in Chat, Agree(d), Guarded(d), Same(d), ContinuesKilledTurn,
           0 \notin killed', \A v \in Convs(d) : v \in killed' => v \in killed,
           turn[d].sid # 0 /\ turn[d].sid \in remote' => turn[d].sid \in remote,
           Forgotten \subseteq Forgotten'
    PROVE  Agree(d)' /\ Guarded(d)'
<1>1. Agree(d)'
  BY DEF Agree, Underway, Same, Handed
<1>2. \A v \in Convs(d) \cup {0} : v \in Poisoned' => v \in Poisoned
  BY DEF Poisoned
<1>3. \A v \in Convs(d) \cup {0} : v \in killed' => v \in killed
  OBVIOUS
<1>4. {row[d].conv, turn[d].conv, opener[d].resume, opener[d].conv} \cup Started(d) \subseteq Convs(d) \cup {0}
  BY DEF Convs
<1>5. Started(d)' = Started(d) /\ (StartsFresh(d)' <=> StartsFresh(d)) /\ (Pending(d)' <=> Pending(d))
  BY DEF Started, Same, StartsFresh, Pending
<1>6. turn[d].st \in {"taken", "running"} => turn[d].sid # 0
  BY DEF Agree
<1>. QED
  BY <1>1, <1>2, <1>3, <1>4, <1>5, <1>6 DEF Guarded, Same

\* A step of one chat.
LEMMA OneChatActs ==
    ASSUME Typed, Apart, \A d \in Chat : Agree(d) /\ Guarded(d), ContinuesKilledTurn,
           ContinuesKilledTurn', NEW c \in Chat, Agree(c)', Guarded(c)',
           \A d \in Chat : d # c => Same(d),
           minted' \in {minted, minted + 1},
           \A v \in Convs(c)' : v \in Convs(c) \/ (minted' = minted + 1 /\ v = minted + 2),
           \A s \in Sids(c)' : s \in Sids(c) \/ (minted' = minted + 1 /\ s = minted + 1),
           killed' \subseteq killed \cup Convs(c), remote' \subseteq remote \cup Sids(c),
           Forgotten \subseteq Forgotten'
    PROVE  KilledInv'
<1>1. \A d \in Chat : d # c => Convs(d)' = Convs(d) /\ Sids(d)' = Sids(d)
  BY DEF Same, Convs, Sids, Started
<1>2. Apart'
  <2>1. \A d \in Chat :
          /\ \A v \in Convs(d)' : v \in Convs(d) \/ (d = c /\ minted' = minted + 1 /\ v = minted + 2)
          /\ \A s \in Sids(d)' : s \in Sids(d) \/ (d = c /\ minted' = minted + 1 /\ s = minted + 1)
    BY <1>1
  <2>2. \A v \in killed' : v \in killed \/ \E d \in Chat : v \in Convs(d)
    OBVIOUS
  <2>. QED
    BY <2>1, <2>2, ApartKept
<1>3. ASSUME NEW d \in Chat, d # c PROVE Agree(d)' /\ Guarded(d)'
  <2>1. Convs(d) \cap Convs(c) = {} /\ Sids(d) \cap Sids(c) = {}
    BY <1>3 DEF Apart
  <2>2. 0 \notin killed'
    BY <1>2 DEF Apart
  <2>3. \A v \in Convs(d) : v \in killed' => v \in killed
    BY <2>1
  <2>4. turn[d].sid # 0 /\ turn[d].sid \in remote' => turn[d].sid \in remote
    BY <2>1 DEF Sids
  <2>. QED
    BY <1>3, <2>2, <2>3, <2>4, QuietChat
<1>. QED
  BY <1>2, <1>3 DEF KilledInv

\* An open reads the row: a marked or killed conversation is not taken over.
LEMMA OpenFromKills ==
    ASSUME Typed, OpensWithoutSession, Apart, \A d \in Chat : Agree(d) /\ Guarded(d), ContinuesKilledTurn,
           NEW c \in Chat, NEW b \in Nat, NEW first \in BOOLEAN, OpenFrom(c, b, first),
           opener[c].pc = "idle", turn[c].st \in {"none", "held"}, live[c].sid = 0,
           UNCHANGED <<live, turn, killed, remote, unwritten, minted, forgot, kind>>
    PROVE  KilledInv'
<1>0. Agree(c) /\ Guarded(c) /\ 0 \notin killed
  BY DEF Apart
<1>1. /\ \A d \in Chat : d # c => Same(d)
      /\ row'[c] \in {row[c], NoRow} /\ NoRow.conv = 0 /\ opener'[c].pc = "client"
      /\ opener'[c].sid = 0 /\ opener'[c].conv = 0
      /\ \/ opener'[c].resume = 0
         \/ opener'[c].resume = row[c].conv /\ row[c].conv # 0 /\ ~StartsFresh(c)
      /\ live'[c] = live[c] /\ turn'[c] = turn[c] /\ unwritten'[c] = unwritten[c] /\ killed' = killed
      /\ remote' = remote /\ minted' = minted /\ forgot' = forgot /\ kind' = kind
  BY OpenFromFields DEF Same, NoRow
<1>a. Agree(c)'
  BY <1>0, <1>1 DEF Agree, Underway, Handed, Active
<1>g. Guarded(c)'
  BY <1>0, <1>1 DEF Guarded, Agree, Pending, StartsFresh, Poisoned, Handed, Started, Forgotten
<1>c. \A v \in Convs(c)' : v \in Convs(c)
  BY <1>1 DEF Convs, Started
<1>s. \A s \in Sids(c)' : s \in Sids(c)
  BY <1>1 DEF Sids
<1>m. minted' \in {minted, minted + 1} /\ killed' \subseteq killed \cup Convs(c) /\ remote' \subseteq remote \cup Sids(c)
  BY <1>1
<1>f. Forgotten \subseteq Forgotten' /\ ContinuesKilledTurn'
  BY <1>1 DEF Forgotten, ContinuesKilledTurn
<1>. QED
  BY <1>1, <1>a, <1>g, <1>c, <1>s, <1>m, <1>f, OneChatActs

\* A send takes the chat's session.
LEMMA EnsureHolds ==
    ASSUME Typed, OpensWithoutSession, Apart, \A d \in Chat : Agree(d) /\ Guarded(d), ContinuesKilledTurn,
           NEW c \in Chat, NEW b \in Bind, Ensure(c, b), live[c].sid # 0, live[c].bind = b
    PROVE  KilledInv'
<1>0. Agree(c) /\ Guarded(c) /\ 0 \notin killed
  BY DEF Apart
<1>1. /\ \A d \in Chat : d # c => Same(d)
      /\ opener[c].pc = "idle" /\ live[c].sid # 0 /\ turn[c].st = "none"
      /\ turn'[c].st = "held" /\ turn'[c].sid = live[c].sid /\ turn'[c].conv = live[c].conv
      /\ turn'[c].end = "none" /\ turn'[c].ckpt = FALSE
      /\ row'[c] = row[c] /\ opener'[c] = opener[c] /\ live'[c] = live[c] /\ unwritten'[c] = unwritten[c]
      /\ killed' = killed /\ remote' = remote /\ minted' = minted /\ forgot' = forgot /\ kind' = kind
  <2>. DEFINE t == [NoTurn EXCEPT !.st = "held", !.sid = live[c].sid, !.conv = live[c].conv, !.bind = b]
  <2>1. t.st = "held" /\ t.sid = live[c].sid /\ t.conv = live[c].conv /\ t.end = "none" /\ t.ckpt = FALSE
    BY DEF NoTurn
  <2>2. /\ opener[c].pc = "idle" /\ turn[c].st = "none" /\ turn' = [turn EXCEPT ![c] = t]
        /\ UNCHANGED <<live, opener, row, lease, killed, remote>> /\ EnsureUnchanged
    BY DEF Ensure, MaySend
  <2>. HIDE DEF t
  <2>. QED
    BY <2>1, <2>2 DEF Typed, Same, EnsureUnchanged
<1>a. Agree(c)'
  BY <1>0, <1>1 DEF Agree, Underway, Handed, Active
<1>g. Guarded(c)'
  BY <1>0, <1>1 DEF Guarded, Agree, Pending, StartsFresh, Poisoned, Handed, Started, Forgotten
<1>c. \A v \in Convs(c)' : v \in Convs(c)
  BY <1>1 DEF Convs, Started
<1>s. \A s \in Sids(c)' : s \in Sids(c)
  BY <1>1 DEF Sids
<1>m. minted' \in {minted, minted + 1} /\ killed' \subseteq killed \cup Convs(c) /\ remote' \subseteq remote \cup Sids(c)
  BY <1>1
<1>f. Forgotten \subseteq Forgotten' /\ ContinuesKilledTurn'
  BY <1>1 DEF Forgotten, ContinuesKilledTurn
<1>. QED
  BY <1>1, <1>a, <1>g, <1>c, <1>s, <1>m, <1>f, OneChatActs

\* A session of another binding goes, with its pointer.
LEMMA EnsureReplacesKills ==
    ASSUME Typed, OpensWithoutSession, Apart, \A d \in Chat : Agree(d) /\ Guarded(d), ContinuesKilledTurn,
           NEW c \in Chat, NEW b \in Bind, Ensure(c, b), live[c].sid # 0, live[c].bind # b
    PROVE  KilledInv'
<1>0. Agree(c) /\ Guarded(c) /\ 0 \notin killed
  BY DEF Apart
<1>1. /\ \A d \in Chat : d # c => Same(d)
      /\ opener[c].pc = "idle" /\ turn[c].st = "none" /\ turn'[c] = turn[c]
      /\ \/ opener'[c] = opener[c]
         \/ /\ opener'[c].pc = "client" /\ opener'[c].sid = 0 /\ opener'[c].conv = 0
            /\ opener'[c].resume = 0
      /\ row'[c] = row[c] \/ row'[c].conv = 0
      /\ live'[c].sid = 0 /\ live'[c].conv = 0 /\ unwritten'[c] = unwritten[c]
      /\ killed' = killed /\ remote' \subseteq remote /\ minted' = minted /\ forgot' = forgot /\ kind' = kind
  BY EnsureReplaces DEF Same, EnsureUnchanged, NoRow, NoLive
<1>a. Agree(c)'
  BY <1>0, <1>1 DEF Agree, Underway, Handed, Active
<1>g. Guarded(c)'
  BY <1>0, <1>1 DEF Guarded, Agree, Pending, StartsFresh, Poisoned, Handed, Started, Forgotten
<1>c. \A v \in Convs(c)' : v \in Convs(c)
  BY <1>1 DEF Convs, Started
<1>s. \A s \in Sids(c)' : s \in Sids(c)
  BY <1>1 DEF Sids
<1>m. minted' \in {minted, minted + 1} /\ killed' \subseteq killed \cup Convs(c) /\ remote' \subseteq remote \cup Sids(c)
  BY <1>1
<1>f. Forgotten \subseteq Forgotten' /\ ContinuesKilledTurn'
  BY <1>1 DEF Forgotten, ContinuesKilledTurn
<1>. QED
  BY <1>1, <1>a, <1>g, <1>c, <1>s, <1>m, <1>f, OneChatActs

\* The open asks for a session that nobody has.
LEMMA OpenCallKills ==
    ASSUME Typed, OpensWithoutSession, Apart, \A d \in Chat : Agree(d) /\ Guarded(d), ContinuesKilledTurn,
           NEW c \in Chat, OpenCall(c)
    PROVE  KilledInv'
<1>0. Agree(c) /\ Guarded(c) /\ 0 \notin killed
  BY DEF Apart
<1>1. /\ \A d \in Chat : d # c => Same(d)
      /\ opener[c].pc = "client" /\ opener'[c].pc = "call" /\ opener'[c].sid = minted + 1
      /\ opener'[c].resume = opener[c].resume /\ opener'[c].conv = opener[c].conv
      /\ row'[c] = row[c] /\ live'[c] = live[c] /\ turn'[c] = turn[c] /\ unwritten'[c] = unwritten[c]
      /\ killed' = killed /\ remote' = remote /\ minted' = minted + 1 /\ forgot' = forgot /\ kind' = kind
  <2>1. /\ \A d \in Chat : d # c => opener'[d] = opener[d]
        /\ opener'[c].pc = "call" /\ opener'[c].sid = minted + 1 /\ minted' = minted + 1
        /\ opener'[c].resume = opener[c].resume /\ opener'[c].conv = opener[c].conv
    BY OpenCallFields
  <2>. QED
    BY <2>1 DEF Same, OpenCall, OpenerOnly

<1>2. minted \in Nat /\ minted + 1 # 0 /\ turn[c].sid # minted + 1
  <2>1. minted \in Nat /\ turn[c].sid \in Nat /\ minted + 1 # 0
    BY DEF Typed, TurnType
  <2>2. turn[c].sid # 0 => turn[c].sid <= minted
    BY DEF Apart, Sids
  <2>. QED
    BY <2>1, <2>2
<1>3. minted + 2 \notin killed
  <2>1. \A v \in killed : v \in Nat /\ v <= minted + 1
    BY DEF Typed, Apart
  <2>. QED
    BY <1>2, <2>1
<1>4. Started(c)' = {minted + 2} /\ Poisoned' = Poisoned
  BY <1>1, <1>2 DEF Started, Poisoned, Forgotten
<1>a. Agree(c)'
  BY <1>0, <1>1, <1>2 DEF Agree, Underway, Handed, Active
<1>g. Guarded(c)'
  BY <1>0, <1>1, <1>3, <1>4 DEF Guarded, Agree, Pending, StartsFresh, Poisoned, Handed, Started, Forgotten
<1>c. \A v \in Convs(c)' : v \in Convs(c) \/ (minted' = minted + 1 /\ v = minted + 2)
  BY <1>1, <1>4 DEF Convs
<1>s. \A s \in Sids(c)' : s \in Sids(c) \/ (minted' = minted + 1 /\ s = minted + 1)
  BY <1>1 DEF Sids
<1>m. minted' \in {minted, minted + 1} /\ killed' \subseteq killed \cup Convs(c) /\ remote' \subseteq remote \cup Sids(c)
  BY <1>1
<1>f. Forgotten \subseteq Forgotten' /\ ContinuesKilledTurn'
  BY <1>1 DEF Forgotten, ContinuesKilledTurn
<1>. QED
  BY <1>1, <1>a, <1>g, <1>c, <1>s, <1>m, <1>f, OneChatActs

\* A failed open leaves nothing.
LEMMA OpenFailsKills ==
    ASSUME Typed, OpensWithoutSession, Apart, \A d \in Chat : Agree(d) /\ Guarded(d), ContinuesKilledTurn,
           NEW c \in Chat, OpenFails(c)
    PROVE  KilledInv'
<1>0. Agree(c) /\ Guarded(c) /\ 0 \notin killed
  BY DEF Apart
<1>1. /\ \A d \in Chat : d # c => Same(d)
      /\ opener'[c].pc = "idle" /\ opener'[c].sid = 0 /\ opener'[c].conv = 0 /\ opener'[c].resume = 0
      /\ row'[c] = row[c] /\ live'[c] = live[c] /\ turn'[c] = turn[c] /\ unwritten'[c] = unwritten[c]
      /\ killed' = killed /\ remote' = remote /\ minted' = minted /\ forgot' = forgot /\ kind' = kind
  BY DEF Same, OpenFails, OpenerOnly, Idle, Typed
<1>a. Agree(c)'
  BY <1>0, <1>1 DEF Agree, Underway, Handed, Active
<1>g. Guarded(c)'
  BY <1>0, <1>1 DEF Guarded, Agree, Pending, StartsFresh, Poisoned, Handed, Started, Forgotten
<1>c. \A v \in Convs(c)' : v \in Convs(c)
  BY <1>1 DEF Convs, Started
<1>s. \A s \in Sids(c)' : s \in Sids(c)
  BY <1>1 DEF Sids
<1>m. minted' \in {minted, minted + 1} /\ killed' \subseteq killed \cup Convs(c) /\ remote' \subseteq remote \cup Sids(c)
  BY <1>1
<1>f. Forgotten \subseteq Forgotten' /\ ContinuesKilledTurn'
  BY <1>1 DEF Forgotten, ContinuesKilledTurn
<1>. QED
  BY <1>1, <1>a, <1>g, <1>c, <1>s, <1>m, <1>f, OneChatActs

\* Nor does one that is given up after the vendor started.
LEMMA AbandonKills ==
    ASSUME Typed, OpensWithoutSession, Apart, \A d \in Chat : Agree(d) /\ Guarded(d), ContinuesKilledTurn,
           NEW c \in Chat, Abandon(c)
    PROVE  KilledInv'
<1>0. Agree(c) /\ Guarded(c) /\ 0 \notin killed
  BY DEF Apart
<1>1. /\ \A d \in Chat : d # c => Same(d)
      /\ opener'[c].pc = "idle" /\ opener'[c].sid = 0 /\ opener'[c].conv = 0 /\ opener'[c].resume = 0
      /\ row'[c] = row[c] /\ live'[c] = live[c] /\ turn'[c] = turn[c] /\ unwritten'[c] = unwritten[c]
      /\ killed' = killed /\ remote' = remote /\ minted' = minted /\ forgot' = forgot /\ kind' = kind
  BY AbandonFields DEF Same, Idle
<1>a. Agree(c)'
  BY <1>0, <1>1 DEF Agree, Underway, Handed, Active
<1>g. Guarded(c)'
  BY <1>0, <1>1 DEF Guarded, Agree, Pending, StartsFresh, Poisoned, Handed, Started, Forgotten
<1>c. \A v \in Convs(c)' : v \in Convs(c)
  BY <1>1 DEF Convs, Started
<1>s. \A s \in Sids(c)' : s \in Sids(c)
  BY <1>1 DEF Sids
<1>m. minted' \in {minted, minted + 1} /\ killed' \subseteq killed \cup Convs(c) /\ remote' \subseteq remote \cup Sids(c)
  BY <1>1
<1>f. Forgotten \subseteq Forgotten' /\ ContinuesKilledTurn'
  BY <1>1 DEF Forgotten, ContinuesKilledTurn
<1>. QED
  BY <1>1, <1>a, <1>g, <1>c, <1>s, <1>m, <1>f, OneChatActs

\* Nor one that could not begin.
LEMMA DropFailsKills ==
    ASSUME Typed, OpensWithoutSession, Apart, \A d \in Chat : Agree(d) /\ Guarded(d), ContinuesKilledTurn,
           NEW c \in Chat, NEW b \in Bind, DropFails(c, b)
    PROVE  KilledInv'
<1>0. Agree(c) /\ Guarded(c) /\ 0 \notin killed
  BY DEF Apart
<1>1. /\ \A d \in Chat : d # c => Same(d)
      /\ row'[c] = row[c] \/ row'[c].conv = 0
      /\ opener'[c] = opener[c] /\ opener[c].pc = "idle" /\ live[c].sid = 0 /\ live'[c] = live[c]
      /\ turn'[c] = turn[c] /\ turn[c].st \in {"none", "held"} /\ unwritten'[c] = unwritten[c]
      /\ killed' = killed /\ remote' = remote /\ minted' = minted /\ forgot' = forgot /\ kind' = kind
  BY DropFailsFields DEF Same, EnsureUnchanged, NoRow
<1>a. Agree(c)'
  BY <1>0, <1>1 DEF Agree, Underway, Handed, Active
<1>g. Guarded(c)'
  BY <1>0, <1>1 DEF Guarded, Agree, Pending, StartsFresh, Poisoned, Handed, Started, Forgotten
<1>c. \A v \in Convs(c)' : v \in Convs(c)
  BY <1>1 DEF Convs, Started
<1>s. \A s \in Sids(c)' : s \in Sids(c)
  BY <1>1 DEF Sids
<1>m. minted' \in {minted, minted + 1} /\ killed' \subseteq killed \cup Convs(c) /\ remote' \subseteq remote \cup Sids(c)
  BY <1>1
<1>f. Forgotten \subseteq Forgotten' /\ ContinuesKilledTurn'
  BY <1>1 DEF Forgotten, ContinuesKilledTurn
<1>. QED
  BY <1>1, <1>a, <1>g, <1>c, <1>s, <1>m, <1>f, OneChatActs

\* The answer changes nothing of what the open points to.
LEMMA AnsweredKills ==
    ASSUME Typed, OpensWithoutSession, Apart, \A d \in Chat : Agree(d) /\ Guarded(d), ContinuesKilledTurn,
           NEW c \in Chat, Answered(c)
    PROVE  KilledInv'
<1>0. Agree(c) /\ Guarded(c) /\ 0 \notin killed
  BY DEF Apart
<1>1. /\ \A d \in Chat : d # c => Same(d)
      /\ opener[c].pc = "answer" /\ opener'[c].pc = "write" /\ opener'[c].sid = opener[c].sid
      /\ opener'[c].conv = opener[c].conv /\ opener'[c].resume = opener[c].resume
      /\ row'[c] = row[c] /\ live'[c] = live[c] /\ turn'[c] = turn[c] /\ unwritten'[c] = unwritten[c]
      /\ killed' = killed /\ remote' = remote /\ minted' = minted /\ forgot' = forgot /\ kind' = kind
  <2>1. /\ \A d \in Chat : d # c => opener'[d] = opener[d]
        /\ opener[c].pc = "answer" /\ opener'[c].pc = "write" /\ opener'[c].sid = opener[c].sid
        /\ opener'[c].resume = opener[c].resume /\ opener'[c].conv = opener[c].conv
    BY AnsweredFields
  <2>. QED
    BY <2>1 DEF Same, Answered, OpenerOnly
<1>a. Agree(c)'
  BY <1>0, <1>1 DEF Agree, Underway, Handed, Active
<1>g. Guarded(c)'
  BY <1>0, <1>1 DEF Guarded, Agree, Pending, StartsFresh, Poisoned, Handed, Started, Forgotten
<1>c. \A v \in Convs(c)' : v \in Convs(c)
  BY <1>1 DEF Convs, Started
<1>s. \A s \in Sids(c)' : s \in Sids(c)
  BY <1>1 DEF Sids
<1>m. minted' \in {minted, minted + 1} /\ killed' \subseteq killed \cup Convs(c) /\ remote' \subseteq remote \cup Sids(c)
  BY <1>1
<1>f. Forgotten \subseteq Forgotten' /\ ContinuesKilledTurn'
  BY <1>1 DEF Forgotten, ContinuesKilledTurn
<1>. QED
  BY <1>1, <1>a, <1>g, <1>c, <1>s, <1>m, <1>f, OneChatActs

\* The vendor opens the conversation asked for, or a new one.
LEMMA OpenedKills ==
    ASSUME Typed, OpensWithoutSession, Apart, \A d \in Chat : Agree(d) /\ Guarded(d), ContinuesKilledTurn,
           NEW c \in Chat, Opened(c)
    PROVE  KilledInv'
<1>0. Agree(c) /\ Guarded(c) /\ 0 \notin killed
  BY DEF Apart
<1>1. /\ \A d \in Chat : d # c => Same(d)
      /\ opener[c].pc = "call" /\ opener'[c].pc = "answer" /\ opener'[c].sid = opener[c].sid
      /\ opener'[c].resume = opener[c].resume
      /\ \/ opener'[c].conv = opener[c].resume /\ opener[c].resume # 0
         \/ opener'[c].conv = opener[c].sid + 1
      /\ row'[c] = row[c] /\ live'[c] = live[c] /\ turn'[c] = turn[c] /\ unwritten'[c] = unwritten[c]
      /\ killed' = killed /\ remote' = remote \cup {opener[c].sid} /\ minted' = minted /\ forgot' = forgot
      /\ kind' = kind
  <2>1. /\ \A d \in Chat : d # c => opener'[d] = opener[d]
        /\ opener[c].pc = "call" /\ opener'[c].pc = "answer" /\ opener'[c].sid = opener[c].sid
        /\ opener'[c].resume = opener[c].resume
        /\ \/ opener'[c].conv = opener[c].resume /\ opener[c].resume # 0
           \/ opener'[c].conv = opener[c].sid + 1
    BY OpenedFields
  <2>. QED
    BY <2>1 DEF Same, Opened, OpenerOnly
<1>2. opener[c].sid # 0 /\ opener[c].sid + 1 # 0 /\ Started(c) = {opener[c].sid + 1}
  BY <1>0, <1>1 DEF Typed, OpenerType, Agree, Started
<1>3. Started(c)' = Started(c)
  BY <1>1 DEF Started
<1>a. Agree(c)'
  BY <1>0, <1>1, <1>2 DEF Agree, Underway, Handed, Active
<1>g. Guarded(c)'
  BY <1>0, <1>1, <1>2, <1>3 DEF Guarded, Agree, Pending, StartsFresh, Poisoned, Handed, Started, Forgotten
<1>c. \A v \in Convs(c)' : v \in Convs(c)
  BY <1>1, <1>2, <1>3 DEF Convs
<1>s. \A s \in Sids(c)' : s \in Sids(c)
  BY <1>1 DEF Sids
<1>m. minted' \in {minted, minted + 1} /\ killed' \subseteq killed \cup Convs(c) /\ remote' \subseteq remote \cup Sids(c)
  BY <1>1, <1>2 DEF Sids
<1>f. Forgotten \subseteq Forgotten' /\ ContinuesKilledTurn'
  BY <1>1 DEF Forgotten, ContinuesKilledTurn
<1>. QED
  BY <1>1, <1>a, <1>g, <1>c, <1>s, <1>m, <1>f, OneChatActs

\* The row takes over a conversation that holds no killed turn.
LEMMA WriteRowKills ==
    ASSUME Typed, OpensWithoutSession, Apart, \A d \in Chat : Agree(d) /\ Guarded(d), ContinuesKilledTurn,
           NEW c \in Chat, WriteRow(c)
    PROVE  KilledInv'
<1>0. Agree(c) /\ Guarded(c) /\ 0 \notin killed
  BY DEF Apart
<1>1. /\ \A d \in Chat : d # c => Same(d)
      /\ opener[c].pc = "write" /\ opener'[c].pc = "check" /\ opener'[c].sid = opener[c].sid
      /\ opener'[c].resume = opener[c].resume /\ opener'[c].conv = opener[c].conv
      /\ row'[c].conv = opener[c].conv /\ row'[c].sid = opener[c].sid
      /\ live[c].sid = 0 /\ live'[c] = live[c] /\ turn'[c] = turn[c] /\ unwritten'[c] = unwritten[c]
      /\ killed' = killed /\ remote' = remote /\ minted' = minted /\ forgot' = forgot /\ kind' = kind
  <2>1. /\ \A d \in Chat : d # c => opener'[d] = opener[d] /\ row'[d] = row[d]
        /\ opener[c].pc = "write" /\ opener'[c].pc = "check" /\ opener'[c].sid = opener[c].sid
        /\ opener'[c].resume = opener[c].resume /\ opener'[c].conv = opener[c].conv
        /\ row'[c].conv = opener[c].conv /\ row'[c].sid = opener[c].sid
    BY WriteRowFields
  <2>. QED
    BY <2>1 DEF Same, WriteRow, OpenerOnly, OpensWithoutSession
<1>a. Agree(c)'
  BY <1>0, <1>1 DEF Agree, Underway, Handed, Active
<1>g. Guarded(c)'
  BY <1>0, <1>1 DEF Guarded, Agree, Pending, StartsFresh, Poisoned, Handed, Started, Forgotten
<1>c. \A v \in Convs(c)' : v \in Convs(c)
  BY <1>1 DEF Convs, Started
<1>s. \A s \in Sids(c)' : s \in Sids(c)
  BY <1>1 DEF Sids
<1>m. minted' \in {minted, minted + 1} /\ killed' \subseteq killed \cup Convs(c) /\ remote' \subseteq remote \cup Sids(c)
  BY <1>1
<1>f. Forgotten \subseteq Forgotten' /\ ContinuesKilledTurn'
  BY <1>1 DEF Forgotten, ContinuesKilledTurn
<1>. QED
  BY <1>1, <1>a, <1>g, <1>c, <1>s, <1>m, <1>f, OneChatActs

\* The open is settled.
LEMMA SettleKills ==
    ASSUME Typed, OpensWithoutSession, Apart, \A d \in Chat : Agree(d) /\ Guarded(d), ContinuesKilledTurn,
           NEW c \in Chat, Settle(c)
    PROVE  KilledInv'
<1>0. Agree(c) /\ Guarded(c) /\ 0 \notin killed
  BY DEF Apart
<1>1. /\ \A d \in Chat : d # c => Same(d)
      /\ opener[c].pc = "check" /\ opener'[c].pc = "idle" /\ opener'[c].sid = 0 /\ opener'[c].conv = 0
      /\ opener'[c].resume = 0 /\ live[c].sid = 0
      /\ \/ /\ opener[c].reaped = "no" /\ row'[c] = row[c]
            /\ live'[c].sid = opener[c].sid /\ live'[c].conv = opener[c].conv
            /\ \/ turn'[c] = turn[c]
               \/ /\ turn[c].st \in {"none", "held"} /\ turn'[c].st = "held"
                  /\ turn'[c].sid = opener[c].sid /\ turn'[c].conv = opener[c].conv
                  /\ turn'[c].ckpt = turn[c].ckpt
         \/ /\ row'[c].conv = 0 /\ live'[c] = live[c] /\ turn'[c] = turn[c]
            /\ unwritten'[c] = unwritten[c]
      /\ killed' = killed /\ remote' \subseteq remote /\ minted' = minted /\ forgot' = forgot /\ kind' = kind
  <2>1. \A d \in Chat : d # c => Same(d)
    BY SettleFields DEF Same
  <2>2. opener[c].pc = "check" /\ opener'[c] = Idle /\ live[c].sid = 0
    BY SettleFields DEF OpensWithoutSession
  <2>3. \/ /\ opener[c].reaped = "no" /\ row' = row /\ remote' = remote
           /\ live'[c].sid = opener[c].sid /\ live'[c].conv = opener[c].conv
           /\ \/ turn' = turn
              \/ /\ turn[c].st \in {"none", "held"} /\ turn'[c].st = "held"
                 /\ turn'[c].sid = opener[c].sid /\ turn'[c].conv = opener[c].conv
                 /\ turn'[c].ckpt = turn[c].ckpt
        \/ /\ row'[c] = NoRow /\ UNCHANGED <<live, turn, unwritten>>
           /\ remote' = remote \ {opener[c].sid}
    BY SettleFields
  <2>4. killed' = killed /\ minted' = minted /\ forgot' = forgot /\ kind' = kind
    BY DEF Settle, RegisterUnchanged
  <2>. QED
    BY <2>1, <2>2, <2>3, <2>4 DEF Idle, NoRow
<1>a. Agree(c)'
  BY <1>0, <1>1 DEF Agree, Underway, Handed, Active
<1>g. Guarded(c)'
  BY <1>0, <1>1 DEF Guarded, Agree, Pending, StartsFresh, Poisoned, Handed, Started, Forgotten
<1>c. \A v \in Convs(c)' : v \in Convs(c)
  BY <1>1 DEF Convs, Started
<1>s. \A s \in Sids(c)' : s \in Sids(c)
  BY <1>1 DEF Sids
<1>m. minted' \in {minted, minted + 1} /\ killed' \subseteq killed \cup Convs(c) /\ remote' \subseteq remote \cup Sids(c)
  BY <1>1
<1>f. Forgotten \subseteq Forgotten' /\ ContinuesKilledTurn'
  BY <1>1 DEF Forgotten, ContinuesKilledTurn
<1>. QED
  BY <1>1, <1>a, <1>g, <1>c, <1>s, <1>m, <1>f, OneChatActs

\* The turn is handed to the runtime.
LEMMA SendKills ==
    ASSUME Typed, OpensWithoutSession, Apart, \A d \in Chat : Agree(d) /\ Guarded(d), ContinuesKilledTurn,
           NEW c \in Chat, Send(c)
    PROVE  KilledInv'
<1>0. Agree(c) /\ Guarded(c) /\ 0 \notin killed
  BY DEF Apart
<1>1. /\ \A d \in Chat : d # c => Same(d)
      /\ turn'[c].st = "sent" /\ turn'[c].sid = turn[c].sid /\ turn'[c].conv = turn[c].conv
      /\ turn'[c].end = turn[c].end /\ turn'[c].ckpt = turn[c].ckpt
      /\ row'[c] = row[c] /\ opener'[c] = opener[c] /\ live'[c] = live[c] /\ unwritten'[c] = unwritten[c]
      /\ killed' = killed /\ remote' = remote /\ minted' = minted /\ forgot' = forgot /\ kind' = kind
  <2>1. turn' = [turn EXCEPT ![c].st = "sent"] /\ UNCHANGED <<row, unwritten, killed, faults>> /\ TurnOnly
    BY DEF Send
  <2>2. "sent" \in TurnStates
    BY DEF TurnStates
  <2>3. /\ \A d \in Chat : d # c => turn'[d] = turn[d]
        /\ turn'[c].st = "sent" /\ turn'[c].sid = turn[c].sid /\ turn'[c].conv = turn[c].conv
        /\ turn'[c].end = turn[c].end /\ turn'[c].ckpt = turn[c].ckpt
    BY <2>1, <2>2, TurnMovesOn DEF TurnMoves
  <2>. QED
    BY <2>1, <2>3 DEF Same, TurnOnly
<1>2. turn[c].st = "held" /\ live[c].sid # 0 /\ live[c].sid = turn[c].sid /\ opener[c].pc = "idle"
  BY DEF Send, OnLive, OpensWithoutSession
<1>a. Agree(c)'
  BY <1>0, <1>1, <1>2 DEF Agree, Underway, Handed, Active
<1>g. Guarded(c)'
  BY <1>0, <1>1, <1>2 DEF Guarded, Agree, Pending, StartsFresh, Poisoned, Handed, Started, Forgotten
<1>c. \A v \in Convs(c)' : v \in Convs(c)
  BY <1>1 DEF Convs, Started
<1>s. \A s \in Sids(c)' : s \in Sids(c)
  BY <1>1 DEF Sids
<1>m. minted' \in {minted, minted + 1} /\ killed' \subseteq killed \cup Convs(c) /\ remote' \subseteq remote \cup Sids(c)
  BY <1>1
<1>f. Forgotten \subseteq Forgotten' /\ ContinuesKilledTurn'
  BY <1>1 DEF Forgotten, ContinuesKilledTurn
<1>. QED
  BY <1>1, <1>a, <1>g, <1>c, <1>s, <1>m, <1>f, OneChatActs

\* The vendor takes a turn on a conversation that holds no killed one.
LEMMA VendorTakesKills ==
    ASSUME Typed, OpensWithoutSession, Apart, \A d \in Chat : Agree(d) /\ Guarded(d), ContinuesKilledTurn,
           NEW c \in Chat, VendorTakes(c)
    PROVE  KilledInv'
<1>0. Agree(c) /\ Guarded(c) /\ 0 \notin killed
  BY DEF Apart
<1>1. /\ \A d \in Chat : d # c => Same(d)
      /\ turn'[c].st = "taken" /\ turn'[c].sid = turn[c].sid /\ turn'[c].conv = turn[c].conv
      /\ turn'[c].end = turn[c].end /\ turn'[c].ckpt = turn[c].ckpt
      /\ row'[c] = row[c] /\ opener'[c] = opener[c] /\ live'[c] = live[c] /\ unwritten'[c] = unwritten[c]
      /\ killed' = killed /\ remote' = remote /\ minted' = minted /\ forgot' = forgot /\ kind' = kind
  <2>1. turn' = [turn EXCEPT ![c].st = "taken"] /\ UNCHANGED <<row, unwritten, killed, faults>> /\ TurnOnly
    BY DEF VendorTakes
  <2>2. "taken" \in TurnStates
    BY DEF TurnStates
  <2>3. /\ \A d \in Chat : d # c => turn'[d] = turn[d]
        /\ turn'[c].st = "taken" /\ turn'[c].sid = turn[c].sid /\ turn'[c].conv = turn[c].conv
        /\ turn'[c].end = turn[c].end /\ turn'[c].ckpt = turn[c].ckpt
    BY <2>1, <2>2, TurnMovesOn DEF TurnMoves
  <2>. QED
    BY <2>1, <2>3 DEF Same, TurnOnly
<1>2. turn[c].st = "sent" /\ turn[c].conv \notin killed
  BY DEF VendorTakes
<1>a. Agree(c)'
  BY <1>0, <1>1, <1>2 DEF Agree, Underway, Handed, Active
<1>g. Guarded(c)'
  BY <1>0, <1>1, <1>2 DEF Guarded, Agree, Pending, StartsFresh, Poisoned, Handed, Started, Forgotten
<1>c. \A v \in Convs(c)' : v \in Convs(c)
  BY <1>1 DEF Convs, Started
<1>s. \A s \in Sids(c)' : s \in Sids(c)
  BY <1>1 DEF Sids
<1>m. minted' \in {minted, minted + 1} /\ killed' \subseteq killed \cup Convs(c) /\ remote' \subseteq remote \cup Sids(c)
  BY <1>1
<1>f. Forgotten \subseteq Forgotten' /\ ContinuesKilledTurn'
  BY <1>1 DEF Forgotten, ContinuesKilledTurn
<1>. QED
  BY <1>1, <1>a, <1>g, <1>c, <1>s, <1>m, <1>f, OneChatActs

\* The hub hears of it.
LEMMA AcceptedKills ==
    ASSUME Typed, OpensWithoutSession, Apart, \A d \in Chat : Agree(d) /\ Guarded(d), ContinuesKilledTurn,
           NEW c \in Chat, Accepted(c)
    PROVE  KilledInv'
<1>0. Agree(c) /\ Guarded(c) /\ 0 \notin killed
  BY DEF Apart
<1>1. /\ \A d \in Chat : d # c => Same(d)
      /\ turn'[c].st = "running" /\ turn'[c].sid = turn[c].sid /\ turn'[c].conv = turn[c].conv
      /\ turn'[c].end = turn[c].end /\ turn'[c].ckpt = turn[c].ckpt
      /\ row'[c] = row[c] /\ opener'[c] = opener[c] /\ live'[c] = live[c] /\ unwritten'[c] = unwritten[c]
      /\ killed' = killed /\ remote' = remote /\ minted' = minted /\ forgot' = forgot /\ kind' = kind
  <2>1. turn' = [turn EXCEPT ![c].st = "running"] /\ UNCHANGED <<row, unwritten, killed, faults>> /\ TurnOnly
    BY DEF Accepted
  <2>2. "running" \in TurnStates
    BY DEF TurnStates
  <2>3. /\ \A d \in Chat : d # c => turn'[d] = turn[d]
        /\ turn'[c].st = "running" /\ turn'[c].sid = turn[c].sid /\ turn'[c].conv = turn[c].conv
        /\ turn'[c].end = turn[c].end /\ turn'[c].ckpt = turn[c].ckpt
    BY <2>1, <2>2, TurnMovesOn DEF TurnMoves
  <2>. QED
    BY <2>1, <2>3 DEF Same, TurnOnly
<1>2. turn[c].st = "taken"
  BY DEF Accepted
<1>a. Agree(c)'
  BY <1>0, <1>1, <1>2 DEF Agree, Underway, Handed, Active
<1>g. Guarded(c)'
  BY <1>0, <1>1, <1>2 DEF Guarded, Agree, Pending, StartsFresh, Poisoned, Handed, Started, Forgotten
<1>c. \A v \in Convs(c)' : v \in Convs(c)
  BY <1>1 DEF Convs, Started
<1>s. \A s \in Sids(c)' : s \in Sids(c)
  BY <1>1 DEF Sids
<1>m. minted' \in {minted, minted + 1} /\ killed' \subseteq killed \cup Convs(c) /\ remote' \subseteq remote \cup Sids(c)
  BY <1>1
<1>f. Forgotten \subseteq Forgotten' /\ ContinuesKilledTurn'
  BY <1>1 DEF Forgotten, ContinuesKilledTurn
<1>. QED
  BY <1>1, <1>a, <1>g, <1>c, <1>s, <1>m, <1>f, OneChatActs

\* Or that nothing was submitted.
LEMMA NotSubmittedKills ==
    ASSUME Typed, OpensWithoutSession, Apart, \A d \in Chat : Agree(d) /\ Guarded(d), ContinuesKilledTurn,
           NEW c \in Chat, NotSubmitted(c)
    PROVE  KilledInv'
<1>0. Agree(c) /\ Guarded(c) /\ 0 \notin killed
  BY DEF Apart
<1>1. /\ \A d \in Chat : d # c => Same(d)
      /\ turn'[c].st = "held" /\ turn'[c].sid = turn[c].sid /\ turn'[c].conv = turn[c].conv
      /\ turn'[c].end = turn[c].end /\ turn'[c].ckpt = turn[c].ckpt
      /\ row'[c] = row[c] /\ opener'[c] = opener[c] /\ live'[c] = live[c] /\ unwritten'[c] = unwritten[c]
      /\ killed' = killed /\ remote' = remote /\ minted' = minted /\ forgot' = forgot /\ kind' = kind
  <2>1. turn' = [turn EXCEPT ![c].st = "held"] /\ UNCHANGED <<row, unwritten, killed, faults>> /\ TurnOnly
    BY DEF NotSubmitted
  <2>2. "held" \in TurnStates
    BY DEF TurnStates
  <2>3. /\ \A d \in Chat : d # c => turn'[d] = turn[d]
        /\ turn'[c].st = "held" /\ turn'[c].sid = turn[c].sid /\ turn'[c].conv = turn[c].conv
        /\ turn'[c].end = turn[c].end /\ turn'[c].ckpt = turn[c].ckpt
    BY <2>1, <2>2, TurnMovesOn DEF TurnMoves
  <2>. QED
    BY <2>1, <2>3 DEF Same, TurnOnly
<1>2. turn[c].st = "sent"
  BY DEF NotSubmitted
<1>a. Agree(c)'
  BY <1>0, <1>1, <1>2 DEF Agree, Underway, Handed, Active
<1>g. Guarded(c)'
  BY <1>0, <1>1, <1>2 DEF Guarded, Agree, Pending, StartsFresh, Poisoned, Handed, Started, Forgotten
<1>c. \A v \in Convs(c)' : v \in Convs(c)
  BY <1>1 DEF Convs, Started
<1>s. \A s \in Sids(c)' : s \in Sids(c)
  BY <1>1 DEF Sids
<1>m. minted' \in {minted, minted + 1} /\ killed' \subseteq killed \cup Convs(c) /\ remote' \subseteq remote \cup Sids(c)
  BY <1>1
<1>f. Forgotten \subseteq Forgotten' /\ ContinuesKilledTurn'
  BY <1>1 DEF Forgotten, ContinuesKilledTurn
<1>. QED
  BY <1>1, <1>a, <1>g, <1>c, <1>s, <1>m, <1>f, OneChatActs

\* A late transcript write.
LEMMA CheckpointKills ==
    ASSUME Typed, OpensWithoutSession, Apart, \A d \in Chat : Agree(d) /\ Guarded(d), ContinuesKilledTurn,
           NEW c \in Chat, Checkpoint(c)
    PROVE  KilledInv'
<1>0. Agree(c) /\ Guarded(c) /\ 0 \notin killed
  BY DEF Apart
<1>1. /\ \A d \in Chat : d # c => Same(d)
      /\ turn'[c].st = turn[c].st /\ turn'[c].sid = turn[c].sid /\ turn'[c].conv = turn[c].conv
      /\ turn'[c].end = turn[c].end /\ turn[c].st \in {"ended", "recorded"}
      /\ row'[c] = row[c] /\ opener'[c] = opener[c] /\ live'[c] = live[c] /\ unwritten'[c] = unwritten[c]
      /\ killed' = killed /\ remote' = remote /\ minted' = minted /\ forgot' = forgot /\ kind' = kind
  <2>1. TurnMoves(c, turn[c].st) /\ turn[c].st \in {"ended", "recorded"}
    BY CheckpointFields
  <2>2. UNCHANGED <<row, unwritten, killed, faults>> /\ TurnOnly
    BY DEF Checkpoint
  <2>. QED
    BY <2>1, <2>2 DEF Same, TurnOnly, TurnMoves
<1>a. Agree(c)'
  BY <1>0, <1>1 DEF Agree, Underway, Handed, Active
<1>g. Guarded(c)'
  BY <1>0, <1>1 DEF Guarded, Agree, Pending, StartsFresh, Poisoned, Handed, Started, Forgotten
<1>c. \A v \in Convs(c)' : v \in Convs(c)
  BY <1>1 DEF Convs, Started
<1>s. \A s \in Sids(c)' : s \in Sids(c)
  BY <1>1 DEF Sids
<1>m. minted' \in {minted, minted + 1} /\ killed' \subseteq killed \cup Convs(c) /\ remote' \subseteq remote \cup Sids(c)
  BY <1>1
<1>f. Forgotten \subseteq Forgotten' /\ ContinuesKilledTurn'
  BY <1>1 DEF Forgotten, ContinuesKilledTurn
<1>. QED
  BY <1>1, <1>a, <1>g, <1>c, <1>s, <1>m, <1>f, OneChatActs

\* The message settles.
LEMMA SettleMessageKills ==
    ASSUME Typed, OpensWithoutSession, Apart, \A d \in Chat : Agree(d) /\ Guarded(d), ContinuesKilledTurn,
           NEW c \in Chat, SettleMessage(c)
    PROVE  KilledInv'
<1>0. Agree(c) /\ Guarded(c) /\ 0 \notin killed
  BY DEF Apart
<1>1. /\ \A d \in Chat : d # c => Same(d)
      /\ turn[c].st = "recorded" /\ turn'[c].st = "none" /\ turn'[c].sid = 0 /\ turn'[c].conv = 0
      /\ turn'[c].end = "none" /\ turn'[c].ckpt = FALSE
      /\ row'[c] = row[c] /\ opener'[c] = opener[c] /\ live'[c] = live[c] /\ unwritten'[c] = unwritten[c]
      /\ killed' = killed /\ remote' = remote /\ minted' = minted /\ forgot' = forgot /\ kind' = kind
  BY DEF Same, SettleMessage, TurnOnly, NoTurn, Typed
<1>a. Agree(c)'
  BY <1>0, <1>1 DEF Agree, Underway, Handed, Active
<1>g. Guarded(c)'
  BY <1>0, <1>1 DEF Guarded, Agree, Pending, StartsFresh, Poisoned, Handed, Started, Forgotten
<1>c. \A v \in Convs(c)' : v \in Convs(c)
  BY <1>1 DEF Convs, Started
<1>s. \A s \in Sids(c)' : s \in Sids(c)
  BY <1>1 DEF Sids
<1>m. minted' \in {minted, minted + 1} /\ killed' \subseteq killed \cup Convs(c) /\ remote' \subseteq remote \cup Sids(c)
  BY <1>1
<1>f. Forgotten \subseteq Forgotten' /\ ContinuesKilledTurn'
  BY <1>1 DEF Forgotten, ContinuesKilledTurn
<1>. QED
  BY <1>1, <1>a, <1>g, <1>c, <1>s, <1>m, <1>f, OneChatActs

\* The end of a killed turn marks its conversation, durably or in memory.
LEMMA RecordEndKills ==
    ASSUME Typed, OpensWithoutSession, Apart, \A d \in Chat : Agree(d) /\ Guarded(d), ContinuesKilledTurn,
           NEW c \in Chat, RecordEnd(c)
    PROVE  KilledInv'
<1>0. Agree(c) /\ Guarded(c) /\ 0 \notin killed
  BY DEF Apart
<1>1. /\ \A d \in Chat : d # c => Same(d)
      /\ turn'[c].st = "recorded" /\ turn'[c].sid = turn[c].sid /\ turn'[c].conv = turn[c].conv
      /\ turn'[c].end = turn[c].end /\ turn[c].st = "ended"
      /\ row'[c].conv = row[c].conv /\ row'[c].sid = row[c].sid
      /\ turn[c].end = "none" => row' = row /\ unwritten' = unwritten
      /\ turn[c].end = "mark" /\ row[c].conv # 0 /\ row[c].sid = turn[c].sid =>
            row'[c].unres = TRUE \/ unwritten'[c] = turn[c].sid
      /\ opener'[c] = opener[c] /\ live'[c] = live[c]
      /\ killed' = killed /\ remote' = remote /\ minted' = minted /\ forgot' = forgot /\ kind' = kind
  <2>1. UNCHANGED killed /\ TurnOnly
    BY DEF RecordEnd
  <2>2. TurnMoves(c, "recorded")
    BY RecordEndFields
  <2>3. \A d \in Chat : d # c => Same(d)
    BY <2>1, <2>2, RecordEndFields DEF Same, TurnMoves, TurnOnly
  <2>4. /\ turn[c].st = "ended" /\ row'[c].conv = row[c].conv /\ row'[c].sid = row[c].sid
        /\ turn[c].end = "none" => row' = row /\ unwritten' = unwritten
        /\ turn[c].end = "mark" /\ row[c].conv # 0 /\ row[c].sid = turn[c].sid =>
              row'[c].unres = TRUE \/ unwritten'[c] = turn[c].sid
    BY RecordEndFields
  <2>. QED
    BY <2>1, <2>2, <2>3, <2>4 DEF TurnMoves, TurnOnly
<1>2. turn[c].end \in {"none", "clear", "mark"}
  BY DEF Typed, TurnType
<1>3. row[c].conv \in Poisoned => StartsFresh(c)'
  <2>. SUFFICES ASSUME row[c].conv \in Poisoned PROVE StartsFresh(c)'
    OBVIOUS
  <2>1. /\ row[c].conv \in killed /\ row[c].conv # 0 /\ turn[c].sid = row[c].sid /\ turn[c].sid # 0
        /\ row[c].conv = turn[c].conv
    BY <1>0, <1>1 DEF Guarded, Agree, Poisoned
  <2>2. turn[c].end # "clear"
    BY <1>0, <1>1, <2>1 DEF Guarded
  <2>3. CASE turn[c].end = "none"
    BY <1>0, <1>1, <2>3 DEF Guarded, Pending, StartsFresh
  <2>4. CASE turn[c].end = "mark"
    BY <1>1, <2>1, <2>4 DEF StartsFresh
  <2>. QED
    BY <1>2, <2>2, <2>3, <2>4
<1>a. Agree(c)'
  BY <1>0, <1>1 DEF Agree, Underway, Handed, Active
<1>g. Guarded(c)'
  BY <1>0, <1>1, <1>3 DEF Guarded, Agree, Pending, StartsFresh, Poisoned, Handed, Started, Forgotten
<1>c. \A v \in Convs(c)' : v \in Convs(c)
  BY <1>1 DEF Convs, Started
<1>s. \A s \in Sids(c)' : s \in Sids(c)
  BY <1>1 DEF Sids
<1>m. minted' \in {minted, minted + 1} /\ killed' \subseteq killed \cup Convs(c) /\ remote' \subseteq remote \cup Sids(c)
  BY <1>1
<1>f. Forgotten \subseteq Forgotten' /\ ContinuesKilledTurn'
  BY <1>1 DEF Forgotten, ContinuesKilledTurn
<1>. QED
  BY <1>1, <1>a, <1>g, <1>c, <1>s, <1>m, <1>f, OneChatActs

\* The turn ends, and what the hub then knows of the vendor decides whether its
\* conversation is marked (endLeavesConversationUnresumable).
LEMMA EndTurnKills ==
    ASSUME Typed, OpensWithoutSession, Apart, \A d \in Chat : Agree(d) /\ Guarded(d), ContinuesKilledTurn,
           NEW c \in Chat, NEW r \in EndReason, EndTurn(c, r)
    PROVE  KilledInv'
<1>0. Agree(c) /\ Guarded(c) /\ 0 \notin killed
  BY DEF Apart
<1>1. /\ \A d \in Chat : d # c => Same(d)
      /\ turn[c].st \in Active /\ turn'[c].st = "ended" /\ turn'[c].sid = turn[c].sid
      /\ turn'[c].conv = turn[c].conv /\ turn'[c].end = EndEffect(r, turn[c].st = "running")
      /\ row'[c] = row[c] /\ opener'[c] = opener[c] /\ live'[c] = live[c] /\ unwritten'[c] = unwritten[c]
      /\ remote' = remote /\ minted' = minted /\ kind' = kind
  <2>1. turn[c] \in TurnType /\ turn[c].st \in Active
    BY DEF EndTurn, Active, Typed
  <2>. DEFINE t == Ended(turn[c], r)
  <2>2. /\ t.st = "ended" /\ t.sid = turn[c].sid /\ t.conv = turn[c].conv
        /\ t.end = EndEffect(r, turn[c].st = "running")
    BY <2>1, EndedFields
  <2>3. /\ turn' = [turn EXCEPT ![c] = t]
        /\ UNCHANGED <<kind, stopping, conn, consent, born, live, opener, lease, remote,
                       lost, listening, minted, crashes, row, unwritten, faults>>
    BY DEF EndTurn
  <2>. HIDE DEF t
  <2>. QED
    BY <2>1, <2>2, <2>3 DEF Same, Typed
<1>2. /\ killed \subseteq killed'
      /\ \A v \in killed' : v \notin killed =>
            v = turn[c].conv /\ turn[c].st \in {"taken", "running"} /\ r \in {"stopped", "vendor-broke"}
  <2>1. killed' = killed \/ (killed' = killed \cup KilledBy({c}) /\ r \in {"stopped", "vendor-broke"})
    BY DEF EndTurn
  <2>. QED
    BY <2>1, KilledByFields
<1>3. Forgotten \subseteq Forgotten'
  <2>1. forgot' = forgot \/ forgot' = [forgot EXCEPT !.unheard = @ \cup {turn[c].conv}]
    BY DEF EndTurn
  <2>. QED
    BY <2>1 DEF Typed, Forgotten
<1>4. r = "vendor-broke" /\ turn[c].st = "taken" => turn[c].conv \in Forgotten'
  <2>. SUFFICES ASSUME r = "vendor-broke", turn[c].st = "taken" PROVE turn[c].conv \in Forgotten'
    OBVIOUS
  <2>1. forgot' = [forgot EXCEPT !.unheard = @ \cup {turn[c].conv}]
    BY DEF EndTurn
  <2>. QED
    BY <2>1 DEF Typed, Forgotten
<1>a. Agree(c)'
  BY <1>0, <1>1 DEF Agree, Underway, Handed, Active
<1>5. turn[c].st \in {"taken", "running"} =>
         /\ opener[c].pc = "idle" /\ turn[c].conv # 0 /\ (row[c].conv # 0 => row[c].sid = turn[c].sid)
         /\ opener[c].resume = 0 /\ opener[c].conv = 0 /\ Started(c) = {}
  BY <1>0 DEF Agree, Handed, Started
<1>6. 0 \notin killed' /\ \A v : v \in Poisoned' /\ v \notin Poisoned => v = turn[c].conv /\ turn[c].st \in {"taken", "running"}
  BY <1>0, <1>2, <1>3, <1>5 DEF Poisoned
<1>7. ({opener[c].resume, opener[c].conv} \cup Started(c)) \cap Poisoned' = {}
  <2>1. CASE turn[c].st \in {"taken", "running"}
    BY <1>5, <1>6, <2>1 DEF Poisoned
  <2>2. CASE turn[c].st \notin {"taken", "running"}
    BY <1>0, <1>6, <2>2 DEF Guarded
  <2>. QED
    BY <2>1, <2>2
<1>8. turn'[c].end = "clear" => turn[c].conv \notin killed'
  <2>. SUFFICES ASSUME turn'[c].end = "clear" PROVE turn[c].conv \notin killed'
    OBVIOUS
  <2>1. r = "completed"
    BY <1>1 DEF EndEffect
  <2>2. turn[c].st = "running" /\ turn[c].sid \in remote
    BY <2>1 DEF EndTurn
  <2>. QED
    BY <1>0, <1>2, <2>1, <2>2 DEF Guarded
<1>9. ASSUME row[c].conv \in Poisoned'
      PROVE  StartsFresh(c) \/ Pending(c)'
  <2>1. row[c].conv # 0 /\ row[c].sid = turn[c].sid /\ turn[c].sid # 0 /\ row[c].conv = turn[c].conv
    <3>1. row[c].conv # 0 /\ turn[c].sid # 0
      BY <1>0, <1>1, <1>6, <1>9 DEF Poisoned, Agree, Active
    <3>2. row[c].sid = turn[c].sid
      BY <1>0, <1>1, <1>5, <1>6, <1>9, <3>1 DEF Guarded, Active
    <3>. QED
      BY <1>0, <1>1, <3>1, <3>2 DEF Agree, Active
  <2>2. CASE turn'[c].end = "mark"
    BY <1>1, <2>1, <2>2 DEF Pending
  <2>3. CASE turn'[c].end # "mark"
    <3>1. \/ r \in {"completed", "vendor-finished"}
          \/ r = "refused"
          \/ r = "vendor-broke" /\ turn[c].st # "running"
      BY <1>1, <2>3 DEF EndEffect, EndReason
    <3>2. CASE r \in {"completed", "vendor-finished"}
      <4>1. turn[c].st = "running" /\ turn[c].sid \in remote
        BY <3>2 DEF EndTurn
      <4>2. turn[c].conv \notin killed
        BY <1>0, <4>1 DEF Guarded
      <4>. QED
        BY <1>2, <1>9, <2>1, <3>2, <4>2 DEF Poisoned
    <3>3. CASE r = "refused"
      <4>1. turn[c].st = "held"
        BY <3>3 DEF EndTurn
      <4>2. row[c].conv \in Poisoned
        BY <1>6, <1>9, <4>1
      <4>. QED
        BY <1>0, <4>1, <4>2 DEF Guarded, Pending
    <3>4. CASE r = "vendor-broke" /\ turn[c].st # "running"
      <4>1. turn[c].st = "taken"
        BY <3>4 DEF EndTurn
      <4>. QED
        BY <1>4, <1>9, <2>1, <3>4, <4>1 DEF Poisoned
    <3>. QED
      BY <3>1, <3>2, <3>3, <3>4
  <2>. QED
    BY <2>2, <2>3
<1>10. row[c].conv \in Poisoned' => turn[c].sid = row[c].sid
  <2>1. row[c].conv \in Poisoned' => row[c].conv # 0
    BY <1>6 DEF Poisoned
  <2>. QED
    BY <1>0, <1>1, <1>5, <1>6, <2>1 DEF Guarded, Active
<1>g. Guarded(c)'
  <2>1. (StartsFresh(c)' <=> StartsFresh(c)) /\ Started(c)' = Started(c)
    BY <1>1 DEF StartsFresh, Started
  <2>. QED
    BY <1>1, <1>7, <1>8, <1>9, <1>10, <2>1 DEF Guarded
<1>c. \A v \in Convs(c)' : v \in Convs(c)
  BY <1>1 DEF Convs, Started
<1>s. \A s \in Sids(c)' : s \in Sids(c)
  BY <1>1 DEF Sids
<1>m. killed' \subseteq killed \cup Convs(c)
  BY <1>2, <1>5 DEF Convs
<1>f. ContinuesKilledTurn'
  BY <1>1 DEF ContinuesKilledTurn
<1>. QED
  BY <1>1, <1>3, <1>a, <1>g, <1>c, <1>s, <1>m, <1>f, OneChatActs

\* A chat whose session may be lost with its turn: the turn stays as it is, ends
\* with the mark, or is refused before the vendor had it.
Loses(d) ==
    /\ live'[d] = live[d] \/ live'[d] = NoLive
    /\ row'[d] = row[d] \/ row'[d] = NoRow
    /\ unwritten'[d] = unwritten[d]
    /\ \/ opener'[d] = Idle
       \/ /\ opener'[d].pc = opener[d].pc /\ opener'[d].sid = opener[d].sid
          /\ opener'[d].conv = opener[d].conv /\ opener'[d].resume = opener[d].resume
          /\ opener'[d].pc = "check" /\ opener'[d].reaped = "no" =>
                opener[d].reaped = "no" /\ row'[d] = row[d]
    /\ turn'[d].sid = turn[d].sid /\ turn'[d].conv = turn[d].conv /\ turn'[d].ckpt = turn[d].ckpt
    /\ \/ turn'[d] = turn[d]
       \/ turn[d].st \in Active /\ turn'[d].st = "ended" /\ turn'[d].end = "mark"
       \/ turn[d].st = "held" /\ turn'[d].st = "ended" /\ turn'[d].end = "none"

\* The conversation of a turn killed so is marked, or will be.
LEMMA LosingChat ==
    ASSUME Typed, NEW d \in Chat, Agree(d), Guarded(d), Loses(d), ContinuesKilledTurn,
           0 \notin killed', remote' \subseteq remote, Forgotten' = Forgotten,
           live'[d].sid # 0 => row'[d] = row[d],
           \A v \in Convs(d) : v \in killed' =>
              v \in killed \/ (turn[d].st \in {"taken", "running"} /\ turn[d].conv = v),
           turn'[d].st \in {"taken", "running"} /\ turn[d].conv \in killed' =>
              turn[d].conv \in killed \/ turn[d].sid \notin remote'
    PROVE  Agree(d)' /\ Guarded(d)'
<1>0. NoLive.sid = 0 /\ NoRow.conv = 0 /\ Idle.pc = "idle" /\ Idle.sid = 0 /\ Idle.conv = 0 /\ Idle.resume = 0
  BY DEF NoLive, NoRow, Idle
<1>1. Agree(d)'
  BY <1>0 DEF Agree, Underway, Loses, Handed, Active
<1>2. {row[d].conv, turn[d].conv, opener[d].resume, opener[d].conv} \cup Started(d) \subseteq Convs(d) \cup {0}
  BY DEF Convs
<1>3. \A v \in Convs(d) \cup {0} : v \in Poisoned' =>
         v # 0 /\ (v \in Poisoned \/ (turn[d].st \in {"taken", "running"} /\ turn[d].conv = v))
  BY DEF Poisoned
<1>4. turn[d].st \in {"taken", "running"} =>
         /\ opener[d].pc = "idle" /\ turn[d].conv # 0 /\ (row[d].conv # 0 => row[d].sid = turn[d].sid)
         /\ opener[d].resume = 0 /\ opener[d].conv = 0 /\ Started(d) = {}
  BY DEF Agree, Handed, Started
<1>5. Started(d)' \subseteq Started(d) /\ opener'[d].resume \in {opener[d].resume, 0} /\ opener'[d].conv \in {opener[d].conv, 0}
  BY <1>0 DEF Loses, Started
<1>6. ({opener[d].resume, opener[d].conv, 0} \cup Started(d)) \cap Poisoned' = {}
  BY <1>2, <1>3, <1>4 DEF Guarded
<1>7. turn'[d].st \in {"taken", "running"} /\ turn'[d].conv \in killed' => turn'[d].sid \notin remote'
  BY DEF Guarded, Loses
<1>8. turn'[d].st = "ended" /\ turn'[d].end = "clear" => turn'[d].conv \notin killed'
  BY <1>2 DEF Guarded, Loses, Active
<1>9. ASSUME row'[d].conv \in Poisoned'
      PROVE  /\ StartsFresh(d)' \/ Pending(d)'
             /\ turn'[d].st # "none" => turn'[d].sid = row'[d].sid
  <2>1. row'[d] = row[d] /\ row[d].conv # 0
    BY <1>0, <1>3, <1>6, <1>9 DEF Loses
  <2>2. row[d].conv \in Poisoned \/ (turn[d].st \in {"taken", "running"} /\ turn[d].conv = row[d].conv)
    BY <1>2, <1>3, <1>9, <2>1
  <2>3. turn[d].st # "none" => turn[d].sid = row[d].sid
    BY <1>4, <2>1, <2>2 DEF Guarded
  <2>4. StartsFresh(d) \/ Pending(d)
    BY <1>4, <2>1, <2>2, <2>3 DEF Guarded, Pending
  <2>5. StartsFresh(d) => StartsFresh(d)'
    BY <2>1 DEF StartsFresh, Loses
  <2>6. Pending(d) => Pending(d)'
    BY <2>1 DEF Pending, Loses, Active
  <2>7. turn'[d].st # "none" => turn[d].st # "none"
    BY DEF Loses, Active
  <2>. QED
    BY <2>1, <2>3, <2>4, <2>5, <2>6, <2>7 DEF Loses
<1>. QED
  BY <1>1, <1>5, <1>6, <1>7, <1>8, <1>9 DEF Guarded

\* A step that may take the sessions of several chats.
LEMMA ManyChatsLose ==
    ASSUME Typed, Apart, \A d \in Chat : Agree(d) /\ Guarded(d), ContinuesKilledTurn, kind' = kind,
           NEW cs \in SUBSET Chat, minted' = minted, forgot' = forgot, remote' \subseteq remote,
           killed' \subseteq killed \cup KilledBy(cs),
           \A d \in Chat : Loses(d) /\ (live'[d].sid # 0 => row'[d] = row[d]),
           \A d \in cs : turn'[d].st \in {"taken", "running"} => turn[d].sid \notin remote',
           Chat # {}
    PROVE  KilledInv'
<1>0. NoLive.sid = 0 /\ NoLive.conv = 0 /\ NoRow.conv = 0 /\ Idle.pc = "idle" /\ Idle.sid = 0 /\ Idle.conv = 0 /\ Idle.resume = 0
  BY DEF NoLive, NoRow, Idle
<1>1. ASSUME NEW d \in Chat
      PROVE  (\A v \in Convs(d)' : v \in Convs(d)) /\ (\A s \in Sids(d)' : s \in Sids(d))
  <2>1. /\ live'[d].conv \in {live[d].conv, 0} /\ live'[d].sid \in {live[d].sid, 0}
        /\ row'[d].conv \in {row[d].conv, 0} /\ turn'[d].conv = turn[d].conv /\ turn'[d].sid = turn[d].sid
        /\ opener'[d].sid \in {opener[d].sid, 0} /\ opener'[d].conv \in {opener[d].conv, 0}
        /\ opener'[d].resume \in {opener[d].resume, 0}
    BY <1>0 DEF Loses
  <2>2. Started(d)' \subseteq Started(d)
    BY <2>1 DEF Started
  <2>. QED
    BY <2>1, <2>2 DEF Convs, Sids
<1>2. \A d \in Chat, v \in KilledBy(cs) :
         /\ \E e \in Chat : v \in Convs(e)
         /\ v \in Convs(d) => d \in cs /\ turn[d].st \in {"taken", "running"} /\ turn[d].conv = v
  BY KilledLocal
<1>3. Apart'
  <2>1. \A v \in killed' : v \in killed \/ \E d \in Chat : v \in Convs(d)
    BY <1>2
  <2>2. PICK c \in Chat : TRUE
    OBVIOUS
  <2>. QED
    BY <1>1, <2>1, <2>2, ApartKept
<1>4. ASSUME NEW d \in Chat PROVE Agree(d)' /\ Guarded(d)'
  <2>1. \A v \in Convs(d) : v \in killed' =>
           v \in killed \/ (d \in cs /\ turn[d].st \in {"taken", "running"} /\ turn[d].conv = v)
    BY <1>2
  <2>2. turn'[d].st \in {"taken", "running"} /\ turn[d].conv \in killed' =>
              turn[d].conv \in killed \/ turn[d].sid \notin remote'
    <3>1. turn[d].conv \in killed' => turn[d].conv \in Convs(d)
      BY <1>3 DEF Apart, Convs
    <3>. QED
      BY <2>1, <3>1
  <2>3. 0 \notin killed'
    BY <1>3 DEF Apart
  <2>4. Forgotten' = Forgotten
    BY DEF Forgotten
  <2>. QED
    BY <2>1, <2>2, <2>3, <2>4, LosingChat
<1>. QED
  BY <1>3, <1>4 DEF KilledInv, ContinuesKilledTurn

\* An end that nobody reported marks the conversation of an active turn.
LEMMA EndedMarks ==
    ASSUME NEW t \in TurnType, ContinuesKilledTurn, NEW reason \in {"reaped", "runtime-disconnected"}
    PROVE  LET e == Ended(t, reason) IN
           /\ e.sid = t.sid /\ e.conv = t.conv /\ e.ckpt = t.ckpt
           /\ e = t \/ (t.st \in Active /\ e.st = "ended" /\ e.end = "mark")
           /\ e.st \notin {"taken", "running"}
<1>1. EndEffect(reason, t.st = "running") = "mark"
  BY DEF EndEffect
<1>. QED
  BY <1>1, EndedFields DEF Active

\* reap(): the turns it ends are marked, the others go on elsewhere.
LEMMA ReapKills ==
    ASSUME Typed, OpensWithoutSession, Apart, \A d \in Chat : Agree(d) /\ Guarded(d), ContinuesKilledTurn,
           NEW chats \in SUBSET Chat, NEW keep \in BOOLEAN, NEW retiring \in BOOLEAN,
           ReapOf(chats, keep, retiring), retiring => \A d \in chats : turn[d].st = "held",
           UNCHANGED <<unwritten, minted, forgot, kind>>
    PROVE  KilledInv'
<1>. DEFINE cs == {d \in chats : live[d].sid # 0}
<1>0. Chat # {}
  BY SessionBounds DEF Chat
<1>00. cs \in SUBSET Chat
  OBVIOUS
<1>1. killed' = killed \cup KilledBy(cs)
  BY DEF ReapOf
<1>2. ASSUME NEW d \in Chat
      PROVE  /\ Loses(d) /\ (live'[d].sid # 0 => row'[d] = row[d])
             /\ d \in chats => turn'[d].st \notin {"taken", "running"}
  <2>1. turn[d] \in TurnType /\ opener[d] \in OpenerType
    BY DEF Typed
  <2>2. /\ live'[d] = IF d \in chats THEN NoLive ELSE live[d]
        /\ opener'[d] = IF d \in chats THEN Bumped(opener[d], keep) ELSE opener[d]
        /\ unwritten'[d] = unwritten[d]
    BY DEF ReapOf
  <2>2a. /\ row'[d] \in {row[d], NoRow} /\ (d \notin chats => row'[d] = row[d])
         /\ \/ d \notin chats /\ turn'[d] = turn[d]
            \/ d \in chats /\ ~retiring /\ turn'[d] = Ended(turn[d], "reaped")
            \/ d \in chats /\ retiring /\ turn'[d] \in {turn[d], Ended(turn[d], "refused")}
    BY ReapFields DEF ReapTurns
  <2>3. CASE d \notin chats
    <3>1. live'[d] = live[d] /\ opener'[d] = opener[d] /\ row'[d] = row[d] /\ turn'[d] = turn[d]
      BY <2>2, <2>2a, <2>3
    <3>. QED
      BY <2>2, <2>3, <3>1 DEF Loses
  <2>4. CASE d \in chats
    <3>. DEFINE o == Bumped(opener[d], keep)
    <3>1. live'[d] = NoLive /\ opener'[d] = o /\ row'[d] \in {row[d], NoRow} /\ NoLive.sid = 0
      BY <2>2, <2>2a, <2>4 DEF NoLive
    <3>2. /\ o.pc = opener[d].pc /\ o.sid = opener[d].sid /\ o.conv = opener[d].conv
          /\ o.resume = opener[d].resume
          /\ opener[d].pc # "idle" => o.reaped # "no"
      BY <2>1, BumpedFields
    <3>3. /\ turn'[d].sid = turn[d].sid /\ turn'[d].conv = turn[d].conv /\ turn'[d].ckpt = turn[d].ckpt
          /\ \/ turn'[d] = turn[d]
             \/ turn[d].st \in Active /\ turn'[d].st = "ended" /\ turn'[d].end = "mark"
             \/ turn[d].st = "held" /\ turn'[d].st = "ended" /\ turn'[d].end = "none"
          /\ turn'[d].st \notin {"taken", "running"}
      <4>1. CASE retiring
        <5>1. turn'[d] \in {turn[d], Ended(turn[d], "refused")} /\ turn[d].st = "held"
          BY <2>2a, <2>4, <4>1
        <5>2. EndEffect("refused", turn[d].st = "running") = "none"
          BY DEF EndEffect
        <5>3. LET e == Ended(turn[d], "refused") IN
              /\ e.sid = turn[d].sid /\ e.conv = turn[d].conv /\ e.ckpt = turn[d].ckpt
              /\ e.st = "ended" /\ e.end = "none"
          BY <2>1, <5>1, <5>2, EndedFields DEF Active
        <5>. QED
          BY <5>1, <5>3
      <4>2. CASE ~retiring
        <5>1. turn'[d] = Ended(turn[d], "reaped")
          BY <2>2a, <2>4, <4>2
        <5>2. LET e == Ended(turn[d], "reaped") IN
              /\ e.sid = turn[d].sid /\ e.conv = turn[d].conv /\ e.ckpt = turn[d].ckpt
              /\ e = turn[d] \/ (turn[d].st \in Active /\ e.st = "ended" /\ e.end = "mark")
              /\ e.st \notin {"taken", "running"}
          BY <2>1, EndedMarks
        <5>. QED
          BY <5>1, <5>2
      <4>. QED
        BY <4>1, <4>2
    <3>. HIDE DEF o
    <3>. QED
      BY <2>2, <2>4, <3>1, <3>2, <3>3 DEF Loses
  <2>. QED
    BY <2>3, <2>4
<1>3. \A d \in cs : turn'[d].st \in {"taken", "running"} => turn[d].sid \notin remote'
  BY <1>2
<1>4. remote' \subseteq remote
  BY ReapFields DEF ReapLoses
<1>. HIDE DEF cs
<1>. QED
  BY <1>0, <1>00, <1>1, <1>2, <1>3, <1>4, ManyChatsLose

\* The machine withdraws consent: the vendor's processes die under their turns.
LEMMA WithdrawKills ==
    ASSUME Typed, OpensWithoutSession, Apart, \A d \in Chat : Agree(d) /\ Guarded(d), ContinuesKilledTurn, Withdraw
    PROVE  KilledInv'
<1>0. Chat # {}
  BY SessionBounds DEF Chat
<1>1. /\ remote' = {} /\ killed' = killed \cup KilledBy(Chat)
      /\ UNCHANGED <<kind, live, opener, row, unwritten, turn, minted, forgot>>
  BY DEF Withdraw
<1>2. \A d \in Chat : Loses(d) /\ (live'[d].sid # 0 => row'[d] = row[d])
  BY <1>1 DEF Loses
<1>. QED
  BY <1>0, <1>1, <1>2, ManyChatsLose

\* The connection drops under the turns.
LEMMA DisconnectKills ==
    ASSUME Typed, OpensWithoutSession, Apart, \A d \in Chat : Agree(d) /\ Guarded(d), ContinuesKilledTurn, Disconnect
    PROVE  KilledInv'
<1>0. Chat # {}
  BY SessionBounds DEF Chat
<1>1. /\ remote' = {} /\ killed' = killed \cup KilledBy(Chat)
      /\ UNCHANGED <<kind, row, unwritten, minted, forgot>>
  BY DEF Disconnect
<1>2. ASSUME NEW d \in Chat PROVE Loses(d) /\ (live'[d].sid # 0 => row'[d] = row[d])
  <2>1. /\ live'[d] = NoLive /\ row'[d] = row[d]
        /\ \/ opener[d].pc \in {"call", "answer"} /\ opener'[d] = Idle
           \/ /\ opener[d].pc \notin {"call", "answer"} /\ opener'[d].pc = opener[d].pc
              /\ opener'[d].sid = opener[d].sid /\ opener'[d].conv = opener[d].conv
              /\ opener'[d].resume = opener[d].resume
              /\ opener[d].pc \in {"write", "check"} => opener'[d].reaped # "no"
        /\ turn'[d] = turn[d] \/ turn'[d] = Ended(turn[d], "runtime-disconnected")
    BY DisconnectFields
  <2>2. /\ turn'[d].sid = turn[d].sid /\ turn'[d].conv = turn[d].conv /\ turn'[d].ckpt = turn[d].ckpt
        /\ turn'[d] = turn[d] \/ (turn[d].st \in Active /\ turn'[d].st = "ended" /\ turn'[d].end = "mark")
    <3>1. turn[d] \in TurnType
      BY DEF Typed
    <3>2. LET e == Ended(turn[d], "runtime-disconnected") IN
          /\ e.sid = turn[d].sid /\ e.conv = turn[d].conv /\ e.ckpt = turn[d].ckpt
          /\ e = turn[d] \/ (turn[d].st \in Active /\ e.st = "ended" /\ e.end = "mark")
      BY <3>1, EndedMarks
    <3>. QED
      BY <2>1, <3>2
  <2>3. unwritten'[d] = unwritten[d]
    BY <1>1
  <2>. QED
    BY <2>1, <2>2, <2>3 DEF Loses
<1>. QED
  BY <1>0, <1>1, <1>2, ManyChatsLose

\* The boot sweep marks what the crash killed, but for the marks it forgets.
LEMMA RestartKills ==
    ASSUME Typed, OpensWithoutSession, Apart, \A d \in Chat : Agree(d) /\ Guarded(d), ContinuesKilledTurn, Restart
    PROVE  KilledInv'
<1>0. /\ NoLive.sid = 0 /\ NoLive.conv = 0 /\ Idle.pc = "idle" /\ Idle.sid = 0 /\ Idle.conv = 0 /\ Idle.resume = 0
      /\ NoTurn.st = "none" /\ NoTurn.sid = 0 /\ NoTurn.conv = 0 /\ NoTurn.ckpt = FALSE
  BY DEF NoLive, Idle, NoTurn
<1>1. /\ \A d \in Chat : live'[d] = NoLive /\ opener'[d] = Idle /\ turn'[d] = NoTurn /\ row'[d] = SweptRows[d]
      /\ killed' = killed \cup KilledBy(Chat) /\ minted' = minted /\ kind' = kind
  BY DEF Restart
<1>2. \A d \in Chat : /\ row'[d].conv = row[d].conv /\ row'[d].sid = row[d].sid
                      /\ row[d].unres => row'[d].unres
                      /\ d \in Swept /\ row[d].conv # 0 => row'[d].unres
  <2>. SUFFICES ASSUME NEW d \in Chat
       PROVE  /\ row'[d].conv = row[d].conv /\ row'[d].sid = row[d].sid
              /\ row[d].unres => row'[d].unres
              /\ d \in Swept /\ row[d].conv # 0 => row'[d].unres
    OBVIOUS
  <2>. DEFINE w == [row[d] EXCEPT !.unres = TRUE]
  <2>1. row[d] \in RowType
    BY DEF Typed
  <2>2. w.conv = row[d].conv /\ w.sid = row[d].sid /\ w.unres = TRUE
    BY <2>1 DEF RowType
  <2>3. row'[d] = IF d \in Swept /\ row[d].conv # 0 THEN w ELSE row[d]
    BY <1>1 DEF SweptRows
  <2>. HIDE DEF w
  <2>. QED
    BY <2>2, <2>3
<1>3. /\ Forgotten \subseteq Forgotten'
      /\ \A d \in Chat \ Swept : unwritten[d] # 0 => row[d].conv \in Forgotten'
      /\ \A d \in Chat : turn[d].st = "ended" /\ turn[d].end = "mark" /\ turn[d].ckpt => turn[d].conv \in Forgotten'
  <2>. DEFINE M == forgot.memory \cup {row[d].conv : d \in {e \in Chat \ Swept : unwritten[e] # 0}}
              K == forgot.checkpoint \cup {turn[d].conv : d \in
                     {e \in Chat : turn[e].st = "ended" /\ turn[e].end = "mark" /\ turn[e].ckpt}}
  <2>1. forgot' = [forgot EXCEPT !.memory = M, !.checkpoint = K]
    BY DEF Restart, Typed
  <2>2. /\ forgot.memory \subseteq M /\ forgot.checkpoint \subseteq K
        /\ \A d \in Chat \ Swept : unwritten[d] # 0 => row[d].conv \in M
        /\ \A d \in Chat : turn[d].st = "ended" /\ turn[d].end = "mark" /\ turn[d].ckpt => turn[d].conv \in K
    OBVIOUS
  <2>. HIDE DEF M, K
  <2>3. Forgotten' = M \cup K \cup forgot.unheard
    BY <2>1 DEF Forgotten, Typed
  <2>. QED
    BY <2>2, <2>3 DEF Forgotten
<1>4. \A d \in Chat, v \in KilledBy(Chat) :
         /\ \E e \in Chat : v \in Convs(e)
         /\ v \in Convs(d) => turn[d].st \in {"taken", "running"} /\ turn[d].conv = v
  BY KilledLocal
<1>5. Apart'
  <2>1. \A d \in Chat : (\A v \in Convs(d)' : v \in Convs(d)) /\ (\A s \in Sids(d)' : s \in Sids(d))
    BY <1>0, <1>1, <1>2 DEF Convs, Sids, Started
  <2>2. PICK c \in Chat : TRUE
    BY SessionBounds DEF Chat
  <2>3. \A v \in killed' : v \in killed \/ \E d \in Chat : v \in Convs(d)
    BY <1>1, <1>4
  <2>. QED
    BY <1>1, <2>1, <2>2, <2>3, ApartKept
<1>6. ASSUME NEW d \in Chat PROVE Agree(d)' /\ Guarded(d)'
  <2>1. Agree(d)'
    BY <1>0, <1>1, <1>6 DEF Agree, Underway, Handed, Active
  <2>2. ASSUME row[d].conv \in Poisoned' PROVE StartsFresh(d)'
    <3>1. row[d].conv # 0 /\ row[d].conv \in Convs(d) /\ row[d].conv \notin Forgotten'
      BY <1>5, <2>2 DEF Apart, Convs, Poisoned
    <3>2. CASE d \in Swept
      BY <1>2, <3>1, <3>2 DEF StartsFresh
    <3>3. CASE d \notin Swept
      <4>1. turn[d].st = "none" \/ turn[d].ckpt
        BY <3>3 DEF Swept
      <4>2. turn[d].st \notin {"taken", "running"}
        BY <4>1 DEF Agree, Active
      <4>3. row[d].conv \in Poisoned
        BY <1>1, <1>3, <1>4, <2>2, <3>1, <4>2 DEF Poisoned
      <4>4. StartsFresh(d) \/ Pending(d)
        BY <4>3 DEF Guarded
      <4>5. ~Pending(d)
        <5>. SUFFICES ASSUME Pending(d) PROVE FALSE
          OBVIOUS
        <5>1. turn[d].st = "ended" /\ turn[d].end = "mark" /\ turn[d].sid = row[d].sid
          BY <4>2 DEF Pending
        <5>2. turn[d].conv = row[d].conv
          BY <3>1, <5>1 DEF Agree
        <5>. QED
          BY <1>3, <3>1, <4>1, <5>1, <5>2
      <4>. QED
        BY <1>2, <1>3, <3>1, <3>3, <4>4, <4>5 DEF StartsFresh
    <3>. QED
      BY <3>2, <3>3
  <2>3. 0 \notin killed'
    BY <1>5 DEF Apart
  <2>4. ({opener'[d].resume, opener'[d].conv} \cup Started(d)') \cap Poisoned' = {}
    BY <1>0, <1>1, <2>3 DEF Started, Poisoned
  <2>. QED
    BY <1>0, <1>1, <1>2, <2>1, <2>2, <2>4 DEF Guarded
<1>. QED
  BY <1>1, <1>5, <1>6 DEF KilledInv, ContinuesKilledTurn

\* A step that touches nothing of this.
LEMMA Untouched ==
    ASSUME Typed, OpensWithoutSession, Apart, \A d \in Chat : Agree(d) /\ Guarded(d), ContinuesKilledTurn,
           UNCHANGED <<kind, live, opener, row, unwritten, turn, remote, minted, killed, forgot>>
    PROVE  KilledInv'
<1>1. Chat # {}
  BY SessionBounds DEF Chat
<1>2. \A d \in Chat : Loses(d) /\ (live'[d].sid # 0 => row'[d] = row[d])
  BY DEF Loses
<1>. DEFINE none == {d \in Chat : FALSE}
<1>3. none \in SUBSET Chat /\ \A d \in none : FALSE
  OBVIOUS
<1>4. killed' \subseteq killed \cup KilledBy(none) /\ remote' \subseteq remote
  OBVIOUS
<1>5. /\ minted' = minted /\ forgot' = forgot /\ kind' = kind
      /\ \A d \in none : turn'[d].st \in {"taken", "running"} => turn[d].sid \notin remote'
  BY <1>3
<1>. HIDE DEF none
<1>. QED
  BY <1>1, <1>2, <1>3, <1>4, <1>5, ManyChatsLose

\* The vendor that goes on with killed turns.
LEMMA KilledStep == SessionInv /\ KilledInv /\ ContinuesKilledTurn /\ [Next]_vars => KilledInv'
<1>. SUFFICES ASSUME SessionInv, KilledInv, ContinuesKilledTurn, [Next]_vars PROVE KilledInv'
  OBVIOUS
<1>0. Typed /\ OpensWithoutSession /\ Apart /\ (\A d \in Chat : Agree(d) /\ Guarded(d)) /\ ContinuesKilledTurn
  BY DEF SessionInv, KilledInv
<1>1. ASSUME NEW c \in Chat, NEW b \in Bind, Ensure(c, b) PROVE KilledInv'
  <2>0. b \in Nat
    BY SessionBounds DEF Bind
  <2>1. CASE live[c].sid = 0
    BY <1>0, <1>1, <2>0, <2>1, OpenFromKills DEF Ensure, MaySend, EnsureUnchanged
  <2>2. CASE live[c].sid # 0 /\ live[c].bind = b
    BY <1>0, <1>1, <2>2, EnsureHolds
  <2>3. CASE live[c].sid # 0 /\ live[c].bind # b
    BY <1>0, <1>1, <2>3, EnsureReplacesKills
  <2>. QED
    BY <2>1, <2>2, <2>3
<1>2. ASSUME NEW c \in Chat, Reacquire(c) PROVE KilledInv'
  <2>0. turn[c].bind \in Nat
    BY <1>0 DEF Typed, TurnType
  <2>. QED
    BY <1>0, <1>2, <2>0, OpenFromKills DEF Reacquire, MayReopen, EnsureUnchanged
<1>2a. ASSUME NEW c \in Chat, NEW b \in Bind, DropFails(c, b) PROVE KilledInv'
  BY <1>0, <1>2a, DropFailsKills
<1>3. ASSUME NEW c \in Chat, OpenCall(c) PROVE KilledInv'
  BY <1>0, <1>3, OpenCallKills
<1>4. ASSUME NEW c \in Chat, OpenFails(c) PROVE KilledInv'
  BY <1>0, <1>4, OpenFailsKills
<1>5. ASSUME NEW c \in Chat, Opened(c) PROVE KilledInv'
  BY <1>0, <1>5, OpenedKills
<1>5a. ASSUME NEW c \in Chat, Answered(c) PROVE KilledInv'
  BY <1>0, <1>5a, AnsweredKills
<1>5b. ASSUME NEW c \in Chat, AnswerTooLate(c) PROVE KilledInv'
  BY <1>0, <1>5b, AbandonKills DEF AnswerTooLate
<1>6. ASSUME NEW c \in Chat, WriteRow(c) PROVE KilledInv'
  BY <1>0, <1>6, WriteRowKills
<1>7. ASSUME NEW c \in Chat, OpenWriteFails(c) PROVE KilledInv'
  BY <1>0, <1>7, OpenWriteFailsFields, AbandonKills
<1>8. ASSUME NEW c \in Chat, Settle(c) PROVE KilledInv'
  BY <1>0, <1>8, SettleKills
<1>9. ASSUME NEW c \in Chat, Send(c) PROVE KilledInv'
  BY <1>0, <1>9, SendKills
<1>10. ASSUME NEW c \in Chat, VendorTakes(c) PROVE KilledInv'
  BY <1>0, <1>10, VendorTakesKills
<1>11. ASSUME NEW c \in Chat, Accepted(c) PROVE KilledInv'
  BY <1>0, <1>11, AcceptedKills
<1>12. ASSUME NEW c \in Chat, NotSubmitted(c) PROVE KilledInv'
  BY <1>0, <1>12, NotSubmittedKills
<1>13. ASSUME NEW c \in Chat, Checkpoint(c) PROVE KilledInv'
  BY <1>0, <1>13, CheckpointKills
<1>14. ASSUME NEW c \in Chat, RecordEnd(c) PROVE KilledInv'
  BY <1>0, <1>14, RecordEndKills
<1>15. ASSUME NEW c \in Chat, SettleMessage(c) PROVE KilledInv'
  BY <1>0, <1>15, SettleMessageKills
<1>16. ASSUME NEW c \in Chat, NEW drop \in BOOLEAN, Retire(c, drop) PROVE KilledInv'
  <2>1. /\ ReapOf({c}, ~drop, TRUE) /\ {c} \in SUBSET Chat
        /\ UNCHANGED <<unwritten, minted, forgot, kind>> /\ turn[c].st = "held"
    BY <1>16 DEF Retire, ReapUnchanged
  <2>. QED
    BY <1>0, <2>1, ReapKills
<1>17. ASSUME NEW c \in Chat, NEW r \in EndReason, EndTurn(c, r) PROVE KilledInv'
  BY <1>0, <1>17, EndTurnKills
<1>18. ASSUME NEW c \in Chat, ReapChat(c) PROVE KilledInv'
  <2>1. /\ ReapOf({c}, FALSE, FALSE) /\ {c} \in SUBSET Chat
        /\ UNCHANGED <<unwritten, minted, forgot, kind>>
    BY <1>18 DEF ReapChat, ReapUnchanged
  <2>. QED
    BY <1>0, <2>1, ReapKills
<1>19. ASSUME NEW c \in Chat, NEW v \in Conv, Adopt(c, v) PROVE KilledInv'
  BY <1>0, <1>19 DEF Adopt, ContinuesKilledTurn
<1>20. CASE ReapScopeKeep
  <2>1. /\ ReapOf(Scope, TRUE, FALSE) /\ Scope \in SUBSET Chat
        /\ UNCHANGED <<unwritten, minted, forgot, kind>>
    BY <1>20 DEF ReapScopeKeep, ReapUnchanged, Scope
  <2>. QED
    BY <1>0, <2>1, ReapKills
<1>21. CASE Withdraw
  BY <1>0, <1>21, WithdrawKills
<1>22. CASE ConsentRevoked
  <2>1. /\ ReapOf(Scope, FALSE, FALSE) /\ Scope \in SUBSET Chat
        /\ UNCHANGED <<unwritten, minted, forgot, kind>>
    BY <1>22 DEF ConsentRevoked, ReapUnchanged, Scope
  <2>. QED
    BY <1>0, <2>1, ReapKills
<1>23. CASE Consent
  <2>1. UNCHANGED <<kind, live, opener, row, unwritten, turn, remote, minted, killed, forgot>>
    BY <1>23 DEF Consent
  <2>. QED
    BY <1>0, <2>1, Untouched
<1>24. CASE ReapAll
  <2>1. /\ ReapOf({d \in Chat : live[d].sid # 0 \/ Submitting(d)}, TRUE, FALSE) /\ {d \in Chat : live[d].sid # 0 \/ Submitting(d)} \in SUBSET Chat
        /\ UNCHANGED <<unwritten, minted, forgot, kind>>
    BY <1>24 DEF ReapAll, ReapUnchanged
  <2>. QED
    BY <1>0, <2>1, ReapKills
<1>25. CASE Disconnect
  BY <1>0, <1>25, DisconnectKills
<1>26. CASE Connect
  <2>1. UNCHANGED <<kind, live, opener, row, unwritten, turn, remote, minted, killed, forgot>>
    BY <1>26 DEF Connect
  <2>. QED
    BY <1>0, <2>1, Untouched
<1>27. CASE Restart
  BY <1>0, <1>27, RestartKills
<1>28. ASSUME NEW v \in Conv, LeaseExpires(v) PROVE KilledInv'
  <2>1. UNCHANGED <<kind, live, opener, row, unwritten, turn, remote, minted, killed, forgot>>
    BY <1>28 DEF LeaseExpires, volatile
  <2>. QED
    BY <1>0, <2>1, Untouched
<1>29. CASE UNCHANGED vars
  <2>1. UNCHANGED <<kind, live, opener, row, unwritten, turn, remote, minted, killed, forgot>>
    BY <1>29 DEF vars, volatile, durable
  <2>. QED
    BY <1>0, <2>1, Untouched
<1>. QED
  BY <1>1, <1>2, <1>2a, <1>3, <1>4, <1>5, <1>5a, <1>5b, <1>6, <1>7, <1>8, <1>9, <1>10, <1>11, <1>12, <1>13,
     <1>14, <1>15, <1>16, <1>17, <1>18, <1>19, <1>20, <1>21, <1>22, <1>23, <1>24, <1>25,
     <1>26, <1>27, <1>28, <1>29
     DEF Next, OpenStep, TurnStep, EndReason

\* Of another vendor no conversation holds a killed turn.
LEMMA NoKillsStep == KilledInv /\ ~ContinuesKilledTurn /\ [Next]_vars => KilledInv'
<1>. SUFFICES ASSUME KilledInv, ~ContinuesKilledTurn, [Next]_vars PROVE KilledInv'
  OBVIOUS
<1>0. killed = {} /\ ~ContinuesKilledTurn
  BY DEF KilledInv
<1>1. ASSUME NEW c \in Chat, NEW b \in Bind, Ensure(c, b) PROVE KilledInv'
  <2>1. killed' = killed /\ kind' = kind
    BY <1>1 DEF Ensure, EnsureUnchanged
  <2>. QED
    BY <1>0, <2>1 DEF KilledInv, ContinuesKilledTurn
<1>2. ASSUME NEW c \in Chat, Reacquire(c) PROVE KilledInv'
  <2>1. killed' = killed /\ kind' = kind
    BY <1>2 DEF Reacquire, EnsureUnchanged
  <2>. QED
    BY <1>0, <2>1 DEF KilledInv, ContinuesKilledTurn
<1>2a. ASSUME NEW c \in Chat, NEW b \in Bind, DropFails(c, b) PROVE KilledInv'
  <2>1. killed' = killed /\ kind' = kind
    BY <1>2a DEF DropFails, EnsureUnchanged
  <2>. QED
    BY <1>0, <2>1 DEF KilledInv, ContinuesKilledTurn
<1>3. ASSUME NEW c \in Chat, OpenCall(c) PROVE KilledInv'
  <2>1. killed' = killed /\ kind' = kind
    BY <1>3 DEF OpenCall, OpenerOnly
  <2>. QED
    BY <1>0, <2>1 DEF KilledInv, ContinuesKilledTurn
<1>4. ASSUME NEW c \in Chat, OpenFails(c) PROVE KilledInv'
  <2>1. killed' = killed /\ kind' = kind
    BY <1>4 DEF OpenFails, OpenerOnly
  <2>. QED
    BY <1>0, <2>1 DEF KilledInv, ContinuesKilledTurn
<1>5. ASSUME NEW c \in Chat, Opened(c) PROVE KilledInv'
  <2>1. killed' = killed /\ kind' = kind
    BY <1>5 DEF Opened, OpenerOnly
  <2>. QED
    BY <1>0, <2>1 DEF KilledInv, ContinuesKilledTurn
<1>5a. ASSUME NEW c \in Chat, Answered(c) PROVE KilledInv'
  <2>1. killed' = killed /\ kind' = kind
    BY <1>5a DEF Answered, OpenerOnly
  <2>. QED
    BY <1>0, <2>1 DEF KilledInv, ContinuesKilledTurn
<1>5b. ASSUME NEW c \in Chat, AnswerTooLate(c) PROVE KilledInv'
  <2>1. killed' = killed /\ kind' = kind
    BY <1>5b DEF AnswerTooLate, Abandon, OpenerOnly
  <2>. QED
    BY <1>0, <2>1 DEF KilledInv, ContinuesKilledTurn
<1>6. ASSUME NEW c \in Chat, WriteRow(c) PROVE KilledInv'
  <2>1. killed' = killed /\ kind' = kind
    BY <1>6 DEF WriteRow, OpenerOnly
  <2>. QED
    BY <1>0, <2>1 DEF KilledInv, ContinuesKilledTurn
<1>7. ASSUME NEW c \in Chat, OpenWriteFails(c) PROVE KilledInv'
  <2>1. killed' = killed /\ kind' = kind
    BY <1>7 DEF OpenWriteFails, Abandon, OpenerOnly
  <2>. QED
    BY <1>0, <2>1 DEF KilledInv, ContinuesKilledTurn
<1>8. ASSUME NEW c \in Chat, Settle(c) PROVE KilledInv'
  <2>1. killed' = killed /\ kind' = kind
    BY <1>8 DEF Settle, RegisterUnchanged
  <2>. QED
    BY <1>0, <2>1 DEF KilledInv, ContinuesKilledTurn
<1>9. ASSUME NEW c \in Chat, Send(c) PROVE KilledInv'
  <2>1. killed' = killed /\ kind' = kind
    BY <1>9 DEF Send, TurnOnly
  <2>. QED
    BY <1>0, <2>1 DEF KilledInv, ContinuesKilledTurn
<1>10. ASSUME NEW c \in Chat, VendorTakes(c) PROVE KilledInv'
  <2>1. killed' = killed /\ kind' = kind
    BY <1>10 DEF VendorTakes, TurnOnly
  <2>. QED
    BY <1>0, <2>1 DEF KilledInv, ContinuesKilledTurn
<1>11. ASSUME NEW c \in Chat, Accepted(c) PROVE KilledInv'
  <2>1. killed' = killed /\ kind' = kind
    BY <1>11 DEF Accepted, TurnOnly
  <2>. QED
    BY <1>0, <2>1 DEF KilledInv, ContinuesKilledTurn
<1>12. ASSUME NEW c \in Chat, NotSubmitted(c) PROVE KilledInv'
  <2>1. killed' = killed /\ kind' = kind
    BY <1>12 DEF NotSubmitted, TurnOnly
  <2>. QED
    BY <1>0, <2>1 DEF KilledInv, ContinuesKilledTurn
<1>13. ASSUME NEW c \in Chat, Checkpoint(c) PROVE KilledInv'
  <2>1. killed' = killed /\ kind' = kind
    BY <1>13 DEF Checkpoint, TurnOnly
  <2>. QED
    BY <1>0, <2>1 DEF KilledInv, ContinuesKilledTurn
<1>14. ASSUME NEW c \in Chat, RecordEnd(c) PROVE KilledInv'
  <2>1. killed' = killed /\ kind' = kind
    BY <1>14 DEF RecordEnd, TurnOnly
  <2>. QED
    BY <1>0, <2>1 DEF KilledInv, ContinuesKilledTurn
<1>15. ASSUME NEW c \in Chat, SettleMessage(c) PROVE KilledInv'
  <2>1. killed' = killed /\ kind' = kind
    BY <1>15 DEF SettleMessage, TurnOnly
  <2>. QED
    BY <1>0, <2>1 DEF KilledInv, ContinuesKilledTurn
<1>16. ASSUME NEW c \in Chat, NEW drop \in BOOLEAN, Retire(c, drop) PROVE KilledInv'
  <2>1. (killed' = killed \/ \E cs \in SUBSET Chat : killed' = killed \cup KilledBy(cs)) /\ kind' = kind
    <3>1. ReapOf({c}, ~drop, TRUE) /\ {c} \in SUBSET Chat /\ kind' = kind
      BY <1>16 DEF Retire, ReapUnchanged
    <3>. QED
      BY <3>1 DEF ReapOf
  <2>2. \A cs \in SUBSET Chat : KilledBy(cs) = {}
    BY <1>0 DEF KilledBy
  <2>. QED
    BY <1>0, <2>1, <2>2 DEF KilledInv, ContinuesKilledTurn
<1>17. ASSUME NEW c \in Chat, NEW r \in EndReason, EndTurn(c, r) PROVE KilledInv'
  <2>1. (killed' = killed \/ \E cs \in SUBSET Chat : killed' = killed \cup KilledBy(cs)) /\ kind' = kind
    BY <1>17 DEF EndTurn
  <2>2. \A cs \in SUBSET Chat : KilledBy(cs) = {}
    BY <1>0 DEF KilledBy
  <2>. QED
    BY <1>0, <2>1, <2>2 DEF KilledInv, ContinuesKilledTurn
<1>18. ASSUME NEW c \in Chat, ReapChat(c) PROVE KilledInv'
  <2>1. (killed' = killed \/ \E cs \in SUBSET Chat : killed' = killed \cup KilledBy(cs)) /\ kind' = kind
    <3>1. ReapOf({c}, FALSE, FALSE) /\ {c} \in SUBSET Chat /\ kind' = kind
      BY <1>18 DEF ReapChat, ReapUnchanged
    <3>. QED
      BY <3>1 DEF ReapOf
  <2>2. \A cs \in SUBSET Chat : KilledBy(cs) = {}
    BY <1>0 DEF KilledBy
  <2>. QED
    BY <1>0, <2>1, <2>2 DEF KilledInv, ContinuesKilledTurn
<1>19. ASSUME NEW c \in Chat, NEW v \in Conv, Adopt(c, v) PROVE KilledInv'
  <2>1. killed' = killed /\ kind' = kind
    BY <1>19 DEF Adopt, volatile
  <2>. QED
    BY <1>0, <2>1 DEF KilledInv, ContinuesKilledTurn
<1>20. CASE ReapScopeKeep
  <2>1. (killed' = killed \/ \E cs \in SUBSET Chat : killed' = killed \cup KilledBy(cs)) /\ kind' = kind
    <3>1. ReapOf(Scope, TRUE, FALSE) /\ Scope \in SUBSET Chat /\ kind' = kind
      BY <1>20 DEF ReapScopeKeep, ReapUnchanged, Scope
    <3>. QED
      BY <3>1 DEF ReapOf
  <2>2. \A cs \in SUBSET Chat : KilledBy(cs) = {}
    BY <1>0 DEF KilledBy
  <2>. QED
    BY <1>0, <2>1, <2>2 DEF KilledInv, ContinuesKilledTurn
<1>21. CASE Withdraw
  <2>1. (killed' = killed \/ \E cs \in SUBSET Chat : killed' = killed \cup KilledBy(cs)) /\ kind' = kind
    BY <1>21 DEF Withdraw
  <2>2. \A cs \in SUBSET Chat : KilledBy(cs) = {}
    BY <1>0 DEF KilledBy
  <2>. QED
    BY <1>0, <2>1, <2>2 DEF KilledInv, ContinuesKilledTurn
<1>22. CASE ConsentRevoked
  <2>1. (killed' = killed \/ \E cs \in SUBSET Chat : killed' = killed \cup KilledBy(cs)) /\ kind' = kind
    <3>1. ReapOf(Scope, FALSE, FALSE) /\ Scope \in SUBSET Chat /\ kind' = kind
      BY <1>22 DEF ConsentRevoked, ReapUnchanged, Scope
    <3>. QED
      BY <3>1 DEF ReapOf
  <2>2. \A cs \in SUBSET Chat : KilledBy(cs) = {}
    BY <1>0 DEF KilledBy
  <2>. QED
    BY <1>0, <2>1, <2>2 DEF KilledInv, ContinuesKilledTurn
<1>23. CASE Consent
  <2>1. killed' = killed /\ kind' = kind
    BY <1>23 DEF Consent
  <2>. QED
    BY <1>0, <2>1 DEF KilledInv, ContinuesKilledTurn
<1>24. CASE ReapAll
  <2>1. (killed' = killed \/ \E cs \in SUBSET Chat : killed' = killed \cup KilledBy(cs)) /\ kind' = kind
    <3>1. ReapOf({d \in Chat : live[d].sid # 0 \/ Submitting(d)}, TRUE, FALSE) /\ {d \in Chat : live[d].sid # 0 \/ Submitting(d)} \in SUBSET Chat /\ kind' = kind
      BY <1>24 DEF ReapAll, ReapUnchanged
    <3>. QED
      BY <3>1 DEF ReapOf
  <2>2. \A cs \in SUBSET Chat : KilledBy(cs) = {}
    BY <1>0 DEF KilledBy
  <2>. QED
    BY <1>0, <2>1, <2>2 DEF KilledInv, ContinuesKilledTurn
<1>25. CASE Disconnect
  <2>1. (killed' = killed \/ \E cs \in SUBSET Chat : killed' = killed \cup KilledBy(cs)) /\ kind' = kind
    BY <1>25 DEF Disconnect
  <2>2. \A cs \in SUBSET Chat : KilledBy(cs) = {}
    BY <1>0 DEF KilledBy
  <2>. QED
    BY <1>0, <2>1, <2>2 DEF KilledInv, ContinuesKilledTurn
<1>26. CASE Connect
  <2>1. killed' = killed /\ kind' = kind
    BY <1>26 DEF Connect
  <2>. QED
    BY <1>0, <2>1 DEF KilledInv, ContinuesKilledTurn
<1>27. CASE Restart
  <2>1. (killed' = killed \/ \E cs \in SUBSET Chat : killed' = killed \cup KilledBy(cs)) /\ kind' = kind
    BY <1>27 DEF Restart
  <2>2. \A cs \in SUBSET Chat : KilledBy(cs) = {}
    BY <1>0 DEF KilledBy
  <2>. QED
    BY <1>0, <2>1, <2>2 DEF KilledInv, ContinuesKilledTurn
<1>28. ASSUME NEW v \in Conv, LeaseExpires(v) PROVE KilledInv'
  <2>1. killed' = killed /\ kind' = kind
    BY <1>28 DEF LeaseExpires, volatile
  <2>. QED
    BY <1>0, <2>1 DEF KilledInv, ContinuesKilledTurn
<1>29. CASE UNCHANGED vars
  <2>1. killed' = killed /\ kind' = kind
    BY <1>29 DEF vars, volatile, durable
  <2>. QED
    BY <1>0, <2>1 DEF KilledInv, ContinuesKilledTurn
<1>. QED
  BY <1>1, <1>2, <1>2a, <1>3, <1>4, <1>5, <1>5a, <1>5b, <1>6, <1>7, <1>8, <1>9, <1>10, <1>11, <1>12, <1>13,
     <1>14, <1>15, <1>16, <1>17, <1>18, <1>19, <1>20, <1>21, <1>22, <1>23, <1>24, <1>25,
     <1>26, <1>27, <1>28, <1>29
     DEF Next, OpenStep, TurnStep, EndReason

\* Initially no turn was killed and no chat points to anything.
LEMMA KilledInit == Init => KilledInv
<1>. SUFFICES ASSUME Init PROVE KilledInv
  OBVIOUS
<1>1. killed = {}
  BY DEF Init
<1>2. \A c \in Chat : /\ live[c] = NoLive /\ opener[c] = Idle /\ row[c] = NoRow /\ turn[c] = NoTurn
  BY DEF Init
<1>3. /\ NoLive.sid = 0 /\ NoLive.conv = 0 /\ Idle.pc = "idle" /\ Idle.sid = 0 /\ Idle.conv = 0 /\ Idle.resume = 0
      /\ NoTurn.st = "none" /\ NoTurn.sid = 0 /\ NoTurn.conv = 0 /\ NoTurn.ckpt = FALSE /\ NoRow.conv = 0
  BY DEF NoLive, Idle, NoTurn, NoRow
<1>4. \A c \in Chat : Convs(c) = {} /\ Sids(c) = {}
  BY <1>2, <1>3 DEF Convs, Sids, Started
<1>5. Apart
  BY <1>1, <1>4 DEF Apart
<1>6. \A c \in Chat : Agree(c)
  BY <1>2, <1>3 DEF Agree, Underway, Handed, Active
<1>7. \A c \in Chat : Guarded(c)
  BY <1>1, <1>2, <1>3 DEF Guarded, Poisoned
<1>. QED
  BY <1>1, <1>5, <1>6, <1>7 DEF KilledInv

\* KilledInv holds in every reachable state (setUnresumable, resumeModeFor,
\* recordEndOnConversation, reconcileExternalTurns).
THEOREM KilledInvariant == Spec => []KilledInv
<1>1. SessionInv /\ KilledInv /\ [Next]_vars => KilledInv'
  BY KilledStep, NoKillsStep
<1>. QED
  BY <1>1, KilledInit, SessionsInvariant, PTL DEF Spec

\* No conversation that holds a killed turn is offered to the vendor again,
\* through failed writes, reopens, stops, reaps and restarts, but for the three
\* ways to lose its mark that `forgot` records.
THEOREM KilledTurnsStayDown == Spec => []KilledTurnNotResumed
<1>1. KilledInv => KilledTurnNotResumed
  <2>. SUFFICES ASSUME KilledInv, NEW v \in killed, Offered(v) PROVE v \in Forgotten
    BY DEF KilledTurnNotResumed, Forgotten
  <2>1. PICK c \in Chat : opener[c].resume = v
    BY DEF Offered
  <2>2. Guarded(c)
    BY DEF KilledInv
  <2>. QED
    BY <2>1, <2>2 DEF Guarded, Poisoned
<1>. QED
  BY <1>1, KilledInvariant, PTL


=============================================================================
