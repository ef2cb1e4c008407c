-------------------------- MODULE ExternalSessions --------------------------
(***************************************************************************)
(* The hub's external session manager: which vendor session a chat has     *)
(* (external-session-manager.ts), the durable pointer to the vendor's      *)
(* conversation (continuation repository), the adoption lease, and what    *)
(* the end of a turn means for the stored conversation (resume policy,     *)
(* turn controller, boot sweep).                                           *)
(*                                                                         *)
(* An open is slow; each await of it is a step, and a reap, a dropped      *)
(* connection or a crash may fall between two of them. Generation numbers  *)
(* are only compared across an open, so the model keeps what the           *)
(* comparison tells: whether, and how, the chat was reaped since it began. *)
(***************************************************************************)
EXTENDS Integers, FiniteSets

CONSTANTS MaxChat,     \* chats
          MaxBind,     \* bindings (environment, workspace, account ...) a send may carry
          MaxSession,  \* runtime sessions the hub may ask for
          MaxFault,    \* steps in which a database write may fail
          MaxCrash,    \* hub crashes
          Kinds        \* subset of {"claude", "codex"}: the target of these chats

ASSUME SessionBounds ==
    /\ MaxChat \in Nat \ {0} /\ MaxBind \in Nat \ {0} /\ MaxSession \in Nat \ {0}
    /\ MaxFault \in Nat /\ MaxCrash \in Nat /\ Kinds \subseteq {"claude", "codex"}

Chat == 1 .. MaxChat
Bind == 1 .. MaxBind
Sid == 1 .. MaxSession
\* A vendor conversation: 1 was begun outside the hub, s + 1 by session s.
Conv == 1 .. MaxSession + 1
NoRow == [conv |-> 0, sid |-> 0, bind |-> 0, pending |-> FALSE, unres |-> FALSE]
NoLive == [sid |-> 0, conv |-> 0, bind |-> 0]
Idle == [pc |-> "idle", reaped |-> "no", bind |-> 0, resume |-> 0, pending |-> FALSE,
         sid |-> 0, conv |-> 0, first |-> FALSE]
NoTurn == [st |-> "none", sid |-> 0, conv |-> 0, bind |-> 0, end |-> "none", ckpt |-> FALSE]

VARIABLES
    kind,       \* the vendor: whether a killed turn goes on when its conversation is resumed
    stopping,   \* shuttingDown
    conn,       \* the runtime's connection is up
    consent,    \* the runtime's: given, withdrawn, or withdrawn and known to the hub
    born,       \* chats that exist
    live,       \* sessions: the chat's registered session
    opener,     \* opening: the chat's open in flight and its locals
    row,        \* durable: the chat's continuation
    lease,      \* durable: who holds a conversation, and whether unexpired
    unwritten,  \* unwrittenMarks
    turn,       \* the chat's turn (its durable message included)
    remote,     \* sessions the runtime runs and was not asked to close
    lost,       \* of those, the ones the hub gave up without asking
    listening,  \* chats with the onClose listener of an open that failed
    minted,     \* runtime session ids handed out
    killed,     \* conversations holding a killed turn
    forgot,     \* of those, the ones that lost their mark: with the hub's memory, behind a
                \* checkpoint, or because the vendor's acceptance was still unheard of
    faults, crashes

volatile == <<stopping, conn, consent, live, opener, unwritten, remote, lost,
              listening>>
durable == <<kind, born, row, lease, turn, minted, killed, forgot, faults, crashes>>
vars == <<volatile, durable>>

Opening == {"idle", "client", "call", "answer", "write", "check"}
TurnStates == {"none", "held", "sent", "taken", "running", "ended", "recorded"}

TypeOK ==
    /\ kind \in Kinds /\ consent \in {"given", "withdrawn", "known"}
    /\ stopping \in BOOLEAN /\ conn \in BOOLEAN /\ born \subseteq Chat
    /\ live \in [Chat -> [sid : Nat, conv : Nat, bind : Nat]]
    /\ opener \in [Chat -> [pc : Opening, reaped : {"no", "keep", "drop"}, bind : Nat,
                            resume : Nat, pending : BOOLEAN, sid : Nat, conv : Nat,
                            first : BOOLEAN]]
    /\ row \in [Chat -> [conv : Nat, sid : Nat, bind : Nat, pending : BOOLEAN, unres : BOOLEAN]]
    /\ lease \in [Conv -> [chat : Chat \cup {0}, fresh : BOOLEAN]]
    /\ unwritten \in [Chat -> Nat]
    /\ turn \in [Chat -> [st : TurnStates, sid : Nat, conv : Nat, bind : Nat,
                          end : {"none", "clear", "mark"}, ckpt : BOOLEAN]]
    /\ remote \subseteq Nat /\ lost \subseteq Nat /\ listening \subseteq Chat /\ minted \in Nat
    /\ killed \subseteq Nat
    /\ forgot \in [memory : SUBSET Nat, checkpoint : SUBSET Nat, unheard : SUBSET Nat]
    /\ faults \in Nat /\ crashes \in Nat

Init ==
    /\ kind \in Kinds
    /\ stopping = FALSE /\ conn = TRUE /\ consent = "given"
    /\ born \in SUBSET Chat
    /\ live = [c \in Chat |-> NoLive] /\ opener = [c \in Chat |-> Idle]
    /\ row = [c \in Chat |-> NoRow]
    /\ lease = [v \in Conv |-> [chat |-> 0, fresh |-> FALSE]]
    /\ unwritten = [c \in Chat |-> 0] /\ turn = [c \in Chat |-> NoTurn]
    /\ remote = {} /\ lost = {} /\ listening = {} /\ minted = 0
    /\ killed = {} /\ forgot = [memory |-> {}, checkpoint |-> {}, unheard |-> {}]
    /\ faults = 0 /\ crashes = 0

-----------------------------------------------------------------------------
(* What the end of a turn does to the stored conversation.                 *)

ContinuesKilledTurn == kind = "claude"

\* endLeavesConversationUnresumable, with recordEndOnConversation's clearing. A
\* vendor error of a turn whose acceptance the hub has not heard of marks nothing.
EndEffect(reason, accepted) ==
    CASE reason = "completed" -> "clear"
      [] reason \in {"refused", "vendor-finished"} -> "none"
      [] reason = "vendor-broke" /\ ~accepted -> "none"
      [] OTHER -> IF ContinuesKilledTurn THEN "mark" ELSE "none"

\* Being submitted (held by the hub, sent, taken by the vendor but not yet heard
\* of), or bound.
Active == {"held", "sent", "taken", "running"}

\* terminate() and finalize(): the turn, active until its message settles.
Ended(t, reason) ==
    IF t.st \in Active
    THEN [t EXCEPT !.st = "ended", !.end = EndEffect(reason, t.st = "running")] ELSE t

\* The vendor is running the turn, so losing the session kills it.
KilledBy(cs) ==
    IF ContinuesKilledTurn
    THEN {turn[c].conv : c \in {d \in cs : turn[d].st \in {"taken", "running"}}} ELSE {}

-----------------------------------------------------------------------------
(* Reaping.                                                                *)

Released(chats) ==
    [v \in Conv |-> IF lease[v].chat \in chats THEN [chat |-> 0, fresh |-> FALSE] ELSE lease[v]]

\* An open in flight after a reap of its chat.
Bumped(o, keep) ==
    IF o.pc = "idle" THEN o
    ELSE [o EXCEPT !.reaped = IF keep /\ @ # "drop" THEN "keep" ELSE "drop"]

\* A step in which a database write fails.
Fault == faults < MaxFault /\ faults' = faults + 1

\* The pointer and the lease that protects it go together, unless the continuation
\* is kept; then the sessions are asked to close. A delete or a release that throws
\* ends the reap before that. (The delete is issued with the teardown, so no later
\* open reads the row it removes; when exactly the close follows, and how long the
\* runtime takes over it, no other step can tell.)
DropAndClose(chats, keep, undeleted, unreleased) ==
    LET failed == undeleted \cup unreleased IN
    /\ IF failed = {} THEN UNCHANGED faults ELSE ~keep /\ Fault
    /\ row' = [c \in Chat |-> IF c \in chats \ undeleted /\ ~keep THEN NoRow ELSE row[c]]
    /\ lease' = IF keep THEN lease ELSE Released(chats \ failed)
    /\ remote' = remote \ {live[c].sid : c \in chats \ failed}
    /\ lost' = lost \cup (remote \cap {live[c].sid : c \in failed})

\* reap(), for each of `chats`. A submission that is `retiring` its own session goes
\* on after it, unless the reap throws.
ReapOf(chats, keep, retiring) ==
    /\ live' = [c \in Chat |-> IF c \in chats THEN NoLive ELSE live[c]]
    /\ opener' = [c \in Chat |-> IF c \in chats THEN Bumped(opener[c], keep) ELSE opener[c]]
    /\ killed' = killed \cup KilledBy({c \in chats : live[c].sid # 0})
    /\ \E undeleted \in SUBSET chats : \E unreleased \in SUBSET (chats \ undeleted) :
         /\ DropAndClose(chats, keep, undeleted, unreleased)
         /\ turn' = [c \in Chat |->
                CASE c \in chats /\ ~retiring -> Ended(turn[c], "reaped")
                  [] c \in undeleted \cup unreleased /\ retiring -> Ended(turn[c], "refused")
                  [] OTHER -> turn[c]]

Submitting(c) == turn[c].st \in {"held", "sent", "taken"}
Scope == {c \in Chat : live[c].sid # 0 \/ opener[c].pc # "idle" \/ Submitting(c)}

ReapUnchanged == UNCHANGED <<kind, conn, born, unwritten, listening, minted, forgot, crashes>>

\* delete-chat, update-chat and failStart's session-lost: reapChat, pointer and all.
ReapChat(c) ==
    /\ c \in born
    /\ ReapOf({c}, FALSE, FALSE)
    /\ ReapUnchanged /\ UNCHANGED <<stopping, consent>>

\* The user's Disconnect of the environment, or a contested credential home:
\* every chat of the scope, opens in flight and waiting submissions included.
ReapScopeKeep ==
    /\ Scope # {}
    /\ ReapOf(Scope, TRUE, FALSE)
    /\ ReapUnchanged /\ UNCHANGED <<stopping, consent>>

\* The machine withdraws consent: its runtime closes the vendor sessions ...
Withdraw ==
    /\ consent = "given" /\ consent' = "withdrawn"
    /\ remote' = {} /\ lost' = {}
    /\ killed' = killed \cup KilledBy(Chat)
    /\ UNCHANGED <<kind, stopping, conn, born, live, opener, row, lease, unwritten,
                   turn, listening, minted, forgot, faults, crashes>>

\* ... and the next manifest tells the hub (onExternalAgentsRevoked).
ConsentRevoked ==
    /\ conn /\ consent = "withdrawn" /\ consent' = "known"
    /\ ReapOf(Scope, FALSE, FALSE)
    /\ ReapUnchanged /\ UNCHANGED stopping

Consent ==
    /\ consent # "given" /\ consent' = "given"
    /\ UNCHANGED <<kind, stopping, conn, born, live, opener, row, lease, unwritten,
                   turn, remote, lost, listening, minted, killed, forgot, faults,
                   crashes>>

\* reapAll: registered sessions and holds; the vendor's conversation is kept.
ReapAll ==
    /\ ~stopping /\ stopping' = TRUE
    /\ LET cs == {c \in Chat : live[c].sid # 0 \/ Submitting(c)}
       IN ReapOf(cs, TRUE, FALSE)
    /\ ReapUnchanged /\ UNCHANGED consent

\* The connection drops: calls fail, and each session's onClose, registered as
\* soon as the vendor answered its open, reaps its chat and keeps the pointer. The
\* listener of an open that failed since does so too.
Disconnect ==
    /\ conn /\ conn' = FALSE
    /\ remote' = {} /\ lost' = {} /\ listening' = {}
    /\ LET heard == {c \in Chat : live[c].sid # 0 \/ opener[c].pc \in {"write", "check"}}
       IN /\ live' = [c \in Chat |-> NoLive]
          /\ opener' = [c \in Chat |-> IF opener[c].pc \in {"call", "answer"} THEN Idle
                                       ELSE IF c \in heard \cup listening
                                       THEN Bumped(opener[c], TRUE) ELSE opener[c]]
          /\ turn' = [c \in Chat |-> IF c \in heard /\ turn[c].st = "running"
                                     THEN Ended(turn[c], "runtime-disconnected") ELSE turn[c]]
    /\ killed' = killed \cup KilledBy(Chat)
    /\ UNCHANGED <<kind, stopping, consent, born, row, lease, unwritten, minted,
                   forgot, faults, crashes>>

Connect ==
    /\ ~conn /\ conn' = TRUE
    /\ UNCHANGED <<kind, stopping, consent, born, live, opener, row, lease, unwritten,
                   turn, remote, lost, listening, minted, killed, forgot, faults,
                   crashes>>

-----------------------------------------------------------------------------
(* Opening (ensureSession, openSession).                                   *)

StartsFreshByRowOnly(c) == row[c].unres

\* The stored conversation is marked, durably or in memory.
StartsFresh(c) == row[c].unres \/ (unwritten[c] # 0 /\ unwritten[c] = row[c].sid)

Matches(c, b) == row[c].conv # 0 /\ row[c].bind = b
Resumes(c, b) == Matches(c, b) /\ ~StartsFresh(c)

\* The open reads the row: a stale binding is dropped before the open, a marked
\* conversation is not offered to the vendor and is released.
OpenFrom(c, b, first) ==
    /\ opener' = [opener EXCEPT ![c] =
           [Idle EXCEPT !.pc = "client", !.bind = b, !.first = first,
                        !.resume = IF Resumes(c, b) THEN row[c].conv ELSE 0,
                        !.pending = Resumes(c, b) /\ row[c].pending]]
    /\ row' = IF Matches(c, b) THEN row ELSE [row EXCEPT ![c] = NoRow]
    /\ lease' = IF row[c].conv # 0 /\ ~Resumes(c, b) THEN Released({c}) ELSE lease

\* Who may open: a send of a chat without an active turn, or the submission's own
\* reopen, over an existing connection only.
MaySend(c) == ~stopping /\ c \in born /\ opener[c].pc = "idle" /\ turn[c].st = "none"
MayReopen(c) == ~stopping /\ opener[c].pc = "idle" /\ turn[c].st = "held" /\ live[c].sid = 0

EnsureUnchanged == UNCHANGED <<kind, stopping, conn, consent, born, unwritten,
                               listening, minted, forgot, crashes>>

\* A live session of the same binding is used; one of another is reaped first,
\* pointer included, and if that throws nothing is opened.
Ensure(c, b) ==
    /\ MaySend(c)
    /\ \/ /\ live[c].sid = 0
          /\ OpenFrom(c, b, TRUE)
          /\ UNCHANGED <<live, turn, killed, remote, lost, faults>>
       \/ /\ live[c].sid # 0 /\ live[c].bind = b
          /\ turn' = [turn EXCEPT ![c] = [NoTurn EXCEPT !.st = "held", !.sid = live[c].sid,
                                                  !.conv = live[c].conv, !.bind = b]]
          /\ UNCHANGED <<live, opener, row, lease, killed, remote, lost, faults>>
       \/ /\ live[c].sid # 0 /\ live[c].bind # b
          /\ live' = [live EXCEPT ![c] = NoLive]
          /\ \E undeleted \in SUBSET {c} : \E unreleased \in SUBSET ({c} \ undeleted) :
               /\ DropAndClose({c}, FALSE, undeleted, unreleased)
               /\ opener' = IF undeleted \cup unreleased # {} THEN opener
                            ELSE [opener EXCEPT ![c] = [Idle EXCEPT !.pc = "client", !.bind = b,
                                                                    !.first = TRUE]]
          /\ UNCHANGED <<turn, killed>>
    /\ EnsureUnchanged

Reacquire(c) ==
    /\ MayReopen(c)
    /\ OpenFrom(c, turn[c].bind, FALSE)
    /\ UNCHANGED <<live, turn, killed, remote, lost, faults>> /\ EnsureUnchanged

\* The stale pointer cannot be deleted, or a lease not released: nothing is opened.
DropFails(c, b) ==
    /\ \/ MaySend(c) /\ live[c].sid = 0
       \/ MayReopen(c) /\ b = turn[c].bind
    /\ row[c].conv # 0 /\ ~Resumes(c, b)
    /\ Fault
    /\ \/ UNCHANGED row
       \/ ~Matches(c, b) /\ row' = [row EXCEPT ![c] = NoRow]
    /\ UNCHANGED <<live, opener, lease, turn, killed, remote, lost>> /\ EnsureUnchanged

OpenerOnly == UNCHANGED <<kind, stopping, conn, consent, born, live, unwritten,
                          turn, killed, forgot, crashes>>

\* The client is there; the runtime is asked to start the vendor.
OpenCall(c) ==
    /\ opener[c].pc = "client" /\ conn /\ minted < MaxSession
    /\ minted' = minted + 1
    /\ opener' = [opener EXCEPT ![c].pc = "call", ![c].sid = minted + 1]
    /\ UNCHANGED <<row, lease, remote, lost, listening, faults>> /\ OpenerOnly

\* No client, an open refused, reaped or cancelled by the hub's timer before the
\* runtime's answer left (its session is then closed), or a strict resume the
\* vendor cannot do.
OpenFails(c) ==
    /\ opener[c].pc \in {"client", "call"}
    /\ opener' = [opener EXCEPT ![c] = Idle]
    /\ UNCHANGED <<row, lease, remote, lost, listening, minted, faults>> /\ OpenerOnly

\* resumeModeFor: an adopted conversation, and any of Claude's, is resumed or refused.
Strict(o) == o.pending \/ kind = "claude"

\* The vendor opened, on the conversation it was asked for or on a new one: the
\* runtime has the session, and its answer is on the wire.
Opened(c) ==
    LET o == opener[c] IN
    /\ o.pc = "call" /\ consent = "given"
    /\ remote' = remote \cup {o.sid}
    /\ \E v \in (IF o.resume = 0 THEN {} ELSE {o.resume})
                \cup (IF o.resume # 0 /\ Strict(o) THEN {} ELSE {o.sid + 1}) :
         opener' = [opener EXCEPT ![c].pc = "answer", ![c].conv = v]
    /\ UNCHANGED <<row, lease, lost, listening, minted, faults>> /\ OpenerOnly

Answered(c) ==
    /\ opener[c].pc = "answer"
    /\ opener' = [opener EXCEPT ![c].pc = "write"]
    /\ UNCHANGED <<row, lease, remote, lost, listening, minted, faults>> /\ OpenerOnly

\* The open ends and leaves what the vendor started.
Abandon(c) ==
    /\ lost' = lost \cup ({opener[c].sid} \cap remote)
    /\ opener' = [opener EXCEPT ![c] = Idle]
    /\ UNCHANGED <<row, remote, minted>> /\ OpenerOnly

\* The hub's timer fires first; its cancel finds no open to cancel.
AnswerTooLate(c) ==
    /\ opener[c].pc = "answer"
    /\ Abandon(c)
    /\ UNCHANGED <<lease, listening, faults>>

\* writeContinuation: unmarked, and pending only until the vendor resumed.
WriteRow(c) ==
    LET o == opener[c] IN
    /\ o.pc = "write"
    /\ row' = [row EXCEPT ![c] = [conv |-> o.conv, sid |-> o.sid, bind |-> o.bind,
                                  pending |-> o.pending /\ o.conv # o.resume, unres |-> FALSE]]
    /\ opener' = [opener EXCEPT ![c].pc = "check"]
    /\ UNCHANGED <<lease, remote, lost, listening, minted, faults>> /\ OpenerOnly

\* A refresh that names the conversation instead of the chat.
RefreshedByConversation(c) ==
    IF opener[c].resume = 0 THEN lease
    ELSE [lease EXCEPT ![opener[c].resume] = [chat |-> c, fresh |-> TRUE]]

Refreshed(c) ==
    IF opener[c].resume = 0 THEN lease
    ELSE [v \in Conv |-> IF lease[v].chat = c THEN [lease[v] EXCEPT !.fresh = TRUE] ELSE lease[v]]

RegisterUnchanged == UNCHANGED <<kind, stopping, conn, consent, born, lost,
                                 listening, minted, killed, forgot, faults, crashes>>

\* No reap since the open began: the session is the chat's, its sender's turn
\* starts on it (if no other did), and a turn that reopened moves to it.
Register(c) ==
    LET o == opener[c]
        on == [turn[c] EXCEPT !.sid = o.sid, !.conv = o.conv, !.bind = o.bind]
    IN
    /\ live' = [live EXCEPT ![c] = [sid |-> o.sid, conv |-> o.conv, bind |-> o.bind]]
    /\ unwritten' = [unwritten EXCEPT ![c] = 0]
    /\ turn' = CASE o.first /\ turn[c].st = "none" ->
                       [turn EXCEPT ![c] = [on EXCEPT !.st = "held"]]
                 [] ~o.first /\ turn[c].st = "held" -> [turn EXCEPT ![c] = on]
                 [] OTHER -> turn
    /\ UNCHANGED <<row, remote>>

UndoWithoutClose(c) ==
    /\ row' = [row EXCEPT ![c] = NoRow]
    /\ UNCHANGED <<live, unwritten, turn, remote>>

\* Otherwise what the open did is taken back.
Undo(c) ==
    /\ row' = [row EXCEPT ![c] = NoRow]
    /\ remote' = remote \ {opener[c].sid}
    /\ UNCHANGED <<live, unwritten, turn>>

SettleUnchecked(c) ==
    /\ opener[c].pc = "check"
    /\ lease' = Refreshed(c)
    /\ Register(c)
    /\ opener' = [opener EXCEPT ![c] = Idle]
    /\ RegisterUnchanged

\* The last await of the open is over: the lease was renewed by use; register or undo.
Settle(c) ==
    /\ opener[c].pc = "check"
    /\ lease' = Refreshed(c)
    /\ IF opener[c].reaped = "no" THEN Register(c) ELSE Undo(c)
    /\ opener' = [opener EXCEPT ![c] = Idle]
    /\ RegisterUnchanged

\* A database write of the open throws after the vendor started: the row or the
\* lease's refresh, which leave the listener behind, or the delete that undoes the
\* open, which comes before the close.
OpenWriteFails(c) ==
    /\ Fault
    /\ \/ /\ \/ opener[c].pc = "write"
             \/ opener[c].pc = "check" /\ opener[c].resume # 0
          /\ listening' = listening \cup {c}
          /\ UNCHANGED lease
       \/ /\ opener[c].pc = "check" /\ opener[c].reaped # "no"
          /\ lease' = Refreshed(c)
          /\ UNCHANGED listening
    /\ Abandon(c)

-----------------------------------------------------------------------------
(* Adoption of a conversation begun elsewhere (external-native-sessions).  *)

\* A new chat that points at v, if nobody holds v or the holder's claim expired.
Adopt(c, v) ==
    /\ conn /\ consent = "given" /\ kind = "codex" /\ c \notin born
    /\ v = 1 \/ v <= minted + 1
    /\ lease[v].chat = 0 \/ ~lease[v].fresh
    /\ born' = born \cup {c}
    /\ lease' = [lease EXCEPT ![v] = [chat |-> c, fresh |-> TRUE]]
    /\ \E b \in Bind : row' = [row EXCEPT ![c] = [NoRow EXCEPT !.conv = v, !.bind = b,
                                                               !.pending = TRUE]]
    /\ UNCHANGED <<volatile, kind, turn, minted, killed, forgot, faults, crashes>>

LeaseExpires(v) ==
    /\ lease[v].fresh
    /\ lease' = [lease EXCEPT ![v].fresh = FALSE]
    /\ UNCHANGED <<volatile, kind, born, row, turn, minted, killed, forgot, faults, crashes>>

-----------------------------------------------------------------------------
(* Turns, as far as sessions and stored conversations are concerned.       *)

TurnOnly == UNCHANGED <<kind, stopping, conn, consent, born, live, opener, lease,
                        remote, lost, listening, minted, forgot, crashes>>
OnLive(c) == live[c].sid # 0 /\ live[c].sid = turn[c].sid

Send(c) ==
    /\ turn[c].st = "held" /\ OnLive(c)
    /\ turn' = [turn EXCEPT ![c].st = "sent"]
    /\ UNCHANGED <<row, unwritten, killed, faults>> /\ TurnOnly

\* The vendor refuses further turns on a session whose turn it killed.
VendorTakes(c) ==
    /\ turn[c].st = "sent" /\ turn[c].sid \in remote /\ turn[c].conv \notin killed
    /\ turn' = [turn EXCEPT ![c].st = "taken"]
    /\ UNCHANGED <<row, unwritten, killed, faults>> /\ TurnOnly

Accepted(c) ==
    /\ turn[c].st = "taken" /\ OnLive(c)
    /\ turn' = [turn EXCEPT ![c].st = "running"]
    /\ UNCHANGED <<row, unwritten, killed, faults>> /\ TurnOnly

\* Proof that nothing was submitted: the submission may go on ...
NotSubmitted(c) ==
    /\ turn[c].st = "sent" /\ OnLive(c)
    /\ turn' = [turn EXCEPT ![c].st = "held"]
    /\ UNCHANGED <<row, unwritten, killed, faults>> /\ TurnOnly

\* ... after retiring the session, with its pointer if it takes no more turns.
Retire(c, drop) ==
    /\ turn[c].st = "held" /\ OnLive(c)
    /\ ReapOf({c}, ~drop, TRUE)
    /\ ReapUnchanged /\ UNCHANGED <<stopping, consent>>

\* The turn ends: the vendor finished it (well, or with its own error), refused
\* it, was stopped (and perhaps killed under it), broke, or never answered.
EndTurn(c, reason) ==
    /\ \/ reason \in {"completed", "vendor-finished"} /\ turn[c].st = "running"
          /\ turn[c].sid \in remote
       \/ reason = "refused" /\ turn[c].st = "held"
       \/ reason = "vendor-broke" /\ turn[c].st \in {"taken", "running"}
       \/ reason = "stopped" /\ turn[c].st \in Active
    /\ turn' = [turn EXCEPT ![c] = Ended(turn[c], reason)]
    /\ \/ killed' = killed \cup (IF reason \in {"stopped", "vendor-broke"} THEN KilledBy({c})
                                 ELSE {})
       \/ reason = "stopped" /\ killed' = killed
    /\ forgot' = IF reason = "vendor-broke" /\ turn[c].st = "taken" /\ ContinuesKilledTurn
                 THEN [forgot EXCEPT !.unheard = @ \cup {turn[c].conv}] ELSE forgot
    /\ UNCHANGED <<kind, stopping, conn, consent, born, live, opener, lease, remote,
                   lost, listening, minted, crashes, row, unwritten, faults>>

\* A transcript write that runs once the transcript is finalized stores its end.
Checkpoint(c) ==
    /\ turn[c].st \in {"ended", "recorded"} /\ ~turn[c].ckpt
    /\ turn' = [turn EXCEPT ![c].ckpt = TRUE]
    /\ UNCHANGED <<row, unwritten, killed, faults>> /\ TurnOnly

\* setUnresumable, conditional on the session that ran the turn.
RecordEnd(c) ==
    LET t == turn[c] IN
    /\ t.st = "ended"
    /\ turn' = [turn EXCEPT ![c].st = "recorded"]
    /\ \/ /\ row' = IF t.end # "none" /\ row[c].conv # 0 /\ row[c].sid = t.sid
                    THEN [row EXCEPT ![c].unres = t.end = "mark"] ELSE row
          /\ unwritten' = IF t.end # "none" /\ unwritten[c] = t.sid
                          THEN [unwritten EXCEPT ![c] = 0] ELSE unwritten
          /\ UNCHANGED faults
       \/ /\ t.end # "none" /\ Fault
          /\ unwritten' = IF t.end = "mark" THEN [unwritten EXCEPT ![c] = t.sid] ELSE unwritten
          /\ UNCHANGED row
    /\ UNCHANGED killed /\ TurnOnly

\* The message settles and the chat may send again.
SettleMessage(c) ==
    /\ turn[c].st = "recorded"
    /\ turn' = [turn EXCEPT ![c] = NoTurn]
    /\ UNCHANGED <<row, unwritten, killed, faults>> /\ TurnOnly

-----------------------------------------------------------------------------
(* Crash and boot.                                                         *)

\* Messages still generating whose transcript does not say how they ended.
Swept == {c \in Chat : turn[c].st # "none" /\ ~turn[c].ckpt}

\* reconcileExternalTurns marks their conversations, by chat and not by session.
SweptRows == [c \in Chat |-> IF c \in Swept /\ ContinuesKilledTurn /\ row[c].conv # 0
                             THEN [row[c] EXCEPT !.unres = TRUE] ELSE row[c]]

\* The hub dies, and boots. A second crash during the sweep repeats it.
Restart ==
    /\ crashes < MaxCrash /\ crashes' = crashes + 1
    /\ stopping' = FALSE /\ conn' = FALSE
    /\ live' = [c \in Chat |-> NoLive] /\ opener' = [c \in Chat |-> Idle]
    /\ turn' = [c \in Chat |-> NoTurn]
    /\ unwritten' = [c \in Chat |-> 0]
    /\ remote' = {} /\ lost' = {} /\ listening' = {}
    /\ row' = SweptRows
    /\ killed' = killed \cup KilledBy(Chat)
    /\ forgot' = [forgot EXCEPT
           !.memory = @ \cup {row[c].conv : c \in {d \in Chat \ Swept : unwritten[d] # 0}},
           !.checkpoint = @ \cup {turn[c].conv : c \in
                {d \in Chat : turn[d].st = "ended" /\ turn[d].end = "mark" /\ turn[d].ckpt}}]
    /\ UNCHANGED <<kind, consent, born, lease, minted, faults>>

-----------------------------------------------------------------------------
OpenStep(c) ==
    \/ OpenCall(c) \/ OpenFails(c) \/ Opened(c) \/ Answered(c) \/ AnswerTooLate(c)
    \/ WriteRow(c) \/ Settle(c) \/ OpenWriteFails(c)
TurnStep(c) ==
    \/ Send(c) \/ VendorTakes(c) \/ Accepted(c) \/ NotSubmitted(c) \/ Checkpoint(c) \/ RecordEnd(c)
    \/ SettleMessage(c)
    \/ \E drop \in BOOLEAN : Retire(c, drop)
    \/ \E r \in {"completed", "vendor-finished", "refused", "stopped", "vendor-broke"} :
          EndTurn(c, r)

Next ==
    \/ \E c \in Chat : \/ \E b \in Bind : Ensure(c, b) \/ DropFails(c, b)
                       \/ Reacquire(c) \/ OpenStep(c) \/ TurnStep(c) \/ ReapChat(c)
                       \/ \E v \in Conv : Adopt(c, v)
    \/ ReapScopeKeep \/ Withdraw \/ ConsentRevoked \/ Consent \/ ReapAll
    \/ Disconnect \/ Connect \/ Restart
    \/ \E v \in Conv : LeaseExpires(v)

Spec == Init /\ [][Next]_vars

-----------------------------------------------------------------------------
(* Properties.                                                             *)

\* An open whose session the runtime has.
Underway(c) == opener[c].pc \in {"answer", "write", "check"}

\* No vendor session without an owner: whatever the runtime still runs is a
\* chat's registered session, or the result of an open about to be settled, or it
\* was asked to close. The exceptions, kept in `lost`, are a reap or an undo whose
\* delete threw, an open whose row or lease could not be written, and an open
\* whose answer came after the hub's timer (openSession and its undo, reap).
NoOrphanSession ==
    remote \subseteq {live[c].sid : c \in Chat} \cup lost
                     \cup {opener[c].sid : c \in {d \in Chat : Underway(d)}}

\* Once the hub knows consent is withdrawn no chat has a session, although opens
\* were in flight when it learned of it (reapScope, openSession after its writes).
WithdrawnMeansClosed == consent = "known" => \A c \in Chat : live[c].sid = 0

Offered(v) == \E c \in Chat : /\ opener[c].pc = "call" \/ Underway(c)
                              /\ opener[c].resume = v

\* A conversation that holds a killed turn is not resumed, through failed
\* writes, reopens, stops and restarts, but for the three ways to lose its mark
\* recorded in `forgot` (setUnresumable, resumeModeFor, reconcileExternalTurns).
KilledTurnNotResumed ==
    \A v \in killed : Offered(v) =>
        v \in forgot.memory \cup forgot.checkpoint \cup forgot.unheard

\* A live claim on a conversation changes hands only by being released first,
\* or by having expired: a chat that lost its claim cannot take it back by use
\* (refresh and claim of the adoption lease repository).
LeaseChangesHandsWhenFree ==
    [][\A v \in Conv :
          /\ lease[v].chat # 0 /\ lease[v].fresh
          /\ lease'[v].chat # 0
          => lease'[v].chat = lease[v].chat]_vars

-----------------------------------------------------------------------------
(* What a comment or a document says and the code does not keep (README,   *)
(* "Divergences"): no run checks these.                                    *)

\* A restart loses a mark only if it was in memory alone, "the one window left":
\* a turn the hub stopped watching is marked by the boot sweep (finish,
\* reconcileExternalTurns).
RestartLosesOnlyMemory ==
    \A v \in killed : Offered(v) => v \in forgot.memory \cup forgot.unheard

\* A reap that keeps the continuation keeps it: an open that resumes a stored
\* conversation drops the pointer to it only if a reap asked for that (undo).
KeptContinuationSurvives ==
    [][\A c \in Chat :
          /\ opener[c].pc = "check" /\ opener'[c].pc = "idle"
          /\ opener[c].resume # 0 /\ row'[c].conv = 0
          => opener[c].reaped = "drop"]_vars

\* Two chats are never attached to one vendor conversation at the same time
\* (adopt, openSession).
OneChatPerConversation ==
    \A c, d \in Chat : c # d /\ live[c].conv # 0 => live[c].conv # live[d].conv
=============================================================================
