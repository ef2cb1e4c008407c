------------------------- MODULE RuntimeConnections -------------------------
(***************************************************************************)
(* The hub's connection to one environment of one user                     *)
(* (apps/api/src/services/runtime-client/runtime-connection-manager.ts).   *)
(* Entries of the manager do not share state, so one entry is modelled.    *)
(*                                                                         *)
(* The hub connects by an attempt of its own (connect) or takes over a     *)
(* socket a runtime dialed in with (adopt).  An attempt has an opener, the *)
(* work that may produce a connection, and a public promise its callers    *)
(* wait for; an abort ends the promise and leaves the opener running.  The *)
(* connection an attempt produces is named by the attempt.  A step is one  *)
(* stretch of code between two awaits.  Status details, publishing and the *)
(* activity feed are left out.                                             *)
(***************************************************************************)
EXTENDS Integers, FiniteSets

CONSTANTS
    Attempt,        \* attempts of the hub and sockets that dial in
    Environments,   \* per environment considered, the attempts that dial in
    MaxFailures,    \* MAX_RECONNECT_ATTEMPTS
    None            \* no attempt

ASSUME AdoptersAreAttempts == Environments \subseteq SUBSET Attempt
ASSUME NoneIsNone == None \notin Attempt
ASSUME MaxFailuresTyped == MaxFailures \in Nat \ {0}

VARIABLES
    adopters,       \* the attempts that are sockets dialing in
    revision,       \* entry.revision: the attempt that took it, None after a release
    connection,     \* entry.connection
    connecting,     \* entry.connecting
    abort,          \* entry.abort
    status,         \* entry.status.state
    failureCount,   \* entry.failureCount
    retry,          \* entry.retryAfterMs: zero, a moment, or Infinity
    transportKnown, \* entry.transportKind is set
    expectedUpdate, \* entry.expectedUpdateDisconnect
    manifest,       \* whose manifest entry.status shows
    refresh,        \* entry.manifestRefresh: the connection it asked
    opener,         \* per attempt: the work that may produce a connection
    promise,        \* per attempt: the public promise
    error,          \* per attempt: what the promise is about to reject with
    aborted,        \* attempts under way whose signal fired
    closedEarly,    \* attempts under way with closedWhileOpening
    conn,           \* per attempt: the connection it produced
    reason,         \* per attempt: why that connection was closed
    ownership,      \* per attempt: the tracked teardown of #ownOpening
    bounded,        \* attempts whose opener a release put a bound on
    shutdown,       \* #shutdown
    awaited,        \* the teardowns shutdown() waits for
    burst           \* history: connects since the backoff was last forgiven

entryVars == <<revision, connection, connecting, abort, status>>
backoffVars == <<failureCount, retry, transportKnown, expectedUpdate, burst>>
manifestVars == <<manifest, refresh>>
attemptVars == <<opener, promise, error, aborted, closedEarly>>
resourceVars == <<conn, reason, ownership, bounded>>
shutdownVars == <<shutdown, awaited, adopters>>
vars == <<entryVars, backoffVars, manifestVars, attemptVars, resourceVars, shutdownVars>>

AttemptOrNone == Attempt \cup {None}
ErrorCode == {"none", "UNAVAILABLE", "MISMATCH", "BOUND"}

TypeOK ==
    /\ adopters \in Environments
    /\ revision \in AttemptOrNone /\ connection \in AttemptOrNone
    /\ connecting \in AttemptOrNone /\ abort \in AttemptOrNone
    /\ status \in {"disconnected", "connecting", "connected", "error"}
    /\ failureCount \in Nat /\ burst \in Nat
    /\ retry \in {"now", "delayed", "latched"}
    /\ transportKnown \in BOOLEAN /\ expectedUpdate \in BOOLEAN
    /\ manifest \in AttemptOrNone /\ refresh \in AttemptOrNone
    /\ opener \in [Attempt -> {"idle", "resolving", "opening", "done"}]
    /\ promise \in [Attempt -> {"idle", "resolving", "racing", "ready", "reading",
                                "failing", "resolved", "rejected"}]
    /\ error \in [Attempt -> ErrorCode]
    /\ aborted \subseteq Attempt /\ closedEarly \subseteq Attempt
    /\ conn \in [Attempt -> {"none", "open", "closing", "closed", "stuck"}]
    /\ reason \in [Attempt -> {"none", "released", "superseded"}]
    /\ ownership \in [Attempt -> {"none", "pending", "done", "failed"}]
    /\ bounded \subseteq Attempt
    /\ shutdown \in {"none", "pending", "resolved", "rejected"}
    /\ awaited \subseteq {"own", "close"} \X Attempt

-----------------------------------------------------------------------------
(* Pieces of the handlers.                                                 *)

\* Only a transport the hub never dials is paired (PAIRABLE_TRANSPORT_KINDS).
DialIn == adopters # {}

OpenerRuns(a) == opener[a] \in {"resolving", "opening"}
IsDialIn == DialIn /\ transportKnown

\* retryDeadline
RetryDeadline(count, code) ==
    IF IsDialIn THEN "now"
    ELSE IF code = "MISMATCH" \/ count >= MaxFailures THEN "latched" ELSE "delayed"

\* An abort signal fires: the promise loses its race, the opener is only told.
Aborts(A) ==
    /\ aborted' = aborted \cup {a \in A : OpenerRuns(a)}
    /\ promise' = [a \in Attempt |->
            IF a \in A /\ promise[a] = "racing" THEN "failing" ELSE promise[a]]
    /\ error' = [a \in Attempt |->
            IF a \in A /\ promise[a] = "racing" THEN "UNAVAILABLE" ELSE error[a]]

\* #closeConnection: a connection is closed once.
Closes(c, why) ==
    /\ conn' = [a \in Attempt |-> IF a = c /\ conn[a] = "open" THEN "closing" ELSE conn[a]]
    /\ reason' = [a \in Attempt |-> IF a = c /\ conn[a] = "open" THEN why ELSE reason[a]]

\* The finally of connect() and adopt().
Finally(a) ==
    /\ connecting' = IF connecting = a THEN None ELSE connecting
    /\ abort' = IF abort = a THEN None ELSE abort

-----------------------------------------------------------------------------
(* connect()                                                               *)

\* The part before the first await.  force is a person pressing Connect; another
\* caller is refused until the deadline, which a moment of waiting brings.
Connect(a, force) ==
    /\ shutdown = "none"
    /\ a \notin adopters /\ promise[a] = "idle"
    /\ connection = None /\ connecting = None
    /\ force \/ retry # "latched"
    /\ failureCount' = IF force THEN 0 ELSE failureCount
    /\ retry' = IF force THEN "now" ELSE retry
    /\ burst' = IF force THEN 1 ELSE burst + 1
    /\ revision' = a /\ abort' = a /\ connecting' = a
    /\ status' = "connecting"
    /\ opener' = [opener EXCEPT ![a] = "resolving"]
    /\ promise' = [promise EXCEPT ![a] = "racing"]
    /\ ownership' = [ownership EXCEPT ![a] = "pending"]
    /\ UNCHANGED <<connection, transportKnown, expectedUpdate, manifestVars, error, aborted,
                   closedEarly, conn, reason, bounded, shutdownVars>>

\* resolveEnvironment answers with a definition to an attempt still wanted.
Resolve(a) ==
    /\ opener[a] = "resolving"
    /\ a \notin aborted /\ revision = a
    /\ opener' = [opener EXCEPT ![a] = "opening"]
    /\ transportKnown' = TRUE
    /\ UNCHANGED <<entryVars, failureCount, retry, expectedUpdate, burst, manifestVars, promise,
                   error, aborted, closedEarly, resourceVars, shutdownVars>>

\* connectDeadlinesMs elapses (the timer is set once the definition is known).
Deadline(a) ==
    /\ a \notin adopters
    /\ opener[a] = "opening" /\ promise[a] = "racing"
    /\ Aborts({a})
    /\ UNCHANGED <<entryVars, backoffVars, manifestVars, opener, closedEarly, resourceVars,
                   shutdownVars>>

\* The error callback of #ownOpening: the definition is missing, the connector
\* refused or failed, or (incomplete) could not even finish its own teardown.
\* An adopted socket's opener is a handshake, whose error code nobody reads.
OpenerFails(a, code, incomplete) ==
    /\ OpenerRuns(a)
    /\ opener[a] = "resolving" => code = "UNAVAILABLE" /\ ~incomplete
    /\ incomplete => code = "UNAVAILABLE"
    /\ a \in adopters => code = "UNAVAILABLE" /\ ~incomplete
    /\ opener' = [opener EXCEPT ![a] = "done"]
    /\ bounded' = bounded \ {a}
    /\ ownership' = [ownership EXCEPT ![a] =
            IF @ = "failed" \/ incomplete THEN "failed" ELSE "done"]
    /\ promise' = [promise EXCEPT ![a] = IF @ = "racing" THEN "failing" ELSE @]
    /\ error' = [error EXCEPT ![a] = IF promise[a] = "racing" THEN code ELSE @]
    /\ aborted' = aborted \ {a} /\ closedEarly' = closedEarly \ {a}
    /\ UNCHANGED <<entryVars, backoffVars, manifestVars, conn, reason, shutdownVars>>

\* The accept callbacks of connect() and adopt().
AcceptsAnyway(a) == a \notin closedEarly
Accepts(a) == revision = a /\ a \notin closedEarly /\ (a \in adopters \/ a \notin aborted)

FailuresAfterHandshakeCleared(a) == 0
\* Only a runtime that dialed in has proved the environment by its handshake.
FailuresAfterHandshake(a) == IF a \in adopters THEN 0 ELSE failureCount

\* The success callback of #ownOpening: the entry takes the connection, or it
\* is closed because it came too late.
OpenerConnects(a) ==
    /\ opener[a] = "opening"
    /\ DialIn => a \in adopters
    /\ opener' = [opener EXCEPT ![a] = "done"]
    /\ bounded' = bounded \ {a}
    /\ aborted' = aborted \ {a} /\ closedEarly' = closedEarly \ {a}
    /\ \/ /\ Accepts(a)
          /\ connection' = a
          /\ manifest' = a
          /\ status' = "connected"
          /\ failureCount' = FailuresAfterHandshake(a)
          /\ retry' = "now"
          /\ conn' = [conn EXCEPT ![a] = "open"]
          /\ ownership' = [ownership EXCEPT ![a] = IF @ = "failed" THEN @ ELSE "done"]
          /\ promise' = [promise EXCEPT ![a] = IF @ = "racing" THEN "ready" ELSE @]
          /\ UNCHANGED <<error, reason>>
       \/ /\ ~Accepts(a)
          /\ conn' = [conn EXCEPT ![a] = "closing"]
          /\ reason' = [reason EXCEPT ![a] = IF a \in adopters THEN "superseded" ELSE "released"]
          /\ promise' = [promise EXCEPT ![a] = IF @ = "racing" THEN "failing" ELSE @]
          /\ error' = [error EXCEPT ![a] = IF promise[a] = "racing" THEN "UNAVAILABLE" ELSE @]
          /\ UNCHANGED <<connection, manifest, status, failureCount, retry, ownership>>
    /\ UNCHANGED <<revision, connecting, abort, transportKnown, expectedUpdate, burst, refresh,
                   shutdownVars>>

\* #readHostedAgents up to its read of runtime.health.
ReadHostedAgents(a, needsRead) ==
    /\ promise[a] = "ready"
    /\ \/ /\ connection = None
          /\ promise' = [promise EXCEPT ![a] = "failing"]
          /\ error' = [error EXCEPT ![a] = "UNAVAILABLE"]
          /\ UNCHANGED <<connecting, abort>>
       \/ /\ connection # None
          /\ needsRead /\ revision = a
          /\ promise' = [promise EXCEPT ![a] = "reading"]
          /\ UNCHANGED <<error, connecting, abort>>
       \/ /\ connection # None
          /\ ~(needsRead /\ revision = a)
          /\ promise' = [promise EXCEPT ![a] = "resolved"]
          /\ Finally(a)
          /\ UNCHANGED error
    /\ UNCHANGED <<revision, connection, status, backoffVars, manifestVars, opener, aborted,
                   closedEarly, resourceVars, shutdownVars>>

\* refreshManifest after its await: an answer of c is used only while the
\* connection it was asked on is still the one in place.
ManifestAfterUnchecked(c, ok) == IF ok THEN c ELSE manifest
ManifestAfter(c, ok) ==
    IF ok /\ revision = c /\ connection = c /\ status = "connected" THEN c ELSE manifest

HostedAgentsRead(a, ok) ==
    /\ promise[a] = "reading"
    /\ manifest' = ManifestAfter(a, ok)
    /\ promise' = [promise EXCEPT ![a] = "resolved"]
    /\ Finally(a)
    /\ UNCHANGED <<revision, connection, status, backoffVars, refresh, opener, error, aborted,
                   closedEarly, resourceVars, shutdownVars>>

\* The catch of connect(): only the attempt that holds the revision records it.
ConnectFails(a) ==
    /\ a \notin adopters /\ promise[a] = "failing"
    /\ promise' = [promise EXCEPT ![a] = "rejected"]
    /\ error' = [error EXCEPT ![a] = "none"]
    /\ Finally(a)
    /\ \/ /\ revision # a
          /\ UNCHANGED <<connection, status, failureCount, retry, burst>>
       \/ /\ revision = a /\ error[a] = "BOUND"        \* #markBoundElsewhere
          /\ connection' = None
          /\ retry' = "delayed"
          /\ status' = "error"
          /\ burst' = IF burst = 0 THEN 0 ELSE burst - 1
          /\ UNCHANGED failureCount
       \/ /\ revision = a /\ error[a] # "BOUND"
          /\ connection' = None
          /\ failureCount' = IF IsDialIn THEN 0 ELSE failureCount + 1
          /\ retry' = RetryDeadline(failureCount', error[a])
          /\ status' = IF IsDialIn THEN "disconnected" ELSE "error"
          /\ UNCHANGED burst
    /\ UNCHANGED <<revision, transportKnown, expectedUpdate, manifestVars, opener, aborted,
                   closedEarly, resourceVars, shutdownVars>>

-----------------------------------------------------------------------------
(* adopt()                                                                 *)

\* A socket dialed in: the environment's definition is read first.
AdoptStart(a) ==
    /\ a \in adopters /\ promise[a] = "idle"
    /\ promise' = [promise EXCEPT ![a] = IF shutdown = "none" THEN "resolving" ELSE "rejected"]
    /\ UNCHANGED <<entryVars, backoffVars, manifestVars, opener, error, aborted, closedEarly,
                   resourceVars, shutdownVars>>

\* The hub is shutting down, or the environment is gone or disabled.
AdoptRefused(a) ==
    /\ promise[a] = "resolving"
    /\ promise' = [promise EXCEPT ![a] = "rejected"]
    /\ UNCHANGED <<entryVars, backoffVars, manifestVars, opener, error, aborted, closedEarly,
                   resourceVars, shutdownVars>>

\* The hub starts shutting down during the read, or does not.
StillRunningAssumed == TRUE
StillRunning == shutdown = "none"

\* What the abort of the attempt that was under way reaches.
SupersededAbortForgotten == {}
SupersededAbort == {abort} \cap Attempt

\* The socket takes over: the incumbent is closed, an attempt under way aborted.
AdoptTakesOver(a) ==
    /\ promise[a] = "resolving"
    /\ StillRunning
    /\ transportKnown' = TRUE
    /\ revision' = a /\ abort' = a
    /\ connection' = None /\ connecting' = None
    /\ status' = "connecting"
    /\ opener' = [opener EXCEPT ![a] = "opening"]
    /\ ownership' = [ownership EXCEPT ![a] = "pending"]
    /\ Closes(connection, "superseded")
    /\ aborted' = aborted \cup {b \in SupersededAbort : OpenerRuns(b)}
    /\ promise' = [b \in Attempt |->
            IF b = a THEN "racing"
            ELSE IF b \in SupersededAbort /\ promise[b] = "racing" THEN "failing" ELSE promise[b]]
    /\ error' = [b \in Attempt |->
            IF b \in SupersededAbort /\ promise[b] = "racing" THEN "UNAVAILABLE" ELSE error[b]]
    /\ UNCHANGED <<failureCount, retry, expectedUpdate, burst, manifestVars, closedEarly,
                   bounded, shutdownVars>>

StatusAfterRefusalAlways(a) == "disconnected"
StatusAfterRefusal(a) == IF revision = a THEN "disconnected" ELSE status

\* The catch of adopt().
AdoptFails(a) ==
    /\ a \in adopters /\ promise[a] = "failing"
    /\ promise' = [promise EXCEPT ![a] = "rejected"]
    /\ error' = [error EXCEPT ![a] = "none"]
    /\ status' = StatusAfterRefusal(a)
    /\ abort' = IF abort = a THEN None ELSE abort
    /\ UNCHANGED <<revision, connection, connecting, backoffVars, manifestVars, opener, aborted,
                   closedEarly, resourceVars, shutdownVars>>

-----------------------------------------------------------------------------
(* Losing and releasing a connection.                                      *)

\* onUnavailable and #markUnavailable.  healthy: it lasted long enough for its
\* loss to start a fresh count.
Unavailable(a, healthy) ==
    /\ opener[a] = "opening" \/ conn[a] = "open"
    /\ closedEarly' = IF OpenerRuns(a) THEN closedEarly \cup {a} ELSE closedEarly
    /\ IF revision = a /\ connection # None
       THEN /\ connection' = None
            /\ Closes(connection, "none")
            /\ expectedUpdate' = FALSE
            /\ failureCount' = IF expectedUpdate \/ IsDialIn THEN 0
                               ELSE IF healthy THEN 1 ELSE failureCount + 1
            /\ burst' = IF expectedUpdate THEN 0 ELSE IF healthy THEN 1 ELSE burst
            /\ retry' = IF expectedUpdate THEN "now"
                        ELSE RetryDeadline(failureCount', "UNAVAILABLE")
            /\ status' = IF retry' = "latched" THEN "error" ELSE "disconnected"
       ELSE UNCHANGED <<connection, conn, reason, expectedUpdate, failureCount, burst, retry, status>>
    /\ UNCHANGED <<revision, connecting, abort, transportKnown, manifestVars, opener, promise,
                   error, aborted, ownership, bounded, shutdownVars>>

\* boundOpening, called by a release for every opener still under way.
BoundedAfterReleaseNever == bounded
BoundedAfterRelease ==
    bounded \cup {a \in Attempt : OpenerRuns(a) /\ ownership[a] = "pending"}

\* #release: the entry is cleared at once, its resources are torn down behind it.
Release ==
    /\ revision' = None
    /\ connection' = None /\ connecting' = None /\ abort' = None
    /\ status' = "disconnected"
    /\ failureCount' = 0 /\ retry' = "now" /\ expectedUpdate' = FALSE /\ burst' = 0
    /\ Aborts({abort} \cap Attempt)
    /\ Closes(connection, "released")
    /\ bounded' = BoundedAfterRelease
    /\ UNCHANGED <<transportKnown, refresh, opener, closedEarly, ownership>>

\* disconnect, disconnectIfCurrent and closeAll.  A repointed environment also
\* forgets the peer it was connected to (clearHealth).
Disconnect(repointed) ==
    /\ Release
    /\ manifest' = IF repointed THEN None ELSE manifest
    /\ UNCHANGED shutdownVars

\* boundOpening's timer: the opener ignored its cancellation for too long.
OpenerExpires(a) ==
    /\ a \in bounded
    /\ bounded' = bounded \ {a}
    /\ ownership' = [ownership EXCEPT ![a] = "failed"]
    /\ UNCHANGED <<entryVars, backoffVars, manifestVars, attemptVars, conn, reason, shutdownVars>>

\* connection.close() settles, and with it an ownership that waited for it.  The
\* close of an adopted socket only says goodbye and cannot fail.
CloseSettles(a, ok) ==
    /\ conn[a] = "closing"
    /\ a \in adopters => ok
    /\ conn' = [conn EXCEPT ![a] = IF ok THEN "closed" ELSE "stuck"]
    /\ ownership' = [ownership EXCEPT ![a] =
            IF @ = "pending" THEN (IF ok THEN "done" ELSE "failed") ELSE @]
    /\ UNCHANGED <<entryVars, backoffVars, manifestVars, attemptVars, reason, bounded, shutdownVars>>

\* What #release waits for: pending and failed teardowns after its own closes.
Teardowns ==
    {<<"own", a>> : a \in {b \in Attempt : ownership'[b] \in {"pending", "failed"}}}
    \cup {<<"close", a>> : a \in {b \in Attempt : conn'[b] \in {"closing", "stuck"}}}

\* shutdown(): admission stops before anything is released.
Shutdown ==
    /\ shutdown = "none"
    /\ Release
    /\ shutdown' = "pending"
    /\ awaited' = Teardowns
    /\ UNCHANGED <<manifest, adopters>>

\* #awaitTeardowns
ShutdownSettles ==
    /\ shutdown = "pending"
    /\ \A a \in Attempt : /\ <<"own", a>> \in awaited => ownership[a] # "pending"
                          /\ <<"close", a>> \in awaited => conn[a] # "closing"
    /\ shutdown' = IF \E a \in Attempt : \/ <<"own", a>> \in awaited /\ ownership[a] = "failed"
                                         \/ <<"close", a>> \in awaited /\ conn[a] = "stuck"
                   THEN "rejected" ELSE "resolved"
    /\ UNCHANGED <<entryVars, backoffVars, manifestVars, attemptVars, resourceVars, awaited,
                   adopters>>

-----------------------------------------------------------------------------
(* Backoff, updates and the manifest.                                      *)

StatusCleared == IF status = "error" THEN "disconnected" ELSE status

ClearBackoff ==
    /\ failureCount # 0 \/ retry # "now"
    /\ failureCount' = 0 /\ retry' = "now"
    /\ burst' = 0
    /\ status' = StatusCleared
    /\ UNCHANGED <<revision, connection, connecting, abort, transportKnown, expectedUpdate,
                   manifestVars, attemptVars, resourceVars, shutdownVars>>

\* expectUpdateDisconnect and clearExpectedUpdateDisconnect: the lifecycle service
\* updates the runtime of a client it was given, which may be gone by now.
ExpectUpdate(expected) ==
    /\ \E a \in Attempt : promise[a] = "resolved"
    /\ expectedUpdate # expected
    /\ expectedUpdate' = expected
    /\ UNCHANGED <<entryVars, failureCount, retry, transportKnown, burst, manifestVars,
                   attemptVars, resourceVars, shutdownVars>>

\* refreshManifestIfStale: one background read at a time.
RefreshStart ==
    /\ status = "connected" /\ refresh = None
    /\ connection # None
    /\ refresh' = connection
    /\ UNCHANGED <<entryVars, backoffVars, manifest, attemptVars, resourceVars, shutdownVars>>

RefreshAnswer(ok) ==
    /\ refresh # None
    /\ manifest' = ManifestAfter(refresh, ok)
    /\ refresh' = None
    /\ UNCHANGED <<entryVars, backoffVars, attemptVars, resourceVars, shutdownVars>>

-----------------------------------------------------------------------------
Init ==
    /\ adopters \in Environments
    /\ revision = None /\ connection = None /\ connecting = None /\ abort = None
    /\ status = "disconnected"
    /\ failureCount = 0 /\ burst = 0 /\ retry = "now"
    /\ transportKnown = FALSE /\ expectedUpdate = FALSE
    /\ manifest = None /\ refresh = None
    /\ opener = [a \in Attempt |-> "idle"]
    /\ promise = [a \in Attempt |-> "idle"]
    /\ error = [a \in Attempt |-> "none"]
    /\ aborted = {} /\ closedEarly = {}
    /\ conn = [a \in Attempt |-> "none"]
    /\ reason = [a \in Attempt |-> "none"]
    /\ ownership = [a \in Attempt |-> "none"]
    /\ bounded = {}
    /\ shutdown = "none" /\ awaited = {}

\* What the attempt's own continuations do, whatever its opener does.
Continues(a) ==
    \/ \E b \in BOOLEAN : ReadHostedAgents(a, b) \/ HostedAgentsRead(a, b)
    \/ ConnectFails(a) \/ AdoptFails(a)
    \/ AdoptRefused(a) \/ AdoptTakesOver(a)

\* Steps that open, hand out, lose or release a connection.
ConnectionStep ==
    \/ \E a \in Attempt :
        \/ \E force \in BOOLEAN : Connect(a, force)
        \/ Resolve(a) \/ Deadline(a) \/ OpenerConnects(a)
        \/ \E code \in ErrorCode \ {"none"}, incomplete \in BOOLEAN : OpenerFails(a, code, incomplete)
        \/ Continues(a)
        \/ \E b \in BOOLEAN : Unavailable(a, b) \/ CloseSettles(a, b)
        \/ OpenerExpires(a)
    \/ \E b \in BOOLEAN : Disconnect(b)

\* Forgiveness and the end of the manager.
OwnerStep ==
    \/ \E b \in BOOLEAN : ExpectUpdate(b)
    \/ ClearBackoff
    \/ Shutdown \/ ShutdownSettles

\* Background reads of the manifest.
RefreshStep == RefreshStart \/ \E b \in BOOLEAN : RefreshAnswer(b)

Next == ConnectionStep \/ OwnerStep \/ RefreshStep \/ \E a \in Attempt : AdoptStart(a)

Spec == Init /\ [][Next]_vars

-----------------------------------------------------------------------------
(* Safety.                                                                 *)

\* Nothing is left running unowned: a connection that is not being closed is
\* the entry's own, however late its opener delivered it (#ownOpening, #release).
NoOrphanedConnection == \A a \in Attempt : conn[a] = "open" => connection = a

\* The card tells the truth: connected exactly when there is a connection, and
\* connecting only while an attempt that can still change it is unsettled
\* (connect, adopt, #markUnavailable, #release).
StatusTellsTheTruth ==
    /\ status = "connected" <=> connection # None
    /\ status = "connecting" => revision # None /\ promise[revision] \in {"racing", "failing"}

\* An attempt of the hub that lost the entry was told to stop, so no pull or
\* provision goes on for nobody (#release, adopt).
StaleOpenersTold ==
    \A a \in Attempt \ adopters : OpenerRuns(a) /\ revision # a => a \in aborted

\* A runtime that dies after every handshake, or never gets there, is started at
\* most MaxFailures times before the environment latches (retryDeadline,
\* #markUnavailable, the catch of connect).
CrashLoopBounded == ~DialIn => burst <= MaxFailures

\* The manifest on the card is the connected peer's own, never the answer of a
\* connection that was replaced meanwhile (refreshManifest, #adopt).
ManifestCurrent == status = "connected" => manifest = connection

\* A shutdown that reports success left nothing behind: no opener that could
\* still deliver and no connection that is not closed (shutdown, closeAll).
ShutdownComplete ==
    shutdown = "resolved" => \A a \in Attempt : ~OpenerRuns(a) /\ conn[a] \in {"none", "closed"}

-----------------------------------------------------------------------------
(* Liveness.  Continuations run, database reads answer, timers fire and    *)
(* closes settle.  An adopted socket ends its handshake by its timeout;    *)
(* nothing is assumed of the hub's own openers, which may hang for ever.   *)

HandshakeEnds(a) ==
    /\ a \in adopters
    /\ OpenerConnects(a) \/ OpenerFails(a, "UNAVAILABLE", FALSE)

Fairness ==
    /\ \A a \in Attempt : /\ WF_vars(Continues(a)) /\ WF_vars(OpenerExpires(a))
                          /\ WF_vars(\E b \in BOOLEAN : CloseSettles(a, b))
                          /\ WF_vars(HandshakeEnds(a))
    /\ WF_vars(ShutdownSettles)

FairSpec == Spec /\ Fairness

\* Once the hub shuts down every caller still waiting for a connection gets an
\* answer and the shutdown itself ends, even if an opener never returns.
ShutdownEnds ==
    shutdown # "none" ~> /\ shutdown \in {"resolved", "rejected"}
                         /\ \A a \in Attempt : promise[a] \in {"idle", "resolved", "rejected"}

-----------------------------------------------------------------------------
(* What a comment or a document says and the code does not keep (README,   *)
(* "Divergences"): no run checks these.                                    *)

\* A runtime that is still there, and whose adoption was not cancelled, is closed
\* as superseded only when another runtime dialed in for the environment
\* (adopt, #ownOpening).
SupersededMeansTakeover ==
    [][\A a \in Attempt :
            /\ reason'[a] = "superseded" /\ reason[a] # "superseded"
            /\ a \notin aborted \cup closedEarly
            => \E b \in adopters \ {a} : opener'[b] # "idle"]_vars
=============================================================================
