---------------------- MODULE RuntimeConnectionsProofs ----------------------
(***************************************************************************)
(* Proofs about RuntimeConnections, for every set of attempts, every kind  *)
(* of environment and every number of failures before it latches.          *)
(***************************************************************************)
EXTENDS RuntimeConnections, TLAPS

\* An attempt that did not begin holds nothing and nobody refers to it.
Unbegun ==
    \A a \in Attempt : opener[a] = "idle" =>
        /\ promise[a] \in {"idle", "resolving", "rejected"}
        /\ conn[a] = "none" /\ ownership[a] = "none"
        /\ revision # a /\ connecting # a /\ abort # a

\* How far the public promise and the opener can be apart.
InStep ==
    \A a \in Attempt :
        /\ promise[a] \in {"idle", "resolving"} => opener[a] = "idle"
        /\ promise[a] = "resolving" => a \in adopters
        /\ promise[a] = "racing" => OpenerRuns(a)
        /\ promise[a] \in {"ready", "reading", "resolved"} => opener[a] = "done"
        /\ conn[a] # "none" => opener[a] = "done"

\* An opener whose promise is settled cannot deliver to the entry any more: one of
\* the hub's was aborted, and a socket's lost the revision.
Disowned ==
    \A a \in Attempt : OpenerRuns(a) /\ promise[a] # "racing" =>
        a \in aborted /\ (a \in adopters => revision # a)

\* The entry's connection is that of the attempt that holds the revision; it is
\* open, and it is the only open one.
OneOwner ==
    /\ connection # None => connection = revision /\ conn[connection] = "open"
    /\ NoOrphanedConnection

\* An attempt about to report a failure left no connection in the entry.
FailureIsBare == \A a \in Attempt : promise[a] = "failing" /\ revision = a => connection = None

\* An attempt of the hub that was not told to stop is the one the entry refers to.
ToldUnlessCurrent ==
    \A a \in Attempt \ adopters : OpenerRuns(a) /\ a \notin aborted =>
        revision = a /\ connecting = a /\ abort = a

EntryOK ==
    /\ Unbegun /\ InStep /\ Disowned /\ OneOwner /\ FailureIsBare /\ ToldUnlessCurrent
    /\ StatusTellsTheTruth /\ ManifestCurrent

-----------------------------------------------------------------------------
(* The backoff.                                                            *)

\* An attempt that is not decided is awaited by the entry.
Awaited ==
    \A a \in Attempt \ adopters :
        revision = a /\ promise[a] \in {"racing", "ready", "reading", "failing"} => connecting = a

\* An attempt, or a connection, that a failure will still be counted for.
Undecided(a) == revision = a /\ promise[a] \in {"racing", "failing"}
Uncounted == connection # None \/ \E a \in Attempt : Undecided(a)

\* Every connect since the backoff was forgiven is counted as a failure, but for
\* the one under way.
BurstCounted ==
    ~DialIn =>
        /\ burst <= MaxFailures /\ burst <= failureCount + 1
        /\ ~Uncounted => burst <= failureCount

\* The environment is latched once it used up its failures; an attempt whose
\* outcome may go uncounted began before that.
LatchedInTime ==
    ~DialIn /\ failureCount >= MaxFailures =>
        /\ ~Uncounted => retry = "latched"
        /\ \A a \in Attempt : Undecided(a) => promise[a] = "failing" /\ error[a] # "BOUND"

BackoffOK == Awaited /\ BurstCounted /\ LatchedInTime

-----------------------------------------------------------------------------
(* The shutdown.                                                           *)

\* A running opener is tracked.
Tracked ==
    \A a \in Attempt :
        /\ OpenerRuns(a) => ownership[a] \in {"pending", "failed"}
        /\ a \in bounded => OpenerRuns(a) /\ ownership[a] = "pending"

\* Once admission stopped the entry is empty for good, and whatever still runs or
\* is not closed is waited for.
ShutdownWaits ==
    shutdown # "none" =>
        /\ revision = None /\ connection = None
        /\ \A a \in Attempt :
            /\ OpenerRuns(a) => <<"own", a>> \in awaited
            /\ conn[a] \in {"closing", "stuck"} =>
                 \/ <<"close", a>> \in awaited
                 \/ /\ <<"own", a>> \in awaited
                    /\ ownership[a] \in
                         IF conn[a] = "stuck" THEN {"failed"} ELSE {"pending", "failed"}

\* A shutdown that reported success found every teardown it waited for done.
ResolvedIsDone ==
    shutdown = "resolved" => \A a \in Attempt :
        /\ <<"own", a>> \in awaited => ownership[a] \notin {"pending", "failed"}
        /\ <<"close", a>> \in awaited => conn[a] \notin {"closing", "stuck"}

ShutdownOK == Tracked /\ ShutdownWaits /\ ResolvedIsDone

\* The inductive invariant.
ConnInv == TypeOK /\ EntryOK /\ BackoffOK /\ ShutdownOK

-----------------------------------------------------------------------------
(* One step per action, for each part of the invariant.                    *)

\* Every step of the manager keeps the types.
LEMMA TypeStep == ConnInv /\ [Next]_vars => TypeOK'
<1>. SUFFICES ASSUME ConnInv, [Next]_vars PROVE TypeOK'
  OBVIOUS
<1>. USE AdoptersAreAttempts, NoneIsNone, MaxFailuresTyped
     DEF ConnInv, EntryOK, TypeOK, OpenerRuns, AttemptOrNone, ErrorCode, vars,
         entryVars, backoffVars, manifestVars, attemptVars, resourceVars, shutdownVars
<1>1. ASSUME NEW a \in Attempt, NEW b \in BOOLEAN, Connect(a, b) PROVE TypeOK'
  BY <1>1 DEF Connect
<1>2. ASSUME NEW a \in Attempt, Resolve(a) PROVE TypeOK'
  BY <1>2 DEF Resolve
<1>3. ASSUME NEW a \in Attempt, Deadline(a) PROVE TypeOK'
  BY <1>3 DEF Deadline, Aborts
<1>4. ASSUME NEW a \in Attempt, OpenerConnects(a) PROVE TypeOK'
  BY <1>4 DEF OpenerConnects, Accepts, FailuresAfterHandshake
<1>5. ASSUME NEW a \in Attempt, NEW code \in ErrorCode \ {"none"}, NEW b \in BOOLEAN, OpenerFails(a, code, b)
      PROVE  TypeOK'
  BY <1>5 DEF OpenerFails
<1>6. ASSUME NEW a \in Attempt, NEW b \in BOOLEAN, ReadHostedAgents(a, b) PROVE TypeOK'
  BY <1>6 DEF ReadHostedAgents, Finally
<1>7. ASSUME NEW a \in Attempt, NEW b \in BOOLEAN, HostedAgentsRead(a, b) PROVE TypeOK'
  BY <1>7 DEF HostedAgentsRead, Finally, ManifestAfter
<1>8. ASSUME NEW a \in Attempt, ConnectFails(a) PROVE TypeOK'
  BY <1>8 DEF ConnectFails, Finally, RetryDeadline, IsDialIn
<1>9. ASSUME NEW a \in Attempt, AdoptFails(a) PROVE TypeOK'
  BY <1>9 DEF AdoptFails, StatusAfterRefusal
<1>10. ASSUME NEW a \in Attempt, AdoptRefused(a) PROVE TypeOK'
  BY <1>10 DEF AdoptRefused
<1>11. ASSUME NEW a \in Attempt, AdoptTakesOver(a) PROVE TypeOK'
  BY <1>11 DEF AdoptTakesOver, Closes, SupersededAbort, StillRunning
<1>12. ASSUME NEW a \in Attempt, NEW b \in BOOLEAN, Unavailable(a, b) PROVE TypeOK'
  <2>. USE <1>12 DEF Unavailable
  <2>1. failureCount' \in Nat /\ burst' \in Nat
    OBVIOUS
  <2>2. retry' \in {"now", "delayed", "latched"}
    BY DEF RetryDeadline
  <2>3. conn' \in [Attempt -> {"none", "open", "closing", "closed", "stuck"}]
        /\ reason' \in [Attempt -> {"none", "released", "superseded"}]
    BY DEF Closes
  <2>4. CASE revision = a /\ connection # None
    BY <2>1, <2>2, <2>3, <2>4
  <2>5. CASE ~(revision = a /\ connection # None)
    BY <2>1, <2>2, <2>3, <2>5
  <2>. QED
    BY <2>4, <2>5
<1>13. ASSUME NEW a \in Attempt, NEW b \in BOOLEAN, CloseSettles(a, b) PROVE TypeOK'
  BY <1>13 DEF CloseSettles
<1>14. ASSUME NEW a \in Attempt, OpenerExpires(a) PROVE TypeOK'
  BY <1>14 DEF OpenerExpires
<1>15. ASSUME NEW b \in BOOLEAN, Disconnect(b) PROVE TypeOK'
  BY <1>15 DEF Disconnect, Release, Aborts, Closes, BoundedAfterRelease
<1>16. ASSUME NEW b \in BOOLEAN, ExpectUpdate(b) PROVE TypeOK'
  BY <1>16 DEF ExpectUpdate
<1>17. CASE ClearBackoff
  BY <1>17 DEF ClearBackoff, StatusCleared
<1>18. CASE Shutdown
  <2>1. awaited' \subseteq {"own", "close"} \X Attempt
    BY <1>18 DEF Shutdown, Teardowns
  <2>. QED
    BY <1>18, <2>1 DEF Shutdown, Release, Aborts, Closes, BoundedAfterRelease
<1>19. CASE ShutdownSettles
  BY <1>19 DEF ShutdownSettles
<1>20. CASE RefreshStart
  BY <1>20 DEF RefreshStart
<1>21. ASSUME NEW b \in BOOLEAN, RefreshAnswer(b) PROVE TypeOK'
  BY <1>21 DEF RefreshAnswer, ManifestAfter
<1>22. ASSUME NEW a \in Attempt, AdoptStart(a) PROVE TypeOK'
  BY <1>22 DEF AdoptStart
<1>23. CASE UNCHANGED vars
  BY <1>23 DEF vars
<1>. HIDE DEF TypeOK
<1>. QED
  BY <1>1, <1>2, <1>3, <1>4, <1>5, <1>6, <1>7, <1>8, <1>9, <1>10, <1>11, <1>12, <1>13,
     <1>14, <1>15, <1>16, <1>17, <1>18, <1>19, <1>20, <1>21, <1>22, <1>23
     DEF Next, ConnectionStep, Continues, OwnerStep, RefreshStep

\* Every step keeps the entry, its one connection and its status consistent.
LEMMA EntryStep == ConnInv /\ [Next]_vars => EntryOK'
<1>. SUFFICES ASSUME ConnInv, [Next]_vars PROVE EntryOK'
  OBVIOUS
<1>. USE AdoptersAreAttempts, NoneIsNone, MaxFailuresTyped
     DEF ConnInv, EntryOK, TypeOK, OpenerRuns, AttemptOrNone, ErrorCode, vars,
         entryVars, backoffVars, manifestVars, attemptVars, resourceVars, shutdownVars,
         Unbegun, InStep, Disowned, OneOwner, FailureIsBare, ToldUnlessCurrent,
         StatusTellsTheTruth, ManifestCurrent, NoOrphanedConnection
<1>1. ASSUME NEW a \in Attempt, NEW b \in BOOLEAN, Connect(a, b) PROVE EntryOK'
  BY <1>1 DEF Connect
<1>2. ASSUME NEW a \in Attempt, Resolve(a) PROVE EntryOK'
  BY <1>2 DEF Resolve
<1>3. ASSUME NEW a \in Attempt, Deadline(a) PROVE EntryOK'
  BY <1>3 DEF Deadline, Aborts
<1>4. ASSUME NEW a \in Attempt, OpenerConnects(a) PROVE EntryOK'
  BY <1>4 DEF OpenerConnects, Accepts, FailuresAfterHandshake
<1>5. ASSUME NEW a \in Attempt, NEW code \in ErrorCode \ {"none"}, NEW b \in BOOLEAN, OpenerFails(a, code, b)
      PROVE  EntryOK'
  BY <1>5 DEF OpenerFails
<1>6. ASSUME NEW a \in Attempt, NEW b \in BOOLEAN, ReadHostedAgents(a, b) PROVE EntryOK'
  BY <1>6 DEF ReadHostedAgents, Finally
<1>7. ASSUME NEW a \in Attempt, NEW b \in BOOLEAN, HostedAgentsRead(a, b) PROVE EntryOK'
  BY <1>7 DEF HostedAgentsRead, Finally, ManifestAfter
<1>8. ASSUME NEW a \in Attempt, ConnectFails(a) PROVE EntryOK'
  BY <1>8 DEF ConnectFails, Finally, RetryDeadline, IsDialIn
<1>9. ASSUME NEW a \in Attempt, AdoptFails(a) PROVE EntryOK'
  BY <1>9 DEF AdoptFails, StatusAfterRefusal
<1>10. ASSUME NEW a \in Attempt, AdoptRefused(a) PROVE EntryOK'
  BY <1>10 DEF AdoptRefused
<1>11. ASSUME NEW a \in Attempt, AdoptTakesOver(a) PROVE EntryOK'
  BY <1>11 DEF AdoptTakesOver, Closes, SupersededAbort, StillRunning
<1>12. ASSUME NEW a \in Attempt, NEW b \in BOOLEAN, Unavailable(a, b) PROVE EntryOK'
  BY <1>12 DEF Unavailable, Closes, RetryDeadline, IsDialIn
<1>13. ASSUME NEW a \in Attempt, NEW b \in BOOLEAN, CloseSettles(a, b) PROVE EntryOK'
  BY <1>13 DEF CloseSettles
<1>14. ASSUME NEW a \in Attempt, OpenerExpires(a) PROVE EntryOK'
  BY <1>14 DEF OpenerExpires, ShutdownOK, Tracked
<1>15. ASSUME NEW b \in BOOLEAN, Disconnect(b) PROVE EntryOK'
  BY <1>15 DEF Disconnect, Release, Aborts, Closes, BoundedAfterRelease
<1>16. ASSUME NEW b \in BOOLEAN, ExpectUpdate(b) PROVE EntryOK'
  BY <1>16 DEF ExpectUpdate
<1>17. CASE ClearBackoff
  BY <1>17 DEF ClearBackoff, StatusCleared
<1>18. CASE Shutdown
  BY <1>18 DEF Shutdown, Release, Aborts, Closes, BoundedAfterRelease, Teardowns
<1>19. CASE ShutdownSettles
  BY <1>19 DEF ShutdownSettles
<1>20. CASE RefreshStart
  BY <1>20 DEF RefreshStart
<1>21. ASSUME NEW b \in BOOLEAN, RefreshAnswer(b) PROVE EntryOK'
  BY <1>21 DEF RefreshAnswer, ManifestAfter
<1>22. ASSUME NEW a \in Attempt, AdoptStart(a) PROVE EntryOK'
  BY <1>22 DEF AdoptStart
<1>23. CASE UNCHANGED vars
  BY <1>23 DEF vars
<1>. HIDE DEF EntryOK
<1>. QED
  BY <1>1, <1>2, <1>3, <1>4, <1>5, <1>6, <1>7, <1>8, <1>9, <1>10, <1>11, <1>12, <1>13,
     <1>14, <1>15, <1>16, <1>17, <1>18, <1>19, <1>20, <1>21, <1>22, <1>23
     DEF Next, ConnectionStep, Continues, OwnerStep, RefreshStep

\* Every step keeps count of the connects since the backoff was forgiven.
LEMMA BackoffStep == ConnInv /\ [Next]_vars => BackoffOK'
<1>. SUFFICES ASSUME ConnInv, [Next]_vars PROVE BackoffOK'
  OBVIOUS
<1>. USE AdoptersAreAttempts, NoneIsNone, MaxFailuresTyped
     DEF ConnInv, EntryOK, TypeOK, OpenerRuns, AttemptOrNone, ErrorCode, vars,
         entryVars, backoffVars, manifestVars, attemptVars, resourceVars, shutdownVars,
         BackoffOK, Awaited, BurstCounted, LatchedInTime, Uncounted, Undecided, DialIn,
         InStep, OneOwner, FailureIsBare, NoOrphanedConnection, ToldUnlessCurrent
<1>1. ASSUME NEW a \in Attempt, NEW b \in BOOLEAN, Connect(a, b) PROVE BackoffOK'
  BY <1>1 DEF Connect
<1>2. ASSUME NEW a \in Attempt, Resolve(a) PROVE BackoffOK'
  BY <1>2 DEF Resolve
<1>3. ASSUME NEW a \in Attempt, Deadline(a) PROVE BackoffOK'
  BY <1>3 DEF Deadline, Aborts
<1>4. ASSUME NEW a \in Attempt, OpenerConnects(a) PROVE BackoffOK'
  BY <1>4 DEF OpenerConnects, Accepts, FailuresAfterHandshake
<1>5. ASSUME NEW a \in Attempt, NEW code \in ErrorCode \ {"none"}, NEW b \in BOOLEAN, OpenerFails(a, code, b)
      PROVE  BackoffOK'
  BY <1>5 DEF OpenerFails
<1>6. ASSUME NEW a \in Attempt, NEW b \in BOOLEAN, ReadHostedAgents(a, b) PROVE BackoffOK'
  BY <1>6 DEF ReadHostedAgents, Finally
<1>7. ASSUME NEW a \in Attempt, NEW b \in BOOLEAN, HostedAgentsRead(a, b) PROVE BackoffOK'
  BY <1>7 DEF HostedAgentsRead, Finally, ManifestAfter
<1>8. ASSUME NEW a \in Attempt, ConnectFails(a) PROVE BackoffOK'
  BY <1>8 DEF ConnectFails, Finally, RetryDeadline, IsDialIn
<1>9. ASSUME NEW a \in Attempt, AdoptFails(a) PROVE BackoffOK'
  BY <1>9 DEF AdoptFails, StatusAfterRefusal
<1>10. ASSUME NEW a \in Attempt, AdoptRefused(a) PROVE BackoffOK'
  BY <1>10 DEF AdoptRefused
<1>11. ASSUME NEW a \in Attempt, AdoptTakesOver(a) PROVE BackoffOK'
  BY <1>11 DEF AdoptTakesOver, Closes, SupersededAbort, StillRunning
<1>12. ASSUME NEW a \in Attempt, NEW b \in BOOLEAN, Unavailable(a, b) PROVE BackoffOK'
  BY <1>12 DEF Unavailable, Closes, RetryDeadline, IsDialIn
<1>13. ASSUME NEW a \in Attempt, NEW b \in BOOLEAN, CloseSettles(a, b) PROVE BackoffOK'
  BY <1>13 DEF CloseSettles
<1>14. ASSUME NEW a \in Attempt, OpenerExpires(a) PROVE BackoffOK'
  BY <1>14 DEF OpenerExpires
<1>15. ASSUME NEW b \in BOOLEAN, Disconnect(b) PROVE BackoffOK'
  BY <1>15 DEF Disconnect, Release, Aborts, Closes, BoundedAfterRelease
<1>16. ASSUME NEW b \in BOOLEAN, ExpectUpdate(b) PROVE BackoffOK'
  BY <1>16 DEF ExpectUpdate
<1>17. CASE ClearBackoff
  BY <1>17 DEF ClearBackoff, StatusCleared
<1>18. CASE Shutdown
  BY <1>18 DEF Shutdown, Release, Aborts, Closes, BoundedAfterRelease, Teardowns
<1>19. CASE ShutdownSettles
  BY <1>19 DEF ShutdownSettles
<1>20. CASE RefreshStart
  BY <1>20 DEF RefreshStart
<1>21. ASSUME NEW b \in BOOLEAN, RefreshAnswer(b) PROVE BackoffOK'
  BY <1>21 DEF RefreshAnswer, ManifestAfter
<1>22. ASSUME NEW a \in Attempt, AdoptStart(a) PROVE BackoffOK'
  BY <1>22 DEF AdoptStart
<1>23. CASE UNCHANGED vars
  BY <1>23 DEF vars
<1>. HIDE DEF BackoffOK
<1>. QED
  BY <1>1, <1>2, <1>3, <1>4, <1>5, <1>6, <1>7, <1>8, <1>9, <1>10, <1>11, <1>12, <1>13,
     <1>14, <1>15, <1>16, <1>17, <1>18, <1>19, <1>20, <1>21, <1>22, <1>23
     DEF Next, ConnectionStep, Continues, OwnerStep, RefreshStep

\* Every step keeps what a shutdown has to wait for among what it waits for.
LEMMA ShutdownStep == ConnInv /\ [Next]_vars => ShutdownOK'
<1>. SUFFICES ASSUME ConnInv, [Next]_vars PROVE ShutdownOK'
  OBVIOUS
<1>. USE AdoptersAreAttempts, NoneIsNone, MaxFailuresTyped
     DEF ConnInv, EntryOK, TypeOK, OpenerRuns, AttemptOrNone, ErrorCode, vars,
         entryVars, backoffVars, manifestVars, attemptVars, resourceVars, shutdownVars,
         ShutdownOK, Tracked, ShutdownWaits, ResolvedIsDone, InStep, OneOwner,
         NoOrphanedConnection
<1>1. ASSUME NEW a \in Attempt, NEW b \in BOOLEAN, Connect(a, b) PROVE ShutdownOK'
  BY <1>1 DEF Connect
<1>2. ASSUME NEW a \in Attempt, Resolve(a) PROVE ShutdownOK'
  BY <1>2 DEF Resolve
<1>3. ASSUME NEW a \in Attempt, Deadline(a) PROVE ShutdownOK'
  BY <1>3 DEF Deadline, Aborts
<1>4. ASSUME NEW a \in Attempt, OpenerConnects(a) PROVE ShutdownOK'
  BY <1>4 DEF OpenerConnects, Accepts, FailuresAfterHandshake
<1>5. ASSUME NEW a \in Attempt, NEW code \in ErrorCode \ {"none"}, NEW b \in BOOLEAN, OpenerFails(a, code, b)
      PROVE  ShutdownOK'
  BY <1>5 DEF OpenerFails
<1>6. ASSUME NEW a \in Attempt, NEW b \in BOOLEAN, ReadHostedAgents(a, b) PROVE ShutdownOK'
  BY <1>6 DEF ReadHostedAgents, Finally
<1>7. ASSUME NEW a \in Attempt, NEW b \in BOOLEAN, HostedAgentsRead(a, b) PROVE ShutdownOK'
  BY <1>7 DEF HostedAgentsRead, Finally, ManifestAfter
<1>8. ASSUME NEW a \in Attempt, ConnectFails(a) PROVE ShutdownOK'
  BY <1>8 DEF ConnectFails, Finally, RetryDeadline, IsDialIn
<1>9. ASSUME NEW a \in Attempt, AdoptFails(a) PROVE ShutdownOK'
  BY <1>9 DEF AdoptFails, StatusAfterRefusal
<1>10. ASSUME NEW a \in Attempt, AdoptRefused(a) PROVE ShutdownOK'
  BY <1>10 DEF AdoptRefused
<1>11. ASSUME NEW a \in Attempt, AdoptTakesOver(a) PROVE ShutdownOK'
  BY <1>11 DEF AdoptTakesOver, Closes, SupersededAbort, StillRunning
<1>12. ASSUME NEW a \in Attempt, NEW b \in BOOLEAN, Unavailable(a, b) PROVE ShutdownOK'
  BY <1>12 DEF Unavailable, Closes, RetryDeadline, IsDialIn
<1>13. ASSUME NEW a \in Attempt, NEW b \in BOOLEAN, CloseSettles(a, b) PROVE ShutdownOK'
  BY <1>13 DEF CloseSettles
<1>14. ASSUME NEW a \in Attempt, OpenerExpires(a) PROVE ShutdownOK'
  BY <1>14 DEF OpenerExpires
<1>15. ASSUME NEW b \in BOOLEAN, Disconnect(b) PROVE ShutdownOK'
  BY <1>15 DEF Disconnect, Release, Aborts, Closes, BoundedAfterRelease
<1>16. ASSUME NEW b \in BOOLEAN, ExpectUpdate(b) PROVE ShutdownOK'
  BY <1>16 DEF ExpectUpdate
<1>17. CASE ClearBackoff
  BY <1>17 DEF ClearBackoff, StatusCleared
<1>18. CASE Shutdown
  BY <1>18 DEF Shutdown, Release, Aborts, Closes, BoundedAfterRelease, Teardowns
<1>19. CASE ShutdownSettles
  BY <1>19 DEF ShutdownSettles
<1>20. CASE RefreshStart
  BY <1>20 DEF RefreshStart
<1>21. ASSUME NEW b \in BOOLEAN, RefreshAnswer(b) PROVE ShutdownOK'
  BY <1>21 DEF RefreshAnswer, ManifestAfter
<1>22. ASSUME NEW a \in Attempt, AdoptStart(a) PROVE ShutdownOK'
  BY <1>22 DEF AdoptStart
<1>23. CASE UNCHANGED vars
  BY <1>23 DEF vars
<1>. HIDE DEF ShutdownOK
<1>. QED
  BY <1>1, <1>2, <1>3, <1>4, <1>5, <1>6, <1>7, <1>8, <1>9, <1>10, <1>11, <1>12, <1>13,
     <1>14, <1>15, <1>16, <1>17, <1>18, <1>19, <1>20, <1>21, <1>22, <1>23
     DEF Next, ConnectionStep, Continues, OwnerStep, RefreshStep

\* Nothing happened yet.
LEMMA ConnInit == Init => ConnInv
<1>. SUFFICES ASSUME Init PROVE ConnInv
  OBVIOUS
<1>. USE AdoptersAreAttempts, NoneIsNone, MaxFailuresTyped DEF Init, OpenerRuns
<1>1. TypeOK
  BY DEF TypeOK, AttemptOrNone, ErrorCode
<1>2. EntryOK
  BY DEF EntryOK, Unbegun, InStep, Disowned, OneOwner, FailureIsBare, ToldUnlessCurrent,
         StatusTellsTheTruth, ManifestCurrent, NoOrphanedConnection
<1>3. BackoffOK
  BY DEF BackoffOK, Awaited, BurstCounted, LatchedInTime, Uncounted, Undecided
<1>4. ShutdownOK
  BY DEF ShutdownOK, Tracked, ShutdownWaits, ResolvedIsDone
<1>. QED
  BY <1>1, <1>2, <1>3, <1>4 DEF ConnInv

\* Every step of the manager, whoever else takes steps, keeps the invariant.
LEMMA ConnStep == ConnInv /\ [Next]_vars => ConnInv'
BY TypeStep, EntryStep, BackoffStep, ShutdownStep DEF ConnInv

\* The invariant holds in every reachable state.
THEOREM ConnectionsInvariant == Spec => []ConnInv
BY ConnInit, ConnStep, PTL DEF Spec

-----------------------------------------------------------------------------
(* What follows.                                                           *)

\* However late an opener delivers, and whatever releases, takeovers and losses
\* come between, a connection that is not being closed is the entry's own
\* (#ownOpening, #release, adopt).
THEOREM NothingRunsUnowned == Spec => []NoOrphanedConnection
<1>1. ConnInv => NoOrphanedConnection
  BY DEF ConnInv, EntryOK, OneOwner
<1>. QED
  BY <1>1, ConnectionsInvariant, PTL

\* The status is connected exactly while there is a connection, and connecting only
\* while an attempt is undecided (connect, adopt, #markUnavailable, #release).
THEOREM StatusIsTruthful == Spec => []StatusTellsTheTruth
<1>1. ConnInv => StatusTellsTheTruth
  BY DEF ConnInv, EntryOK
<1>. QED
  BY <1>1, ConnectionsInvariant, PTL

\* The manifest shown of a connected environment is its own peer's, although reads
\* of replaced connections answer late (refreshManifest).
THEOREM ManifestIsCurrent == Spec => []ManifestCurrent
<1>1. ConnInv => ManifestCurrent
  BY DEF ConnInv, EntryOK
<1>. QED
  BY <1>1, ConnectionsInvariant, PTL

\* An attempt of the hub that lost the entry was told to stop (#release, adopt).
THEOREM OvertakenOpenersTold == Spec => []StaleOpenersTold
<1>1. ConnInv => StaleOpenersTold
  BY DEF ConnInv, EntryOK, ToldUnlessCurrent, StaleOpenersTold
<1>. QED
  BY <1>1, ConnectionsInvariant, PTL

\* For every limit on failures, an environment the hub dials is started at most that
\* often before it latches (retryDeadline, #markUnavailable, the catch of connect).
THEOREM CrashLoopsLatch == Spec => []CrashLoopBounded
<1>1. ConnInv => CrashLoopBounded
  BY DEF ConnInv, BackoffOK, BurstCounted, CrashLoopBounded
<1>. QED
  BY <1>1, ConnectionsInvariant, PTL

\* A shutdown that reports success left no opener that could still deliver and no
\* connection that is not closed (shutdown, #awaitTeardowns, boundOpening).
THEOREM ShutdownLeavesNothing == Spec => []ShutdownComplete
<1>1. ConnInv => ShutdownComplete
  <2>. SUFFICES ASSUME ConnInv, shutdown = "resolved", NEW a \in Attempt
                PROVE  ~OpenerRuns(a) /\ conn[a] \in {"none", "closed"}
    BY DEF ShutdownComplete
  <2>. USE NoneIsNone DEF ConnInv, ShutdownOK
  <2>1. ~OpenerRuns(a)
    BY DEF Tracked, ShutdownWaits, ResolvedIsDone
  <2>2. conn[a] # "open"
    BY DEF EntryOK, OneOwner, NoOrphanedConnection, ShutdownWaits
  <2>3. conn[a] \notin {"closing", "stuck"}
    BY DEF ShutdownWaits, ResolvedIsDone
  <2>. QED
    BY <2>1, <2>2, <2>3 DEF TypeOK
<1>. QED
  BY <1>1, ConnectionsInvariant, PTL
=============================================================================
