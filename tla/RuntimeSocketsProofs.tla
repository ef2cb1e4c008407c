------------------------ MODULE RuntimeSocketsProofs ------------------------
(***************************************************************************)
(* Proofs about RuntimeSockets, for every number of sockets that dial in   *)
(* and of pairing tokens, on top of the invariant of the connection        *)
(* manager that the route shares with everybody else.                      *)
(***************************************************************************)
EXTENDS RuntimeSockets, RuntimeConnectionsProofs

\* What the route's handlers rely on from the manager in one step: a settled promise
\* stays settled, a connection opens only while its promise is undecided, and a promise
\* is rejected only after it was seen to fail.
Settled(a) == promise[a] \in {"resolved", "rejected"}
ManagerPromises ==
    /\ adopters' = adopters
    /\ \A a \in Attempt : Settled(a) => promise'[a] = promise[a]
    /\ \A a \in Attempt : conn'[a] = "open" => conn[a] = "open" \/ promise[a] = "racing"
    /\ \A a \in Attempt : promise'[a] = "rejected" => promise[a] \notin {"racing", "ready", "reading"}

\* Every step of the manager keeps those promises (connect, adopt, #ownOpening).
LEMMA ManagerKeepsPromises == ConnInv /\ [Next]_vars => ManagerPromises
<1>. SUFFICES ASSUME ConnInv, [Next]_vars PROVE ManagerPromises
  OBVIOUS
<1>. USE NoneIsNone DEF EntryOK, TypeOK, OpenerRuns, InStep, Disowned, ConnInv, Settled,
                        ManagerPromises, vars, entryVars, backoffVars, manifestVars,
                        attemptVars, resourceVars, shutdownVars
<1>1. ASSUME NEW a \in Attempt, NEW b \in BOOLEAN, Connect(a, b) PROVE ManagerPromises
  BY <1>1 DEF Connect
<1>2. ASSUME NEW a \in Attempt, Resolve(a) PROVE ManagerPromises
  BY <1>2 DEF Resolve
<1>3. ASSUME NEW a \in Attempt, Deadline(a) PROVE ManagerPromises
  BY <1>3 DEF Deadline, Aborts
<1>4. ASSUME NEW a \in Attempt, OpenerConnects(a) PROVE ManagerPromises
  BY <1>4 DEF OpenerConnects, Accepts, FailuresAfterHandshake
<1>5. ASSUME NEW a \in Attempt, NEW code \in ErrorCode \ {"none"}, NEW b \in BOOLEAN, OpenerFails(a, code, b)
      PROVE ManagerPromises
  BY <1>5 DEF OpenerFails
<1>6. ASSUME NEW a \in Attempt, NEW b \in BOOLEAN, ReadHostedAgents(a, b) PROVE ManagerPromises
  BY <1>6 DEF ReadHostedAgents, Finally
<1>7. ASSUME NEW a \in Attempt, NEW b \in BOOLEAN, HostedAgentsRead(a, b) PROVE ManagerPromises
  BY <1>7 DEF HostedAgentsRead, Finally, ManifestAfter
<1>8. ASSUME NEW a \in Attempt, ConnectFails(a) PROVE ManagerPromises
  BY <1>8 DEF ConnectFails, Finally, RetryDeadline, IsDialIn
<1>9. ASSUME NEW a \in Attempt, AdoptFails(a) PROVE ManagerPromises
  BY <1>9 DEF AdoptFails, StatusAfterRefusal
<1>10. ASSUME NEW a \in Attempt, AdoptRefused(a) PROVE ManagerPromises
  BY <1>10 DEF AdoptRefused
<1>11. ASSUME NEW a \in Attempt, AdoptTakesOver(a) PROVE ManagerPromises
  BY <1>11 DEF AdoptTakesOver, Closes, SupersededAbort, StillRunning
<1>12. ASSUME NEW a \in Attempt, NEW b \in BOOLEAN, Unavailable(a, b) PROVE ManagerPromises
  BY <1>12 DEF Unavailable, Closes, RetryDeadline, IsDialIn
<1>13. ASSUME NEW a \in Attempt, NEW b \in BOOLEAN, CloseSettles(a, b) PROVE ManagerPromises
  BY <1>13 DEF CloseSettles
<1>14. ASSUME NEW a \in Attempt, OpenerExpires(a) PROVE ManagerPromises
  BY <1>14 DEF OpenerExpires
<1>15. ASSUME NEW b \in BOOLEAN, Disconnect(b) PROVE ManagerPromises
  BY <1>15 DEF Disconnect, Release, Aborts, Closes, BoundedAfterRelease
<1>16. ASSUME NEW b \in BOOLEAN, ExpectUpdate(b) PROVE ManagerPromises
  BY <1>16 DEF ExpectUpdate
<1>17. CASE ClearBackoff
  BY <1>17 DEF ClearBackoff, StatusCleared
<1>18. CASE Shutdown
  BY <1>18 DEF Shutdown, Release, Aborts, Closes, BoundedAfterRelease, Teardowns
<1>19. CASE ShutdownSettles
  BY <1>19 DEF ShutdownSettles
<1>20. CASE RefreshStart
  BY <1>20 DEF RefreshStart
<1>21. ASSUME NEW b \in BOOLEAN, RefreshAnswer(b) PROVE ManagerPromises
  BY <1>21 DEF RefreshAnswer, ManifestAfter
<1>22. ASSUME NEW a \in Attempt, AdoptStart(a) PROVE ManagerPromises
  BY <1>22 DEF AdoptStart
<1>23. CASE UNCHANGED vars
  BY <1>23
<1>. HIDE DEF ManagerPromises
<1>. QED
  BY <1>1, <1>2, <1>3, <1>4, <1>5, <1>6, <1>7, <1>8, <1>9, <1>10, <1>11, <1>12, <1>13,
     <1>14, <1>15, <1>16, <1>17, <1>18, <1>19, <1>20, <1>21, <1>22, <1>23
     DEF Next, ConnectionStep, Continues, OwnerStep, RefreshStep

\* A release leaves no connection open (#release).
LEMMA ReleaseClosesAll ==
    ASSUME ConnInv, NEW b \in BOOLEAN, Disconnect(b)
    PROVE  \A a \in Attempt : conn'[a] # "open"
BY NoneIsNone DEF ConnInv, EntryOK, OneOwner, NoOrphanedConnection, TypeOK, Disconnect, Release, Closes

-----------------------------------------------------------------------------
(* The inductive invariant.                                                *)

\* A promise that is about to fail, or failed, has no open connection behind it.
RejectedIsBare == \A a \in Attempt : promise[a] \in {"failing", "rejected"} => conn[a] # "open"

\* The route goes on only with what the manager answered.
RouteFollows ==
    \A a \in adopters : /\ route[a] = "checking" => promise[a] = "resolved"
                        /\ route[a] = "done" => Settled(a)

\* A socket whose adoption was answered and that still serves is marked adopted, so
\* that its close event releases it; once its credential was checked, either the
\* credential is still the current one or a release is on its way.
ServedIsMarked ==
    \A a \in adopters : conn[a] = "open" /\ route[a] \in {"checking", "done"} =>
        /\ adopted[a] /\ ~socketClosed[a]
        /\ route[a] = "done" => token[a] = current \/ retiring > 0

SocketInv == ConnInv /\ SocketTypeOK /\ RejectedIsBare /\ RouteFollows /\ ServedIsMarked

\* Whoever takes the step, the manager's own invariant is kept and a rejected promise
\* stays bare.
LEMMA ManagerStays ==
    ASSUME ConnInv, RejectedIsBare, [Next]_vars
    PROVE  ConnInv' /\ ManagerPromises /\ RejectedIsBare'
<1>1. ConnInv' /\ ManagerPromises
  BY ConnStep, ManagerKeepsPromises
<1>2. RejectedIsBare'
  <2>. SUFFICES ASSUME NEW a \in Attempt, promise'[a] \in {"failing", "rejected"}, conn'[a] = "open"
               PROVE  FALSE
    BY DEF RejectedIsBare
  <2>1. promise'[a] # "failing"
    BY <1>1, NoneIsNone
       DEF ConnInv, EntryOK, OneOwner, NoOrphanedConnection, FailureIsBare
  <2>2. conn[a] = "open" \/ promise[a] = "racing"
    BY <1>1 DEF ManagerPromises
  <2>3. promise[a] \notin {"racing", "ready", "reading", "resolved"}
    BY <1>1, <2>1 DEF ManagerPromises, Settled
  <2>. QED
    BY <2>2, <2>3 DEF RejectedIsBare, ConnInv, EntryOK, InStep, TypeOK
<1>. QED
  BY <1>1, <1>2

\* The route starts with no socket.
LEMMA SocketsInit == SocketInit => SocketInv
<1>. SUFFICES ASSUME SocketInit PROVE SocketInv
  OBVIOUS
<1>1. ConnInv
  BY ConnInit DEF SocketInit
<1>. QED
  BY <1>1, MaxTokensTyped, AdoptersAreAttempts
     DEF SocketInit, Init, SocketInv, SocketTypeOK, RejectedIsBare, RouteFollows, ServedIsMarked,
         Settled, ConnInv

\* Every step of the route, the pairing service and the manager keeps the invariant.
LEMMA SocketsStep == SocketInv /\ [SocketNext]_allVars => SocketInv'
<1>. SUFFICES ASSUME SocketInv, [SocketNext]_allVars PROVE SocketInv'
  OBVIOUS
<1>0. adopters \subseteq Attempt
  BY AdoptersAreAttempts DEF SocketInv, SocketTypeOK, TypeOK
<1>. USE <1>0, MaxTokensTyped
     DEF SocketInv, SocketTypeOK, RouteFollows, ServedIsMarked, Settled, ManagerPromises,
         AdoptedAfterCloses, socketVars, pairingVars, allVars
<1>d. ASSUME Disconnect(FALSE)
      PROVE  /\ ConnInv' /\ ManagerPromises /\ RejectedIsBare'
             /\ \A a \in Attempt : conn'[a] # "open"
  BY <1>d, ManagerStays, ReleaseClosesAll DEF Next, ConnectionStep
<1>u. ASSUME UNCHANGED vars PROVE ConnInv' /\ ManagerPromises /\ RejectedIsBare' /\ conn' = conn
                                  /\ promise' = promise
  BY <1>u, ManagerStays DEF vars, resourceVars, attemptVars
<1>t. ConnInv' => TypeOK'
  BY DEF ConnInv
<1>1. CASE ManagerStep
  <2>1. ConnInv' /\ ManagerPromises /\ RejectedIsBare'
    BY <1>1, ManagerStays DEF ManagerStep, Next
  <2>. QED
    BY <1>1, <1>t, <2>1 DEF ManagerStep
<1>2. ASSUME NEW a \in adopters, Verify(a) PROVE SocketInv'
  BY <1>2, <1>u, <1>t DEF Verify
<1>3. ASSUME NEW a \in adopters, Adopt(a) PROVE SocketInv'
  <2>1. ConnInv' /\ ManagerPromises /\ RejectedIsBare'
    BY <1>3, ManagerStays DEF Adopt, Next
  <2>. QED
    BY <1>3, <1>t, <2>1 DEF Adopt
<1>4. ASSUME NEW a \in adopters, Adopted(a) PROVE SocketInv'
  <2>1. CASE socketClosed[a]
    BY ZenonT(60), <1>4, <1>d, <1>t, <2>1 DEF Adopted
  <2>2. CASE ~socketClosed[a]
    <3>1. /\ route' = [route EXCEPT ![a] = "checking"] /\ adopted' = [adopted EXCEPT ![a] = TRUE]
          /\ promise[a] = "resolved" /\ UNCHANGED vars
          /\ UNCHANGED <<socketClosed, token, pairingVars>>
      BY <1>4, <2>2 DEF Adopted
    <3>2. ConnInv' /\ RejectedIsBare' /\ conn' = conn /\ promise' = promise /\ adopters' = adopters
      BY <3>1, <1>u
    <3>3. SocketTypeOK'
      BY <3>1, <3>2, <1>t
    <3>4. RouteFollows'
      BY <3>1, <3>2
    <3>5. ServedIsMarked'
      BY <2>2, <3>1, <3>2
    <3>. QED
      BY <3>2, <3>3, <3>4, <3>5
  <2>. QED
    BY <2>1, <2>2
<1>5. ASSUME NEW a \in adopters, Refused(a) PROVE SocketInv'
  BY <1>5, <1>u, <1>t DEF Refused, RejectedIsBare
<1>6. ASSUME NEW a \in adopters, Checked(a) PROVE SocketInv'
  BY ZenonT(60), <1>6, <1>u, <1>d, <1>t DEF Checked
<1>7. ASSUME NEW a \in adopters, SocketCloses(a) PROVE SocketInv'
  BY <1>7, <1>u, <1>d, <1>t DEF SocketCloses
<1>8. CASE IssueToken
  BY <1>8, <1>u, <1>t DEF IssueToken, Retire
<1>9. CASE RevokeToken
  BY <1>9, <1>u, <1>t DEF RevokeToken, Retire
<1>10. CASE RetiredDisconnects
  BY <1>10, <1>d, <1>t DEF RetiredDisconnects
<1>11. CASE UNCHANGED allVars
  BY <1>11, <1>u, <1>t
<1>. HIDE DEF SocketInv
<1>. QED
  BY <1>1, <1>2, <1>3, <1>4, <1>5, <1>6, <1>7, <1>8, <1>9, <1>10, <1>11 DEF SocketNext

\* The invariant of the route holds in every reachable state.
THEOREM SocketsInvariant == SocketSpec => []SocketInv
BY SocketsInit, SocketsStep, PTL DEF SocketSpec

\* Nothing serves on a credential that was rotated or revoked, once the rotation and
\* the adoption are through (adopt of the route, issue, revoke).
THEOREM CredentialsAreHonoured == SocketSpec => []CredentialHonoured
<1>1. SocketInv => CredentialHonoured
  BY DEF SocketInv, ServedIsMarked, CredentialHonoured, SocketTypeOK
<1>. QED
  BY <1>1, SocketsInvariant, PTL

\* The manager holds no connection of a socket that closed (adopt and close of the route).
THEOREM NoSocketHaunts == SocketSpec => []NoGhostSocket
<1>1. SocketInv => NoGhostSocket
  BY DEF SocketInv, ServedIsMarked, NoGhostSocket
<1>. QED
  BY <1>1, SocketsInvariant, PTL
=============================================================================
