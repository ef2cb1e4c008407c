--------------------------- MODULE RuntimeSockets ---------------------------
(***************************************************************************)
(* The route runtimes dial in on, with the pairing service and the         *)
(* connection manager it hands their sockets to                            *)
(* (apps/api/src/modules/environments/http/runtime-socket-routes.ts and    *)
(* application/runtime-pairing-service.ts): one environment, a few sockets *)
(* that authenticate with the pairing token of the moment.  A token is the *)
(* number of its issue.  Upgrade limits, lastSeenAt, the frames themselves *)
(* and the steps of the manager that touch nothing the route reads         *)
(* (OwnerStep, RefreshStep) are left out.                                  *)
(***************************************************************************)
EXTENDS RuntimeConnections

CONSTANT MaxTokens      \* bound: pairing tokens ever issued

ASSUME MaxTokensTyped == MaxTokens \in Nat \ {0}

VARIABLES
    route,          \* per socket: where the route's own handler is
    socketClosed,   \* state.socketClosed
    adopted,        \* state.adopted
    token,          \* per socket: the token it was verified with, 0 before
    current,        \* the active token of the environment, 0 when it has none
    issued,         \* tokens issued so far
    retiring        \* issue() and revoke() calls between their write and their disconnect

socketVars == <<route, socketClosed, adopted, token>>
pairingVars == <<current, issued, retiring>>
allVars == <<vars, socketVars, pairingVars>>

SocketTypeOK ==
    /\ TypeOK
    /\ route \in [adopters -> {"idle", "verified", "adopting", "checking", "done"}]
    /\ socketClosed \in [adopters -> BOOLEAN] /\ adopted \in [adopters -> BOOLEAN]
    /\ token \in [adopters -> 0 .. MaxTokens]
    /\ current \in 0 .. MaxTokens /\ issued \in 1 .. MaxTokens
    /\ retiring \in Nat

-----------------------------------------------------------------------------
(* Handlers.                                                               *)

\* close(reason) of the connection openConnection returns: the socket's own close
\* handler is told not to release again.
AdoptedAfterCloses ==
    [a \in adopters |-> adopted[a] /\ ~(conn'[a] = "closing" /\ conn[a] # "closing")]

\* A step of the manager that no socket's handler takes.
ManagerStep ==
    /\ ConnectionStep
    /\ adopted' = AdoptedAfterCloses
    /\ UNCHANGED <<route, socketClosed, token, pairingVars>>

\* derive: the credential is verified before the upgrade.
Verify(a) ==
    /\ route[a] = "idle"
    /\ current # 0
    /\ token' = [token EXCEPT ![a] = current]
    /\ route' = [route EXCEPT ![a] = "verified"]
    /\ UNCHANGED <<vars, socketClosed, adopted, pairingVars>>

\* open, and adopt up to the manager's first await.
Adopt(a) ==
    /\ route[a] = "verified"
    /\ AdoptStart(a)
    /\ route' = [route EXCEPT ![a] = "adopting"]
    /\ UNCHANGED <<socketClosed, adopted, token, pairingVars>>

\* The manager adopted the socket, which may have gone meanwhile.
AdoptedUnchecked(a) ==
    /\ route[a] = "adopting" /\ promise[a] = "resolved"
    /\ adopted' = [adopted EXCEPT ![a] = TRUE]
    /\ route' = [route EXCEPT ![a] = "checking"]
    /\ UNCHANGED <<vars, socketClosed, token, pairingVars>>

Adopted(a) ==
    /\ route[a] = "adopting" /\ promise[a] = "resolved"
    /\ \/ /\ socketClosed[a]
          /\ Disconnect(FALSE)
          /\ adopted' = [AdoptedAfterCloses EXCEPT ![a] = FALSE]
          /\ route' = [route EXCEPT ![a] = "done"]
       \/ /\ ~socketClosed[a]
          /\ adopted' = [adopted EXCEPT ![a] = TRUE]
          /\ route' = [route EXCEPT ![a] = "checking"]
          /\ UNCHANGED vars
    /\ UNCHANGED <<socketClosed, token, pairingVars>>

\* The manager refused it: the transport is closed with FORBIDDEN.
Refused(a) ==
    /\ route[a] = "adopting" /\ promise[a] = "rejected"
    /\ route' = [route EXCEPT ![a] = "done"]
    /\ UNCHANGED <<vars, socketClosed, adopted, token, pairingVars>>

\* isActive answers: a credential retired during the adoption ends it.
Checked(a) ==
    /\ route[a] = "checking"
    /\ route' = [route EXCEPT ![a] = "done"]
    /\ \/ /\ token[a] = current
          /\ UNCHANGED <<vars, adopted>>
       \/ /\ token[a] # current
          /\ Disconnect(FALSE)
          /\ adopted' = [AdoptedAfterCloses EXCEPT ![a] = FALSE]
    /\ UNCHANGED <<socketClosed, token, pairingVars>>

\* The socket's close event.
SocketCloses(a) ==
    /\ route[a] # "idle" /\ ~socketClosed[a]
    /\ socketClosed' = [socketClosed EXCEPT ![a] = TRUE]
    /\ \/ /\ adopted[a]
          /\ Disconnect(FALSE)
          /\ adopted' = [AdoptedAfterCloses EXCEPT ![a] = FALSE]
       \/ /\ ~adopted[a]
          /\ UNCHANGED <<vars, adopted>>
    /\ UNCHANGED <<route, token, pairingVars>>

\* issue and revoke: the row is written, then the manager lets go of whatever it
\* holds on the old credential.
RetireForgotten(new) ==
    /\ current' = IF new THEN issued + 1 ELSE 0
    /\ retiring' = retiring

Retire(new) ==
    /\ current' = IF new THEN issued + 1 ELSE 0
    /\ retiring' = retiring + 1

IssueToken ==
    /\ issued < MaxTokens
    /\ Retire(TRUE)
    /\ issued' = issued + 1
    /\ UNCHANGED <<vars, socketVars>>

RevokeToken ==
    /\ current # 0
    /\ Retire(FALSE)
    /\ UNCHANGED <<vars, socketVars, issued>>

RetiredDisconnects ==
    /\ retiring > 0
    /\ retiring' = retiring - 1
    /\ Disconnect(FALSE)
    /\ adopted' = AdoptedAfterCloses
    /\ UNCHANGED <<route, socketClosed, token, current, issued>>

-----------------------------------------------------------------------------
SocketInit ==
    /\ Init
    /\ route = [a \in adopters |-> "idle"]
    /\ socketClosed = [a \in adopters |-> FALSE]
    /\ adopted = [a \in adopters |-> FALSE]
    /\ token = [a \in adopters |-> 0]
    /\ current = 1 /\ issued = 1 /\ retiring = 0

SocketNext ==
    \/ ManagerStep
    \/ \E a \in adopters : Verify(a) \/ Adopt(a) \/ Adopted(a) \/ Refused(a) \/ Checked(a)
                           \/ SocketCloses(a)
    \/ IssueToken \/ RevokeToken \/ RetiredDisconnects

SocketSpec == SocketInit /\ [][SocketNext]_allVars

-----------------------------------------------------------------------------
(* Safety.                                                                 *)

\* Either the revocation sees the connection or the connection sees the revocation:
\* once both are through, nothing serves on a credential that was rotated or
\* revoked (adopt of the route, issue, revoke).
CredentialHonoured ==
    \A a \in adopters :
        route[a] = "done" /\ token[a] # current /\ retiring = 0 => conn[a] # "open"

\* The manager holds no connection of a socket that closed, whichever of the close
\* event and the adoption came first (adopt and close of the route).
NoGhostSocket ==
    \A a \in adopters : route[a] = "done" /\ socketClosed[a] => conn[a] # "open"

-----------------------------------------------------------------------------
(* What a comment or a document says and the code does not keep (README,   *)
(* "Divergences"): no run checks these.                                    *)

\* The close handler of a socket releases the environment on the socket's own
\* behalf: one that was replaced leaves the entry of the runtime that superseded
\* it alone (close of the route, close of its connection).
ReleasesOwnEntryOnly ==
    [][\A a, b \in adopters :
            a # b /\ revision = b /\ socketClosed'[a] # socketClosed[a] => revision' = b]_allVars
=============================================================================
