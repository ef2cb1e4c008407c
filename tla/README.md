# MangoStudio: formal models

TLA+ models of the concurrent core of MangoStudio, the TLC configurations that check them
on small instances, and TLAPS proofs of results that hold for every instance. `PROJECT.json`
is the machine-readable side of this document: which definition models which lines, what
each run checks, and a mutant of the code per property that the run must catch.

    tlc -workers 2 -config Submission.cfg MCExternalSubmission    # one run
    tlapm MangoSessionProofs.tla                                  # one proof module

## 1. The system

MangoStudio is a self-hosted studio for model chats and coding agents. A **hub**
(`apps/api`, TypeScript on Bun, SQLite) serves a **frontend** and drives **runtimes**
(`crates/mangostudio-runtime`, Rust), one per environment: the local machine, a child
process, an ssh host, a container, an HTTP endpoint, or a runtime that dials in on its own.
Hub and runtime talk the **Mango Protocol** (`packages/protocol` in TypeScript,
`crates/mango-protocol` in Rust, normative text in `spec/`). Through a runtime the hub also
drives **external agents** (Claude, Codex, Cursor): it opens vendor sessions, submits turns
to them and turns their event stream into a transcript.

### Inventory

| component | state it keeps | operations | hard part | correct when |
| --- | --- | --- | --- | --- |
| protocol session (`session.ts`) | handshake state, pending table, active handlers, stream counters, closure | request, emit, ping, close, dispatch, settle, teardown | both ends act at once; aborts, timeouts and answers cross; the port dies at any moment | a request is in one place, settles once, is executed once; ends agree on the version; streams have no gap |
| ports and codecs (`transports/`, `codec/`) | buffers, closed flag, chunk assemblies | send, feed, fail, end, close | backpressure, partial lines, ceilings | order kept, nothing delivered after a report of closure |
| runtime connection manager | one entry per user and environment: revision, connection, attempt under way, backoff, status, manifest, teardowns | connect, adopt, disconnect, loss, refresh, clearBackoff, shutdown | every await can be overtaken by another attempt, a dial-in, a release or the shutdown | no connection without owner, status true, crash loops bounded, shutdown complete |
| runtime socket route and pairing | per socket: adopted, closed; per environment: the active token | verify, adopt, close event, issue, revoke | credential and socket can go during the handshake | nothing serves on a retired credential, no entry for a dead socket |
| product operations | receipt row per operation id, verdicts waiting in memory | claim, read, finish, settle, release | lost answers, repeated requests, refused writes, restarts | work runs at most once; verdict true, final, kept |
| external turn submission | one receipt per attempt, the turn's message, the runtime's own receipts | insert, send, resend, settle, replace session, seal, boot sweeps | the reply is lost, late, or crosses a stop; a write fails; the hub dies | the vendor begins a turn at most once; a receipt claims only what is proved |
| external session manager | sessions and opens in flight, holds, marks not yet written; durable: continuation, adoption lease | ensure, open, register, undo, reap (chat, scope, all), adopt | an open is slow; consent, chat or connection go meanwhile | no vendor session without owner; a killed turn is not resumed; a live lease is not taken |
| external event stream | sequencer, transcript, approvals, steers, deferred reports | admit, apply, answer, steer, terminate, finish | events lost, repeated, late, of another turn; steers whose write or call is slow | a transcript is whole and its own; live order is durable order; one authorization per approval |
| Local connector | owner, claims, attested connections | connect, withdraw | second owner while the first is opening | attestation only for a sole owner |
| OAuth token service | secret bundle, in-flight refreshes | ensureFresh, forceRefresh, delete | rotation with single flight | no reuse of a rotated token, deletion final |
| generation | active turns, assistant rows, tool calls | start, cancel, recover | crash between stages | no row generating without a live turn |
| file checkpoints | rows and blobs per message | capture, revert | crash between revert and bookkeeping | revert restores exactly the captured state, once |
| MCP and elicitation | pending elicitations, sinks | create, respond, cancel | response races abort | first settlement final |
| terminals, updates, realtime, records, providers, tools, frontend, launcher, the rest of the Rust runtime | — | — | see `PROJECT.json`, with the reason each is left out for now | |

How they interact: the route verifies a pairing token and hands the socket to the manager
(`adopt`); the manager opens a session over a port and gives out a client; a failed request
of that client reports the loss back to the manager; the pairing service disconnects through
the manager when a token is retired; turn routes claim a receipt before they dispatch work
and settle it from the stream they drain. The external turn controller asks the session
manager for a handle, subscribes to its events, lets the submission loop hand the turn over,
and finishes the turn when its stream, the user, a reap or the submission ends it; the
runtime answers from receipts of its own. Hazards are listed in `PROJECT.json` at their lines.

## 2. Modules

Every model takes a stretch of code between two awaits as one step: the hub and the
TypeScript session run on one event loop, so nothing interleaves inside a stretch, and
anything may happen between two.

### `MangoSession`: two sessions and the wire between them

Both ends run `session.ts`. A variable per field (`#state`, `#remote`, `#pending`, `#active`,
`#eventSequences`, `#awaitingPong`, `#closure`), one `call` record per caller of `request()`,
and per direction a sequence of frames, `wire`. `started` and `heard` are history.

| code | model |
| --- | --- |
| constructor, `#startHandshake`, handshake timer | `Open`, `HandshakeTimeout` |
| `#receive` by frame type | `ReceiveHello`, `ReceiveRequest`, `ReceiveAnswer`, `ReceiveEvent`, `ReceiveCancel`, `ReceivePing`, `ReceivePong`, `ReceiveClose` |
| `request()` before and after `await ready` | `Request`, then `RequestRefused` or `RequestSend`; `Abort`, `RequestTimeout` |
| `#dispatch`, handlers | `ReceiveRequest` with the ordered refusals, `HandlerReturns`, `HandlerThrows` |
| `emit`, `ping`, `close`, `#settleHandlers` | `Emit`, `Ping`, `Close`, `CloseResolves` |
| liveness interval | `LivenessTick` |
| port failure, report of closure, end of file, oversized frame | `PortLost`, `PortReports`, `PortEnds`, `ReceiveOversized` |
| a half-open connection (external) | `LinkDies` |

Payloads are sizes, so that the two ceilings can be told apart; frames whose content the
application does not choose have size 0. Methods are `app` or `rpc` (the reserved discovery
method, which needs wire minor 1). Schema validation is left out.

`CallPromise` is what `request()` promises: a call ends once, an outcome that reports the work
(`result`, or the handler's own failure) is of work that was begun, and a refusal is of work that
was not and never will be, which is what makes the in-flight limit of spec 11.2 safe to retry.
That no request is begun twice is `HandlersRunOnce`. `Progress` maps a `call` record and `started`
of the other end to it. `TIMEOUT`, `UNAVAILABLE` (the connection ended) and `FRAME_TOO_LARGE`
promise neither: the last is said of a request that was never sent and of a result that did not
fit. The model names every refusal of `#dispatch` apart, and calls `REMOTE` an error whose code
the handler chose. On the wire only the in-flight refusal has a `details.kind`: a caller cannot
tell the handshake refusal from an ended connection, nor a refusal from a handler that throws the
same code and details, and may rely on the promise only where it can.

### `RuntimeConnections`: one entry of the connection manager

Entries share no state, so one user and environment is modelled. An *attempt* is a
`connect()` of the hub or, when it is one of `adopters`, a socket that dials in, and names
the connection it produces; `Environments` are the sets of sockets to consider. An attempt
has an `opener` (the work that may deliver a connection) and a `promise` (what callers wait
for): an abort ends the promise and only tells the opener, which is why late connections
exist. `ownership` and `conn` are the teardowns `#trackTeardown` follows. `burst` is
history: connects since the backoff was last forgiven.

| code | model |
| --- | --- |
| `connect` to its first await, resolve, deadline | `Connect`, `Resolve`, `Deadline` |
| `#ownOpening` callbacks, `accept` | `OpenerConnects` (with `Accepts`), `OpenerFails` |
| `#readHostedAgents`, catch and finally | `ReadHostedAgents`, `HostedAgentsRead`, `ConnectFails` |
| `adopt` | `AdoptStart`, `AdoptRefused`, `AdoptTakesOver`, `AdoptFails` |
| `#markUnavailable`, `#release`, `disconnect` | `Unavailable`, `Release`, `Disconnect` |
| `boundOpening`, `#closeConnection` | `OpenerExpires`, `CloseSettles` |
| `shutdown`, `#awaitTeardowns` | `Shutdown`, `ShutdownSettles` |
| `clearBackoff`, `expectUpdateDisconnect`, `refreshManifestIfStale` | `ClearBackoff`, `ExpectUpdate`, `RefreshStart`, `RefreshAnswer` |

`Deadline` is possible for every attempt of the hub, although the default table of deadlines
names few transports. A lazy caller that is refused by the backoff changes nothing, so
`Connect` simply assumes the deadline has passed unless it is infinite.

### `RuntimeSockets`: the dial-in route, pairing and the manager together

Extends `RuntimeConnections`: the route's steps are conjoined with the manager's own actions
(`Adopt` takes `AdoptStart`, the close event takes `Disconnect`), and every other step of the
manager goes on around them. `adopted` and `socketClosed` are the fields of the socket's
state; a token is the number of its issue; `retiring` counts calls between the write that
retires a token and the disconnect behind it. `OwnerStep` and `RefreshStep` of the manager
(backoff, shutdown, manifest) touch nothing the route reads and are left out. An opener may
still succeed after its socket closed, which is more than the code allows.

### `ProductOperations` and `OperationPromise`: idempotency receipts and what they promise

One operation id of one user. Requests (`create`, `respond`, `stream`, `lookup`) run their
handlers statement by statement; each statement may be refused by storage where the code
handles that (`ok`), the row may expire, and the hub may restart, which loses handlers,
running work and the verdicts kept in memory and changes `owner`. Creating a chat is one
transaction, hence one step. How a drained stream's events decide the outcome is abstracted
to the outcome itself.

`OperationPromise` is the abstract specification: work for one request at most, one verdict,
honest about the work, and everyone who hears a verdict hears that one. `ProductOperations`
instantiates it as `Promise` with a refinement mapping (`work` from what was dispatched and
how it ended, `record` from the row's terminal state, `heard` from the answers), and
`KeepsPromise` says that it implements it. The promise covers what an operation id is for:
reads that answer "in progress" and every storage failure are stutters.

### `ExternalSubmission`: handing one turn to a vendor

One turn, or one native review, from its persisted start to its sealed receipts. `loop` has
the locals and program counter of `submitExternalTurn`/`runAttempt`, `turn` the controller's
closure (`terminalReason`, `submitting`, `dispatchPending`), `row` and `ledger` are durable,
`frame` is each request and where it or its answer is, and `receipt`, `slot`, `open`,
`running` are the runtime's (`turns.rs`). Sessions are numbered as the hub opens them.

| code | model |
| --- | --- |
| loop head, reopen of a lost session | `Top`, `Reacquired`, `ReacquireFails` |
| receipt before the request, request | `Insert`, `InsertFails`, `SendRequest` |
| answers: accepted, refused, proof of absence, no reply | `Receive` with `OnFailure`, `ReplyLost` with `NoReply` |
| awaited compare-and-set on the receipt | `Written`, `WriteFails` with `AfterWrite` |
| stop seen at the head of the attempt | `HeadEnds` |
| `applySubmission`, `terminate`, `finish` | `ApplySubmission`, `Terminated`, `FinishFlush`, `FinishMessage`, `FinishSeal` |
| abort of the active turn, reaps, dropped link | `UserStop`, `Reap`, `Disconnect` |
| crash, `reconcileExternalTurns`, `sealOrphanedExternalTurnAttempts` | `Crash`, `Boot`, `SweepMessage`, `SweepReceipts` |
| `admit`, `turn`, `discard`, `refused_start`, `cancel`, close | `Admit`, `StartAccepted`, `StartDiscarded`, `StartAbsent`, `StartUnknown`, `CancelArrives`, `RuntimeCloses` |

Waiting times are left out (a wait is the possibility of other steps before the next one);
so are fingerprints, since one turn sends one input. `InOrder` is an assumption, see below.

### `ExternalSessions`: which vendor session a chat has

`live` is the manager's `sessions`, `opener` an entry of `opening` with the locals of
`openSession`, `row` the continuation, `lease` the adoption leases, `unwritten` the marks
that could not be stored. Generation numbers are only compared across one open, so `opener`
keeps what the comparison tells (`reaped`, and whether the reap kept the pointer). A turn has
the stages that matter to a session: held by the hub, sent, taken by the vendor, running,
ended, recorded. `listening` has the chats whose failed open left its `onClose` listener.
`killed`, `forgot`, `lost` are history.

| code | model |
| --- | --- |
| `ensureSession`, the submission's reopen | `Ensure`, `Reacquire`, `OpenFrom`, `DropFails` |
| awaits of `openSession` | `OpenCall`, `OpenFails`, `Opened` (the runtime's end), `Answered`, `WriteRow`, `Settle` (`Register` or `Undo`) |
| an open's timer with the answer on the wire; its writes that throw | `AnswerTooLate`, `OpenWriteFails` |
| `reap`, its deletes and its close | `ReapOf`, `DropAndClose` |
| `reapChat`, `reapScope`, consent revoked, `reapAll`, `onClose`, `retire` | `ReapChat`, `ReapScopeKeep`, `ConsentRevoked`, `ReapAll`, `Disconnect`, `Retire` |
| adoption, expiry and refresh of the lease | `Adopt`, `LeaseExpires`, `Refreshed` |
| `recordEndOnConversation`, `setUnresumable`, transcript writes | `EndTurn`, `RecordEnd`, `Checkpoint`, `SettleMessage` |
| boot sweep | `Restart` with `SweptRows` |

The statements of one reap, and those of one undo, are one step, and so is the read of the
row at the head of an open with the deletes that follow it. Every database write in them may
throw where the code has no `try`: a reap then ends before its close, an undo likewise, an
open ends where it stands, and the sender or the retiring submission is refused. In a reap of
several chats each may fail by itself (`Promise.all`). A session nobody will close goes to
`lost`. `MaxFault` counts the steps in which something fails. The close itself cannot fail in
a way another step sees: `closeRemote` swallows every error, and the session counts as asked
to close. The retry at the runtime's cap
repeats `OpenCall`; the stale check of a second sender with another binding is left out, as
it only waits for the open and starts over.

### `ExternalTurnEvents`: one session's event stream

`log` is every envelope the runtime numbered, `wire` those under way, `cursor`, `liveTurn`
and `ended` the sequencer, `parts` and `sealed` the transcript, `live` what the observer was
told and `deferred` what waits behind a steer; `registry` and `decision` are approvals,
`steer` and `writes` steers and their queue of required writes. A turn's number is its native
id; `bound` has the turns whose id the hub learned.

| code | model |
| --- | --- |
| `subscribe`, `bindAccepted`, `failStart` | `Start`, `Accepted`, `StartFails` |
| `onEvent`, `admit`, `onEnvelope`, transcript `apply` | `Deliver` with `Verdict`, `Advance`, `Apply`, `Card`, `Report`, `Ending` |
| `terminate`, its grace, `finish` | `Terminate`, `Settled`, `FinishMark`, `FinishRow` |
| `steer`, its writes and the vendor's answer | `SteerTurn`, `SteerWritten`, `SteerAnswered`, `SteerFixed`, `SteerWriteFails`, `Leave` |
| `answerApproval`, registry `answer` | `Answer`, `Forwarded`, `ForwardFails` |

Left out: the text of events and kinds that neither end a turn nor ask something, envelopes
with an idempotency key (nothing produces one), unrecognised events, the `cancelled` marker
(it renames `completed`), answers the registry refuses, which change nothing, and the repeat
of an accepted answer (`external-approval-registry.ts:174-179`), which closes the card as
`user` (`external-turn-controller.ts:1308-1312`) without telling the vendor again; no
property reads the card.

### Proof and MC modules

`MangoSessionProofs` and, on top of it, `MangoSessionRequestProofs`, `RuntimeConnectionsProofs`,
`RuntimeSocketsProofs`, `ProductOperationsProofs`, `ExternalSubmissionProofs`,
`ExternalSessionsProofs` and `ExternalTurnEventsProofs` hold the theorems of the modules they
extend; see section 6.
`MC*` modules add option sets, symmetry and, where one graph holds two instances, what each
of the two leaves out.

## 3. Runs

| run | instance | shows |
| --- | --- | --- |
| `session_calls` | two overlapping calls with limits of one and two, broken transport, owner close; or one call beside events of both sizes on three keys under a ceiling of two, between ends of different ceilings | a request is in exactly one place; pending table and callers agree; a handler keeps its slot until it ends and only a caller that gave up has it aborted; streams without gap or repeat; no frame over the receiver's ceiling as long as errors fit; the sessions implement `CallPromise` |
| `session_duplex` | both ends request, every combination of versions, errors over a ceiling | version agreement, no refusal for breaking the protocol between compliant ends, first outcome final, handlers run once |
| `session_liveness` | one call, both ends probing, a transport that breaks or dies silently | calls settle, closures spread |
| `connections` | three attempts of the hub, latch after two failures; or two sockets and one attempt of the hub | no orphaned connection, true status, openers told of a takeover, bounded crash loop, complete shutdown, manifest current |
| `connections_shutdown` | one socket, one attempt, fair | shutdown ends although an opener hangs |
| `sockets` | two sockets, two tokens | credential honoured, no entry for a dead socket |
| `operations` | three requests, two inputs, one restart | runs once; a reached verdict is kept; implements `OperationPromise` |
| `submission` | a turn or a review, two sessions, two receipts, three requests, one failing write, two crashes | the vendor begins the turn at most once; `not-submitted` is proved; a restart claims nothing it does not know; a run nobody watches is on record; a boot leaves nothing open; a stop settles |
| `ext_sessions` | a chat with two bindings and two sessions (a third one on the first binding, after at most one failure), one step with failing writes, one restart, consent withdrawn; or two chats that adopt | no session without owner but the ones lost to a failing write or a late answer; none after withdrawal is known; a killed turn is not resumed but in the recorded ways; a live lease is not taken |
| `turn_events` | two turns, three events, one loss or repeat, approvals and two windows; or two steers | strays only of turns never bound; no false loss; a transcript misses nothing before what it has; no event before its steer; one authorization; turns end |
| `session_lost_answer`, `turn_events_foreign` | | findings, section 4 |

**Bounds.** Two calls are the least that can confuse ids, cancels and slots; a third only
permutes them. Sizes 1 and 2 against ceilings 1 and 2 give every order of size and limit.
`MaxSeq` 1 with `end` lets a stream continue, end and reopen. `MaxWire` bounds only how far
applications run ahead by emitting and pinging; answers and closes are never blocked. Three
attempts let one be late, one current and one next; a latch after two failures is reached by
them. Three requests of an operation are a claimant, a repeat and a lookup. One restart
separates two owners; more add nothing that `row.owner # owner` could tell apart. Of a
submission, two sessions are the lost one and its replacement, three requests a first, its
resend and one on the new session, and two crashes one during the turn and one during its
sweep. Three vendor sessions are killed, reopened and reopened again after the mark was
lost or cleared. Two turns are the stray's and the next one's, and three events with one
fault are a gap, a repeat or a late event with a good one on either side. The dialled
environment goes without background reads of the manifest, which write nothing another step
reads. All of these systems may really stop (everything closed, every bound used), so
deadlock is not an error in them; the liveness properties say what must not stop.

**Fairness.** Weak fairness of a session's own event loop (frames that arrived are
processed, continuations run, timers fire) and of handlers, which `CallsSettle` needs
because a request without a timeout waits for its handler. Nothing is assumed of
applications. In the manager: continuations, database reads, timers and closes proceed, and a
dialed-in socket ends its handshake by its timeout; an opener of the hub may hang for ever.
In the submission: every await of the hub ends, because each call has a deadline
(`CALL_TIMEOUT_MS`) and each write a result; nothing is assumed of the runtime, the vendor
or the link. In the event stream: the grace timer, the hub's writes and `finish`; steering
calls, the vendor and people may be silent for ever.

**An assumption of `submission`.** `InOrder` says that a request the hub sends after another
one's timeout is admitted after it. The runtime spawns each request as a task
(`mango-protocol/src/session/dispatch.rs:155`); everything `turn()` does before `admit` is
synchronous, so this assumes only that a task spawned a call timeout earlier has been polled
once. With `InOrder = FALSE` TLC violates `VendorRunsOnce`: the resend is refused because the
slot is taken, the hub takes this for proof that nothing was submitted, and the first request
is admitted later. The comment at `external-turn-submission.ts:347-349` ("The runtime's proof
comes from the same receipts every earlier request would have hit") relies on this order.

**Type invariants.** Runs spend their properties on behaviour. The `TypeOK` of
`MangoSession`, `ProductOperations`, `ExternalSubmission` and `ExternalSessions` are theorems;
`RuntimeConnections`' and `SocketTypeOK` are parts of the invariants proved there, and
`ExternalTurnEvents`' proofs use the parts of its own that they need (`StreamTypes`,
`EventTypes`).

## 4. Findings

* `session_lost_answer`: an err frame over the local port's own ceiling makes `port.send`
  throw with the port still open; `#trySend` swallows it and the request is never answered.
  The cause, that `#respondError` does not measure, also lets an error exceed a smaller
  ceiling of the peer, which then closes the session with 4400; `session_calls` therefore
  assumes errors that fit for `CeilingHonoured`.
* `turn_events_foreign`: a turn that is stopped, or whose submission fails, before its
  acceptance is heard has no native id, so `finish` never ends it at the sequencer
  (`external-turn-controller.ts:1191`). If its events arrive while the next turn of the same
  session has no native id yet either, the sequencer has nothing to compare with and they
  are applied to that turn. `StrayEventsAreUnbound`, checked and proved, says that this is
  the only way.

## 5. Divergences

Kept as definitions no run checks: what a comment or a document says, and a behaviour of the
code that TLC shows not to keep it.

* `SupersededMeansTakeover` (`RuntimeConnections`). `spec/mango-protocol-1.md:311` says of
  4409 "Another connection for the same subject took over." `adopt()` gives that reason to
  every connection it refuses (`runtime-connection-manager.ts:869`), also when its revision
  was taken by a lazy `connect()` (line 625); the runtime is told never to come back although
  nothing took over.
* `ReleasesOwnEntryOnly` (`RuntimeSockets`). `runtime-socket-routes.ts:363-365`: "the socket's
  own close handler must not turn around and release it again". `state.adopted = true` (line
  285) is written after the await on `adopt()`, over the `false` a takeover wrote meanwhile,
  and the superseded socket's close event then releases its successor. The two rechecks
  behind it also disconnect whatever is there.
* `RestartLosesOnlyMemory` (`ExternalSessions`). `docs/architecture/external-agents.md:1352`
  calls a mark lost with the hub's memory "the one window left", and the controller says "a
  hub that dies in between is covered by the boot sweep" (line 1182). A transcript write
  between the end of the turn and `recordEndOnConversation` stores the reason; a hub that
  dies after it finds a message that says how it ended, and the sweep does not mark it.
* `KeptContinuationSurvives` (`ExternalSessions`). A reap that keeps the continuation
  ("Continuation is kept", `external-identity-isolation.ts:104`) during an open makes the
  open undo itself, and the undo deletes the row unconditionally
  (`external-session-manager.ts:812`).
* `OneChatPerConversation` (`ExternalSessions`). `docs/reference/agent-playbooks.md:495`: "the
  lease that keeps two chats out of one vendor transcript". An expired lease may be taken
  while its first holder's session is live; both are then attached.
* `LiveAndReloadAgree` (`ExternalTurnEvents`). `external-turn-controller.ts:835`: "so live and
  reload always agree." Two steers may be reported in the order their calls return and not
  in the order they were recorded. What does hold is `NoEventBeforeItsSteer`.

Observed without a definition of their own:

* A vendor session is left without owner or close, until its connection ends or consent is
  withdrawn, in five ways (all in `external-session-manager.ts`): `writeContinuation` throws
  (784); the lease's refresh throws (804); the undo's delete throws before its close (812); a
  delete of a reap throws before its close (667-668); the open's timer (744) fires when the
  runtime's answer is on the wire, and the cancel finds no request (`supervisor.rs:558-566`).
  `lost` holds exactly these, and `NoOrphanSession` says that there is no other. Three callers
  of a reap say less: `delete-chat.ts` "only the vendor's own close call is left in flight",
  `failStart` "only the vendor's close call is slow", and `ensureSession` "Closing it here is
  what keeps a vendor process from outliving the environment".
* `admit`'s docstring (`external-event-sequencer.ts:97-100`) says it advances the cursor
  "when — and only when — the verdict is `apply`" and that a rejected envelope "leaves the state
  untouched". The code advances it for an in-order repeat, `after-terminal` and
  `foreign-turn` too, as its inline comments say; `NoFalseLoss` needs that, and its mutant
  is the docstring.
* A vendor error that arrives before the acceptance marks nothing, although the vendor had
  begun the turn (`turnAccepted`, `forgot.unheard`).
* `reapAll` does not visit opens in flight; they register after the shutdown began.
* A resume that falls back to a new conversation keeps and refreshes the lease of the old.
* After a gap the cursor stays, so every later turn of the session ends `sequence-gap` too.
* A steer that crosses the budget is answered as rejected while its record says accepted.
* An approval answered while the turn ends can be sealed `expired` although it was sent.
* A `closed` refusal after an unanswered request is recorded `terminal`, not `unresolved`.
* `in_flight_limit` refusals cannot be avoided by a requester that respects the announced
  limit, since a timed-out request frees the caller's slot before the handler's; and a
  runtime disconnected during its handshake is told 4403.

## 6. Proofs

All theorems hold for every value of the constants under the assumptions the modules name
(two different ends, typed options and sizes; natural bounds). Liveness, `ENABLED` and
everything about recursive definitions stay with TLC.

`MangoSessionProofs`

* `TypeCorrect`. Teardown and port closure are lemmas of their own because nearly every
  action may end in them.
* `PendingTableCorrect`. `PendingMatchesCallers` is not inductive: that an answer settles one
  caller only needs ids to be at most the counter, and that a new id is fresh needs unsent
  calls to have none. `RequestInv` (per end `TableOK(callers, pending, counter)`) adds both;
  each action changes the table in one of four ways, each a lemma (`TableRejected`,
  `TableKeepsId`, `TableSettled`, `TableSent`).
* `OutcomesAreFinal`, from the same invariant, one step per action.
* `HandshakeSound`. The invariant must speak of the wire: a hello under way is the peer's own,
  a 4426 close tells the truth (`Legal` frames), and what an end knows is what the other
  announced (`KnowledgeInv`).
* `CeilingsHonoured`, from the same invariant, for sizes of errors that fit (`ErrorsFit`);
  the unmeasured err frames of section 4 are why it is a hypothesis.

`MangoSessionRequestProofs`

The properties of this module relate both ends and both queues. `StepShape` shows that every
step has one of twelve shapes (a session ended, opened, greeted, noticed a ping, pong or cancel,
emitted, listened, took an answer, refused, accepted or sent a request, settled a handler, lost
its port), or is the death of the link; each shape says what is appended to the other queue and
what is taken from the own one. The invariant is then shown once per shape and not once per
action. `CallersKeep` says what a step may do to a caller.

* `NobodyBreaksTheProtocol`, `HandlersAreAccounted`, `HandlersRunAtMostOnce` follow from
  `PlaceInv`: until an end is ready a hello is first on its queue or nothing will come
  (`HelloFirst`); what each frame under way says of the two ends (`FrameOK`: a request has an id
  its sender gave out and a method the two agreed on, a result is of a handler that ran, a cancel
  is of a caller that gave up); requests are on the queue once, not started and not answered, and
  active ones are not answered (`PlaceOK`); what runs was started and, while the session is open,
  is what is active, within the limit (`ServeOK`).
* `NeverInTwoPlaces`, from the same invariant, and `OnePlace`, which adds that a pending request
  of an intact connection is somewhere (`Somewhere`). Only that second half needs `ErrorsFit`:
  without it the run `session_lost_answer` shows an answer lost.
* `EventsInOrder`. `StreamsGapFree` is not inductive: an event that joins the queue must go on
  from the last one there, or from what was heard when there is none. `StreamOK` says so with
  `LeadsTo`, while both ends are up; afterwards nothing joins, and what is left of a queue is
  still in order (`GapJoined`, `GapTaken`, `GapPrefix`).
* `CallsKeepPromise`, the refinement. `PlaceInv` says of a result under way that its handler ran,
  but not what a refusal says: `RefusalInv` adds that an `err` under way is one of the codes
  `#dispatch` or a handler gives, that one that reports a handler is of an id that was started and
  one that refuses is of an id that was not (`ErrorTrue`); and that the request of a refused caller
  was not started and is not under way (`RefusalTrue`), which lasts because ids are not reused.
  `CallersTurn` says how far a step takes a caller; a step that starts a handler moves no caller
  (`BegunMoves`), and any other starts none (`TurnedMoves`), so each call makes one abstract move.

`RuntimeConnectionsProofs`

* `ConnectionsInvariant`: `ConnInv`, from which `NothingRunsUnowned`, `StatusIsTruthful`,
  `ManifestIsCurrent`, `OvertakenOpenersTold`, `CrashLoopsLatch` and `ShutdownLeavesNothing`
  follow. Its parts: how far the public promise and the opener of an attempt can be apart
  (`InStep`), that an opener whose promise is settled cannot deliver to the entry (`Disowned`),
  that the connection of the entry is of the attempt that holds the revision (`OneOwner`); every
  connect since the backoff was forgiven is counted but for the one under way (`BurstCounted`)
  and the latch is set in time (`LatchedInTime`); and whatever still runs after admission
  stopped is waited for (`ShutdownWaits`).

`RuntimeSocketsProofs`

* `CredentialsAreHonoured`, `NoSocketHaunts`, on top of `ConnInv`. `ManagerPromises` is what the
  route relies on from one step of the manager (a settled promise stays settled, a connection
  opens only while its promise is undecided); `ServedIsMarked` says that a socket whose adoption
  was answered and that still serves is marked adopted, so that its close event finds it.

`ProductOperationsProofs`

* `OperationRunsOnce`, `TypeCorrect`. `AdmissionInv` says that a handler between claim and
  settlement is alone with the row (`HolderOwnsRow`), that nothing was dispatched while the
  row is only reserved (`HolderBeforeDispatch`), that a row about to be marked unresolved is
  nobody's (`OrphanRow`), and that a verdict waits only for a row (`PendingHasRow`).
* `VerdictsAreFinal`, from `AdmissionInv`: `finishOperation` has no guard in its where clause,
  so finality rests on who can reach it, not on the statement.
* `ReceiptsKeepPromise`, the refinement, and `VerdictsTrueAndShared`. `PromiseInv` adds to
  `AdmissionInv` that a verdict on its way to the row (in memory or in a handler's hands) is
  the outcome of the work it is about, and that answers given equal the row's verdict; then
  each action is one step of the promise or a stutter.
* `VerdictsAreKept`. `KeptInv` adds that no row is of a process that has not started (so a
  restart makes every row a stranger's) and that a request which only reads dispatched nothing.

`ExternalSubmissionProofs`

* `TheVendorRunsOnce`, `NotSubmittedProves`, `RestartsAreHonest`, `UnwatchedRunsAreOnRecord`
  rest on `SubmissionInv` and on the hypothesis `InOrder`: a request sent after another one's
  timeout is admitted after it. The runtime spawns a task per request in frame order, so the
  order is what the scheduler nearly always gives, and the theorems say what depends on it; the
  runs set `InOrder` too. The invariant: at most one session starts the turn and requests that
  joined wait for that one (`OneStart`); a run spends whatever is still under way (`RunSpends`);
  every request goes to the session the hub holds (`OneTarget`); between attempts, and once a
  refusal was taken as proof, there is no run (`ProofOfNoRun`); what each answer proves
  (`AnswerProves`); what each receipt proves (`ReceiptProves`, `ReasonProves`); and what the hub
  still does about a run it started (`Watched`).
* `BootsLeaveNothingOpen` and `SubmissionTypes` need no order: `BasicInv`.

`ExternalSessionsProofs`

* `NoSessionIsOrphaned`, `WithdrawalCloses`, `SessionTypes`: `SessionInv` adds that a chat opens
  a session only while it has none, that sessions asked for have a number (`Numbered`), and
  that an open the vendor answered before the hub learned
  of a withdrawal carries the reap that undoes it (`WithdrawnReapsOpens`).
* `LeasesAreHonoured`, an action property, one step per action.
* `KilledTurnsStayDown`. `KilledInv` says, for a vendor that goes on with a killed turn, that no
  two chats share a session or a conversation (`Apart`), what a row, a registered session, an
  open and a turn agree on (`Agree`), and that a conversation with a killed turn is marked, about
  to be marked or recorded in `forgot`, and carried by no open (`Guarded`); for any other vendor,
  that no turn is killed.

`ExternalTurnEventsProofs`

* `StrayEventsUnbound`. `StrayInv` adds that a bound turn is the current one or in the
  sequencer's terminal set (`BoundIsKnown`), that the sequencer's live turn is the current
  one from its binding to `finish` (`LiveIsCurrent`), and that there is no transcript between
  turns (`IdleIsEmpty`); `AppliedEventIsOwnOrUnbound` is the step that matters.
* `EventsInvariant`: `EventsInv`, from which the next four follow.
* `LossIsReal`. Without a loss the wire is the end of the log and the cursor is not before it
  (`NothingMissing`), so the next envelope is never ahead of the cursor by more than one.
* `ApprovedOnce`. A request is asked by one envelope of the log, the cursor passes it once, and
  a request put to the vendor is resolved or forgotten for good (`ForwardedIsSpent`).
* `TranscriptsAreWhole`: every event of a transcript is the log's at its number, in increasing
  order, and an event of the turn itself stands there with every earlier one of the turn. While
  the transcript is open it has all that was let through (`OpenIsUpToDate`), because an
  envelope of the running turn that is next in order is always applied (`OwnIsApplied`).
* `SteersComeFirst`. Behind a steer that is not finished nothing was reported, and a finished
  one was reported (`HeldBack`); a report is appended when no steer is pending, or right
  behind the last pending steer's own (`LeaveKeeps`).

Only model-checked: the liveness properties, `CallsSettle`, `ClosureSpreads`, `ShutdownEnds`,
`StopSettles` and `TurnEnds` (fairness and `ENABLED` are out of the prover's reach). Every
invariant and every action property of a passing run is stated by a theorem.

## 7. Not modelled, and the plan

Not modelled: byte-level framing, operating system handles, vendor protocols, the Rust
implementation of the session and of the runtime beyond external turns, the frontend,
translations, schemas and single-statement records, which are most of the repository's lines;
the map covers the concurrent core only.

Order of further work:

1. **Hub**: `OAuthTokens` (single flight, rotation, deletion), `LocalConnector` (owner claims
   and withdrawal), environment edits against connects, the turn registry with its recovery,
   file checkpoints.
2. **Transport**: `NdjsonPort` and `WebSocketPort` (drain deadlines, backpressure, report
   once), shown to implement the ordered wire `MangoSession` assumes; chunk reassembly and
   line decoding as functions checked against concatenation; child termination escalation.
3. **Abstractions**: an at-most-once turn as the specification `ExternalSubmission` implements.
