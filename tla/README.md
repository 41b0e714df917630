# TLA+ verification of OpenDigitalTwin (Project V5 and Runtime Gateway)

OpenDigitalTwin is a robot-workcell simulator that runs in the browser.  The
active application (Project V5) keeps its Projects in IndexedDB, builds a
runtime graph from the current one, and hands that Project to a Node process,
the Runtime Gateway, which serves it over OPC UA and streams state batches.
Nothing coordinates the three but the code itself: there is no transaction that
spans IndexedDB, the browser's heap and the Gateway, several tabs may be open
on one origin, and every call to the Gateway may be lost or time out.  That is
what modules A to D model.  Below them runs the data plane: the Gateway is an
OPC UA client of the machines' servers, publishes what they say to every page
over a WebSocket, and writes to them what the robot jobs of a page ask for.
That loop, with its sessions, sockets, timers and jobs, is module group E.

Paths below are relative to the repository root.  `P:` abbreviates
`src/features/project/v5/project-v5-publication.ts`, `R:` is
`src/features/project/v5/project-v5-repository.ts`, `B:` is
`src/features/project/v5/browser-project-runtime-v5.ts`, `M:` is
`middleware/runtime-gateway/main.ts` and `A:` is
`middleware/runtime-gateway/opcua-client-adapter.ts`.

## 1. Inventory

| Component | State | Operations | Talks to | What is hard |
|---|---|---|---|---|
| Repository (`R:`, `project-v5-db.ts`) | revision rows, the pointer (`stable` or `publishing` with its rollback target), a prepared handle per tab | prepare, discard, commit, finalize, compensate, garbage collection, reads | IndexedDB transactions of all tabs | lost commit responses, another tab's commit between two calls, collection of rows a rollback needs |
| Publication coordinator (`P:`) | published revision, `recoveryRequired`, a serial tail, retained cleanup tasks | `replace`, `hydrate`, `retryCleanup`, `dispose` | repository, Browser runtime, Gateway client | partial failure of three authorities, ambiguous outcomes, reload between any two steps, two tabs |
| Gateway client (`runtime-gateway-connectivity-client.ts`) | the prepared attempt | prepare, activate, rollback, deactivate, status, browse | HTTP | ambiguous rollback: status, one retry, terminal status |
| Gateway transitions (`M:` 609-1093, 1741-1800) | active runtime, authority phase, residual cleanup, transition queue | PUT, DELETE (fenced or not), `stop()` | adapters, hub, HTTP | adapters that fail to start or stop, transitions queued behind a shutdown |
| Browser product commands (lease, dedupe, dispatch, staging) | publisher lease and generation, pending commands, settled results, staged inputs | OPC UA Execute, acquire/renew/release, result, expiry | OPC UA server, one browser socket | a result that races expiry, takeover, socket close or replacement of the runtime |
| State batch hub (`state-batch-hub.ts`, `runtime-stream-timeline.ts`) | per endpoint: admission (session and source sequence), replay cache, wire sequence; per socket: the frame being sent, cuts to send next, a pending timeline | publish, attach, send callback or failure, detach, activation (prepare, install, flush), deactivation | browser sockets, client adapter | slow and late sockets, coalescing across sessions, limits, wire exhaustion, activation under a busy socket |
| OPC UA client adapter (`A:`) | per endpoint: generation, connection, attempt, retry timer, recovery, cleanup queue and pass, residual handles, session and source counters | start, stop, reconnect, disconnect, each await of an attempt, notification, loss, each close of a pass | remote OPC UA servers, hub | a loss, a stop or a reconnect while an attempt or a cleanup awaits; handles obtained too late; closes that fail |
| Client write path (`runtime-gateway-command-client.ts`, `runtime-command-service.ts`, `opcua-client-write-service.ts`) | cached lease, the write under way of each job, how far the Gateway got | lease, post, retry, abort, check, read namespaces, write | client adapter, jobs | stale lease and retry, lost answer, session replaced in the middle, job over before the answer |
| OPC UA server adapter and models | address space | start, stop, publish | node-opcua | partial start; layout of the address space |
| Browser Project runtime and bundle cell (`B:`, `browser-runtime-bundle-store-v5.ts`) | the graphs with their candidate state, the graph in force, its generation, the open transition | prepare, apply, commit, rollback, deactivate, finalize, dispose, start of the stream | jobs, command client, stream, signals | calls that overlap while the jobs are waited for; dispose in the middle; rollback of a commit |
| State stream (`runtime-gateway-state-stream.ts`) | one socket candidate, a reconnect timer, per endpoint the last wire sequence and lifecycle, the boundary being collected | start, stop, refresh, open, frame, close, timer | Gateway hub, signal stores | frames of a socket given up, boundaries cut short, restart of the wire sequence |
| Browser command client and owner | lease, commands being executed | acquire, renew, execute, release | Gateway commands, job executor | renewal racing loss of the lease |
| Job executor and simulation clock (`job-executor.ts`, `simulation-clock.ts`) | runs, the session of each robot, what is shown, ticks under way, a frame on order, quiesced | start, cancel, frame, answer, quiesce, resume, dispose | joint store, attachments, command client | a job cancelled, replaced or suspended while an instruction awaits an answer |
| Runtime stores (joints, frames, objects, attachments, signals) | last values and their quality, catch-up guard | ingest, replay prefix, endpoint lost or reset, catch-up | viewport, jobs | a guard left behind by a connection given up; older values after a reconnect |
| Validation, kinematics, collision, codecs | none | pure functions | callers | numeric |
| UI, legacy V4, scripts | presentation | | stores | not protocol logic |

Correctness, component by component:

* Repository: each publication is decided once; whatever the pointer names, or
  a compensation would return to, is stored; seen from outside it is a register.
* Publication: a `replace` that resolved is durable, one that rejected cleanly
  is not; after a clean rejection pointer, runtime and Gateway agree again; a
  tab never goes on with an authority another tab has replaced; operations end.
* Gateway transitions: authority moves only as a request asked; no adapter is
  lost while it holds a port or a session; nothing runs after `stop()` unless its
  client hung up while `stop()` waited.
* Product commands: one terminal result per command; no result accepted from a
  publisher that lost its lease.
* Hub and stream: every page that is up to date shows what the hub's cache
  holds; no frame is one the page has to refuse; pending timelines are bounded.
* Client adapter: an endpoint either hears its server or has something under way
  to that end; a stop leaves nothing at the server; the hub takes in every
  connection and every loss, whatever the server's clock says.
* Pages: no value gives way to an older one, and none is GOOD without a
  connection; the stream runs exactly while there is a graph to feed.
* Writes and jobs: a set-do reaches the server once per pass; a run that is over
  neither moves the robot nor changes what is shown.
* Browser runtime: only the graph in force runs, every other one is a candidate,
  can be gone back to, or is disposed of.

## 2. Plan

| | Modules | Status |
|---|---|---|
| A | `DurablePublication` (abstract register), `ProjectRepository` | done, proved in `ProjectPublication_proofs` |
| B | `ProjectPublication` (composes A with tabs, Gateway and runtimes), `ProjectPublication_proofs` | done; durability, types, the Gateway's promise and its attempts, and the agreement of a single tab proved |
| C | `GatewayAuthority` (abstract authority), `GatewayActivation`, `GatewayActivation_proofs` | done, proved |
| D | `BrowserCommands` (lease, dedupe registry, dispatch, pending commands, sockets), `BrowserCommands_proofs` | done, safety proved |
| E | `StateBatchHub`, `LogicalSignals`, `BrowserStateStream`, `ClientEndpoint` and their composition `DataPlane`; `StateStream_proofs` | done; that no stream is stuck and that good values are live proved |
| F | `RobotJobs`, `SignalWrites`, `BrowserProjectRuntime` and the composition of all, `Workcell`; `RobotJobs_proofs` (the operations of the jobs), `Workcell_proofs` (the steps) | done; graphs, jobs and set-dos of a page proved |
| G | `ClientEndpoint_proofs`, `FoldInduction` (induction over a fold) | done; stops leave nothing, no endpoint is stranded and the hub follows what they publish, proved in the composition |
| H | `CleanupDrain`: retry generations of `retryCleanup` and its timeout race (`P:` 282, 422-466) | not done |

B uses A by `EXTENDS` and implements C's abstract specification
(`GatewayFollowsAuthority`), and so does C's detailed one
(`ImplementsAuthority`): the two models of the Gateway, one seen from the
browser, the other from its adapters, make the same promise, and both
refinements are proved.  Theorems still worth proving: `NoStaleAuthority`, for
several tabs and faults without a slow Gateway, and that the pages read what the hub
sent (`NoFrameRefused`, `QuietPagesAgree`).
D stands alone: it sees C's transitions as the actions
`BeginTransition`, `Recover`, `Install`, `LoseAuthority` and `Withdraw`.

The modules of E and F extend one another:
`StateBatchHub` <- `LogicalSignals` <- `BrowserStateStream`;
`StateBatchHub` <- `ClientEndpoint`; `DataPlane` has both.
`LogicalSignals` <- `RobotJobs`; `SignalWrites` has `RobotJobs` and
`ClientEndpoint`; `BrowserProjectRuntime` has `DataPlane` and `SignalWrites`, and
`Workcell` closes the loop.  A component that never awaits (hub, signal store,
jobs) is a set of functions from its state to the next, and the
module of the caller has the action: so one action is everything one event
does, across all components it reaches.

## 3. Modules and code

### A. `ProjectRepository` over `DurablePublication`

`Clients` are tabs, each with one prepared handle.  The variables are the
stored rows (`revisions`), the `pointer` record and the handles; every method
of `R:` that writes is one action, because each runs in one IndexedDB
transaction.  `CommitResponseLost` is the same transaction with its promise
rejected; an aborted one only marks the handle `failed` (`R:` 278-281).
Garbage collection keeps the current revision and both rollback targets
(`R:` 358ff).  History variables record which tokens were finalized and
compensated.  A Project is its revision id and content; parsing, hashing and the
corruption checks are reduced to equality of contents.

`DurablePublication` is what callers are promised: a register with one
announced publication at a time, which is then decided or withdrawn.

### B. `ProjectPublication`

One action is the code between two awaits of `replace` (`P:` 584-716) or
`hydrate` (`P:` 720-899), with the outcome of the awaited call.  `pc[t]` names
the await, `op[t]` holds the locals that survive it, `published`, `settled`,
`recovery` and `cleanup` the coordinator's fields, `runtime[t]` the tab's graph.
The Gateway is its authority, its phase and its queue of transitions; a queued
request remembers whether its sender still waits.  Faults are environment
choices, one class each: lost request or answer, adapter failure, a transition
that outlives its request, runtime refusal, aborted or lost commit, lost storage
response, reload.  A config names the classes it allows and how many.

A hydration gives up in one of three ways (`RollbackRuntime`).  It asks for recovery
when a rollback failed, or when a first publication, or the previous one that it
was restoring after a compensation, never came up.  It rejects cleanly when all that
was wrong is that the pointer had changed meanwhile: `restoreCompensatedPrevious`
returns the promise of `rollbackActivation` without awaiting it (`P:` 790), so its
rejection passes by the `catch` around it, and the tab may go on.  And an interrupted
publication over a previous one is compensated.

### C. `GatewayActivation` over `GatewayAuthority`

`activeRuntime`, `projectAuthorityPhase`, `residualRuntimeCleanup` and
`runtimeTail` are the variables of `M:`; `transition` is the stage of the
running transition and its locals; `adapters` gives the server and the client
adapter of each runtime.  A PUT stops the previous adapters, starts the
candidate's, and installs it in a synchronous tail (`M:` 609-811); its failure
path cleans the candidate up, keeps what would not stop as residue and restarts
the previous adapters (`M:` 812-1010).  DELETE stops residue and active adapters
(`M:` 1045-1093).  `stop()` queues a close transition, then waits for the HTTP
server (`M:` 1741-1800).  Bodies are read before a request joins the queue, so
a request can be queued behind the close transition.  The HTTP server closes when
its connections have ended, which is not when the queue is empty: a client that hangs
up (`HangUp`; the browser's does after five seconds) takes its connection along and
leaves its transition.  `FinishStop` therefore waits for those that still have a client
(`waiting`), and a transition of a client that has gone may run before, during or after
it, and meet the hub that `closeService` makes at its end.  `forsaken` are the runtimes
of such PUTs.

`GatewayAuthority` has the authority and the phase only: an activation may
install, keep or deactivate according to its fence, and nothing else changes it.

### D. `BrowserCommands`

An OPC UA client writes `Execute`; `browser-command-dispatch.ts` checks the
publisher lease, asks the dedupe registry, publishes RUNNING and sends a batch
to the browser that holds the lease; `M:` 467-504 keeps it in
`pendingBrowserCommands` until an answer, a timeout, a transport failure or the
loss of lease or revision settles it; the continuation in dispatch fences the
result by the lease and publishes it to the product model.

`lease`, `generation` and `leaseTimer` are the lease manager and
`browserLeaseExpiryTimer`; `publisher` and `socketLease` are
`browserPublisherSocket` and `browserLeasesBySocket`; `records` is the registry,
`pending` the table, `completing` the promises that are resolved and whose
continuation has not run, `sends` the batches a browser still has to answer,
`published` the result nodes of the product model, which are keyed by request id
alone.  One action per message (`AcquireLease`, `RenewLease`, `ReleaseLease`,
`BrowserResult`, `StrayResult`, `IgnoredResult`), per timer (`LeaseTimerFires`,
`CommandTimeout`), per end of a connection and per outcome of `Execute`.
`LeaseDue` is the passing of the lease's time, which nobody notices before
somebody calls `tick()`: that separation is where finding 4 lives.

Abstractions of D: a request is its id and a variant of the rest of its
fingerprint; a command's own expiry may come at any time; a rejection carries no
lease; a record evicted from the registry is any settled one (the code takes the
oldest); a continuation may run later than it would, so every interleaving of
the code is one of the model; the send callback runs before its connection is
closed; the product model's own retention limit (4096 results), the staging of
arguments, integration diagnostics and the client-write channel of the registry
are left out; what an old runtime publishes after a replacement reaches nobody.
The expiry timer is taken to fire no earlier than the lease is due: wall clock
and timers are assumed to agree.

### E. The data plane: `DataPlane`

`StateBatchHub` is the hub, one record `hub`; each operation of the code is one
function.  `Published` is `publish` (admission, cache, one wire sequence, an idle
socket is sent the frame, a busy one gets it appended to its pending timeline),
`Attached` makes the replay, `Called` and `Failed` are the callback of
`socket.send`, `Activated` and `Deactivated` the transitions of `M:`.  A pending
timeline keeps one message per channel and the lifecycle barriers between
(`Extended`); frames are cut only when the socket is free.

`ClientEndpoint` is the adapter, `runtime[e]` an `EndpointRuntimeV1`.  One action is
the code up to the next await: `ConnectProceeds`, `ConnectFails` and
`ConnectOvertaken` follow an attempt through its four stages (`A:` 1168-1284), the
last when its generation is over; `ConnectionLost`, `Notification` and
`ReconnectTimerFires` are callbacks; `CleanupBegins`, `HandleCloses` and
`HandleCloseFails` a cleanup pass, one handle at a time; `StartEndpoints`,
`StopEndpoints`, `BrowseReleased`, `BrowseNotReleased` and `HaltSettles` the calls of
`M:`.  `held` and `residual` are the handles the code knows, `open` those the server
has, which no program variable holds: the leak property is about it.

`LogicalSignals` is the signal store behind the lifecycle router, per page and
endpoint, with the guard of a catch-up (`guard.under` is whether there is one); `BrowserStateStream` the page's end of the socket: `Handled` is what one
frame does, from the envelope to the stores; `Rejected` closes the candidate and
sets the timer.

`DataPlane` adds `M:`: `feed` says where the adapter's publications go (a staging
timeline until the activation, then the hub), and the actions `StartCandidate`,
`Activate`, `StopPrevious`, `RecoverPrevious`, `Withdraw` and `Deactivate` are what C's
transitions do to the one client adapter.  Sockets open, close, break and deliver
at any time.

### F. Jobs, writes and graphs: `Workcell`

`RobotJobs` is executor, playback controller and job store of one page; `Executed` is
a tick, which carries a run through its instructions until one has to wait, and
`Answered` the continuation after an awaited one.  `SignalWrites` follows a set-do
from the page's command client over the Gateway's checks to the session of the
endpoint: `write[i].client` is what the page waits for, `write[i].gateway` how far
the command got without regard to that.  `BrowserProjectRuntime` has the graphs of
each page, `project[b]`: one action per method and per continuation of `B:`.  It
also starts and stops the page's stream and decides what it is fed for.

`Workcell` composes all of it, with the operations of a user on the page and the
clock.

### Abstractions of E and F

* A value is named by the publisher and the source sequence that brought it; a
  notification is good or not, and has a stamp: the source timestamp, by the server's
  clock, which may go back or be ahead.  Hub and signal store compare stamps per channel
  (`InOrder`) and with the published timestamp of the same batch (`Ahead`).  The published
  timestamps are one constant, `GatewayTime`: each endpoint's never go back, and the hub
  admits afresh when another adapter takes over, so the comparisons among them always
  succeed.  The time of receipt is left out.  So are values, byte limits, the splitting of
  batches and the LRU bound of the cache.  One channel stands for a
  monitored root with its group.
* A frame is handled in one call; queues for reentrant calls of a socket or a
  store are left out.  Every connection has a socket of its own out of a pool of
  three; a connection's buffers hold `MaxNet` frames.
* The joint, frame and object stores follow the same four calls as the signal
  store, which stands for them.
* Of a failed PUT only what becomes of the previous client adapter is modelled
  (`RecoverPrevious`, `RecoveryFails`, `RecoveryRequired`); the rest is C.
* Jobs: playback is the only caller of `advanceRobot`; `reset()` has no caller in
  production; store calls that throw are left out; all set-do of a run go to one
  endpoint.  The dedupe registry of client writes is that of D.  A cancelled or
  timed-out run's write may land after a newer run's, in the code and in the model.
* Browser runtime: only the first graph has jobs; a bundle is named by its graph;
  `finalize()` and `rollback()` act at once instead of one microtask later; the wait
  for the jobs may last longer than it would; apply may fail at any time.
  Callers are arbitrary (the publication coordinator is more careful), except that
  the stream is started as `AppV6.tsx` does, once, after the bootstrap, and that
  nobody applies or commits a handle that is committed (section 6).
  Notifications of the bundle's listeners and the epoch limit are left out.
* The failure of the Gateway's own clock is left out, and so are diagnostics.

### Abstractions common to A to C

* The Gateway's authority tuple is the revision id and the activation attempt
  (B), or the attempt alone (C, where each runtime is requested once).
* Adapters that the code stops together with `Promise.allSettled` stop in one
  step; each may still end `half`, its stop rejected.
* Rollback and finalize of the Browser runtime succeed while the tab is open.
* A restart of the Gateway process is not modelled in B.
* The answer of a transition reaches the tab in the step that ends it; its loss
  or delay is a fault of its own.
* The cleanup drain runs one task after the other; the timeout that races a
  retry (`P:` 422-466) is not modelled.
* One content in the runs of B: A's run covers clashing contents.

## 4. Runs

| Run | Question | Instance |
|---|---|---|
| `repository` | A's type, retained rows, single decision, refinement of the register | two tabs, two revisions, two contents, three tokens; aborts and lost responses unbounded |
| `one_tab` | type, agreement after a settled operation, abandoned candidates leave the Gateway, the Gateway's authority follows requests | one tab, two revisions, two tokens, six attempts, every fault class except slow transitions, unbounded faults |
| `two_tabs` | a stale authority is never kept; acknowledged is durable; rejected is not | two tabs, the same, one fault |
| `operations_finish` | every operation ends under fairness | two tabs, every class, one fault |
| `aborted_commit`, `slow_gateway`, `reload_recovers` | findings, section 6 | one tab |
| `gateway` | C's invariants and its refinement | three runtimes, two requests at a time, symmetry |
| `gateway_stop` | `stop()` ends, whatever is queued or running and whoever hangs up | two runtimes, one request beside the running one |
| `product_commands` | D's type, lease, registry, results and liveness | two connections, one request with two argument sets, two leases per runtime, a registry of one record |
| `lease_expiry` | finding 4 | one connection, one request |
| `workcell` | the properties of E and F, together | two endpoints, two channels, two pages, two robots, three sockets, runs and graphs; twenty-three scenarios |

Why the bounds are enough.  A publication relates a current revision, a
candidate and a rollback target: two revisions and the empty pointer give all
three, and the same revision under a new token is the reimport case.  An
operation mints at most two attempts, six let three operations follow each
other.  A third runtime in C lets a candidate fail over a previous one while
the residue of an older one remains; with two queued requests a PUT and a DELETE
wait behind a running transition.  For the end of `stop()` one request beside the
running transition is enough: it is half read, or queued before or behind the close
transition, and its client stays or hangs up.  `one_tab` never times out at the Gateway (its
faults are lost messages) and never meets a winner; `operations_finish` covers
the former, `two_tabs` the latter.
In D a second lease replaces, follows or outlives the first, a second connection
displaces or survives the other, and a registry of one record is full with the
first command.  Requests meet only in the registry's capacity, which two
generations of one request exercise, and in `StrayResult`; the same properties
were also checked with one connection and two requests, with three leases, and
with a registry of two records.

`workcell` checks the union of twenty-three scenarios (`MCWorkcell.tla` names them): each
confines its behaviours to a Project, pages and programs, and to how often each
kind of event may happen, and leaves their order free.  Losses, failed
closes, stops and restarts of an endpoint (`Cleanup`, `Outage`, `Restart`); broken
and late sockets, two pages, two endpoints on one socket (`Broken`, `TwoPages`,
`TwoEndpoints`); a second activation, also of another revision (`Renewal`,
`Replacement`); a server whose clock goes back or is ahead, with a page that keeps up
and one that does not, over a loss and over a second activation (`Clocks`,
`ClockOutage`, `ClockRenewal`); a page that goes to another graph or to none and perhaps back
(`Switch`, `Return`), with three overlapping calls and an end in the middle
(`Overlap`); a job that writes and waits (`Handshake`), under losses, replaced
adapters and retries (`Lost`, `Handover`); two robots in one playback (`Playback`),
transitions under them (`Interval`, `Replay`, `Interlude`); a run replaced while its
write is on its way (`Rerun`, `Regraph`).  One scenario with all of it would be far
beyond TLC; the budgets were raised until the events a property is about occur
together, and a mutant of every property is found within them.  `MaxWire` = 9,
`MaxSource` = 6 and `MaxSession` = 3 are small enough that each counter runs out in
some scenario and large enough that the ordinary course of events fits below;
`MaxBarriers` = 2 lets one loss and one reconnect pend and the next one overflow;
`MaxNet` = 1 makes a socket busy while one frame is under way; stamps 1 to 3 with
`GatewayTime` = 2 are one that is ahead and two that can come in either order.  Three graphs are the
one in force, a candidate and another that the first makes stale.

Deadlock checking is off in B, whose bounds on attempts and tokens end every
behaviour; it stays on in A and D and in C, where a stopped service keeps an explicit
final step.  It is off in `workcell`, where a scenario ends when its budget is spent.

Fairness.  `workcell` assumes none and states no liveness.  What must eventually
happen there is stated as safety: `EndpointNotStranded` and `PageNotStranded` say
that in every state in which the goal is not reached, a timer, an attempt, a
cleanup, a frame or a callback is pending that leads there.  (Liveness under weak
fairness was tried for pages: with budgets that end, it says no more, and takes
far longer to check.)

B's `FairSpec` gives weak fairness to the progress of the Gateway's
queue and of each tab that has an operation running: awaits settle, because
every client call has a timer and the event loop runs what is ready.  Callers
are under no obligation to start operations, and faults are never owed.
`PersistentSpec` adds a user who hydrates again after a failure.  C's `FairSpec`
gives weak fairness to the worker steps of a transition and to the end of
`stop()`; reading a request's body is unfair, because `StartClose` destroys the
connections instead of waiting for them.  D's `FairSpec` owes the timeout of each
pending command and the continuation of each settled one, which are a Node timer
and the microtask queue; browsers, clients and transitions owe nothing.

## 5. Proofs

All proofs hold for every value of the constants, under
`RepositoryAssumption` (Null is not a revision, content or token),
`PublicationAssumption` (Null is no number and no authority),
`ActivationAssumption` (Null is no runtime),
`CommandsAssumption` (Null is no connection; the bounds are natural numbers) and,
for the client adapter, those of the modules of E and F (bounds are natural
numbers; channels, runs and graphs are numbered from 1, and like the endpoints and the
robots finite in number; Null is none of them and no activation of a scenario; the page a scenario names as that of its jobs is a
Browser or Null, its robots are robots and its programs sequences of instructions).

*Repository.*  `RetainedStored` is not inductive: a compensation returns to
`previousRevisionId`, so its row must be kept while the pointer is publishing,
and a commit relies on a handle whose row it writes.  `RepositoryInv` adds the
shape of the pointer (a publishing pointer carries a token, a stable one
none of the rollback fields), the shape of handles, and `TokensDecided` (the
pointer's token is not yet decided while publishing, decided once stable).  From
it follow `RetainedAlwaysStored`, `PublicationDecidedOnce` and the step
simulation of `RepositoryImplementsRegister`.

*Publication.*  Every action of the composed system either leaves the database
alone or is an action of the repository (`PublicationRefinesRepository`), so the
repository's theorems carry over, and `AcknowledgedAlwaysDurable` follows by
strengthening with the tokens held by operations: a replace resolves only after
its token was seen finalized.  `PublicationTypeOK`, `RejectedNotDurable` and
`GatewayFollowsAuthority` need to know what an operation has at each await, and
`PublicationInv` says it: `Sound` relates the locals to the await and to the tab's
handle (a token is minted with the commit, which uses the handle up; past
the compensation an operation that did not fail has its token compensated);
`BudgetInv` counts the attempts still to be minted, so the bound is never passed
at an await that mints; `QueueInv` says that a tab waits for one request, at an
await that knows what to do with the answer; `GatewayInv` that a withdrawal which
has started is at the head of the queue.  The lemmas go through the places where
the code continues when an await throws (`CatchOK`, `RolledBackOK`, ...), once,
and the actions cite them.

*Attempts.*  `AbandonedNeverInGateway` has one hypothesis, that no transition outlives
its client's timer (`"gatewaySlow" \notin Faults`): with one that does, a PUT can run
after its tab has given the attempt up (finding 2).  `AttemptsInv` says why it holds
otherwise.  An attempt is minted once, so two tabs, or a tab and an abandoned operation,
never have the same (`MintedInv`).  Every queued request is one its tab waits for, with
the operation's own attempt, except the PUT that gives the previous publication back,
whose attempt no operation has (`AwaitedInv`).  And the Gateway runs an operation's
attempt only while the operation may still want it (`RunningInv`): not before it was
sent, not after another authority won, and not in the catch block once the rollback
went through (`Withdrawn`).  An operation abandons its attempt only in such a state or
when it never sent it; a hydration does so too, also one that was restoring a compensated
previous revision and found the pointer changed.  TLC checked the invariant with one and two tabs before it was
proved.  The lemmas follow an operation from await to await (`Onward`): it goes on with
its attempt or without any, and no better withdrawn than the Gateway says.  (They also had
a definition corrected: the guards of the CASE in `Answered` overlapped, of which TLC
takes the first and TLA+ any.)

*A single tab.*  `SingleTabSettles` states `SettledAgreement` for one tab
(`Clients = {t}`), for any revisions, contents, tokens and number of operations and any
faults but a slow Gateway: whenever the tab is at rest and does not ask for
recovery, the pointer is stable and names what the tab published, and so do its
runtime and the Gateway (a tab that has published nothing yet, because its hydrations were
rejected cleanly, is not spoken of until one succeeds).  `AloneInv` is the case analysis behind the three-way
compensation, await by await: what the operation is for (`Planned`), and what is known
of the pointer (`PointerPart`), of the runtime (`RuntimePart`) and of the Gateway
(`GatewayPart`).  A replace that has begun keeps all three at the previous publication,
or knows which of them it has moved: the pointer by the outcome of its commit (`Holds`
while the token is the pointer's), the runtime by `transition`, the Gateway by
`attempted`, whose authority is then the candidate's, the one it expected or, during the
withdrawal, none.  The catch block undoes exactly what moved, and where it cannot tell
(`failed`) the tab asks for recovery.  The lemmas ending in `Suits` go through the
places where an await throws, once; those ending in `Alone` are the actions.  Both
hypotheses are needed.  With a slow Gateway the property is false (`slow_gateway`).
With several tabs one whose hydration failed after it had taken the Gateway over can
leave it without a revision while the others are at rest; what remains true is
`NoStaleAuthority`, and that one is TLC's.

*Gateway.*  `ActivationInv` says, stage by stage, which adapters may be held:
between transitions only the active runtime and the residue; while a candidate
starts, the previous runtime too until its stop; and what phase and authority
are then.  It was checked by TLC as an invariant before it was proved.
`NothingLeaked`, `InactiveIsClean`, `PublisherReachesHub` and `StartsOnFreePort`
follow from it, and `GatewayImplementsAuthority` uses it
to map each step to an authority step or a stutter.  `ActiveIsServed` needs more:
`ActivationInv` says which adapters may be held, not that those of the previous
runtime are up again once a candidate has failed.  `ServedInv` follows them through
the stages (server before client, off or absent until started), and `AttemptInv`
says that every attempt is requested once, so that a candidate is never the runtime
it replaces and its clean-up leaves that runtime's adapters alone.  `StoppedMeansDown`
is about what may still run when `stop()` has resolved, and `ShutdownInv` follows the
service to that point: a PUT behind the close transition has a client that waits or a
forsaken runtime (`CloseInv`), without a hub only the candidate's adapters run
(`CandidateInv`), and once nobody waits any more (`NobodyWaits`) only forsaken runtimes
come up (`ForsakenInv`).

*Product commands.*  `CommandsTypeOK` is not inductive: that a batch is sent to a
connection needs `LeaseHasKeeper`.  Nor is `InFlightOnce`: a request admitted
again under a new lease must not meet a result of the same key that is still to
be continued.  `Bookkeeping` rules that out: the lease alive is the latest one
issued, and a result without its running record belongs to an earlier one.
`MoveAgrees` says once that turning pending commands into results preserves
both, and every settling action cites it.  `SuccessAlwaysCurrent` and
`ResultsAlwaysStand` go through `Publishers`, which lists what a step can write
to a result node; the latter also needs `ResultsRecorded` (a final result and
its record say the same).

*Client adapter.*  `StoppedLeavesNothing` is `StopLeavesNothing` for every number of
endpoints and channels and every scenario, in `WorkcellSpec` as a whole.  It is
not inductive: that nothing is open when a stop resolves rests on every open handle
being owned or registered for a cleanup (`Covered`), also those an overtaken attempt
obtained while a pass was running; on a pass that saw such a handle come in
being dirty, so that another one follows (`PassOK`); and on a stop standing in the
cleanup queue at most once, after the attempt it waits for has ended (`QueueOK`).
`NobodyStranded` (`EndpointNotStranded`) needs to know of an endpoint which of its
numbers is current: the socket, the attempt and the cleanup each carry the epoch of the
connection they belong to, and a step that gives one of them up must either raise the
epoch or leave a successor (`EpochsOK`, `PassEpoch`, `Steady`).  `CaredFor` then lists
what may be under way instead of a session that is heard: an attempt of the
current epoch, a cleanup that will ask for one, a timer.  `EndpointInv` says both
of every endpoint and was checked by TLC on the `workcell` instance first.  The
lemmas follow the module, helper by helper, then action by action; steps of hub,
pages and jobs leave `runtime` alone.

*Hub and endpoints.*  `HubAlwaysFollows` is `HubFollowsEndpoint`: while the adapter's
publications go to the hub it refuses no lifecycle message, for any number of endpoints,
channels and sockets, any stamps and any limits of the counters.  States it may
refuse, without counting them (a stamp that is ahead), or count and drop (one that goes
back), so its last source sequence may be behind the endpoint's while the session lives; what
must not happen is that a loss or the next session looks old to it.  The property speaks of the hub and of an
endpoint between two steps, but a step may publish several messages (a loss and its
exhaustion, a connected event and the early notes) and each must be admitted when its
turn comes.  `View` is an admission without the stamps, which decide what is kept but not
what is admitted next; `Run` says of a sequence of messages that it leads from one view to
another; `Voiced` says of a step that what it has collected
so far is such a run, to a view that `Matches` the record it leaves.  The
lemmas ending in `Voiced` go through the helpers that publish, those ending in `Falls`
through the ones that do not, and those ending in `Heard` are the actions.  What makes it
go through is `LossOK`: an endpoint that has said it is connected and nothing since still has
a source sequence for the loss, has no cleanup and no attempt under way, and a stop will
announce the loss before it goes on.  The second half is the activation.  A candidate's
publications are not admitted but staged, in timelines that keep of each segment only the
last good and the latest observation of a channel, and hand them over in the order of
`Flattened`.  `Agrees` says that the part kept leads to the same view as the whole, or
one behind it in states (`Near`; `ExtendedAgrees`, `CountedAgrees`, `MessagesRun`); `Parade` puts the endpoints one after the other,
and `ActivatedTerms` says that the activation ends with the views of the staging, or
behind them in states.
`Hearing` is all that, and needs `EndpointInv`.

*Pages.*  `GraphsAreAccountedFor` is the invariant of the Browser runtime.
`GraphsInv`, which is inductive, relates the stage of every graph to what the page
holds: a candidate is not suspended and not in force; a consumed graph is disposed
of; a committed one that is not disposed of is in reserve (in force, doomed, or what
the transition came from), and suspended unless it is in force; a transition leads to
the graph in force, from another one; and a graph that waits for the jobs is committing.

*Streams.*  `PagesAreNotStranded` is `PageNotStranded` for any number of pages, sockets
and endpoints.  Whether a page is stuck depends on what everybody else does to its
socket: the hub drops it when a send fails, when too much is pending, when it is
deactivated, or in the middle of distributing what an endpoint published.  So
`StreamsInv` has two sides.  `SocketOK` is the hub's: a socket it has dropped has nothing
to send and the last thing on its way is the close.  `SocketGoes` sums up what any
operation of the hub may do to a socket (nothing, send it more, drop it and say so);
it is proved operation by operation, through the folds over notes, frames and
sockets, and composes.  `StreamOK` and `Reaches` are the page's side: a candidate or a
timer but not both, exactly while the stream runs; the stream runs while it is wanted
and a graph is in force (`StreamRuns`); and a socket of which there is nothing to read
is attached exactly if the page has seen it open.  The invariant uses `GraphsInv` and
`EndpointInv`.  Proving it showed that the property was too weak: it counted a socket
that was not attached as waiting for the server even when the page had seen it open, so
a page that the hub had dropped without a word would have passed.  It now asks for a
socket that never opened.

*Good values.*  `GoodIsAlwaysLive` is `GoodIsLive` for any number of pages, endpoints and
channels.  It does not depend on the hub: a page shows nothing good that is not live
whatever frames arrive in whatever order, because everything it needs the stream checks
itself.  The property is not inductive, for two reasons.  During a catch-up good
values are collected behind the guard, to be shown at once by its commit; so of an
endpoint that is not connected neither what is shown nor what is collected may be good,
and while the guard is there nothing shown is (`Honest`).  And a replay restores its
prefix as good values of an endpoint that is not connected yet.  That is a state inside
one event only: the boundary's end applies the whole body at once, and the connected
event in it resets the signals.  So `BodyFits` says of every boundary under way what
has been collected (a prefix alone, or a prefix, a connected event that is new, and no
prefix after it; for a catch-up no prefix at all), and `Restoring` is what holds of
the endpoint halfway through the fold over the body (`HonestFrom`, by `FoldInduction`).  The reset
happens only if the router does not take the event for an old one, which needs the
router's last lifecycle event to be the stream's (`EndpointHonest`).  `HonestPages` is all
that of every page with an open session; TLC checked it on the `workcell` instance
before it was proved.

*Jobs.*  `JobsFollowTheirGraph`, `SetDosAreWrittenOnce` and
`FinishedRunsStayAtRest` rest on one invariant, `WorkInv`, because the three
components each keep a part of what is true of a run.  `JobsOK` is the executor's
part: a session drives its robot, which is shown as running that run; a run that
waits stands at a set-do or an attach, holds the slot of its robot's playback and,
in a quiesced playback, is among those it still waits for; a running robot has a
frame on order unless the playback is quiesced.  `Fit` and `Still` are the graph's part: the
playback is quiesced and disposed of exactly as the first graph is suspended and
disposed of, and nothing is left to settle once the transition has stopped waiting.
`Placed` is the part of the write: what has landed are the set-dos before the
run's place, and perhaps the one it stands at, but not that one while its command is
still at the Gateway; and the page's client waits only for the set-do its run waits
at.  `JobsOK` is
preserved operation by operation in `RobotJobs_proofs`, where a tick and a batch of
frames are folds; `Keeps` says what an operation may do to the runs and robots it is
not about, which is all that `Workcell_proofs` needs to know of it, and from which
`FinishedRunsStayAtRest` follows.

*Folds.*  A batch of frames, a queue of notes or a set of jobs is worked through by a
fold, which the community modules define recursively over a set mapping; an induction
theorem with an operator as parameter is beyond the provers.  `FoldInduction` proves
the induction once, in a module whose CONSTANTS are the operator and the
property (`Climb` along the numbers, `Iterated` along the elements); a proof
instantiates it (`INSTANCE FoldInduction WITH Op <- .., P <- ..`) and cites the
instance's theorem (`WithoutIsNotes`).

Only model-checked:

* the liveness properties (`OperationsFinish`, `StopFinishes`, `HydrationRecovers`,
  `CommandsSettle`), which are out of the prover's reach;
* `NoStaleAuthority`, for two tabs and every fault class but a slow Gateway;
* of `workcell` the agreement of hub and pages (`NoFrameRefused`, `QuietPagesAgree`,
  `DataPlaneTypeOK`, `ValuesNeverRegress`).  They relate the contents of all queues
  and frames on their way, cut from caches and timelines, to what each page has read.

## 6. Findings

1. `aborted_commit`: after an aborted commit the handle is `failed`, so the
   discard in the catch block throws and the tab asks for recovery although
   everything was restored (`R:` 279; the test at
   `project-v5-publication.test.ts:520` says recovery is entered only if
   restoring fails).
2. `slow_gateway`: a PUT that outlives its timer runs after the rollback judged
   the candidate gone; the Gateway ends without authority while the tab is
   settled (`runtime-gateway-connectivity-client.ts:283`, `README.md:54-56`).
3. `reload_recovers`: a reload between activation and commit leaves a candidate
   in the Gateway that no later hydrate removes (`P:` 736; the message at
   `P:` 284 promises reload recovery).
4. `lease_expiry`: the lease manager expires a lease inside whichever call looks
   at the clock first, but only the expiry timer settles the lease's commands
   and closes its connection, and it returns when its own `tick()` finds nothing
   (`M:` 448; the test at `middleware/runtime-gateway/main.test.ts:649` says
   expiry settles an admitted command).  The command then waits for its own
   timeout; the browser keeps a connection without a lease, and since it
   acquires only when a connection opens, there is no publisher until that one
   ends; the next acquire settles nothing either.

Observations without a document to contradict: a candidate whose cleanup fails
leaves the Gateway in `recovery-required` under the previous authority, where
later publications fail `AUTHORITY_UNAVAILABLE` although the replace rejected
cleanly; a hydration that restores a compensated previous revision and finds the pointer
changed rejects cleanly, where the same rejection one await earlier asks for recovery (the
un-awaited `return` at `P:` 790, which the test at `project-v5-publication.test.ts:1103`
expects); a PUT whose client hung up while `stop()` waited can start adapters in the stopped
service (`M:` 1795), until a later start, PUT or stop; a hydrate that took over another tab's authority and fails leaves the
Gateway inactive; the server adapter's `start()` returns at once after a
rejected stop, so a recovery can report an active runtime whose server is half
shut down; the branch at `M:` 1048-1053 (inactive with residue) is unreachable,
by `GatewayInactiveIsClean`.  In D: the late answer of a command that was already
settled fails another pending command of the same connection (`M:` 1426); lease
generations start again at 1 after each activation, so keys of a re-activated
revision repeat; since results are keyed by request id alone, what is left of a
request under an earlier lease can overwrite its newer result, which is the one
exception `ResultStands` has to make; a repeated `Execute` without a lease
publishes REJECTED over a retained result.

In E and F:

* An endpoint can be *deaf*.  `stopEndpointRuntime` (`A:` 1358-1386) marks the endpoint
  stopped and moves its generation before it releases the browse continuations; when
  that release rejects (`opcua-address-space-browser.ts:248`), the stop ends there: no
  loss is published, nothing is closed, `connected` stays true.  A later start or
  reconnect finds it connected and returns, while every listener is fenced by the
  old generation: pages show its values as GOOD and nothing arrives any more, until
  a stop succeeds.  The comment at `A:` 1369 has cleanup "unconditional", as has
  `docs/superpowers/plans/2026-07-19-opcua-client-write-job-io.md:1147`.
  `BrowseNotReleased` is the action, and `EndpointNotStranded` excepts exactly the
  state it leaves (`Deaf`).
* After a transition that was rolled back the stream starts again without a session
  reset (`stop()` and `refreshActiveTarget()` do not call it), so signals of the graph
  stay GOOD until the new socket opens.  `GoodIsLive` is about pages whose session
  is open.
* The states of a server whose clock is ahead of the Gateway's are refused by the hub
  (`state-batch-hub.ts:442`) and neither the adapter, which ignores the hub's answer, nor a
  page is told: the endpoint is connected and shows nothing, until the clocks agree.
* With two robots, the clock may be told to go backwards: robot B waits for an answer
  with frame t1 kept for it, a job of A starts at t2 > t1 and moves the executor's
  time, the answer then launches B with t1 and `advanceRobot` rejects
  (`simulation-clock.ts:63-73`, `job-executor.ts:320-324`).  An error is reported and
  the next frame goes on.  `RobotJobs` models it.
* `commit()` does not refuse a handle that is committed: called twice before
  `finalize()`, it finds the bundle changed (by itself), and disposes of the graph in
  force (`B:` 969-980).  `apply()` would run again.  No caller does so.
* A deactivation compares the bundle but not the generation after its wait (`B:` 1094),
  unlike a commit; no order of calls gets a different generation under the same
  bundle there, because all who wait go on in the same turn.  For the same
  reason the way back in both catch blocks (`B:` 1032-1037, 1109-1113) is never taken
  on a graph still in force.
* The stream's `refreshActiveTarget` has no caller in production.  Starting the stream
  while a deactivation waits would leave it running without a graph; its one caller
  cannot.

## 7. Not modelled

The cleanup drain of the publication (H in section 2).  The owner side of Browser
commands, the deduplication of client writes apart from D, and the effects of
attachments.  The OPC UA library and the layout of the address space; kinematics,
collision, validation and the codecs (pure functions over floating point or
documents); the Project store and mutation service, which call the publication;
the user interface, the legacy V4 application and the scripts.  `PROJECT.json` lists
each with its reason.
