--------------------------- MODULE BrowserCommands ---------------------------
(***************************************************************************)
(* Product commands: an OPC UA client raises Execute, the Gateway sends    *)
(* the command to the browser that holds the publisher lease and publishes *)
(* one result.  Lease (browser-publisher-lease.ts), dedupe registry        *)
(* (runtime-command-dedupe-registry.ts), dispatch                          *)
(* (browser-command-dispatch.ts) and the table of pending commands and the *)
(* WebSocket handlers (main.ts), all of the active runtime.                *)
(*                                                                         *)
(* Abstractions: a command is its request id and a variant (target, value  *)
(* and expiry); Project and revision, one per runtime, are left out of its *)
(* key; the lease is alive or due; a command's own expiry may come at any  *)
(* time; what the code takes from the oldest entry of a Map is taken from  *)
(* any; a promise's continuation is a step of its own.  Left out: staging  *)
(* of a command's arguments, the integration diagnostics, and the          *)
(* client-write channel that shares the registry.                          *)
(***************************************************************************)
EXTENDS Naturals, FiniteSets

CONSTANTS Sockets,         \* browser connections
          Requests,        \* request ids
          Variants,        \* fingerprints a request id may come with
          Null,
          MaxGeneration,   \* bound on the leases issued by one runtime
          MaxRecords       \* MAX_RUNTIME_COMMAND_RECORDS_V1

ASSUME CommandsAssumption ==
    /\ Null \notin Sockets
    /\ MaxGeneration \in Nat
    /\ MaxRecords \in Nat \ {0}

VARIABLES phase,          \* "none", "active" or "down"
          generation,     \* the lease manager's counter
          lease,          \* its active lease; generation 0 when there is none
          leaseTimer,     \* generation browserLeaseExpiryTimer waits for, or 0
          socketState,    \* readyState of each connection
          publisher,      \* browserPublisherSocket
          socketLease,    \* browserLeasesBySocket: a generation, or 0
          records,        \* the dedupe registry
          pending,        \* pendingBrowserCommands
          completing,     \* results whose continuation has not run
          sends,          \* batches sent and neither answered nor lost
          published       \* the product model's result of each request id

leaseVars == <<generation, lease, leaseTimer, publisher, socketLease>>
wireVars == <<socketState, sends>>
vars == <<phase, leaseVars, wireVars, records, pending, completing, published>>

-----------------------------------------------------------------------------
Generations == 1..MaxGeneration
NoLease == [generation |-> 0, due |-> FALSE]
NoResult == [state |-> "none", generation |-> 0]

(* No runtime; one that serves; one whose OPC UA server a transition has   *)
(* stopped.                                                                *)
Phases == {"none", "active", "down"}

Batch == [socket : Sockets, generation : Generations, request : Requests]
Record == [generation : Generations, request : Requests, variant : Variants,
           outcome : {"running", "rejected", "succeeded", "failed"}]
Completion == [generation : Generations, request : Requests,
               outcome : {"succeeded", "failed", "unsent"}]
Result == [state : {"none", "running", "rejected", "succeeded", "failed"},
           generation : 0..MaxGeneration]

Same(a, b) == a.generation = b.generation /\ a.request = b.request

Init ==
    /\ phase = "none"
    /\ generation = 0
    /\ lease = NoLease
    /\ leaseTimer = 0
    /\ socketState = [s \in Sockets |-> "closed"]
    /\ publisher = Null
    /\ socketLease = [s \in Sockets |-> 0]
    /\ records = {}
    /\ pending = {}
    /\ completing = {}
    /\ sends = {}
    /\ published = [q \in Requests |-> NoResult]

-----------------------------------------------------------------------------
(* Shared pieces.                                                          *)

Serving == phase = "active"

(* tick() and every expireIfDue.                                           *)
Ticked == IF lease.due THEN NoLease ELSE lease

(* publishResult: a server that is down rejects it, and nobody waits.      *)
Publish(q, state, g) ==
    published' = IF phase = "down" THEN published
                 ELSE [published EXCEPT ![q] = [state |-> state, generation |-> g]]

(* A rejection is not tied to a lease.                                     *)
Reject(q) == Publish(q, "rejected", 0)

Failed(S) == {[generation |-> p.generation, request |-> p.request, outcome |-> "failed"] :
                 p \in S}

DropPending(S) ==
    /\ pending' = pending \ S
    /\ UNCHANGED completing

(* The pending commands of S get a result; their continuations follow.     *)
SettlePending(S) ==
    /\ pending' = pending \ S
    /\ completing' = completing \cup Failed(S)

PendingOf(g) == {p \in pending : p.generation = g}

(* The time of the lease has come; nobody has looked at the clock yet.     *)
LeaseDue ==
    /\ lease.generation # 0 /\ ~lease.due
    /\ lease' = [lease EXCEPT !.due = TRUE]
    /\ UNCHANGED <<phase, generation, leaseTimer, publisher, socketLease, wireVars,
                   records, pending, completing, published>>

-----------------------------------------------------------------------------
(* Execute of an OPC UA client (browser-command-dispatch.ts).              *)

LeaseAlive == lease.generation # 0 /\ ~lease.due
Retained(q) == {r \in records : r.request = q /\ r.generation = lease.generation}

ExecuteOnly == UNCHANGED <<phase, generation, leaseTimer, publisher, socketLease,
                           socketState>>

ExecuteUnavailable(q) ==
    /\ Serving /\ ~LeaseAlive
    /\ lease' = NoLease
    /\ Reject(q)
    /\ ExecuteOnly /\ UNCHANGED <<records, pending, completing, sends>>

(* The same command again: its promise, so its result is published again.  *)
ExecuteAgain(q, v) ==
    /\ Serving /\ LeaseAlive
    /\ \E r \in Retained(q) :
          /\ r.variant = v /\ r.outcome # "running"
          /\ Publish(q, r.outcome, r.generation)
    /\ ExecuteOnly /\ UNCHANGED <<lease, records, pending, completing, sends>>

PublishConflictAsResult(q) == Reject(q)

(* COMMAND_ID_CONFLICT goes to the diagnostics only.                       *)
PublishConflict(q) == UNCHANGED published

ExecuteConflict(q, v) ==
    /\ Serving /\ LeaseAlive
    /\ \E r \in Retained(q) : r.variant # v
    /\ PublishConflict(q)
    /\ ExecuteOnly /\ UNCHANGED <<lease, records, pending, completing, sends>>

EvictAny ==
    IF Cardinality(records) < MaxRecords THEN {{}} ELSE {{r} : r \in records}

(* The records a new one may push out; none when the registry is full of   *)
(* commands in flight.                                                     *)
Evictions ==
    IF Cardinality(records) < MaxRecords THEN {{}}
    ELSE {{r} : r \in {x \in records : x.outcome # "running"}}

(* Expired before it started, or COMMAND_DEDUPE_CAPACITY_EXHAUSTED.        *)
ExecuteRefused(q) ==
    /\ Serving /\ LeaseAlive
    /\ Retained(q) = {}
    /\ Reject(q)
    /\ ExecuteOnly /\ UNCHANGED <<lease, records, pending, completing, sends>>

Admit(q, v, outcome) ==
    \E E \in Evictions :
       records' = (records \ E) \cup {[generation |-> lease.generation, request |-> q,
                                       variant |-> v, outcome |-> outcome]}

(* The clock passes the lease's deadline between two looks of execute: at  *)
(* the preflight there is no record yet, at the operation there is one.    *)
ExecuteLapsed(q, v) ==
    /\ Serving /\ LeaseAlive
    /\ Retained(q) = {}
    /\ lease' = NoLease
    /\ Reject(q)
    /\ UNCHANGED records \/ Admit(q, v, "rejected")
    /\ ExecuteOnly /\ UNCHANGED <<pending, completing, sends>>

(* RUNNING is published, then sendBrowserCommand rejects: the socket is    *)
(* not open any more, or the lease lapses now.                             *)
ExecuteUnsent(q, v) ==
    /\ Serving /\ LeaseAlive
    /\ Retained(q) = {}
    /\ \/ socketState[publisher] # "open" /\ UNCHANGED lease
       \/ lease' = NoLease
    /\ Admit(q, v, "running")
    /\ Publish(q, "running", lease.generation)
    /\ completing' = completing \cup {[generation |-> lease.generation, request |-> q,
                                       outcome |-> "unsent"]}
    /\ ExecuteOnly /\ UNCHANGED <<pending, sends>>

ExecuteSend(q, v) ==
    LET b == [socket |-> publisher, generation |-> lease.generation, request |-> q]
    IN /\ Serving /\ LeaseAlive
       /\ Retained(q) = {}
       /\ socketState[publisher] = "open"
       /\ Admit(q, v, "running")
       /\ Publish(q, "running", lease.generation)
       /\ pending' = {p \in pending : ~Same(p, b)} \cup {b}
       /\ sends' = sends \cup {b}
       /\ ExecuteOnly /\ UNCHANGED <<lease, completing>>

Unfenced(c) == c.outcome

FenceByCounter(c) ==
    IF c.outcome = "succeeded" /\ generation = c.generation THEN "succeeded" ELSE "failed"

(* The continuation in dispatch: a result counts under its own lease only. *)
Fenced(c) ==
    IF c.outcome = "succeeded" /\ Ticked.generation = c.generation
    THEN "succeeded" ELSE "failed"

Complete(c) ==
    /\ c \in completing
    /\ completing' = completing \ {c}
    /\ lease' = IF c.outcome = "unsent" THEN lease ELSE Ticked
    /\ Publish(c.request, Fenced(c), c.generation)
    /\ records' = {IF Same(r, c) THEN [r EXCEPT !.outcome = Fenced(c)] ELSE r : r \in records}
    /\ UNCHANGED <<phase, generation, leaseTimer, publisher, socketLease, wireVars, pending>>

CommandTimeout(p) ==
    /\ p \in pending
    /\ SettlePending({p})
    /\ UNCHANGED <<phase, leaseVars, wireVars, records, published>>

-----------------------------------------------------------------------------
(* The callback of socket.send, when it reports a failure, looks its       *)
(* command up by key; it runs before the connection is closed.             *)
SendFailed(b) ==
    /\ b \in sends
    /\ socketState[b.socket] = "closing"
    /\ sends' = sends \ {b}
    /\ SettlePending({p \in pending : Same(p, b)})
    /\ UNCHANGED <<phase, leaseVars, socketState, records, published>>

-----------------------------------------------------------------------------
(* Messages of a browser (handleBrowserSocketMessage).                     *)

Talking(s) == Serving /\ socketState[s] # "closed"

(* Acquiring replaces any lease, in the code without a look at the clock.  *)
AcquireLease(s) ==
    LET g == generation + 1
    IN /\ Talking(s)
       /\ generation < MaxGeneration
       /\ generation' = g
       /\ lease' = [generation |-> g, due |-> FALSE]
       /\ leaseTimer' = g
       /\ publisher' = s
       /\ socketLease' = [x \in Sockets |-> IF x = s THEN g
                                            ELSE IF x = publisher THEN 0 ELSE socketLease[x]]
       /\ SettlePending(IF lease.generation = 0 THEN {} ELSE PendingOf(lease.generation))
       /\ UNCHANGED <<phase, wireVars, records, published>>

(* renew throws when the lease has expired: nothing else happens then.     *)
RenewLease(s) ==
    /\ Talking(s)
    /\ socketLease[s] # 0 /\ publisher = s
    /\ lease' = Ticked
    /\ leaseTimer' = IF Ticked.generation = socketLease[s] THEN socketLease[s] ELSE leaseTimer
    /\ UNCHANGED <<phase, generation, publisher, socketLease, wireVars, records, pending,
                   completing, published>>

(* release, by message or by the end of the connection.                    *)
GiveUpLease(s) ==
    /\ lease' = IF Ticked.generation = socketLease[s] THEN NoLease ELSE Ticked
    /\ leaseTimer' = 0
    /\ SettlePending(PendingOf(socketLease[s]))

ForgetPublisher(s) ==
    /\ UNCHANGED socketLease
    /\ publisher' = IF publisher = s THEN Null ELSE publisher

ForgetSocket(s) ==
    /\ socketLease' = [socketLease EXCEPT ![s] = 0]
    /\ publisher' = IF publisher = s THEN Null ELSE publisher

ReleaseLease(s) ==
    /\ Talking(s)
    /\ socketLease[s] # 0
    /\ GiveUpLease(s) /\ ForgetSocket(s)
    /\ UNCHANGED <<phase, generation, wireVars, records, published>>

ResultAccepted(s) ==
    /\ Serving
    /\ publisher = s
    /\ lease.generation # 0 /\ socketLease[s] = lease.generation

(* A browser answers each batch once, while its connection lasts.          *)
Answered(b) == b \in sends /\ sends' = sends \ {b}

ResultOnly == UNCHANGED <<phase, leaseVars, socketState, records, published>>

(* The answer to a pending command; one of another shape counts as FAILED. *)
BrowserResult(b, outcome) ==
    /\ Answered(b) /\ ResultAccepted(b.socket)
    /\ \E p \in pending :
          /\ Same(p, b)
          /\ pending' = pending \ {p}
          /\ completing' = completing \cup
                {[generation |-> p.generation, request |-> p.request, outcome |-> outcome]}
    /\ ResultOnly

(* A late answer: another pending command of the connection gets           *)
(* BROWSER_RESULT_INVALID in its place.                                    *)
StrayResult(b) ==
    /\ Answered(b) /\ ResultAccepted(b.socket)
    /\ ~\E p \in pending : Same(p, b)
    /\ LET mine == {p \in pending : p.socket = b.socket}
       IN IF mine = {} THEN UNCHANGED <<pending, completing>>
          ELSE \E p \in mine : SettlePending({p})
    /\ ResultOnly

IgnoredResult(b) ==
    /\ Answered(b) /\ ~ResultAccepted(b.socket)
    /\ ResultOnly /\ UNCHANGED <<pending, completing>>

-----------------------------------------------------------------------------
(* Connections and the lease timer.                                        *)

Connect(s) ==
    /\ socketState[s] = "closed"
    /\ socketState' = [socketState EXCEPT ![s] = "open"]
    /\ UNCHANGED <<phase, leaseVars, sends, records, pending, completing, published>>

StartClosing(s) ==
    /\ socketState[s] = "open"
    /\ socketState' = [socketState EXCEPT ![s] = "closing"]
    /\ UNCHANGED <<phase, leaseVars, sends, records, pending, completing, published>>

SocketClosed(s) ==
    /\ socketState[s] # "closed"
    /\ socketState' = [socketState EXCEPT ![s] = "closed"]
    /\ sends' = {b \in sends : b.socket # s}
    /\ IF socketLease[s] # 0 THEN GiveUpLease(s)
       ELSE UNCHANGED <<lease, leaseTimer, pending, completing>>
    /\ ForgetSocket(s)
    /\ UNCHANGED <<phase, generation, records, published>>

(* Nothing is settled when somebody else's tick expired the lease first.   *)
LeaseTimerFires ==
    /\ leaseTimer # 0
    /\ lease.generation = 0 \/ lease.due
    /\ leaseTimer' = 0
    /\ IF ~lease.due THEN UNCHANGED <<lease, publisher, socketLease, socketState,
                                      pending, completing>>
       ELSE /\ lease' = NoLease
            /\ SettlePending(PendingOf(leaseTimer))
            /\ IF publisher # Null /\ socketLease[publisher] = leaseTimer
               THEN /\ ForgetSocket(publisher)
                    /\ socketState' = [socketState EXCEPT ![publisher] = "closing"]
               ELSE UNCHANGED <<publisher, socketLease, socketState>>
    /\ UNCHANGED <<phase, generation, sends, records, published>>

-----------------------------------------------------------------------------
(* Transitions of the Gateway (GatewayActivation), as commands see them.   *)

BeginTransition ==
    /\ Serving
    /\ phase' = "down"
    /\ published' = [q \in Requests |-> NoResult]
    /\ UNCHANGED <<leaseVars, wireVars, records, pending, completing>>

(* The previous runtime serves again, with the leases and commands it had. *)
Recover ==
    /\ phase = "down"
    /\ phase' = "active"
    /\ UNCHANGED <<leaseVars, wireVars, records, pending, completing, published>>

(* The tail shared by replacement, failed recovery and withdrawal.         *)
ForgetPublishers ==
    /\ lease' = NoLease
    /\ leaseTimer' = 0
    /\ publisher' = Null
    /\ socketLease' = [s \in Sockets |-> 0]
    /\ records' = {}
    /\ UNCHANGED wireVars

(* A new runtime, with a lease manager, a registry and a product model of  *)
(* its own; what the old one still publishes reaches nobody.               *)
NewRuntimeState ==
    /\ generation' = 0
    /\ pending' = {}
    /\ completing' = {}
    /\ published' = [q \in Requests |-> NoResult]

Install ==
    /\ ~Serving
    /\ phase' = "active"
    /\ ForgetPublishers /\ NewRuntimeState

(* A failed recovery, or the end of the service, which leaves the server   *)
(* up a little longer.                                                     *)
LoseAuthority ==
    /\ phase # "none"
    /\ generation < MaxGeneration
    /\ generation' = generation + 1
    /\ ForgetPublishers
    /\ SettlePending(pending)
    /\ UNCHANGED <<phase, published>>

Withdraw ==
    /\ phase = "down"
    /\ phase' = "none"
    /\ ForgetPublishers /\ NewRuntimeState

-----------------------------------------------------------------------------
Execute(q, v) ==
    \/ ExecuteAgain(q, v)
    \/ ExecuteConflict(q, v)
    \/ ExecuteLapsed(q, v)
    \/ ExecuteUnsent(q, v)
    \/ ExecuteSend(q, v)

ClientStep ==
    \/ \E q \in Requests : ExecuteUnavailable(q) \/ ExecuteRefused(q)
    \/ \E q \in Requests, v \in Variants : Execute(q, v)

BrowserStep ==
    \/ \E s \in Sockets : \/ AcquireLease(s) \/ RenewLease(s) \/ ReleaseLease(s)
                          \/ Connect(s) \/ StartClosing(s) \/ SocketClosed(s)
    \/ \E b \in sends : \/ \E outcome \in {"succeeded", "failed"} : BrowserResult(b, outcome)
                            \/ StrayResult(b)
                            \/ IgnoredResult(b)

GatewayStep ==
    \/ \E c \in completing : Complete(c)
    \/ \E p \in pending : CommandTimeout(p)
    \/ \E b \in sends : SendFailed(b)
    \/ LeaseDue \/ LeaseTimerFires
    \/ BeginTransition \/ Recover \/ Install \/ LoseAuthority \/ Withdraw

Next == ClientStep \/ BrowserStep \/ GatewayStep
Spec == Init /\ [][Next]_vars

(* Timers fire and promises continue; nobody else owes anything.           *)
FairSpec ==
    /\ Spec
    /\ \A g \in Generations, q \in Requests :
          /\ WF_vars(\E p \in pending : p.generation = g /\ p.request = q /\ CommandTimeout(p))
          /\ WF_vars(\E c \in completing : c.generation = g /\ c.request = q /\ Complete(c))

-----------------------------------------------------------------------------
(* Every variable has its type.                                            *)
CommandsTypeOK ==
    /\ phase \in Phases
    /\ generation \in 0..MaxGeneration
    /\ lease \in [generation : 0..MaxGeneration, due : BOOLEAN]
    /\ leaseTimer \in 0..MaxGeneration
    /\ socketState \in [Sockets -> {"open", "closing", "closed"}]
    /\ publisher \in Sockets \cup {Null}
    /\ socketLease \in [Sockets -> 0..MaxGeneration]
    /\ records \subseteq Record
    /\ pending \subseteq Batch
    /\ completing \subseteq Completion
    /\ sends \subseteq Batch
    /\ published \in [Requests -> Result]

(* A lease that somebody holds is known under its publisher's connection   *)
(* and has an armed timer: it cannot outlive its time, its connection or   *)
(* its runtime; no other connection is remembered as a holder              *)
(* (main.ts:440-458, 1361-1413, 1661-1672).                                *)
LeaseHasKeeper ==
    /\ lease.generation # 0 =>
          /\ leaseTimer = lease.generation
          /\ publisher # Null
          /\ socketLease[publisher] = lease.generation
    /\ \A s \in Sockets : socketLease[s] # 0 => s = publisher /\ socketState[s] # "closed"

(* The registry and the table of pending commands agree, although they are *)
(* cleared, evicted and settled at different places: what is in flight is  *)
(* retained as running, and what is retained as running is in flight, once *)
(* (runtime-command-dedupe-registry.ts:59-107, main.ts:404-415, 467-504).  *)
InFlightOnce ==
    /\ \A p \in pending : \E r \in records : Same(p, r) /\ r.outcome = "running"
    /\ \A r \in records : r.outcome = "running" =>
          \E x \in pending \cup completing : Same(x, r)
    /\ \A p \in pending, c \in completing : ~Same(p, c)
    /\ \A x, y \in pending : Same(x, y) => x = y
    /\ \A x, y \in completing : Same(x, y) => x = y

(* A success is published only under the lease the command was sent under  *)
(* (browser-command-dispatch.ts:133-137, main.ts:1419).                    *)
SuccessIsCurrent ==
    [][\A q \in Requests :
          (published'[q].state = "succeeded" /\ published'[q] # published[q])
             => published'[q].generation = lease'.generation]_vars

(* A final result stands while its product model and its lease last and    *)
(* its record is retained: repeating the request, with the same or other   *)
(* arguments, makes it neither another result, nor RUNNING, nor a          *)
(* rejection; only what is left of the same request under an earlier lease *)
(* replaces it (browser-command-dispatch.ts:145-165,                       *)
(* opcua-openweb-model.ts:929-944).                                        *)
Final(x) == x.state \in {"succeeded", "failed"}

ResultStands ==
    [][\A q \in Requests :
          (/\ phase = "active" /\ phase' = "active"
           /\ Final(published[q])
           /\ lease'.generation = published[q].generation
           /\ \E r \in records : r.request = q /\ r.generation = published[q].generation)
             => \/ published'[q] = published[q]
                \/ published'[q].generation \in 1..(published[q].generation - 1)]_vars

(* Every command whose RUNNING was published gets a result, or its product *)
(* model goes (main.ts:480-484).                                           *)
CommandsSettle ==
    \A q \in Requests : published[q].state = "running" ~> published[q].state # "running"

(* A pending command belongs to the lease that is alive, or to one whose   *)
(* timer has yet to settle it.                                             *)
PendingFollowsLease ==
    \A p \in pending : p.generation = lease.generation \/ p.generation = leaseTimer
=============================================================================
