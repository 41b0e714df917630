--------------------------- MODULE ClientEndpoint ---------------------------
(***************************************************************************)
(* The Gateway's OPC UA client adapter (opcua-client-adapter.ts): of each  *)
(* configured endpoint it keeps a connection (client, session,             *)
(* subscription, monitored groups), reconnects after a loss, and publishes *)
(* a lifecycle message per session and a state message per notification.   *)
(* A connection attempt, a cleanup and a stop each await many times and    *)
(* run against each other; generation is what tells a late continuation    *)
(* that its attempt is over.                                               *)
(*                                                                         *)
(* One action is the code up to the next await.  A native handle is named  *)
(* by its kind, the generation that made it, and its channel; a channel is *)
(* one monitored root with a group of its own.  Left out: diagnostics, the *)
(* failure of the clock, byte limits, and values: a notification is good   *)
(* or not, and has the stamp the server gave it (see StateBatchHub).       *)
(***************************************************************************)
EXTENDS StateBatchHub

CONSTANTS MaxSource,    \* Number.MAX_SAFE_INTEGER for source sequences
          MaxSession    \* and for session generations

ASSUME EndpointAssumption == MaxSource \in Nat /\ MaxSession \in Nat

VARIABLES hub,
          feed,      \* main.ts: where the adapter's publications go
          staging,   \* the timeline of a candidate's publications
          runtime    \* EndpointRuntimeV1 of every endpoint

-----------------------------------------------------------------------------
(* Native handles, in the order a cleanup pass closes them.                *)

Group(g, c) == <<1, g, c>>
Subscription(g) == <<2, g, 0>>
Session(g) == <<3, g, 0>>
Client(g) == <<4, g, 0>>

NoTask == [stage |-> "none", generation |-> 0, groups |-> 0]
NoHalt == [stage |-> "none", live |-> FALSE, epoch |-> 0]

Fresh ==
    [stopped |-> TRUE, generation |-> 0, connected |-> FALSE,
     sessionGeneration |-> 0, lossPublished |-> FALSE, nextSource |-> 1,
     task |-> NoTask,          \* connectTask and the await it stands at
     timer |-> FALSE,          \* reconnectTimer
     recovery |-> FALSE,       \* recovery # null
     cleanups |-> <<>>,        \* cleanupTail: who asked, and at which failure epoch
     pass |-> Null,            \* the pass that is closing handles
     cleanupFailed |-> FALSE, failureEpoch |-> 0,
     held |-> {},              \* the handles in client, session, subscription, groups
     residual |-> {},          \* those in residualCleanup
     open |-> {},              \* the handles the server still has
     early |-> <<>>,           \* notifications before the connected message
     retained |-> {},          \* channels with a good value in this session
     sourceExhausted |-> FALSE, sessionExhausted |-> FALSE,
     halt |-> NoHalt,          \* a stop or disconnect in progress
     halted |-> FALSE]         \* the last one resolved

HasHandles(r) == r.held # {} \/ r.residual # {}

CleanupPending(r) ==
    \/ r.cleanups # <<>>
    \/ r.cleanupFailed
    \/ r.residual # {}
    \/ ~r.connected /\ HasHandles(r)

(* Is the attempt of generation g, with its client, still the current one? *)
Current(r, g) == ~r.stopped /\ r.generation = g /\ Client(g) \in r.held

Connecting(r) == r.task.stage \notin {"none", "closing"}

-----------------------------------------------------------------------------
(* Publications.  A step collects them in out, in order.                   *)

NoNote == [channel |-> 0, good |-> FALSE, stamp |-> 0]

Message(kind, e, r, note) ==
    [kind |-> kind, endpoint |-> e, revision |-> feed.revision, publisher |-> feed.publisher,
     session |-> r.sessionGeneration, seq |-> r.nextSource, channel |-> note.channel,
     good |-> note.good, stamp |-> note.stamp]

Emit(step, kind, e, note) ==
    [r |-> [step.r EXCEPT !.nextSource = @ + 1],
     out |-> Append(step.out, Message(kind, e, step.r, note))]

EmitEach(step, e, notes) ==
    LET message(i) == Message("state", e, [step.r EXCEPT !.nextSource = @ + i - 1], notes[i])
    IN [r |-> [step.r EXCEPT !.nextSource = @ + Len(notes)],
        out |-> step.out \o [i \in DOMAIN notes |-> message(i)]]

Quiet(r) == [r |-> r, out |-> <<>>]

Then(step, Op(_)) == [step EXCEPT !.r = Op(@)]

(* The last sequence is kept for the terminal disconnected message.        *)
CanReserve(r) == r.nextSource < MaxSource

PublishDisconnected(step, e) ==
    IF step.r.lossPublished THEN step
    ELSE LET marked == [step EXCEPT !.r.lossPublished = TRUE]
         IN IF step.r.nextSource > MaxSource THEN marked
            ELSE Emit(marked, "disconnected", e, NoNote)

-----------------------------------------------------------------------------
(* Cleanup: enqueueRuntimeCleanup, closeRuntimePass, registerResidual.     *)

Enqueue(r, by) ==
    IF r.cleanupFailed /\ by # "stop" THEN r
    ELSE [r EXCEPT !.cleanups = Append(@, [by |-> by, epoch |-> r.failureEpoch, joined |-> FALSE])]

(* Handles made or held by an attempt that is over, unless already closed. *)
Register(r, handles) ==
    LET left == handles \cap r.open
    IN IF left = {} THEN r
       ELSE IF r.pass = Null THEN [r EXCEPT !.residual = @ \cup left]
       ELSE [r EXCEPT !.residual = @ \cup left,
                      !.pass.fresh = @ \cup (left \ (r.residual \ r.pass.fresh)),
                      !.pass.dirty = TRUE]
Joins(r, handles) == r.pass # Null /\ handles \cap r.open # {}

ClearEarly(r) == [r EXCEPT !.early = <<>>]

(* What a pass has yet to try: handles registered after it began wait.     *)
ToClose(r) == (r.held \cup (r.residual \ r.pass.fresh)) \ r.pass.failed
NextToClose(r) == {h \in ToClose(r) : \A o \in ToClose(r) : h[1] <= o[1]}

BeginPass(r) ==
    [r EXCEPT !.timer = FALSE, !.retained = {}, !.early = <<>>, !.connected = FALSE,
              !.pass = [fresh |-> {}, failed |-> {}, dirty |-> FALSE]]

(* A subscription takes the groups along that the same owner holds.        *)
GroupsUnder(h, owner) ==
    {g \in owner : h \in owner /\ h[1] = 2 /\ g[1] = 1 /\ g[2] = h[2]}

Removed(r, h) ==
    LET gone == {h} \cup GroupsUnder(h, r.held)
                    \cup GroupsUnder(h, r.residual \ r.pass.fresh)
    IN [r EXCEPT !.held = @ \ gone, !.residual = @ \ gone, !.open = @ \ gone,
                 !.pass.failed = @ \ gone]

-----------------------------------------------------------------------------
(* Reconnecting.                                                           *)

Exhausted(r) == r.sourceExhausted \/ r.sessionExhausted

ScheduleReconnect(r) ==
    IF r.stopped \/ Exhausted(r) \/ r.timer \/ r.recovery \/ Connecting(r) \/ r.connected
         \/ CleanupPending(r)
    THEN r ELSE [r EXCEPT !.timer = TRUE]

StartConnect(r) ==
    IF r.task.stage # "none" \/ Exhausted(r) \/ CleanupPending(r)
         \/ r.stopped \/ r.connected \/ r.recovery
    THEN r
    ELSE [r EXCEPT !.task = [stage |-> "connect", generation |-> r.generation, groups |-> 0],
                   !.held = @ \cup {Client(r.generation)},
                   !.open = @ \cup {Client(r.generation)}]

Fence(r) == ClearEarly([r EXCEPT !.generation = @ + 1, !.connected = FALSE])
StartRecovery(r) == [Enqueue(r, "recovery") EXCEPT !.recovery = ~r.cleanupFailed]

(* exhaustSourceSequence: the endpoint stays down until a new adapter.     *)
ExhaustSource(step, e) ==
    IF step.r.sourceExhausted THEN step
    ELSE LET marked == [step EXCEPT !.r.sourceExhausted = TRUE]
             announced == IF step.r.connected THEN PublishDisconnected(marked, e) ELSE marked
         IN Then(announced, LAMBDA r : StartRecovery(Fence(r)))

(* Mutant: fenced first, the session no longer counts as live.             *)
RecoverFencedFirst(step, e) ==
    IF step.r.stopped \/ step.r.sourceExhausted \/ step.r.recovery THEN step
    ELSE LET fenced == Then(step, Fence)
             announced == IF fenced.r.connected THEN PublishDisconnected(fenced, e) ELSE fenced
         IN IF announced.r.nextSource > MaxSource THEN ExhaustSource(announced, e)
            ELSE Then(announced, StartRecovery)

(* recover: a live session is announced lost, its handles are closed.      *)
Recover(step, e) ==
    IF step.r.stopped \/ step.r.sourceExhausted \/ step.r.recovery THEN step
    ELSE LET announced == IF step.r.connected THEN PublishDisconnected(step, e) ELSE step
             fenced == Then(announced, Fence)
         IN IF fenced.r.nextSource > MaxSource THEN ExhaustSource(fenced, e)
            ELSE Then(fenced, StartRecovery)

(* publishState: a batch, or exhaustion.                                   *)
PublishState(step, e, note) ==
    IF ~step.r.connected \/ step.r.sourceExhausted THEN step
    ELSE IF CanReserve(step.r) THEN Emit(step, "state", e, note)
    ELSE ExhaustSource(step, e)

-----------------------------------------------------------------------------
(* Where a publication goes.                                               *)

NewStaging == [admission |-> [e \in Endpoints |-> NoAdmission],
               timeline |-> EmptyTimelines, failed |-> FALSE]

(* createRuntimeTimelineStagingV1: out of bounds is remembered.            *)
StagedPublication(g, m) ==
    LET timeline == [g.timeline EXCEPT ![m.endpoint] = Extended(@, m)]
    IN IF g.failed \/ ~Admits(g.admission[m.endpoint], m) THEN g
       ELSE IF ~InOrder(g.admission[m.endpoint], m)
            THEN [g EXCEPT !.admission[m.endpoint] = Admitted(@, m)]
       ELSE IF ~WithinBounds(timeline) THEN [g EXCEPT !.failed = TRUE]
       ELSE [g EXCEPT !.timeline = timeline, !.admission[m.endpoint] = Admitted(@, m)]

ToHub == feed.state \in {"live", "stopping", "failing"}

Route(out) ==
    CASE ToHub -> hub' = FoldLeft(Published, hub, out) /\ UNCHANGED staging
      [] feed.state = "staged" -> staging' = FoldLeft(StagedPublication, staging, out)
                                  /\ UNCHANGED hub
      [] OTHER -> UNCHANGED <<hub, staging>>

Take(e, step) ==
    /\ runtime' = [runtime EXCEPT ![e] = step.r]
    /\ Route(step.out)
    /\ UNCHANGED feed

-----------------------------------------------------------------------------
(* The end of a connection attempt.                                        *)

(* Mutant: the end of an attempt schedules nothing.                        *)
TaskOverQuietly(r) == [r EXCEPT !.task = NoTask]

TaskOver(r) == ScheduleReconnect([r EXCEPT !.task = NoTask])

JoinCleanup(r) == [r EXCEPT !.cleanups[1].joined = TRUE]

(* The attempt waits for a cleanup under way, or for one of its own.       *)
AwaitCleanup(r, stage, joins) ==
    LET waiting == [r EXCEPT !.task.stage = stage]
    IN IF joins THEN JoinCleanup(waiting)
       ELSE IF r.cleanupFailed THEN TaskOver(r)
       ELSE Enqueue(waiting, "connect")

(* Mutant: what an overtaken attempt made is left to the server.           *)
LeaveEverything(r) == TaskOver(r)

(* finally: an attempt that is over gives up whatever it had made.         *)
Leave(r) ==
    LET made == {h \in r.open : h[2] = r.task.generation}
        left == Register(r, made)
    IN IF ~Joins(r, made) /\ (~HasHandles(left) \/ left.stopped) THEN TaskOver(left)
       ELSE AwaitCleanup(left, "closing", Joins(r, made))

(* A group that arrives after its attempt is over.                         *)
LeaveLateGroup(r, h) ==
    AwaitCleanup(Register(r, {h}), "lateGroup", Joins(r, {h}))

(* The connected message and what came before it; then the task is done.   *)
Established(step, e) ==
    LET r == step.r
        live == [step EXCEPT !.r.sessionGeneration = @ + 1, !.r.lossPublished = FALSE,
                             !.r.connected = TRUE]
        announced == Then(Emit(live, "connected", e, NoNote), ClearEarly)
        fit == Min({Len(r.early), MaxSource - announced.r.nextSource})
        sent == EmitEach(announced, e, SubSeq(r.early, 1, fit))
        drained == IF fit = Len(r.early) THEN sent ELSE ExhaustSource(sent, e)
        outcome == IF r.sessionGeneration >= MaxSession
                   THEN Recover([step EXCEPT !.r.sessionExhausted = TRUE], e)
                   ELSE IF ~CanReserve(r) THEN ExhaustSource([live EXCEPT !.r.connected = FALSE], e)
                   ELSE drained
    IN Then(outcome, LAMBDA o : IF o.connected THEN [o EXCEPT !.task = NoTask] ELSE Leave(o))

-----------------------------------------------------------------------------
(* Actions: connect().                                                     *)

(* What the await of each stage makes, and the stage after it.             *)
MadeBy(t) ==
    CASE t.stage = "session" -> {Session(t.generation)}
      [] t.stage = "subscription" -> {Subscription(t.generation)}
      [] t.stage = "monitor" -> {Group(t.generation, t.groups + 1)}
      [] OTHER -> {}

After(t) ==
    CASE t.stage = "connect" -> [t EXCEPT !.stage = "session"]
      [] t.stage = "session" -> [t EXCEPT !.stage = "subscription"]
      [] t.stage = "subscription" ->
            [t EXCEPT !.stage = IF Channels = {} THEN "done" ELSE "namespaces"]
      [] t.stage = "namespaces" -> [t EXCEPT !.stage = "monitor"]
      [] OTHER -> [t EXCEPT !.stage = IF t.groups + 2 \in Channels THEN "monitor" ELSE "done",
                            !.groups = @ + 1]

InAttempt(r) == r.task.stage \in {"connect", "session", "subscription", "namespaces", "monitor"}

(* The awaited operation succeeds while the attempt is current.            *)
ConnectProceeds(e) ==
    LET r == runtime[e]
        next == [r EXCEPT !.task = After(@), !.held = @ \cup MadeBy(r.task),
                          !.open = @ \cup MadeBy(r.task)]
    IN /\ InAttempt(r) /\ Current(r, r.task.generation)
       /\ Take(e, IF next.task.stage = "done" THEN Established(Quiet(next), e) ELSE Quiet(next))

(* It fails or times out.                                                  *)
ConnectFails(e) ==
    LET r == runtime[e]
    IN /\ InAttempt(r) /\ Current(r, r.task.generation)
       /\ Take(e, Then(Recover(Quiet(r), e), Leave))

(* It ends after a loss or a stop has overtaken the attempt.               *)
ConnectOvertaken(e) ==
    LET r == runtime[e]
        made == [r EXCEPT !.open = @ \cup MadeBy(r.task)]
    IN /\ InAttempt(r) /\ ~Current(r, r.task.generation)
       /\ \/ Take(e, Quiet(Leave(r)))
          \/ /\ r.task.stage # "monitor"
             /\ Take(e, Quiet(Leave(made)))
          \/ /\ r.task.stage = "monitor"
             /\ \E h \in MadeBy(r.task) : Take(e, Quiet(LeaveLateGroup(made, h)))

-----------------------------------------------------------------------------
(* Actions: what the server sends, and the timer.                          *)

Listening(r, c) == ~r.stopped /\ Group(r.generation, c) \in r.held

(* An early notification takes the place of an earlier one of its channel. *)
Without(notes, c) ==
    FoldLeft(LAMBDA kept, n : IF n.channel = c THEN kept ELSE Append(kept, n), <<>>, notes)

Notification(e, note) ==
    LET r == runtime[e]
        c == note.channel
        kept == [r EXCEPT !.retained = IF note.good THEN @ \cup {c} ELSE @]
        buffered == [kept EXCEPT !.early = Append(Without(@, c), note)]
    IN /\ Listening(r, c)
       /\ note.good \/ c \in r.retained
       /\ Take(e, IF r.connected THEN PublishState(Quiet(kept), e, note) ELSE Quiet(buffered))

(* connection_lost, terminated, or more early notifications than fit.      *)
ConnectionLost(e) ==
    LET r == runtime[e]
    IN /\ Current(r, r.generation) /\ Subscription(r.generation) \in r.held
       /\ Take(e, Recover(Quiet(r), e))

ReconnectTimerFires(e) ==
    /\ runtime[e].timer
    /\ Take(e, Quiet(StartConnect([runtime[e] EXCEPT !.timer = FALSE])))

-----------------------------------------------------------------------------
(* Actions: the cleanup queue.                                             *)

(* The promise of the request at the head settles.                         *)
Settled(r, ok) ==
    LET request == Head(r.cleanups)
        popped == [r EXCEPT !.cleanups = Tail(@), !.pass = Null]
        recovered == IF request.by # "recovery" THEN popped
                     ELSE IF ok THEN ScheduleReconnect([popped EXCEPT !.recovery = FALSE])
                     ELSE [popped EXCEPT !.recovery = FALSE]
        resumed == IF request.by = "connect" \/ request.joined THEN TaskOver(recovered) ELSE recovered
    IN IF request.by = "stop" THEN [resumed EXCEPT !.halt = NoHalt, !.halted = ok] ELSE resumed

EndPass(r) ==
    IF ToClose(r) # {} THEN r
    ELSE IF r.pass.failed # {}
         THEN Settled([r EXCEPT !.cleanupFailed = TRUE, !.failureEpoch = @ + 1], FALSE)
    ELSE IF r.pass.dirty /\ HasHandles(r) THEN BeginPass(r)
    ELSE Settled([r EXCEPT !.cleanupFailed = @ /\ HasHandles(r)], TRUE)

CleanupBegins(e) ==
    LET r == runtime[e]
    IN /\ r.pass = Null /\ r.cleanups # <<>>
       /\ Take(e, Quiet(IF Head(r.cleanups).epoch # r.failureEpoch THEN Settled(r, FALSE)
                        ELSE EndPass(BeginPass(r))))

HandleCloses(e) ==
    LET r == runtime[e]
    IN /\ r.pass # Null
       /\ \E h \in NextToClose(r) : Take(e, Quiet(EndPass(Removed(r, h))))

HandleCloseFails(e) ==
    LET r == runtime[e]
    IN /\ r.pass # Null
       /\ \E h \in NextToClose(r) :
             Take(e, Quiet(EndPass([r EXCEPT !.pass.failed = @ \cup {h}])))

-----------------------------------------------------------------------------
(* Actions: start, stop, and one endpoint's reconnect and disconnect.      *)
(* They wait in lifecycleTail for one another.                             *)

Unhalted == \A e \in Endpoints : runtime[e].halt.stage = "none"

Started(r) == StartConnect([r EXCEPT !.stopped = FALSE, !.halted = FALSE])

StartEach(S) ==
    /\ Unhalted
    /\ \A e \in S : ~CleanupPending(runtime[e])
    /\ runtime' = [e \in Endpoints |-> IF e \in S THEN Started(runtime[e]) ELSE runtime[e]]

StartEndpoints(S) == StartEach(S) /\ UNCHANGED <<hub, feed, staging>>

Halting(r) == [r EXCEPT !.stopped = TRUE, !.generation = @ + 1, !.halted = FALSE,
                        !.halt = [stage |-> "release", live |-> r.connected,
                                  epoch |-> r.failureEpoch]]

HaltEach(S) ==
    /\ Unhalted
    /\ runtime' = [e \in Endpoints |-> IF e \in S THEN Halting(runtime[e]) ELSE runtime[e]]

StopEndpoints(S) == HaltEach(S) /\ UNCHANGED <<hub, feed, staging>>

(* releaseEndpoint of the address-space browser: on success the loss is    *)
(* published; a failure rejects the stop there.                            *)
BrowseReleased(e) ==
    LET r == runtime[e]
        settling == [r EXCEPT !.halt.stage = "settle"]
    IN /\ r.halt.stage = "release"
       /\ Take(e, Then(IF r.halt.live THEN PublishDisconnected(Quiet(settling), e)
                       ELSE Quiet(settling), ClearEarly))

BrowseNotReleased(e) ==
    /\ runtime[e].halt.stage = "release"
    /\ Take(e, Quiet([runtime[e] EXCEPT !.halt = NoHalt]))

(* The recovery and the attempt that were under way have settled.          *)
HaltSettles(e) ==
    LET r == runtime[e]
    IN /\ r.halt.stage = "settle" /\ ~r.recovery /\ r.task.stage = "none"
       /\ Take(e, Quiet(IF r.failureEpoch # r.halt.epoch THEN [r EXCEPT !.halt = NoHalt]
                        ELSE Enqueue([r EXCEPT !.halt.stage = "cleanup"], "stop")))
=============================================================================
