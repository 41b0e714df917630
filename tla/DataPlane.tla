------------------------------ MODULE DataPlane ------------------------------
(***************************************************************************)
(* From an OPC UA server to what a page shows: the client adapter of the   *)
(* Gateway (ClientEndpoint), the state batch hub (StateBatchHub), WebSocket *)
(* connections that break, and the state streams of the pages              *)
(* (BrowserStateStream, LogicalSignals), while main.ts activates, replaces *)
(* and withdraws the runtime that owns the adapter.  What starts and stops *)
(* a stream is in BrowserProjectRuntime.                                   *)
(*                                                                         *)
(* Bounds: each behaviour is confined to one scenario of Scenarios, chosen *)
(* at the start: which endpoints the Project has, which pages are open,    *)
(* which stamps a server puts on its values, and how often each kind of    *)
(* event may happen.  The union of the scenarios is what one run checks.   *)
(* MaxNet is what a connection's buffers hold: send() calls back only when *)
(* there is room.                                                          *)
(***************************************************************************)
EXTENDS ClientEndpoint, BrowserStateStream

CONSTANTS Browsers, MaxNet, Scenarios

ASSUME DataPlaneAssumption ==
    /\ MaxNet \in Nat \ {0}
    /\ \A x \in Scenarios : /\ x.endpoints \subseteq Endpoints /\ x.browsers \subseteq Browsers
                           /\ x.stamps \subseteq Nat
                           /\ Null \notin [revision : x.revisions, publisher : Nat]

VARIABLES browser,
          scenario,
          budget     \* how often each kind of event may still happen

vars == <<hub, feed, staging, runtime, browser, scenario, budget>>

NoFeed == [state |-> "none", revision |-> Null, publisher |-> 0]

Init ==
    /\ hub = NewHub
    /\ feed = NoFeed
    /\ staging = NewStaging
    /\ runtime = [e \in Endpoints |-> Fresh]
    /\ scenario \in Scenarios
    /\ browser = [b \in Browsers |-> [NewBrowser EXCEPT
                     !.target = [graph |-> 1, revision |-> Min(scenario.revisions)]]]
    /\ budget = scenario.budget

May(event) == budget[event] > 0

Spend(event) == May(event) /\ budget' = [budget EXCEPT ![event] = @ - 1]

-----------------------------------------------------------------------------
(* The endpoints.                                                          *)

EndpointProgress(e) ==
    \/ ConnectProceeds(e)
    \/ ConnectOvertaken(e)
    \/ ReconnectTimerFires(e)
    \/ CleanupBegins(e)
    \/ HandleCloses(e)
    \/ BrowseReleased(e)
    \/ HaltSettles(e)

EndpointFault(e) ==
    \/ ConnectFails(e)
    \/ ConnectionLost(e)
    \/ HandleCloseFails(e)
    \/ BrowseNotReleased(e)

Notes == [channel : Channels, good : BOOLEAN, stamp : scenario.stamps]

(* disconnectEndpoint and reconnectEndpoint of the diagnostics route.      *)
EndpointStep(e) ==
    /\ e \in scenario.endpoints
    /\ \/ EndpointProgress(e) /\ UNCHANGED budget
       \/ Spend("fault") /\ EndpointFault(e)
       \/ Spend("notification") /\ \E note \in Notes : Notification(e, note)
       \/ Spend("stop") /\ feed.state = "live" /\ StopEndpoints({e})
       \/ feed.state = "live" /\ StartEndpoints({e}) /\ UNCHANGED budget
    /\ UNCHANGED <<browser, scenario>>

-----------------------------------------------------------------------------
(* replaceActiveProject and deactivateProject, as far as the client        *)
(* adapter and the hub are concerned (see GatewayActivation for the rest). *)

AllHalted == \A e \in scenario.endpoints : runtime[e].halted

(* The previous adapter is stopped, then the candidate's adapter started.  *)
StopPrevious ==
    /\ feed.state = "live"
    /\ Spend("stop")
    /\ feed' = [feed EXCEPT !.state = "stopping"]
    /\ HaltEach(scenario.endpoints)
    /\ UNCHANGED <<hub, staging, browser, scenario>>

StartCandidate(revision) ==
    /\ feed.state = "none" \/ (feed.state = "stopping" /\ AllHalted)
    /\ Spend("activation")
    /\ feed' = [state |-> "staged", revision |-> revision, publisher |-> feed.publisher + 1]
    /\ staging' = NewStaging
    /\ runtime' = [e \in Endpoints |-> IF e \in scenario.endpoints THEN Started(Fresh) ELSE Fresh]
    /\ UNCHANGED <<hub, browser, scenario>>

(* The stop was rejected, or the candidate's server did not start: the     *)
(* previous adapter is started again, or that is rejected too, it is       *)
(* stopped once more, and the Gateway is left to a DELETE.                 *)
RecoverPrevious ==
    /\ feed.state = "stopping"
    /\ StartEach(scenario.endpoints)
    /\ feed' = [feed EXCEPT !.state = "live"]
    /\ UNCHANGED <<hub, staging, browser, scenario, budget>>

RecoveryFails ==
    /\ feed.state = "stopping" /\ ~AllHalted
    /\ \E e \in scenario.endpoints : CleanupPending(runtime[e])
    /\ HaltEach(scenario.endpoints)
    /\ feed' = [feed EXCEPT !.state = "failing"]
    /\ UNCHANGED <<hub, staging, browser, scenario, budget>>

RecoveryRequired ==
    /\ feed.state = "failing" /\ Unhalted
    /\ feed' = [feed EXCEPT !.state = "failed"]
    /\ UNCHANGED <<hub, staging, runtime, browser, scenario, budget>>

Activation == [revision |-> feed.revision, publisher |-> feed.publisher]

StagedMessages ==
    FoldLeft(LAMBDA ms, e : ms \o MessagesOf(staging.timeline[e]), <<>>, SetToSeq(Endpoints))

(* seal, prepare, install, flush: one step.                                *)
Activate ==
    /\ feed.state = "staged" /\ ~staging.failed
    /\ Prepares(hub, Activation, StagedMessages)
    /\ hub' = Activated(hub, Activation, StagedMessages)
    /\ feed' = [feed EXCEPT !.state = "live"]
    /\ staging' = NewStaging
    /\ UNCHANGED <<runtime, browser, scenario, budget>>

(* DELETE: nothing more is published while the adapter stops; when it      *)
(* could not be stopped, another DELETE tries again.                       *)
Withdraw ==
    /\ feed.state \in {"live", "failed"} \/ (feed.state = "withdrawn" /\ ~AllHalted)
    /\ Spend("stop")
    /\ feed' = [feed EXCEPT !.state = "withdrawn"]
    /\ HaltEach(scenario.endpoints)
    /\ UNCHANGED <<hub, staging, browser, scenario>>

Deactivate ==
    /\ feed.state = "withdrawn" /\ AllHalted
    /\ hub' = Deactivated(hub)
    /\ feed' = [feed EXCEPT !.state = "none", !.revision = Null]
    /\ UNCHANGED <<staging, runtime, browser, scenario, budget>>

GatewayStep ==
    \/ StopPrevious
    \/ \E revision \in scenario.revisions : StartCandidate(revision)
    \/ RecoverPrevious
    \/ RecoveryFails
    \/ RecoveryRequired
    \/ Activate
    \/ Withdraw
    \/ Deactivate

-----------------------------------------------------------------------------
(* WebSocket connections.                                                  *)

Owned(s) == \E b \in Browsers : browser[b].candidate = s

Free(s) == hub.socket[s] = DetachedSocket /\ ~Owned(s)

(* A page that gives its socket up reads nothing more of it.               *)
GivenUp(h, s) == IF s = Null THEN h ELSE [h EXCEPT !.socket[s].net = <<>>]

SendCallback(s) ==
    /\ Owned(s) /\ hub.socket[s].attached /\ Busy(hub.socket[s])
    /\ Len(hub.socket[s].net) < MaxNet
    /\ hub' = Called(hub, s)
    /\ UNCHANGED <<feed, staging, runtime, browser, scenario, budget>>

SendFails(s) ==
    /\ Owned(s) /\ hub.socket[s].attached /\ Busy(hub.socket[s])
    /\ Spend("socket")
    /\ hub' = Failed(hub, s)
    /\ UNCHANGED <<feed, staging, runtime, browser, scenario>>

(* The Gateway learns that the page has gone.                              *)
PeerGone(s) ==
    /\ ~Owned(s) /\ hub.socket[s].attached
    /\ hub' = Detached(hub, s)
    /\ UNCHANGED <<feed, staging, runtime, browser, scenario, budget>>

SocketStep(s) == SendCallback(s) \/ SendFails(s) \/ PeerGone(s)

-----------------------------------------------------------------------------
(* Pages.                                                                  *)

(* createWebSocket: a new connection; earlier ones of the page may linger. *)
NewSocket == CHOOSE s \in Sockets : Free(s)
Connectable == \E s \in Sockets : Free(s)

Page(b, page) == browser' = [browser EXCEPT ![b] = page]

PageRefreshes(b) ==
    /\ browser[b].started /\ ~browser[b].refreshing /\ Connectable
    /\ Spend("refresh")
    /\ Page(b, CandidateMade(StreamRefreshed(browser[b]), NewSocket))
    /\ hub' = GivenUp(hub, browser[b].candidate)

TimerFires(b) ==
    /\ browser[b].timer /\ Connectable
    /\ Page(b, CandidateMade(browser[b], NewSocket))
    /\ UNCHANGED <<hub, budget>>

(* The server accepts the connection, or nobody does.                      *)
Awaited(b) ==
    LET s == browser[b].candidate
    IN s # Null /\ hub.socket[s] = DetachedSocket

Upgrade(b) ==
    /\ Awaited(b)
    /\ hub' = Attached(hub, browser[b].candidate)
    /\ UNCHANGED <<browser, budget>>

ConnectionRefused(b) ==
    /\ Awaited(b)
    /\ Spend("socket")
    /\ Page(b, Rejected(browser[b]))
    /\ UNCHANGED hub

(* Without a word: what was on its way is lost.                            *)
ConnectionBreaks(b) ==
    LET s == browser[b].candidate
    IN /\ s # Null
       /\ hub.socket[s].attached
       /\ Page(b, Rejected(browser[b]))
       /\ hub' = GivenUp(hub, s)
       /\ Spend("socket")

(* The next event of the page's socket.                                    *)
Arrives(b) ==
    LET s == browser[b].candidate
    IN s # Null /\ hub.socket[s].net # <<>>

Incoming(b) == Head(hub.socket[browser[b].candidate].net)
Read(b) == hub' = [hub EXCEPT !.socket[browser[b].candidate].net = Tail(@)]

SocketOpens(b) ==
    /\ Arrives(b)
    /\ Incoming(b) = Opened
    /\ Page(b, SessionOpened(browser[b]))
    /\ Read(b)
    /\ UNCHANGED budget

SocketCloses(b) ==
    /\ Arrives(b)
    /\ Incoming(b) = Closed
    /\ Page(b, Rejected(browser[b]))
    /\ Read(b)
    /\ UNCHANGED budget

FrameArrives(b) ==
    LET handled == Handled(browser[b], Incoming(b))
    IN /\ Arrives(b)
       /\ Incoming(b) \notin {Opened, Closed}
       /\ Page(b, handled)
       /\ IF handled.candidate = Null THEN hub' = GivenUp(hub, browser[b].candidate) ELSE Read(b)
       /\ UNCHANGED budget

PageProgress(b) ==
    \/ TimerFires(b)
    \/ Upgrade(b)
    \/ SocketOpens(b)
    \/ SocketCloses(b)
    \/ FrameArrives(b)

PageStep(b) ==
    /\ b \in scenario.browsers
    /\ \/ PageProgress(b)
       \/ PageRefreshes(b)
       \/ ConnectionRefused(b)
       \/ ConnectionBreaks(b)
    /\ UNCHANGED <<feed, staging, runtime, scenario>>

Next ==
    \/ \E e \in Endpoints : EndpointStep(e)
    \/ GatewayStep
    \/ \E s \in Sockets : SocketStep(s)
    \/ \E b \in Browsers : PageStep(b)

-----------------------------------------------------------------------------
(* Properties.                                                             *)

(* Type invariant.  It includes the limits the code sets itself: counters  *)
(* never pass their maximum, and no pending timeline has more lifecycle    *)
(* barriers than MAX_PENDING_LIFECYCLE_BARRIERS_V1.                        *)
DataPlaneTypeOK ==
    /\ hub.activation = Null \/ hub.activation \in [revision : Nat, publisher : Nat]
    /\ feed.state \in {"none", "staged", "live", "stopping", "failing", "failed", "withdrawn"}
    /\ \A e \in Endpoints :
          LET r == runtime[e]
          IN /\ hub.wire[e] \in 0..MaxWire
             /\ hub.admission[e].last \in 0..MaxSource
             /\ r.nextSource \in 1..(MaxSource + 1)
             /\ r.sessionGeneration \in 0..MaxSession
             /\ {r.stopped, r.connected, r.timer, r.recovery, r.halted} \subseteq BOOLEAN
             /\ r.held \cup r.residual \cup r.open \subseteq (1..4) \X Nat \X ({0} \cup Channels)
    /\ \A s \in Sockets : WithinBounds(hub.socket[s].pending)
    /\ \A b \in Browsers : browser[b].candidate \in Sockets \cup {Null}

(* What an endpoint is when it is connected and hears its server.          *)
Hears(r) == r.connected /\ \A c \in Channels : Group(r.generation, c) \in r.held

(* What a rejected stop leaves behind: connected, but every listener is of *)
(* an earlier generation.                                                  *)
Deaf(r) == r.connected /\ \A h \in r.held : h[2] < r.generation

(* However losses, timeouts, stops and cleanups interleave, an endpoint    *)
(* that was not stopped hears its server or has something under way that   *)
(* gets it there, unless it ran out of numbers or could not be cleaned up  *)
(* (or is deaf, see the README).                                           *)
EndpointNotStranded ==
    \A e \in Endpoints :
        LET r == runtime[e]
        IN \/ r.stopped \/ Exhausted(r) \/ r.cleanupFailed \/ Deaf(r)
           \/ Hears(r) \/ r.timer \/ r.recovery \/ r.task.stage # "none" \/ r.cleanups # <<>>

(* Once stop() or a disconnect has resolved, the server holds no client,   *)
(* session, subscription or group of this endpoint, not even one that an   *)
(* overtaken attempt obtained meanwhile, and nothing brings one back.      *)
StopLeavesNothing ==
    \A e \in Endpoints :
        LET r == runtime[e]
        IN r.halted => /\ r.open = {} /\ ~r.connected /\ ~r.timer
                       /\ r.task.stage = "none"

(* While the adapter's publications go to the hub it refuses no lifecycle  *)
(* message, whatever the stamps of the states between them made it refuse  *)
(* or drop: it thinks an endpoint connected exactly while the adapter has  *)
(* not published its loss, in the session that the adapter is in; it has   *)
(* seen a loss as the last that was sent; and the next message is not one  *)
(* it would take for an old one.                                           *)
HubFollowsEndpoint ==
    ToHub =>
        \A e \in Endpoints :
            LET r == runtime[e]
                a == hub.admission[e]
            IN /\ a.connected <=> r.connected /\ ~r.lossPublished
               /\ a.connected => a.session = <<feed.publisher, r.sessionGeneration>>
               /\ IF a.connected THEN a.last < r.nextSource ELSE a.last = r.nextSource - 1

(* No page ever rejects a frame of its own context: whatever a slow or a   *)
(* late socket is sent (replay, catch-up, message, across activations and  *)
(* restarts of the wire sequence) has the order the page checks for.       *)
NoFrameRefused == \A b \in Browsers : ~browser[b].refused

(* The picture that the hub's cache holds of a channel.                    *)
Latest(S) == CHOOSE m \in S : \A o \in S : o = m \/ Older(o, m)

CachedValue(cache, c) ==
    LET good == {m \in cache.prefix \cup cache.current : m.channel = c /\ m.good}
    IN IF good = {} THEN Null ELSE <<Latest(good).publisher, Latest(good).seq>>

CachedQuality(cache, c) ==
    LET seen == {m \in cache.current : m.channel = c}
    IN IF cache.disconnected # Null THEN "stale"
       ELSE IF seen = {} THEN "waiting"
       ELSE IF Latest(seen).good THEN "good" ELSE "bad"

(* The page has an open session on an attached socket and no frame is      *)
(* under way.                                                              *)
AtRest(b) ==
    LET s == browser[b].candidate
    IN s # Null /\ browser[b].opened # NoTarget /\ hub.socket[s].attached
         /\ hub.socket[s].net = <<>> /\ ~Busy(hub.socket[s])

Shows(b) ==
    \A e \in Endpoints, c \in Channels :
        LET shown == browser[b].signals[e].signal[c]
            cache == hub.cache[e]
        IN cache.connected # Null =>
              /\ shown.quality = CachedQuality(cache, c)
              /\ CachedValue(cache, c) # Null => shown.value = CachedValue(cache, c)

(* Every way to a page leads to the same picture: replayed, caught up with *)
(* or told message by message, a page at rest shows of every channel the   *)
(* value and the quality that the hub's cache holds.                       *)
QuietPagesAgree ==
    \A b \in Browsers :
        (/\ AtRest(b)
         /\ hub.activation # Null
         /\ hub.activation.revision = browser[b].opened.revision) => Shows(b)

(* A page with an open session shows a value as GOOD only of an endpoint   *)
(* whose connected event it has, and never in the middle of a catch-up.    *)
GoodIsLive ==
    \A b \in Browsers, e \in Endpoints, c \in Channels :
        browser[b].opened # NoTarget /\ browser[b].signals[e].signal[c].quality = "good"
            => /\ IsConnected(browser[b].record[e].lifecycle)
               /\ ~browser[b].signals[e].guard.under

Since(value, previous) ==
    previous = Null \/ (value # Null /\ (value = previous \/ Later(value, previous)))

(* Action property.  The value a page shows of a channel never gives way   *)
(* to an older one: not by a replay after a reconnect, not by a catch-up,  *)
(* not when one is abandoned.                                              *)
ValuesNeverRegress ==
    [][\A b \in Browsers, e \in Endpoints, c \in Channels :
          browser'[b].target = browser[b].target =>
              Since(browser'[b].signals[e].signal[c].value,
                    browser[b].signals[e].signal[c].value)]_vars
=============================================================================
