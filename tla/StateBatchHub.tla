---------------------------- MODULE StateBatchHub ----------------------------
(***************************************************************************)
(* The Gateway's state batch hub (state-batch-hub.ts): endpoint messages   *)
(* come in, every attached WebSocket gets the same picture out.  A late    *)
(* socket is sent a replay of the cache; a socket that is still sending    *)
(* collects what it misses in a pending timeline, coalesced per channel,   *)
(* and is sent that as one catch-up; an idle socket gets the message.      *)
(*                                                                         *)
(* The hub never awaits: each operation below is one call, a function from *)
(* hub to hub.  An activation is one operation too, because main.ts seals, *)
(* prepares, installs and flushes without an await between.                *)
(*                                                                         *)
(* Abstractions: a state batch carries one channel (a mapping or coherence *)
(* group) and is never split; its publisher and source sequence stand for  *)
(* its values; byte limits and the LRU bound of the cache are left out; a  *)
(* boundary's id is the wire sequence of its start.  A stamp is the        *)
(* sourceTimestampMs the server put on a state, and GatewayTime the        *)
(* publishedTimestampMs of all of them: an adapter's clock never goes back *)
(* and an activation admits afresh, so nothing depends on published        *)
(* timestamps but whether a source timestamp is ahead of its own.          *)
(***************************************************************************)
EXTENDS Naturals, Sequences, FiniteSets, SequencesExt, FiniteSetsExt

CONSTANTS Endpoints,    \* the Project's enabled client endpoints
          Channels,     \* the monitored groups of an endpoint, 1..n in order
          Sockets,      \* WebSocket connections
          Null,
          GatewayTime,  \* stamps up to this are not ahead of the Gateway's clock
          MaxWire,      \* Number.MAX_SAFE_INTEGER for wire sequences
          MaxBarriers   \* MAX_PENDING_LIFECYCLE_BARRIERS_V1

ASSUME HubAssumption ==
    /\ MaxWire \in Nat /\ MaxBarriers \in Nat /\ GatewayTime \in Nat
    /\ IsFiniteSet(Endpoints)
    /\ IsFiniteSet(Channels) /\ Channels = 1..Cardinality(Channels)
    /\ Null \notin Endpoints \cup Sockets

-----------------------------------------------------------------------------
(* Reconstruction records: of each channel the last good observation and   *)
(* the latest one.  Observations are ordered as they were accepted.        *)

Older(m, o) == \/ m.publisher < o.publisher
               \/ m.publisher = o.publisher /\ m.seq < o.seq

Retained(S) ==
    {m \in S : LET newer == {o \in S : o.channel = m.channel /\ Older(m, o)}
               IN newer = {} \/ (m.good /\ \A o \in newer : ~o.good)}

Flattened(S) ==
    [i \in 1..Cardinality(S) |-> CHOOSE m \in S : Cardinality({o \in S : Older(o, m)}) = i - 1]

-----------------------------------------------------------------------------
(* Timelines: what a busy socket missed of an endpoint, and what a         *)
(* candidate's adapter published before its activation.  A lifecycle       *)
(* message is a barrier that closes the segment before it.                 *)

EmptyTimeline == [entries |-> <<>>, current |-> {}]

(* Mutant: a barrier loses the segment it closes.                          *)
ExtendedLosing(t, m) ==
    IF m.kind = "state"
    THEN [t EXCEPT !.current = Retained(@ \cup {m})]
    ELSE [entries |-> Append(t.entries, m), current |-> {}]

Extended(t, m) ==
    IF m.kind = "state"
    THEN [t EXCEPT !.current = Retained(@ \cup {m})]
    ELSE [entries |-> Append(t.entries \o Flattened(t.current), m), current |-> {}]

MessagesOf(t) == t.entries \o Flattened(t.current)

EmptyTimelines == [e \in Endpoints |-> EmptyTimeline]

IsBarrier(m) == m.kind # "state"

Barriers(t) == Cardinality({i \in DOMAIN t.entries : IsBarrier(t.entries[i])})

WithinBounds(pending) ==
    MapThenSumSet(LAMBDA e : Barriers(pending[e]), Endpoints) <= MaxBarriers

-----------------------------------------------------------------------------
(* Admission: source sequences increase, a session is newer than the one   *)
(* before it, a loss belongs to the present session, and state is only     *)
(* accepted between the two, if its stamp is not ahead.  A state whose     *)
(* channel has a later stamp in this session counts, but is not kept.      *)

NoStamps == [c \in Channels |-> 0]

NoAdmission == [last |-> 0, session |-> Null, connected |-> FALSE, stamp |-> NoStamps]

Ahead(m) == m.stamp > GatewayTime

NewSession(m, prior) ==
    prior # Null => \/ m.publisher > prior[1]
                    \/ m.publisher = prior[1] /\ m.session > prior[2]

Admits(a, m) ==
    /\ m.seq > a.last
    /\ m.kind = "connected" => NewSession(m, a.session)
    /\ m.kind = "disconnected" => a.connected /\ a.session = <<m.publisher, m.session>>
    /\ m.kind = "state" => a.connected /\ ~Ahead(m)

InOrder(a, m) == m.kind = "state" => m.stamp >= a.stamp[m.channel]

Admitted(a, m) ==
    [last |-> m.seq,
     session |-> IF m.kind = "connected" THEN <<m.publisher, m.session>> ELSE a.session,
     connected |-> IF m.kind = "state" THEN a.connected ELSE m.kind = "connected",
     stamp |-> CASE m.kind = "connected" -> NoStamps
                 [] m.kind = "state" /\ InOrder(a, m) -> [a.stamp EXCEPT ![m.channel] = m.stamp]
                 [] OTHER -> a.stamp]

-----------------------------------------------------------------------------
(* The replay cache of an endpoint.                                        *)

EmptyCache == [prefix |-> {}, connected |-> Null, current |-> {}, disconnected |-> Null]

Cached(c, m) ==
    CASE m.kind = "connected" ->
            [prefix |-> Retained(c.prefix \cup c.current), connected |-> m,
             current |-> {}, disconnected |-> Null]
      [] m.kind = "disconnected" -> [c EXCEPT !.disconnected = m]
      [] OTHER -> [c EXCEPT !.current = Retained(@ \cup {m})]

OneOrNone(m) == IF m = Null THEN <<>> ELSE <<m>>

CacheMessages(c) ==
    IF c.connected = Null THEN <<>>
    ELSE Flattened(c.prefix) \o <<c.connected>> \o Flattened(c.current)
            \o OneOrNone(c.disconnected)

-----------------------------------------------------------------------------
(* Frames.  A boundary frame has the context of its messages; its body is  *)
(* the number of body frames it declares, and id what an end must share    *)
(* with its start.                                                         *)

Frame(kind, m, wire, id, body) ==
    [kind |-> kind, endpoint |-> m.endpoint, revision |-> m.revision, wire |-> wire,
     id |-> id, body |-> body]

Unframed(m, wire) == Frame("message", m, wire, 0, m)

Opened == [kind |-> "open"]
Closed == [kind |-> "close"]

(* replay, catchup: one bracketed run of messages of one endpoint.         *)
Framed(kind, messages, wire) ==
    LET n == Len(messages)
        boundary(phase, w) == Frame(kind \o phase, Head(messages), w, wire + 1, n)
    IN <<boundary("Start", wire + 1)>>
         \o [i \in 1..n |-> Unframed(messages[i], wire + 1 + i)]
         \o <<boundary("End", wire + n + 2)>>

(* The brackets of every endpoint with messages, one after another, from a *)
(* staged copy of the counters; exhausted names an endpoint that ran out.  *)
Cut(kind, messages, acc, e) ==
    IF acc.exhausted # Null \/ messages[e] = <<>> THEN acc
    ELSE IF acc.wire[e] + Len(messages[e]) + 2 > MaxWire THEN [acc EXCEPT !.exhausted = e]
    ELSE [acc EXCEPT !.frames = @ \o Framed(kind, messages[e], acc.wire[e]),
                     !.wire[e] = @ + Len(messages[e]) + 2]

Cuts(kind, messages, wire) ==
    FoldLeft(LAMBDA acc, e : Cut(kind, messages, acc, e),
             [frames |-> <<>>, wire |-> wire, exhausted |-> Null],
             SetToSeq(Endpoints))

-----------------------------------------------------------------------------
(* Sockets.  out: the frames from the one handed to send() and not yet     *)
(* called back, to the end of the queue; net: what the peer has yet to     *)
(* read.                                                                   *)

DetachedSocket == [attached |-> FALSE, out |-> <<>>, pending |-> EmptyTimelines, net |-> <<>>]

Busy(k) == k.out # <<>>

(* detachAndClose: the peer still reads what was sent, then the close.     *)
Dropped(k) == [DetachedSocket EXCEPT !.net = Append(k.net, Closed)]

DroppedAll(sockets) ==
    [s \in Sockets |-> IF sockets[s].attached THEN Dropped(sockets[s]) ELSE sockets[s]]

(* Queue frames; an idle socket sends the first at once.                   *)
Loaded(k, frames) ==
    [k EXCEPT !.out = @ \o frames,
              !.net = IF Busy(k) \/ frames = <<>> THEN @ ELSE Append(@, Head(frames))]

(* Mutant: a busy socket may collect any number of barriers.              *)
AppendUnbounded(k, m) == [k EXCEPT !.pending[m.endpoint] = Extended(@, m)]

AppendPending(k, m) ==
    LET pending == [k.pending EXCEPT ![m.endpoint] = Extended(@, m)]
    IN IF WithinBounds(pending) THEN [k EXCEPT !.pending = pending] ELSE Dropped(k)

(* activation: Null, or the revision and publisher generation in force.    *)
NewHub == [activation |-> Null,
           admission |-> [e \in Endpoints |-> NoAdmission],
           cache |-> [e \in Endpoints |-> EmptyCache],
           wire |-> [e \in Endpoints |-> 0],
           socket |-> [s \in Sockets |-> DetachedSocket]]

(* Mutant: the counter restarts under the sockets.                         *)
ResetWireOnly(h, e) == [h EXCEPT !.wire[e] = 0]

(* A wire sequence ran out: every socket goes before the counter restarts. *)
ResetWire(h, e) ==
    [h EXCEPT !.socket = DroppedAll(h.socket), !.wire[e] = 0]

-----------------------------------------------------------------------------
(* publish *)

MatchesActivation(activation, m) ==
    /\ activation # Null
    /\ m.revision = activation.revision
    /\ IsBarrier(m) => m.publisher = activation.publisher

Distributed(h, m) ==
    LET e == m.endpoint
        idle == {s \in Sockets : h.socket[s].attached /\ ~Busy(h.socket[s])}
        appended == [s \in Sockets |-> IF h.socket[s].attached /\ Busy(h.socket[s])
                                       THEN AppendPending(h.socket[s], m) ELSE h.socket[s]]
        sent == [s \in Sockets |-> IF s \in idle
                                   THEN Loaded(appended[s], <<Unframed(m, h.wire[e] + 1)>>)
                                   ELSE appended[s]]
    IN IF idle = {} THEN [h EXCEPT !.socket = appended]
       ELSE IF h.wire[e] + 1 > MaxWire THEN ResetWire([h EXCEPT !.socket = appended], e)
       ELSE [h EXCEPT !.socket = sent, !.wire[e] = @ + 1]

Accepts(h, m) == MatchesActivation(h.activation, m) /\ Admits(h.admission[m.endpoint], m)

Published(h, m) ==
    LET counted == [h EXCEPT !.admission[m.endpoint] = Admitted(@, m)]
    IN IF ~Accepts(h, m) THEN h
       ELSE IF ~InOrder(h.admission[m.endpoint], m) THEN counted
       ELSE Distributed([counted EXCEPT !.cache[m.endpoint] = Cached(@, m)], m)

-----------------------------------------------------------------------------
(* attach: a replay of every endpoint that has been connected.             *)
Attached(h, s) ==
    LET k == [DetachedSocket EXCEPT !.attached = TRUE, !.net = <<Opened>>]
        replay == Cuts("replay", [e \in Endpoints |-> CacheMessages(h.cache[e])], h.wire)
        joined == [h EXCEPT !.socket[s] = k]
    IN IF h.activation = Null THEN joined
       ELSE IF replay.exhausted # Null THEN ResetWire(joined, replay.exhausted)
       ELSE [joined EXCEPT !.wire = replay.wire, !.socket[s] = Loaded(k, replay.frames)]

(* The send callback of the frame in flight: the next frame, or the cut of *)
(* what is pending.                                                        *)
PendingMessages(k) == [e \in Endpoints |-> MessagesOf(k.pending[e])]

Called(h, s) ==
    LET k == [h.socket[s] EXCEPT !.out = Tail(@)]
        catchup == Cuts("catchup", PendingMessages(k), h.wire)
        frozen == [k EXCEPT !.pending = EmptyTimelines]
    IN IF k.out # <<>> THEN [h EXCEPT !.socket[s] = [k EXCEPT !.net = Append(@, Head(k.out))]]
       ELSE IF catchup.exhausted # Null THEN ResetWire(h, catchup.exhausted)
       ELSE [h EXCEPT !.wire = catchup.wire, !.socket[s] = Loaded(frozen, catchup.frames)]

(* The close or error event of a socket, or an error its callback reports. *)
Detached(h, s) == [h EXCEPT !.socket[s] = DetachedSocket]
Failed(h, s) == [h EXCEPT !.socket[s] = Dropped(@)]

-----------------------------------------------------------------------------
(* prepareRevisionActivation, installPrepared and flushPrepared.           *)

(* The staged messages that suit the activation, admitted afresh, enter a  *)
(* copy of the caches and the timeline that open sockets will be sent.     *)
Staged(activation, cache, messages) ==
    LET stage(acc, m) ==
            LET counted == [acc EXCEPT !.admission[m.endpoint] = Admitted(@, m)]
            IN IF ~MatchesActivation(activation, m) \/ ~Admits(acc.admission[m.endpoint], m) THEN acc
               ELSE IF ~InOrder(acc.admission[m.endpoint], m) THEN counted
               ELSE [counted EXCEPT !.cache[m.endpoint] = Cached(@, m),
                                    !.timeline[m.endpoint] = Extended(@, m)]
    IN FoldLeft(stage, [admission |-> NewHub.admission, cache |-> cache,
                        timeline |-> EmptyTimelines], messages)

(* Each socket's own pending cut, drawn from the shared counters.          *)
PendingCuts(h) ==
    LET cut(acc, s) ==
            LET own == Cuts("catchup", PendingMessages(h.socket[s]), acc.wire)
            IN IF acc.exhausted # Null \/ ~h.socket[s].attached THEN acc
               ELSE [frames |-> [acc.frames EXCEPT ![s] = own.frames],
                     wire |-> own.wire, exhausted |-> own.exhausted]
    IN FoldLeft(cut, [frames |-> [s \in Sockets |-> <<>>], wire |-> h.wire, exhausted |-> Null],
                SetToSeq(Sockets))

SameRevision(h, activation) ==
    h.activation # Null /\ h.activation.revision = activation.revision

(* Another revision: every socket goes, the caches and counters restart.   *)
Replaced(h, activation, messages) ==
    LET staged == Staged(activation, NewHub.cache, messages)
    IN [NewHub EXCEPT !.activation = activation, !.admission = staged.admission,
                      !.cache = staged.cache, !.socket = DroppedAll(h.socket)]

(* The same revision again: sockets and caches stay, and every socket gets *)
(* what it had pending and then what was staged.                           *)
SharedCuts(h, activation, messages) ==
    LET staged == Staged(activation, h.cache, messages)
        own == PendingCuts(h)
    IN [staged |-> staged, own |-> own,
        shared |-> Cuts("catchup", [e \in Endpoints |-> MessagesOf(staged.timeline[e])], own.wire)]

Renewed(h, activation, messages) ==
    LET cuts == SharedCuts(h, activation, messages)
        open == \E s \in Sockets : h.socket[s].attached
        flushed(k, own) == IF ~k.attached THEN k
                           ELSE Loaded([k EXCEPT !.pending = EmptyTimelines],
                                       own \o cuts.shared.frames)
    IN [activation |-> activation, admission |-> cuts.staged.admission,
        cache |-> cuts.staged.cache,
        wire |-> IF open THEN cuts.shared.wire ELSE h.wire,
        socket |-> [s \in Sockets |-> flushed(h.socket[s], cuts.own.frames[s])]]

(* Preparation throws when a counter would run out.                        *)
Prepares(h, activation, messages) ==
    LET cuts == SharedCuts(h, activation, messages)
    IN (SameRevision(h, activation) /\ \E s \in Sockets : h.socket[s].attached)
            => cuts.own.exhausted = Null /\ cuts.shared.exhausted = Null

Activated(h, activation, messages) ==
    IF SameRevision(h, activation) THEN Renewed(h, activation, messages)
    ELSE Replaced(h, activation, messages)

(* deactivateRevision, close *)
Deactivated(h) == [NewHub EXCEPT !.socket = DroppedAll(h.socket)]
=============================================================================
