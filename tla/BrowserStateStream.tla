-------------------------- MODULE BrowserStateStream --------------------------
(***************************************************************************)
(* The page's end of the state stream (runtime-gateway-state-stream.ts):   *)
(* one WebSocket candidate at a time, a reconnect timer, and per endpoint  *)
(* the last wire sequence and lifecycle.  A replay or a catch-up arrives   *)
(* between two boundary frames; its body is checked against a provisional  *)
(* lifecycle as it comes in and applied as a whole at the end.  Any frame  *)
(* that does not fit rejects the candidate: the page closes it, forgets    *)
(* what it knew of the endpoints and reconnects.                           *)
(*                                                                         *)
(* A frame is handled in one call, which no other frame interrupts, so the *)
(* queues for reentrant frames are left out, and so are byte counts, the   *)
(* lease of the same socket and commands (module BrowserCommands).         *)
(***************************************************************************)
EXTENDS LogicalSignals

(* EndpointRecordV5: lifecycle is Null or the Order of the last event;     *)
(* seen is also the negation of replayEligible.                            *)
NewRecord == [wire |-> 0, lifecycle |-> Null, seen |-> FALSE]
NewRecords == [e \in Endpoints |-> NewRecord]

(* No Project is in force.                                                 *)
NoTarget == [graph |-> Null, revision |-> Null]

NewBrowser ==
    [started |-> FALSE,
     target |-> NoTarget,    \* readActiveTarget(): the graph in force and its revision
     candidate |-> Null,     \* the socket
     opened |-> NoTarget,    \* its openedTarget, once it has opened
     timer |-> FALSE,        \* reconnectTimer
     refreshing |-> FALSE,   \* refreshInFlight
     record |-> NewRecords,
     boundary |-> Null,
     signals |-> [e \in Endpoints |-> NewSignals],
     refused |-> FALSE]      \* (history) a frame of its own context was rejected

-----------------------------------------------------------------------------
(* applyLifecycle: Null when the event does not fit.                       *)

Connects(current, o) ==
    o[3] = 0 /\ (current # Null => \/ o[1] > current[1]
                                   \/ o[1] = current[1] /\ o[2] > current[2])
Disconnects(current, o) == o[3] = 1 /\ current = <<o[1], o[2], 0>>

Accepted(current, o) == Connects(current, o) \/ Disconnects(current, o)
Fits(current, o) == current = o \/ Accepted(current, o)

IsConnected(lifecycle) == lifecycle # Null /\ lifecycle[3] = 0

-----------------------------------------------------------------------------
(* Applying a message.                                                     *)

Applied(b, f) ==
    LET e == f.endpoint
        m == f.body
        current == b.record[e].lifecycle
    IN IF m.kind = "state"
       THEN IF IsConnected(current) THEN [b EXCEPT !.signals[e] = Ingested(@, m, f.wire)] ELSE Null
       ELSE IF current = Order(m) THEN b
       ELSE IF Accepted(current, Order(m))
       THEN [b EXCEPT !.record[e].lifecycle = Order(m), !.signals[e] = LifecycleRouted(@, m)]
       ELSE Null

Ordinary(b, f) == Applied([b EXCEPT !.record[f.endpoint].seen = TRUE], f)

-----------------------------------------------------------------------------
(* Boundaries.                                                             *)

KindOf(f) == IF f.kind \in {"replayStart", "replayEnd"} THEN "replay" ELSE "catchup"
IsStart(f) == f.kind \in {"replayStart", "catchupStart"}
IsEnd(f) == f.kind \in {"replayEnd", "catchupEnd"}

(* beginBoundary *)
Begun(b, f) ==
    LET e == f.endpoint
        boundary == [kind |-> KindOf(f), endpoint |-> e, id |-> f.id, count |-> f.body,
                     lifecycle |-> b.record[e].lifecycle, stage |-> "prefix", frames |-> <<>>]
        active == [b EXCEPT !.boundary = boundary, !.record[e].seen = TRUE]
    IN IF KindOf(f) = "replay"
       THEN IF b.record[e].seen THEN Null ELSE active
       ELSE [active EXCEPT !.signals[e] = CatchupBegun(@)]

(* admitReplayBody: the stage after it, or Null.                           *)
StageAfter(boundary, m) ==
    LET fits == Fits(boundary.lifecycle, Order(m))
        new == boundary.lifecycle # Order(m)
    IN CASE m.kind = "state" /\ boundary.stage # "disconnected" -> boundary.stage
         [] m.kind = "connected" /\ boundary.stage = "prefix" /\ fits /\ new -> "current"
         [] m.kind = "connected" /\ boundary.stage = "current" /\ fits /\ ~new -> "current"
         [] m.kind = "disconnected" /\ boundary.stage = "current" /\ fits -> "disconnected"
         [] m.kind = "disconnected" /\ boundary.stage = "disconnected" /\ fits /\ ~new -> "disconnected"
         [] OTHER -> Null

(* admitCatchupBody *)
CatchupAdmits(boundary, m) ==
    IF m.kind = "state" THEN IsConnected(boundary.lifecycle) ELSE Fits(boundary.lifecycle, Order(m))

(* appendBoundaryBody *)
Buffered(b, f) ==
    LET m == f.body
        boundary == b.boundary
        stage == IF boundary.kind = "replay" THEN StageAfter(boundary, m)
                 ELSE IF CatchupAdmits(boundary, m) THEN "current" ELSE Null
        entry == [frame |-> f, prefix |-> m.kind = "state" /\ stage = "prefix"]
    IN IF f.endpoint # boundary.endpoint \/ Len(boundary.frames) >= boundary.count \/ stage = Null
       THEN Null
       ELSE [b EXCEPT !.boundary.stage = stage,
                      !.boundary.lifecycle = IF m.kind = "state" THEN @ ELSE Order(m),
                      !.boundary.frames = Append(@, entry)]

(* drainBoundary *)
Drained(b, entry) ==
    IF b = Null THEN Null
    ELSE IF entry.prefix
    THEN [b EXCEPT !.signals[entry.frame.endpoint] = PrefixRestored(@, entry.frame.body)]
    ELSE Applied(b, entry.frame)

Complete(boundary, f) ==
    /\ KindOf(f) = boundary.kind /\ f.endpoint = boundary.endpoint
    /\ f.id = boundary.id /\ f.body = boundary.count
    /\ Len(boundary.frames) = boundary.count
    /\ boundary.stage # "prefix"

(* finishBoundary *)
Finished(b, f) ==
    LET drained == FoldLeft(Drained, b, b.boundary.frames)
        closed == [drained EXCEPT !.boundary = Null]
    IN IF ~Complete(b.boundary, f) \/ drained = Null THEN Null
       ELSE IF b.boundary.kind = "replay" THEN closed
       ELSE [closed EXCEPT !.signals[f.endpoint] = CatchupCommitted(@)]

-----------------------------------------------------------------------------
(* The candidate.                                                          *)

CandidateMade(b, s) == [b EXCEPT !.candidate = s, !.timer = FALSE]

(* abortBoundary *)
Unguarded(b) ==
    LET aborted == IF b.boundary = Null \/ b.boundary.kind = "replay" THEN b
                   ELSE [b EXCEPT !.signals[b.boundary.endpoint] = CatchupAborted(@)]
    IN [aborted EXCEPT !.boundary = Null]

Detach(b) == [Unguarded(b) EXCEPT !.candidate = Null, !.opened = NoTarget, !.record = NewRecords]

(* Mutant: only a session that had opened is worth a reconnect.            *)
RejectedUnlessOpened(b) ==
    LET lost == IF b.opened = NoTarget THEN b
                ELSE [b EXCEPT !.signals = [e \in Endpoints |-> EndpointDisconnected(b.signals[e])]]
    IN [Detach(lost) EXCEPT !.timer = @ \/ (b.started /\ b.opened # NoTarget)]

(* rejectCandidate: an established session is announced lost before its    *)
(* catch-up is aborted.                                                    *)
Rejected(b) ==
    LET lost == IF b.opened = NoTarget THEN b
                ELSE [b EXCEPT !.signals = [e \in Endpoints |-> EndpointDisconnected(b.signals[e])]]
    IN [Detach(lost) EXCEPT !.timer = @ \/ b.started]

(* open *)
SessionOpened(b) ==
    [Unguarded(b) EXCEPT !.opened = b.target, !.record = NewRecords, !.refreshing = FALSE,
                         !.signals = [e \in Endpoints |-> SessionReset(b.signals[e])]]

(* admitEnvelope, routeAdmittedFrame: Null for a frame that is refused.    *)
InContext(b, f) == b.target = b.opened /\ f.revision = b.opened.revision

Routed(b, f) ==
    LET admitted == [b EXCEPT !.record[f.endpoint].wire = f.wire]
    IN IF f.wire <= b.record[f.endpoint].wire THEN Null
       ELSE IF b.boundary # Null
       THEN IF IsEnd(f) THEN Finished(admitted, f)
            ELSE IF IsStart(f) THEN Null ELSE Buffered(admitted, f)
       ELSE IF IsEnd(f) THEN Null
       ELSE IF IsStart(f) THEN Begun(admitted, f) ELSE Ordinary(admitted, f)

Handled(b, f) ==
    LET routed == Routed(b, f)
    IN IF ~InContext(b, f) THEN Rejected(b)
       ELSE IF routed = Null THEN Rejected([b EXCEPT !.refused = TRUE])
       ELSE routed

(* start, stop, refreshActiveTarget; a target comes with its stores.        *)
Disposed(b) == [Detach(b) EXCEPT !.timer = FALSE]

StreamStarted(b) == [b EXCEPT !.started = TRUE, !.refreshing = FALSE]
StreamStopped(b) == [Disposed(b) EXCEPT !.started = FALSE, !.refreshing = FALSE]
StreamRefreshed(b) == IF b.refreshing THEN b ELSE [Disposed(b) EXCEPT !.refreshing = TRUE]

Retargeted(b, target, signals) == [b EXCEPT !.target = target, !.signals = signals]
=============================================================================
