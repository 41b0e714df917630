---------------------------- MODULE LogicalSignals ----------------------------
(***************************************************************************)
(* What a page shows of one endpoint: the logical signal store             *)
(* (logical-signal-runtime-store.ts) behind the endpoint lifecycle router  *)
(* (endpoint-lifecycle-router.ts).  A signal keeps the last good value;    *)
(* its quality says whether that value may be trusted.  While a catch-up   *)
(* is applied the signals show stale and what arrives is collected, to be  *)
(* shown at once or not at all.                                            *)
(*                                                                         *)
(* The joint, frame and object stores follow the same four calls.  A value *)
(* is named by its publisher and source sequence.  Its stamp is checked    *)
(* here as it is in the hub; the time of receipt is left out.              *)
(***************************************************************************)
EXTENDS StateBatchHub

Unobserved == [value |-> Null, quality |-> "waiting"]

(* The guard of a catch-up, while under: what has been collected, and the  *)
(* fences to go back to.                                                   *)
NoGuard == [under |-> FALSE, pending |-> Null, fence |-> 0, stamp |-> NoStamps]

Guarded(s) == [under |-> TRUE, pending |-> s.signal, fence |-> s.fence, stamp |-> s.stamp]

(* fence: the wire sequence of the last batch; stamp: that of the last     *)
(* batch of each channel; routed: the Order of the last lifecycle event.   *)
NewSignals ==
    [signal |-> [c \in Channels |-> Unobserved], fence |-> 0, stamp |-> NoStamps,
     guard |-> NoGuard, routed |-> Null]

Observed(previous, m) ==
    [value |-> IF m.good THEN <<m.publisher, m.seq>> ELSE previous.value,
     quality |-> IF m.good THEN "good" ELSE "bad"]

(* The signals that a write goes to.                                       *)
Written(s, signal) ==
    IF s.guard.under THEN [s EXCEPT !.guard.pending = signal]
    ELSE [s EXCEPT !.signal = signal]

Writable(s) == IF s.guard.under THEN s.guard.pending ELSE s.signal

WithQuality(signal, quality) ==
    [c \in Channels |-> [value |-> signal[c].value, quality |-> quality]]

-----------------------------------------------------------------------------
(* ingest, restoreReplayPrefix                                             *)

Ingested(s, m, wire) ==
    IF wire <= s.fence \/ Ahead(m) \/ m.stamp < s.stamp[m.channel] THEN s
    ELSE [Written(s, [Writable(s) EXCEPT ![m.channel] = Observed(@, m)])
            EXCEPT !.fence = wire, !.stamp[m.channel] = m.stamp]

PrefixRestored(s, m) ==
    IF Ahead(m) THEN s ELSE [s EXCEPT !.signal[m.channel] = Observed(@, m)]

(* markEndpointDisconnected, resetEndpointSession, resetGatewaySession     *)

EndpointDisconnected(s) == Written(s, WithQuality(Writable(s), "stale"))

EndpointReset(s) ==
    [Written(s, WithQuality(Writable(s), "waiting")) EXCEPT !.fence = 0, !.stamp = NoStamps]

(* Mutant: a new session starts without values.                            *)
SessionResetAll(s) == NewSignals

SessionReset(s) == [NewSignals EXCEPT !.signal = WithQuality(s.signal, "waiting")]

(* beginEndpointCatchup and its guard's commit and abort.  An abort leaves *)
(* the signals stale.                                                      *)

(* Mutant: the signals show what they showed.                              *)
CatchupBegunShown(s) == [s EXCEPT !.guard = Guarded(s)]

CatchupBegun(s) == [s EXCEPT !.signal = WithQuality(@, "stale"), !.guard = Guarded(s)]

CatchupCommitted(s) == [s EXCEPT !.signal = s.guard.pending, !.guard = NoGuard]

CatchupAborted(s) ==
    [s EXCEPT !.fence = s.guard.fence, !.stamp = s.guard.stamp, !.guard = NoGuard]

-----------------------------------------------------------------------------
(* The router: each lifecycle event once, in order.                        *)

Order(m) == <<m.publisher, m.session, IF m.kind = "connected" THEN 0 ELSE 1>>

Later(o, p) == \E i \in DOMAIN o : o[i] > p[i] /\ \A j \in 1..(i - 1) : o[j] = p[j]

LifecycleRouted(s, m) ==
    IF s.routed # Null /\ ~Later(Order(m), s.routed) THEN s
    ELSE [IF m.kind = "connected" THEN EndpointReset(s) ELSE EndpointDisconnected(s)
            EXCEPT !.routed = Order(m)]
=============================================================================
