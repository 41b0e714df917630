-------------------------- MODULE GatewayActivation --------------------------
(***************************************************************************)
(* The Runtime Gateway's transitions (main.ts): PUT /project replaces the  *)
(* active runtime, DELETE /project withdraws it, stop() shuts the service  *)
(* down.  Transitions wait in runtimeTail and run one at a time; one       *)
(* action is the code up to the next await.  Each runtime has an OPC UA    *)
(* server adapter, a client adapter, both or none, by its Project's mode.  *)
(*                                                                         *)
(* Abstractions: a runtime stands for its authority tuple; an adapter is   *)
(* "off", "on", or "half" (a stop that rejected left something behind);    *)
(* adapters that are stopped together are stopped in one step.  Leases,    *)
(* commands and the contents of the state hub are left out.                *)
(***************************************************************************)
EXTENDS Naturals, Sequences, FiniteSets

CONSTANTS Runtimes,     \* activation attempts; each is requested once
          Null,
          MaxQueue      \* bound on the requests read or queued at a time

ASSUME ActivationAssumption == Null \notin Runtimes /\ MaxQueue \in Nat

VARIABLES activeRuntime,
          projectAuthorityPhase,
          residualRuntimeCleanup,  \* runtimes whose candidate cleanup failed
          adapters,      \* state of each runtime's server and client adapter
          runtimeTail,   \* queued transitions
          transition,    \* the running one: the await it stands at
          reading,       \* requests whose body is being read
          requested,     \* history: runtimes a PUT was sent for
          forsaken,      \* those whose client hung up while stop() waited
          service,       \* lifecycle: "listening", "closing" or "stopped"
          hub            \* the state batch hub: open, and the runtime it serves

authorityVars == <<activeRuntime, projectAuthorityPhase>>
requestVars == <<runtimeTail, reading, requested, forsaken>>
vars == <<authorityVars, residualRuntimeCleanup, adapters, transition, requestVars,
          service, hub>>

-----------------------------------------------------------------------------
Kinds == {"server", "client"}
AdapterState == {"none", "off", "on", "half"}

PutRequest == [kind : {"activate"},
               runtime : Runtimes,                \* the candidate
               expected : Runtimes \cup {Null},   \* the fence
               modes : SUBSET Kinds,              \* the candidate's adapters
               waiting : BOOLEAN]                 \* its connection is still there

FencedRequest == [kind : {"deactivate"}, runtime : Runtimes,
                  expected : {Null}, modes : {{}}, waiting : BOOLEAN]

PlainRequest == [kind : {"unconditional", "close"}, runtime : {Null},
                 expected : {Null}, modes : {{}}, waiting : BOOLEAN]

Request == PutRequest \cup FencedRequest \cup PlainRequest

Stage == {"idle", "stopServer", "stopClient", "startServer", "startClient", "install",
          "cleanup", "recoverServer", "recoverClient", "recoveryFailed",
          "deactivating", "closing"}

(* candidate: the runtime being activated; stopped: previousAdaptersStopped;*)
(* residue: candidateCleanupFailed; waiting: its client still waits.       *)
NoTransition == [stage |-> "idle", candidate |-> Null, stopped |-> FALSE, residue |-> FALSE,
                 waiting |-> FALSE]

NoHub == [open |-> FALSE, runtime |-> Null]
NewHub == [open |-> TRUE, runtime |-> Null]

Init ==
    /\ activeRuntime = Null
    /\ projectAuthorityPhase = "inactive"
    /\ residualRuntimeCleanup = {}
    /\ adapters = [r \in Runtimes |-> [k \in Kinds |-> "none"]]
    /\ runtimeTail = <<>>
    /\ transition = NoTransition
    /\ reading = {}
    /\ requested = {} /\ forsaken = {}
    /\ service = "listening"
    /\ hub = NewHub

-----------------------------------------------------------------------------
(* The adapters (opcua-server-adapter.ts, opcua-client-adapter.ts).        *)

AdapterOf(r, k) == IF r = Null THEN "none" ELSE adapters[r][k]
Holding(r, k) == AdapterOf(r, k) \in {"on", "half"}
Dirty(r) == \E k \in Kinds : adapters[r][k] = "half"

(* stop() of what was never started, or is stopped, does nothing.          *)
AfterStop(r, k) == IF Holding(r, k) THEN {"off", "half"} ELSE {AdapterOf(r, k)}

(* start(): the server adapter fails when its port is taken or its model   *)
(* does not load, and returns at once when it still has a server; the      *)
(* client adapter connects later, but refuses while native cleanup is due. *)
PortFree(r) == \A o \in Runtimes \ {r} : adapters[o]["server"] # "on"

AfterStart(r, k) ==
    IF AdapterOf(r, k) # "off" THEN {AdapterOf(r, k)}
    ELSE IF k = "client" THEN {"on"}
    ELSE IF PortFree(r) THEN {"on", "off"} ELSE {"off"}

StartRejected(k, s) == IF k = "server" THEN s = "off" ELSE s = "half"

SetAdapter(r, k, s) ==
    adapters' = IF r = Null THEN adapters ELSE [adapters EXCEPT ![r][k] = s]

(* Adapters whose stop() would do something, and so may reject.            *)
Stoppable(S) == {a \in S \X Kinds : Holding(a[1], a[2])}

(* Both adapters of every runtime in S are stopped; those in F reject.     *)
StopAll(S, F) ==
    adapters' = [r \in Runtimes |-> [k \in Kinds |->
                    IF <<r, k>> \in F THEN "half"
                    ELSE IF <<r, k>> \in Stoppable(S) THEN "off" ELSE adapters[r][k]]]

-----------------------------------------------------------------------------
(* Requests: HTTP bodies are read before a transition is queued.           *)

Pending == Cardinality(reading) + Len(runtimeTail)

Send(q) == /\ service = "listening"
           /\ Pending < MaxQueue
           /\ reading' = reading \cup {q}
           /\ UNCHANGED <<authorityVars, residualRuntimeCleanup, adapters, transition,
                          runtimeTail, forsaken, service, hub>>

(* A client read the status, then sends a PUT fenced by what it saw.       *)
SendActivate(r) ==
    /\ r \notin requested
    /\ projectAuthorityPhase \in {"inactive", "active"}
    /\ requested' = requested \cup {r}
    /\ \E modes \in SUBSET Kinds :
           Send([kind |-> "activate", runtime |-> r, expected |-> activeRuntime,
                 modes |-> modes, waiting |-> TRUE])

DeactivateRequest(r) ==
    [kind |-> "deactivate", runtime |-> r, expected |-> Null, modes |-> {}, waiting |-> TRUE]

SendDeactivate(r) ==
    /\ r \in requested
    /\ Send(DeactivateRequest(r))
    /\ UNCHANGED requested

SendUnconditional ==
    /\ Send([DeactivateRequest(Null) EXCEPT !.kind = "unconditional"])
    /\ UNCHANGED requested

(* readJsonBody is done: enqueueRuntimeTransition.                         *)
BodyRead(q) ==
    /\ q \in reading
    /\ reading' = reading \ {q}
    /\ runtimeTail' = Append(runtimeTail, q)
    /\ UNCHANGED <<authorityVars, residualRuntimeCleanup, adapters, transition, requested,
                   forsaken, service, hub>>

(* A client hangs up, the browser's after five seconds.  Its transition    *)
(* stays queued, or runs on to its end, and only a shutdown that waits for *)
(* connections can tell; a request whose body is not complete is as one    *)
(* that was never sent.                                                    *)
HangUp ==
    /\ service = "closing"
    /\ \/ /\ \E i \in DOMAIN runtimeTail :
                /\ runtimeTail[i].waiting
                /\ runtimeTail' = [runtimeTail EXCEPT ![i].waiting = FALSE]
                /\ forsaken' = IF runtimeTail[i].kind = "activate"
                               THEN forsaken \cup {runtimeTail[i].runtime} ELSE forsaken
          /\ UNCHANGED transition
       \/ /\ transition.waiting
          /\ transition' = [transition EXCEPT !.waiting = FALSE]
          /\ forsaken' = forsaken \cup ({transition.candidate} \ {Null})
          /\ UNCHANGED runtimeTail
    /\ UNCHANGED <<authorityVars, residualRuntimeCleanup, adapters, reading, requested,
                   service, hub>>

Take(kind) == /\ transition.stage = "idle"
              /\ runtimeTail # <<>>
              /\ Head(runtimeTail).kind = kind
              /\ runtimeTail' = Tail(runtimeTail)

-----------------------------------------------------------------------------
(* PUT /project: applyProjectRequest and replaceActiveProject.             *)

Goto(stage) == transition' = [transition EXCEPT !.stage = stage]

(* What the steps of an activation leave alone.                            *)
ActivationFrame == UNCHANGED <<requestVars, service>>
Undecided == UNCHANGED <<authorityVars, residualRuntimeCleanup, hub>> /\ ActivationFrame

RefuseActivate ==
    /\ Take("activate")
    /\ \/ projectAuthorityPhase = "recovery-required"
       \/ activeRuntime # Head(runtimeTail).expected
    /\ UNCHANGED <<authorityVars, residualRuntimeCleanup, adapters, transition, reading,
                   requested, forsaken, service, hub>>

HasAdapters(r) == \E k \in Kinds : AdapterOf(r, k) # "none"

(* The candidate's adapters are created, not started.                      *)
Begin(q) ==
    /\ adapters' = [adapters EXCEPT ![q.runtime] =
           [k \in Kinds |-> IF k \in q.modes THEN "off" ELSE "none"]]
    /\ transition' = [stage |-> "stopServer", candidate |-> q.runtime,
                      stopped |-> HasAdapters(activeRuntime), residue |-> FALSE,
                      waiting |-> q.waiting]
    /\ UNCHANGED <<authorityVars, residualRuntimeCleanup, reading, requested, forsaken,
                   service, hub>>

(* Mutant: a Gateway in recovery accepts the next activation.              *)
StartActivateInRecovery ==
    /\ Take("activate")
    /\ activeRuntime = Head(runtimeTail).expected
    /\ Begin(Head(runtimeTail))

StartActivate ==
    /\ Take("activate")
    /\ projectAuthorityPhase # "recovery-required"
    /\ activeRuntime = Head(runtimeTail).expected
    /\ Begin(Head(runtimeTail))

StopPrevious(k, from, to) ==
    /\ transition.stage = from
    /\ \E s \in AfterStop(activeRuntime, k) :
           /\ SetAdapter(activeRuntime, k, s)
           /\ Goto(IF s = "half" THEN "cleanup" ELSE to)
    /\ Undecided

StartCandidate(k, from, to) ==
    /\ transition.stage = from
    /\ \E s \in AfterStart(transition.candidate, k) :
           /\ SetAdapter(transition.candidate, k, s)
           /\ Goto(IF StartRejected(k, s) THEN "cleanup" ELSE to)
    /\ Undecided

(* The synchronous tail: the candidate becomes the active runtime, in the  *)
(* Gateway and in the hub.                                                 *)
InstallCandidate ==
    /\ activeRuntime' = transition.candidate
    /\ projectAuthorityPhase' = "active"
    /\ hub' = [hub EXCEPT !.runtime = transition.candidate]
    /\ transition' = NoTransition
    /\ UNCHANGED <<residualRuntimeCleanup, adapters>>
    /\ ActivationFrame

(* Mutant: the hub is not resolved before the tail.                        *)
InstallWithoutHub == transition.stage = "install" /\ InstallCandidate

Install == transition.stage = "install" /\ hub.open /\ InstallCandidate

(* The hub is closed, or the candidate's staged timeline does not fit.     *)
InstallFailed ==
    /\ transition.stage = "install"
    /\ Goto("cleanup")
    /\ Undecided
    /\ UNCHANGED adapters

(* The end of the catch block.                                             *)
Conclude(recovered, residue) ==
    /\ activeRuntime' = IF residue /\ activeRuntime = Null THEN transition.candidate
                        ELSE activeRuntime
    /\ projectAuthorityPhase' =
           IF residue \/ (activeRuntime # Null /\ ~recovered) THEN "recovery-required"
           ELSE IF activeRuntime = Null THEN "inactive" ELSE "active"
    /\ transition' = NoTransition

(* Mutant: the wrong adapters are remembered.                              *)
ResidueOfPrevious(F) == IF F = {} THEN {} ELSE {activeRuntime}

(* Mutant: nothing is remembered.                                          *)
ResidueForgotten(F) == {}

(* F: the adapters of the candidate that could not be stopped.             *)
Residue(F) == IF F = {} THEN {} ELSE {transition.candidate}

(* Mutant: the adapters that were stopped are not started again.           *)
ConcludeUnrestarted(failed) == Conclude(activeRuntime # Null, failed)

AfterCandidateCleanup(failed) ==
    IF transition.stopped
    THEN /\ transition' = [transition EXCEPT !.stage = "recoverServer", !.residue = failed]
         /\ UNCHANGED authorityVars
    ELSE Conclude(activeRuntime # Null, failed)

CleanupCandidate ==
    /\ transition.stage = "cleanup"
    /\ \E F \in SUBSET Stoppable({transition.candidate}) :
           /\ StopAll({transition.candidate}, F)
           /\ residualRuntimeCleanup' = residualRuntimeCleanup \cup Residue(F)
           /\ AfterCandidateCleanup(F # {})
    /\ UNCHANGED hub
    /\ ActivationFrame

(* recoverPreviousRuntime restarts what was stopped.                       *)
RecoverServer ==
    /\ transition.stage = "recoverServer"
    /\ \E s \in AfterStart(activeRuntime, "server") :
           /\ SetAdapter(activeRuntime, "server", s)
           /\ Goto(IF StartRejected("server", s) THEN "recoveryFailed" ELSE "recoverClient")
    /\ Undecided

RecoverClient ==
    /\ transition.stage = "recoverClient"
    /\ \E s \in AfterStart(activeRuntime, "client") :
           /\ SetAdapter(activeRuntime, "client", s)
           /\ IF StartRejected("client", s)
              THEN Goto("recoveryFailed") /\ UNCHANGED authorityVars
              ELSE Conclude(TRUE, transition.residue)
    /\ UNCHANGED <<residualRuntimeCleanup, hub>>
    /\ ActivationFrame

RecoveryFailed ==
    /\ transition.stage = "recoveryFailed"
    /\ \E F \in SUBSET Stoppable({activeRuntime} \ {Null}) : StopAll({activeRuntime}, F)
    /\ Conclude(FALSE, transition.residue)
    /\ UNCHANGED <<residualRuntimeCleanup, hub>>
    /\ ActivationFrame

-----------------------------------------------------------------------------
(* DELETE /project and stop().                                             *)

(* cleanupAuthoritativeRuntimeAdapters(activeRuntime); F reject.           *)
CleanUpTargets == ({activeRuntime} \ {Null}) \cup residualRuntimeCleanup

CleanUp(F) ==
    /\ StopAll(CleanUpTargets, F)
    /\ residualRuntimeCleanup' =
           {r \in residualRuntimeCleanup : \E k \in Kinds : <<r, k>> \in F}

(* Mutant: a residue that could not be stopped does not count.             *)
ActiveAdaptersClean(F) == \A a \in F : a[1] # activeRuntime

(* cleanupAuthoritativeRuntimeAdapters returned null: F did not stop.      *)
AdaptersClean(F) == F = {}

RefuseDeactivate ==
    /\ Take("deactivate")
    /\ activeRuntime # Head(runtimeTail).runtime
    /\ UNCHANGED <<authorityVars, residualRuntimeCleanup, adapters, transition, reading,
                   requested, forsaken, service, hub>>

DeactivateInactive ==
    /\ Take("unconditional")
    /\ activeRuntime = Null
    /\ \E F \in SUBSET Stoppable(CleanUpTargets) :
           /\ CleanUp(F)
           /\ projectAuthorityPhase' = IF AdaptersClean(F) THEN projectAuthorityPhase
                                       ELSE "recovery-required"
    /\ UNCHANGED <<activeRuntime, transition, reading, requested, forsaken, service, hub>>

StartDeactivate ==
    /\ \/ Take("deactivate") /\ activeRuntime = Head(runtimeTail).runtime
       \/ Take("unconditional") /\ activeRuntime # Null
    /\ projectAuthorityPhase' = "deactivating"
    /\ transition' = [transition EXCEPT !.stage = "deactivating",
                                         !.waiting = Head(runtimeTail).waiting]
    /\ UNCHANGED <<activeRuntime, residualRuntimeCleanup, adapters, reading, requested,
                   forsaken, service, hub>>

(* The runtime is given up, or kept for a retry.                           *)
Decide(clean) ==
    /\ activeRuntime' = IF clean THEN Null ELSE activeRuntime
    /\ projectAuthorityPhase' = IF clean THEN "inactive" ELSE "recovery-required"
    /\ transition' = NoTransition

(* The local cleanup that follows fails without a hub.                     *)
FinishDeactivate ==
    /\ transition.stage = "deactivating"
    /\ \E F \in SUBSET Stoppable(CleanUpTargets) :
           /\ CleanUp(F)
           /\ Decide(AdaptersClean(F) /\ hub.open)
           /\ hub' = IF AdaptersClean(F) /\ hub.open THEN NewHub ELSE hub
    /\ ActivationFrame

(* stop(): new requests are refused from now on; nobody waits at the HTTP  *)
(* server for the close transition.                                        *)
RequestStop ==
    /\ service = "listening"
    /\ service' = "closing"
    /\ runtimeTail' = Append(runtimeTail, [DeactivateRequest(Null) EXCEPT !.kind = "close",
                                                                          !.waiting = FALSE])
    /\ UNCHANGED <<authorityVars, residualRuntimeCleanup, adapters, transition, reading,
                   requested, forsaken, hub>>

(* Mutant: requests whose body is not complete are left open.              *)
StartCloseKeepingRequests ==
    /\ Take("close")
    /\ Goto("closing")
    /\ UNCHANGED <<authorityVars, residualRuntimeCleanup, adapters, reading, requested,
                   forsaken, service, hub>>

(* Requests whose body is not complete are destroyed.                      *)
StartClose ==
    /\ Take("close")
    /\ reading' = {}
    /\ Goto("closing")
    /\ UNCHANGED <<authorityVars, residualRuntimeCleanup, adapters, requested, forsaken,
                   service, hub>>

FinishClose ==
    /\ transition.stage = "closing"
    /\ \E F \in SUBSET Stoppable(CleanUpTargets) : CleanUp(F) /\ Decide(AdaptersClean(F))
    /\ hub' = NoHub
    /\ ActivationFrame

(* Mutant: stop() does not wait for the connections to end.                *)
FinishStopAtOnce ==
    /\ service = "closing"
    /\ ~hub.open
    /\ service' = "stopped"
    /\ hub' = NewHub
    /\ UNCHANGED <<authorityVars, residualRuntimeCleanup, adapters, transition, requestVars>>

(* The HTTP server closes when its last connection ends; a transition      *)
(* whose client hung up may still be queued or run, and meets a new hub.   *)
FinishStop ==
    /\ service = "closing"
    /\ ~hub.open
    /\ reading = {} /\ ~transition.waiting
    /\ \A i \in DOMAIN runtimeTail : ~runtimeTail[i].waiting
    /\ service' = "stopped"
    /\ hub' = NewHub
    /\ UNCHANGED <<authorityVars, residualRuntimeCleanup, adapters, transition, requestVars>>

(* start() again.                                                          *)
StartService ==
    /\ service = "stopped"
    /\ service' = "listening"
    /\ forsaken' = {}
    /\ UNCHANGED <<authorityVars, residualRuntimeCleanup, adapters, transition, runtimeTail,
                   reading, requested, hub>>

-----------------------------------------------------------------------------
ActivateStep ==
    \/ RefuseActivate \/ StartActivate
    \/ StopPrevious("server", "stopServer", "stopClient")
    \/ StopPrevious("client", "stopClient", "startServer")
    \/ StartCandidate("server", "startServer", "startClient")
    \/ StartCandidate("client", "startClient", "install")
    \/ Install \/ InstallFailed
    \/ CleanupCandidate \/ RecoverServer \/ RecoverClient \/ RecoveryFailed

DeactivateStep ==
    \/ RefuseDeactivate \/ DeactivateInactive
    \/ StartDeactivate \/ FinishDeactivate
    \/ StartClose \/ FinishClose

Next ==
    \/ \E r \in Runtimes : SendActivate(r) \/ SendDeactivate(r)
    \/ SendUnconditional
    \/ \E q \in reading : BodyRead(q)
    \/ HangUp
    \/ ActivateStep \/ DeactivateStep
    \/ RequestStop \/ FinishStop \/ StartService

Spec == Init /\ [][Next]_vars

(* Each await of a transition settles, so a transition that was taken runs *)
(* to its end and the next is taken; the callers are under no obligation.  *)
FairSpec == Spec /\ WF_vars(ActivateStep) /\ WF_vars(DeactivateStep) /\ WF_vars(FinishStop)

-----------------------------------------------------------------------------
(* Type invariant (main.ts:315-336).                                       *)
GatewayTypeOK ==
    /\ activeRuntime \in Runtimes \cup {Null}
    /\ projectAuthorityPhase \in {"inactive", "active", "deactivating", "recovery-required"}
    /\ residualRuntimeCleanup \subseteq Runtimes
    /\ adapters \in [Runtimes -> [Kinds -> AdapterState]]
    /\ runtimeTail \in Seq(Request)
    /\ transition \in [stage : Stage, candidate : Runtimes \cup {Null},
                       stopped : BOOLEAN, residue : BOOLEAN, waiting : BOOLEAN]
    /\ reading \subseteq Request
    /\ requested \subseteq Runtimes /\ forsaken \subseteq Runtimes
    /\ service \in {"listening", "closing", "stopped"}
    /\ hub \in [open : BOOLEAN, runtime : Runtimes \cup {Null}]

Held(r) == \E k \in Kinds : Holding(r, k)
Idle == transition.stage = "idle"

(* No adapter is lost: a runtime with an adapter that runs, or that did    *)
(* not stop, is the active one, the candidate of the running transition,   *)
(* or remembered in residualRuntimeCleanup (main.ts:820), where the next   *)
(* DELETE or stop() will find it.                                          *)
NothingLeaked ==
    \A r \in Runtimes :
        Held(r) => r \in {activeRuntime, transition.candidate} \cup residualRuntimeCleanup

(* A Gateway that reports "inactive" between two transitions has nothing   *)
(* left to stop (main.ts:1061-1084, 854), so the next PUT finds the OPC UA *)
(* port free; a Gateway without an authority to name in a fenced DELETE    *)
(* never waits for one (main.ts:1048-1053 is unreachable).                 *)
InactiveIsClean ==
    /\ (Idle /\ projectAuthorityPhase = "inactive") => \A r \in Runtimes : ~Held(r)
    /\ activeRuntime = Null =>
           residualRuntimeCleanup = {} /\ projectAuthorityPhase = "inactive"

(* An authority that is "active" between two transitions has every adapter *)
(* of its Project up and shares the process with no residue, also when it  *)
(* was stopped for a candidate that failed (main.ts:821, 857).  Its server *)
(* adapter may be "half": start() of one whose stop rejected does nothing. *)
ActiveIsServed ==
    (Idle /\ projectAuthorityPhase = "active") =>
        /\ residualRuntimeCleanup = {}
        /\ \A k \in Kinds : AdapterOf(activeRuntime, k) # "off"
        /\ AdapterOf(activeRuntime, "client") # "half"
        /\ \A r \in Runtimes \ {activeRuntime} : ~Held(r)

(* While the phase is "active" the state batch hub is there and serves the *)
(* active runtime: a browser that publishes under the authority it was     *)
(* told (main.ts:700-704, 772-811) is neither refused nor mixed with the   *)
(* stream of another revision, whatever fails or stops meanwhile.          *)
PublisherReachesHub ==
    projectAuthorityPhase = "active" => hub = [open |-> TRUE, runtime |-> activeRuntime]

(* When a candidate's server starts (main.ts:725) no other runtime still   *)
(* holds the OPC UA port.                                                  *)
StartsOnFreePort ==
    transition.stage = "startServer" =>
        \A r \in Runtimes \ {transition.candidate} : ~Holding(r, "server")

(* When stop() is done no adapter runs, although a PUT that was read       *)
(* before the shutdown may run after the close transition (main.ts:1741),  *)
(* but one of a runtime whose client has hung up: its PUT kept its place   *)
(* in the queue, not the HTTP server open (main.ts:1716-1727, 1790), and   *)
(* activates the runtime with the hub of the next start (main.ts:1795).    *)
StoppedMeansDown ==
    service = "stopped" => \A r \in Runtimes \ forsaken, k \in Kinds : adapters[r][k] # "on"

(* To its clients the Gateway is one authority with a phase: see there.    *)
Promise == INSTANCE GatewayAuthority WITH
               authority <- activeRuntime, phase <- projectAuthorityPhase,
               Authorities <- Runtimes
ImplementsAuthority == Promise!AuthoritySpec

(* stop() comes to an end: the close transition waits for every transition *)
(* before it, and the HTTP server for the answer to every one after it     *)
(* (main.ts:1741-1800).                                                    *)
StopFinishes == service = "closing" ~> service = "stopped"
=============================================================================
