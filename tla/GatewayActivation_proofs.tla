---------------------- MODULE GatewayActivation_proofs ----------------------
(***************************************************************************)
(* Proofs about GatewayActivation for any number of activation attempts    *)
(* and of queued requests.                                                 *)
(***************************************************************************)
EXTENDS GatewayActivation, TLAPS

Recovering == {"recoverServer", "recoverClient", "recoveryFailed"}
Outside == {"idle", "deactivating", "closing"}   \* no activation is running

(* How phase, authority and running transition go together.                *)
ControlInv ==
    /\ projectAuthorityPhase = "inactive" <=> activeRuntime = Null
    /\ projectAuthorityPhase = "deactivating" <=> transition.stage = "deactivating"
    /\ transition.stage \in Outside => transition.candidate = Null
    /\ transition.stage \notin Outside =>
           /\ transition.candidate \in Runtimes
           /\ projectAuthorityPhase # "recovery-required"
           /\ transition.stopped => activeRuntime # Null
    /\ transition.stage \in Recovering => activeRuntime # Null

(* A residue exists only where the Gateway knows it has to recover.        *)
ResidueInv ==
    residualRuntimeCleanup # {} =>
        /\ activeRuntime # Null
        /\ \/ projectAuthorityPhase \in {"recovery-required", "deactivating"}
           \/ transition.stage \in Recovering /\ transition.residue

(* A candidate that was cleaned up holds something only as a residue.      *)
HeldInv ==
    \A r \in Runtimes :
        Held(r) => \/ r = activeRuntime
                   \/ r \in residualRuntimeCleanup
                   \/ r = transition.candidate /\ transition.stage \notin Recovering

(* The previous runtime is down before the candidate starts.               *)
PreviousInv ==
    /\ transition.stage = "stopClient" => ~Holding(activeRuntime, "server")
    /\ transition.stage \in {"startServer", "startClient", "install"} =>
           activeRuntime = transition.candidate \/ \A k \in Kinds : ~Holding(activeRuntime, k)

ActivationInv ==
    /\ GatewayTypeOK /\ ControlInv /\ ResidueInv /\ HeldInv /\ PreviousInv
    /\ PublisherReachesHub

-----------------------------------------------------------------------------
(* The adapters.                                                           *)

LEMMA HeldIs ==
  ASSUME GatewayTypeOK, NEW r \in Runtimes
  PROVE  /\ \A k \in Kinds : AdapterOf(r, k) = adapters[r][k]
         /\ Held(r) <=> \E k \in Kinds : adapters[r][k] \in {"on", "half"}
BY ActivationAssumption DEF Held, Holding, AdapterOf

LEMMA HeldIsNext ==
  ASSUME NEW r \in Runtimes
  PROVE  Held(r)' <=> \E k \in Kinds : adapters'[r][k] \in {"on", "half"}
BY ActivationAssumption DEF Held, Holding, AdapterOf

(* Setting one adapter leaves the others alone.                            *)
LEMMA SetAdapterEffect ==
  ASSUME GatewayTypeOK, NEW r \in Runtimes \cup {Null}, NEW k \in Kinds,
         NEW s \in AdapterState, SetAdapter(r, k, s)
  PROVE  /\ adapters' \in [Runtimes -> [Kinds -> AdapterState]]
         /\ \A o \in Runtimes, j \in Kinds :
                adapters'[o][j] = IF o = r /\ j = k THEN s ELSE adapters[o][j]
BY ActivationAssumption DEF SetAdapter, GatewayTypeOK

(* After stopping the runtimes of S, only F is left of them.               *)
LEMMA StopAllEffect ==
  ASSUME GatewayTypeOK, NEW S, NEW F \in SUBSET Stoppable(S), StopAll(S, F)
  PROVE  /\ adapters' \in [Runtimes -> [Kinds -> AdapterState]]
         /\ \A r \in Runtimes, k \in Kinds :
                /\ r \notin S => adapters'[r][k] = adapters[r][k]
                /\ adapters'[r][k] = "on" => r \notin S /\ adapters[r][k] = "on"
                /\ r \in S /\ adapters'[r][k] = "half" => <<r, k>> \in F
<1> DEFINE value(r, k) == IF <<r, k>> \in F THEN "half"
                          ELSE IF <<r, k>> \in Stoppable(S) THEN "off" ELSE adapters[r][k]
<1>1. adapters' = [r \in Runtimes |-> [k \in Kinds |-> value(r, k)]]
  BY DEF StopAll
<1>2. \A r \in Runtimes, k \in Kinds : adapters[r][k] \in AdapterState
  BY DEF GatewayTypeOK
<1>3. \A r \in Runtimes, k \in Kinds : value(r, k) \in AdapterState
  BY <1>2 DEF AdapterState
<1>4. \A r \in Runtimes, k \in Kinds : adapters'[r][k] = value(r, k)
  BY <1>1
<1>5. \A r \in Runtimes, k \in Kinds :
         <<r, k>> \in Stoppable(S) <=> r \in S /\ adapters[r][k] \in {"on", "half"}
  BY ActivationAssumption DEF Stoppable, Holding, AdapterOf
<1> HIDE DEF value
<1>6. adapters' \in [Runtimes -> [Kinds -> AdapterState]]
  BY <1>1, <1>3
<1>7. ASSUME NEW r \in Runtimes, NEW k \in Kinds
      PROVE  /\ r \notin S => adapters'[r][k] = adapters[r][k]
             /\ adapters'[r][k] = "on" => r \notin S /\ adapters[r][k] = "on"
             /\ r \in S /\ adapters'[r][k] = "half" => <<r, k>> \in F
  BY <1>4, <1>5 DEF value
<1>8. QED
  BY <1>6, <1>7

LEMMA StopOneEffect ==
  ASSUME GatewayTypeOK, NEW c \in Runtimes, NEW F \in SUBSET Stoppable({c}), StopAll({c}, F)
  PROVE  /\ adapters' \in [Runtimes -> [Kinds -> AdapterState]]
         /\ \A r \in Runtimes, k \in Kinds :
                /\ r # c => adapters'[r][k] = adapters[r][k]
                /\ adapters'[r][k] = "on" => r # c /\ adapters[r][k] = "on"
                /\ r = c /\ adapters'[r][k] = "half" => F # {}
<1>1. /\ adapters' \in [Runtimes -> [Kinds -> AdapterState]]
      /\ \A r \in Runtimes, k \in Kinds :
             /\ r \notin {c} => adapters'[r][k] = adapters[r][k]
             /\ adapters'[r][k] = "on" => r \notin {c} /\ adapters[r][k] = "on"
             /\ r \in {c} /\ adapters'[r][k] = "half" => <<r, k>> \in F
  BY StopAllEffect
<1>2. QED
  BY <1>1

-----------------------------------------------------------------------------
(* Steps that touch nothing but the requests and the life cycle.           *)

LEMMA RequestStep ==
  ASSUME ActivationInv,
         UNCHANGED <<authorityVars, residualRuntimeCleanup, adapters, transition, hub>>,
         runtimeTail' \in Seq(Request), reading' \subseteq Request, requested' \subseteq Runtimes,
         forsaken' \subseteq Runtimes, service' \in {"listening", "closing", "stopped"}
  PROVE  ActivationInv'
<1> USE DEF ActivationInv, authorityVars
<1>1. GatewayTypeOK'
  BY DEF GatewayTypeOK
<1>2. ControlInv' /\ ResidueInv'
  BY DEF ControlInv, ResidueInv, Recovering, Outside
<1>3. HeldInv' /\ PreviousInv' /\ PublisherReachesHub'
  BY DEF HeldInv, PreviousInv, PublisherReachesHub, Held, Holding, AdapterOf, Recovering
<1>4. QED
  BY <1>1, <1>2, <1>3

LEMMA Queue ==
  ASSUME GatewayTypeOK, NEW kind, Take(kind)
  PROVE  /\ transition.stage = "idle" /\ runtimeTail # <<>>
         /\ Head(runtimeTail) \in Request /\ Head(runtimeTail).kind = kind
         /\ runtimeTail' \in Seq(Request)
BY DEF Take, GatewayTypeOK

LEMMA Requests ==
  ASSUME ActivationInv,
         \/ \E r \in Runtimes : SendActivate(r) \/ SendDeactivate(r)
         \/ SendUnconditional
         \/ \E q \in reading : BodyRead(q)
         \/ RefuseActivate \/ RefuseDeactivate
         \/ RequestStop \/ StartService
  PROVE  ActivationInv'
<1> USE DEF authorityVars
<1>t. GatewayTypeOK
  BY DEF ActivationInv
<1>1. ASSUME NEW r \in Runtimes, SendActivate(r) PROVE ActivationInv'
  <2>1. PICK modes \in SUBSET Kinds :
           Send([kind |-> "activate", runtime |-> r, expected |-> activeRuntime,
                 modes |-> modes, waiting |-> TRUE])
    BY <1>1 DEF SendActivate
  <2>2. reading' \subseteq Request
    <3>1. [kind |-> "activate", runtime |-> r, expected |-> activeRuntime,
           modes |-> modes, waiting |-> TRUE] \in Request
      BY <1>t DEF GatewayTypeOK, Request, PutRequest
    <3>2. QED
      BY <1>t, <2>1, <3>1 DEF Send, GatewayTypeOK
  <2>3. requested' \subseteq Runtimes /\ forsaken' \subseteq Runtimes
    BY <1>1, <1>t, <2>1 DEF SendActivate, Send, GatewayTypeOK
  <2>4. QED
    BY <1>t, <2>1, <2>2, <2>3, RequestStep DEF Send, GatewayTypeOK
<1>2. ASSUME NEW r \in Runtimes, SendDeactivate(r) PROVE ActivationInv'
  <2>1. reading' \subseteq Request
    <3>1. DeactivateRequest(r) \in Request
      BY DEF DeactivateRequest, Request, FencedRequest
    <3>2. QED
      BY <1>2, <1>t, <3>1 DEF SendDeactivate, Send, GatewayTypeOK
  <2>2. QED
    BY <1>2, <1>t, <2>1, RequestStep DEF SendDeactivate, Send, GatewayTypeOK
<1>3. ASSUME SendUnconditional PROVE ActivationInv'
  <2>1. reading' \subseteq Request
    <3>1. [DeactivateRequest(Null) EXCEPT !.kind = "unconditional"] \in Request
      BY DEF DeactivateRequest, Request, PlainRequest
    <3>2. QED
      BY <1>3, <1>t, <3>1 DEF SendUnconditional, Send, GatewayTypeOK
  <2>2. QED
    BY <1>3, <1>t, <2>1, RequestStep DEF SendUnconditional, Send, GatewayTypeOK
<1>4. ASSUME NEW q \in reading, BodyRead(q) PROVE ActivationInv'
  <2>1. runtimeTail' \in Seq(Request) /\ reading' \subseteq Request
    BY <1>4, <1>t DEF BodyRead, GatewayTypeOK
  <2>2. QED
    BY <1>4, <1>t, <2>1, RequestStep DEF BodyRead, GatewayTypeOK
<1>5. ASSUME RefuseActivate \/ RefuseDeactivate PROVE ActivationInv'
  <2>1. /\ runtimeTail' \in Seq(Request) /\ runtimeTail # <<>>
        /\ UNCHANGED <<authorityVars, residualRuntimeCleanup, adapters, transition, hub,
                       reading, requested, forsaken, service>>
    BY <1>5, <1>t, Queue DEF RefuseActivate, RefuseDeactivate
  <2>2. QED
    BY <1>t, <2>1, RequestStep DEF GatewayTypeOK
<1>6. ASSUME RequestStop PROVE ActivationInv'
  <2>1. runtimeTail' \in Seq(Request)
    <3>1. [DeactivateRequest(Null) EXCEPT !.kind = "close", !.waiting = FALSE] \in Request
      BY DEF DeactivateRequest, Request, PlainRequest
    <3>2. QED
      BY <1>6, <1>t, <3>1 DEF RequestStop, GatewayTypeOK
  <2>2. QED
    BY <1>6, <1>t, <2>1, RequestStep DEF RequestStop, GatewayTypeOK
<1>7. ASSUME StartService PROVE ActivationInv'
  BY <1>7, <1>t, RequestStep DEF StartService, requestVars, GatewayTypeOK
<1>8. QED
  BY <1>1, <1>2, <1>3, <1>4, <1>5, <1>6, <1>7

-----------------------------------------------------------------------------
(* Steps of an activation.                                                 *)

LEMMA StartActivateInv ==
  ASSUME ActivationInv, StartActivate
  PROVE  ActivationInv'
<1> DEFINE q == Head(runtimeTail)
<1> USE DEF ActivationInv, authorityVars
<1>1. /\ q \in PutRequest /\ runtimeTail' \in Seq(Request)
      /\ transition.stage = "idle" /\ runtimeTail # <<>>
  BY Queue DEF StartActivate, Request, PutRequest, FencedRequest, PlainRequest
<1>2. /\ projectAuthorityPhase # "recovery-required"
      /\ Begin(q)
  BY DEF StartActivate
<1>3. transition' = [stage |-> "stopServer", candidate |-> q.runtime,
                     stopped |-> HasAdapters(activeRuntime), residue |-> FALSE,
                     waiting |-> q.waiting]
  BY <1>2 DEF Begin
<1>4. q.runtime \in Runtimes /\ q.waiting \in BOOLEAN
  BY <1>1 DEF PutRequest
<1> HIDE DEF q
<1>5. /\ adapters' \in [Runtimes -> [Kinds -> AdapterState]]
      /\ \A k \in Kinds : adapters'[q.runtime][k] \in {"off", "none"}
      /\ \A r \in Runtimes \ {q.runtime} : adapters'[r] = adapters[r]
  BY <1>2, <1>4 DEF Begin, GatewayTypeOK, AdapterState
<1>6. HasAdapters(activeRuntime) \in BOOLEAN /\ (HasAdapters(activeRuntime) => activeRuntime # Null)
  BY DEF HasAdapters, AdapterOf
<1>7. UNCHANGED <<authorityVars, residualRuntimeCleanup, reading, requested, forsaken,
                   service, hub>>
  BY <1>2 DEF Begin
<1>8. GatewayTypeOK'
  BY <1>1, <1>3, <1>4, <1>5, <1>6, <1>7 DEF GatewayTypeOK, Stage
<1>9. ControlInv' /\ ResidueInv'
  BY <1>1, <1>2, <1>3, <1>4, <1>6, <1>7 DEF ControlInv, ResidueInv, Recovering, Outside
<1>10. HeldInv'
  <2>1. ASSUME NEW r \in Runtimes, Held(r)'
        PROVE  r # q.runtime /\ Held(r)
    BY <2>1, <1>5, HeldIs, HeldIsNext
  <2>2. transition.candidate = Null
    BY <1>1 DEF ControlInv, Outside
  <2>3. QED
    BY <2>1, <2>2, <1>7, ActivationAssumption DEF HeldInv
<1>11. PreviousInv' /\ PublisherReachesHub'
  BY <1>3, <1>7 DEF PreviousInv, PublisherReachesHub
<1>12. QED
  BY <1>8, <1>9, <1>10, <1>11

(* stop() and start() settle into a state of the adapter.                  *)
LEMMA AdapterResults ==
  ASSUME GatewayTypeOK, NEW r \in Runtimes \cup {Null}, NEW k \in Kinds
  PROVE  /\ AfterStop(r, k) \subseteq AdapterState /\ "on" \notin AfterStop(r, k)
         /\ \A s \in AfterStop(r, k) : s = "half" => Holding(r, k)
         /\ AfterStart(r, k) \subseteq AdapterState
BY DEF AfterStop, AfterStart, AdapterOf, Holding, GatewayTypeOK, AdapterState

(* One adapter of the active runtime or of the candidate is started or     *)
(* stopped and the activation goes on.                                     *)
LEMMA AdapterStep ==
  ASSUME ActivationInv, NEW r \in Runtimes \cup {Null}, NEW k \in Kinds,
         NEW s \in AdapterState, NEW to \in Stage,
         SetAdapter(r, k, s), Goto(to), Undecided,
         transition.stage \notin Outside, to \notin Outside,
         to \in Recovering <=> transition.stage \in Recovering,
         r = activeRuntime \/ (r = transition.candidate /\ to \notin Recovering),
         to = "stopClient" => r = activeRuntime /\ k = "server" /\ s \notin {"on", "half"},
         to = "startServer" => /\ r = activeRuntime /\ k = "client" /\ s \notin {"on", "half"}
                               /\ ~Holding(activeRuntime, "server"),
         to \in {"startClient", "install"} =>
             r = transition.candidate /\ transition.stage \in {"startServer", "startClient"}
  PROVE  ActivationInv'
<1> USE DEF ActivationInv, authorityVars, requestVars
<1>1. /\ adapters' \in [Runtimes -> [Kinds -> AdapterState]]
      /\ \A o \in Runtimes, j \in Kinds :
             adapters'[o][j] = IF o = r /\ j = k THEN s ELSE adapters[o][j]
  BY SetAdapterEffect
<1>2. /\ transition'.stage = to
      /\ transition'.candidate = transition.candidate
      /\ transition'.stopped = transition.stopped
      /\ transition'.residue = transition.residue
      /\ transition' \in [stage : Stage, candidate : Runtimes \cup {Null},
                          stopped : BOOLEAN, residue : BOOLEAN, waiting : BOOLEAN]
  BY DEF Goto, GatewayTypeOK
<1>3. UNCHANGED <<authorityVars, residualRuntimeCleanup, hub, requestVars, service>>
  BY DEF Undecided, ActivationFrame
<1>4. GatewayTypeOK'
  BY <1>1, <1>2, <1>3 DEF GatewayTypeOK
<1>5. ControlInv' /\ ResidueInv'
  BY <1>2, <1>3 DEF ControlInv, ResidueInv, Outside
<1>6. HeldInv'
  <2>1. ASSUME NEW o \in Runtimes, Held(o)'
        PROVE  o = r \/ Held(o)
    BY <2>1, <1>1, HeldIs, HeldIsNext
  <2>2. QED
    BY <2>1, <1>2, <1>3 DEF HeldInv
<1>7. PreviousInv'
  <2>1. \A o \in Runtimes, j \in Kinds : Holding(o, j)' <=> adapters'[o][j] \in {"on", "half"}
    BY ActivationAssumption DEF Holding, AdapterOf
  <2>2. \A o \in Runtimes, j \in Kinds : Holding(o, j) <=> adapters[o][j] \in {"on", "half"}
    BY ActivationAssumption DEF Holding, AdapterOf
  <2>3. activeRuntime \in Runtimes \cup {Null}
    BY DEF GatewayTypeOK
  <2>4. CASE activeRuntime = Null
    BY <2>4, <1>3 DEF PreviousInv, Holding, AdapterOf
  <2>5. CASE activeRuntime \in Runtimes
    <3>1. to = "stopClient" => ~Holding(activeRuntime, "server")'
      BY <2>1, <2>5, <1>1, <1>3 DEF Kinds
    <3>2. to = "startServer" => \A j \in Kinds : ~Holding(activeRuntime, j)'
      BY <2>1, <2>2, <2>5, <1>1, <1>3 DEF Kinds
    <3>3. to \in {"startClient", "install"} =>
             activeRuntime = transition.candidate \/ \A j \in Kinds : ~Holding(activeRuntime, j)'
      BY <2>1, <2>2, <2>5, <1>1, <1>3 DEF Kinds, PreviousInv
    <3>4. QED
      BY <3>1, <3>2, <3>3, <1>2, <1>3 DEF PreviousInv
  <2>6. QED
    BY <2>3, <2>4, <2>5
<1>8. PublisherReachesHub'
  BY <1>3 DEF PublisherReachesHub
<1>9. QED
  BY <1>4, <1>5, <1>6, <1>7, <1>8

LEMMA StopPreviousInv ==
  ASSUME ActivationInv,
         \/ StopPrevious("server", "stopServer", "stopClient")
         \/ StopPrevious("client", "stopClient", "startServer")
  PROVE  ActivationInv'
<1> USE DEF ActivationInv
<1>1. activeRuntime \in Runtimes \cup {Null}
  BY DEF GatewayTypeOK
<1>2. CASE StopPrevious("server", "stopServer", "stopClient")
  <2>1. PICK s \in AfterStop(activeRuntime, "server") :
           /\ SetAdapter(activeRuntime, "server", s)
           /\ Goto(IF s = "half" THEN "cleanup" ELSE "stopClient")
    BY <1>2 DEF StopPrevious
  <2>2. s \in AdapterState /\ s # "on"
    BY <1>1, <2>1, AdapterResults DEF Kinds
  <2>3. Undecided /\ transition.stage = "stopServer"
    BY <1>2 DEF StopPrevious
  <2>4. QED
    BY <1>1, <2>1, <2>2, <2>3, AdapterStep DEF Kinds, Stage, Outside, Recovering
<1>3. CASE StopPrevious("client", "stopClient", "startServer")
  <2>1. PICK s \in AfterStop(activeRuntime, "client") :
           /\ SetAdapter(activeRuntime, "client", s)
           /\ Goto(IF s = "half" THEN "cleanup" ELSE "startServer")
    BY <1>3 DEF StopPrevious
  <2>2. s \in AdapterState /\ s # "on"
    BY <1>1, <2>1, AdapterResults DEF Kinds
  <2>3. /\ Undecided /\ transition.stage = "stopClient"
        /\ ~Holding(activeRuntime, "server")
    BY <1>3 DEF StopPrevious, PreviousInv
  <2>4. QED
    BY <1>1, <2>1, <2>2, <2>3, AdapterStep DEF Kinds, Stage, Outside, Recovering
<1>4. QED
  BY <1>2, <1>3

LEMMA StartCandidateInv ==
  ASSUME ActivationInv,
         \/ StartCandidate("server", "startServer", "startClient")
         \/ StartCandidate("client", "startClient", "install")
  PROVE  ActivationInv'
<1> USE DEF ActivationInv
<1>1. PICK k \in Kinds, s \in AdapterState, to \in {"startClient", "install", "cleanup"} :
         SetAdapter(transition.candidate, k, s) /\ Goto(to) /\ Undecided
  <2>1. \A k \in Kinds : AfterStart(transition.candidate, k) \subseteq AdapterState
    BY AdapterResults DEF GatewayTypeOK
  <2>2. QED
    BY <2>1, Zenon DEF StartCandidate, Kinds
<1>2. transition.stage \in {"startServer", "startClient"}
  BY DEF StartCandidate
<1>3. transition.candidate \in Runtimes
  BY <1>2 DEF ControlInv, Outside
<1>4. QED
  BY <1>1, <1>2, <1>3, AdapterStep DEF Stage, Outside, Recovering

LEMMA InstallInv ==
  ASSUME ActivationInv, Install
  PROVE  ActivationInv'
<1> USE DEF ActivationInv, authorityVars, requestVars
<1>1. /\ transition.stage = "install" /\ hub.open
      /\ activeRuntime' = transition.candidate /\ projectAuthorityPhase' = "active"
      /\ hub' = [hub EXCEPT !.runtime = transition.candidate]
      /\ transition' = NoTransition
      /\ UNCHANGED <<residualRuntimeCleanup, adapters, requestVars, service>>
  BY DEF Install, InstallCandidate, ActivationFrame
<1>2. /\ transition.candidate \in Runtimes
      /\ residualRuntimeCleanup = {}
  BY <1>1 DEF ControlInv, ResidueInv, Outside, Recovering
<1>3. hub' = [open |-> TRUE, runtime |-> transition.candidate]
  BY <1>1 DEF GatewayTypeOK
<1>4. GatewayTypeOK'
  BY <1>1, <1>2, <1>3 DEF GatewayTypeOK, NoTransition, Stage
<1>5. ControlInv' /\ ResidueInv'
  BY <1>1, <1>2, ActivationAssumption DEF ControlInv, ResidueInv, NoTransition, Outside, Recovering
<1>6. HeldInv'
  <2>1. ASSUME NEW r \in Runtimes, Held(r)' PROVE r = transition.candidate
    <3>1. Held(r) /\ (r = activeRuntime \/ r = transition.candidate)
      BY <2>1, <1>1, <1>2, HeldIs, HeldIsNext DEF HeldInv
    <3>2. activeRuntime = transition.candidate \/ r # activeRuntime
      BY <3>1, <1>1 DEF PreviousInv, Held
    <3>3. QED
      BY <3>1, <3>2
  <2>2. QED
    BY <2>1, <1>1 DEF HeldInv
<1>7. PreviousInv' /\ PublisherReachesHub'
  BY <1>1, <1>3 DEF PreviousInv, PublisherReachesHub, NoTransition
<1>8. QED
  BY <1>4, <1>5, <1>6, <1>7

LEMMA InstallFailedInv ==
  ASSUME ActivationInv, InstallFailed
  PROVE  ActivationInv'
<1> USE DEF ActivationInv, authorityVars, requestVars
<1>1. /\ transition.stage = "install"
      /\ transition' = [transition EXCEPT !.stage = "cleanup"]
      /\ UNCHANGED <<authorityVars, residualRuntimeCleanup, hub, adapters, requestVars, service>>
  BY DEF InstallFailed, Goto, Undecided, ActivationFrame
<1>2. /\ transition'.stage = "cleanup"
      /\ transition'.candidate = transition.candidate
      /\ transition'.stopped = transition.stopped
      /\ transition' \in [stage : Stage, candidate : Runtimes \cup {Null},
                          stopped : BOOLEAN, residue : BOOLEAN, waiting : BOOLEAN]
  BY <1>1 DEF GatewayTypeOK, Stage
<1>3. GatewayTypeOK'
  BY <1>1, <1>2 DEF GatewayTypeOK
<1>4. ControlInv' /\ ResidueInv' /\ PreviousInv' /\ PublisherReachesHub'
  BY <1>1, <1>2 DEF ControlInv, ResidueInv, PreviousInv, PublisherReachesHub, Outside, Recovering
<1>5. HeldInv'
  BY <1>1, <1>2, HeldIs, HeldIsNext DEF HeldInv, Recovering
<1>6. QED
  BY <1>3, <1>4, <1>5

-----------------------------------------------------------------------------
(* The end of a failed activation.                                         *)

LEMMA ConcludeInv ==
  ASSUME ActivationInv, NEW recovered \in BOOLEAN, NEW residue \in BOOLEAN,
         transition.stage \notin Outside, Conclude(recovered, residue),
         adapters' \in [Runtimes -> [Kinds -> AdapterState]],
         UNCHANGED <<hub, requestVars, service>>,
         residualRuntimeCleanup' \subseteq Runtimes,
         residualRuntimeCleanup' # {} => residue,
         recovered => activeRuntime # Null,
         \A r \in Runtimes : Held(r)' => r = activeRuntime \/ r \in residualRuntimeCleanup'
  PROVE  ActivationInv'
<1> USE DEF ActivationInv, authorityVars, requestVars
<1>1. /\ transition' = NoTransition
      /\ transition.candidate \in Runtimes
      /\ projectAuthorityPhase \in {"inactive", "active"}
      /\ projectAuthorityPhase = "inactive" <=> activeRuntime = Null
  BY DEF Conclude, ControlInv, GatewayTypeOK, Outside
<1>2. /\ activeRuntime' = IF residue /\ activeRuntime = Null THEN transition.candidate
                          ELSE activeRuntime
      /\ projectAuthorityPhase' =
            IF residue \/ (activeRuntime # Null /\ ~recovered) THEN "recovery-required"
            ELSE projectAuthorityPhase
  BY <1>1 DEF Conclude
<1>3. GatewayTypeOK'
  BY <1>1, <1>2 DEF GatewayTypeOK, NoTransition, Stage
<1>4. ControlInv' /\ ResidueInv'
  BY <1>1, <1>2, ActivationAssumption
     DEF ControlInv, ResidueInv, NoTransition, Outside, Recovering
<1>5. HeldInv' /\ PreviousInv'
  BY <1>1, <1>2, ActivationAssumption DEF HeldInv, PreviousInv, NoTransition
<1>6. PublisherReachesHub'
  BY <1>1, <1>2 DEF PublisherReachesHub
<1>7. QED
  BY <1>3, <1>4, <1>5, <1>6

LEMMA ResidueRecorded ==
  ASSUME GatewayTypeOK, NEW failed \in BOOLEAN, AfterCandidateCleanup(failed), transition.stopped
  PROVE  /\ transition'.stage = "recoverServer" /\ transition'.candidate = transition.candidate
         /\ transition'.stopped = transition.stopped
         /\ transition'.residue = failed
         /\ transition' \in [stage : Stage, candidate : Runtimes \cup {Null},
                             stopped : BOOLEAN, residue : BOOLEAN, waiting : BOOLEAN]
BY DEF AfterCandidateCleanup, GatewayTypeOK, Stage

LEMMA CleanupCandidateInv ==
  ASSUME ActivationInv, CleanupCandidate
  PROVE  ActivationInv'
<1> USE DEF ActivationInv, authorityVars, requestVars
<1> DEFINE c == transition.candidate
<1>1. PICK F \in SUBSET Stoppable({c}) :
         /\ StopAll({c}, F)
         /\ residualRuntimeCleanup' = residualRuntimeCleanup \cup Residue(F)
         /\ AfterCandidateCleanup(F # {})
  BY DEF CleanupCandidate
<1>2. /\ transition.stage = "cleanup"
      /\ UNCHANGED <<hub, requestVars, service>>
  BY DEF CleanupCandidate, ActivationFrame
<1>3. /\ c \in Runtimes
      /\ residualRuntimeCleanup = {}
      /\ transition.stopped => activeRuntime # Null
  BY <1>2 DEF ControlInv, ResidueInv, Outside, Recovering
<1>4. residualRuntimeCleanup' = IF F = {} THEN {} ELSE {c}
  BY <1>1, <1>3 DEF Residue
<1>5. /\ adapters' \in [Runtimes -> [Kinds -> AdapterState]]
      /\ \A r \in Runtimes, k \in Kinds :
             /\ r # c => adapters'[r][k] = adapters[r][k]
             /\ adapters'[r][k] = "on" => r # c /\ adapters[r][k] = "on"
             /\ r = c /\ adapters'[r][k] = "half" => F # {}
  <2>1. c \in Runtimes /\ F \in SUBSET Stoppable({c}) /\ StopAll({c}, F) /\ GatewayTypeOK
    BY <1>1, <1>3
  <2> HIDE DEF c
  <2>2. QED
    BY <2>1, StopOneEffect
<1>6. \A r \in Runtimes : Held(r)' => r = activeRuntime \/ r \in residualRuntimeCleanup'
  <2>1. ASSUME NEW r \in Runtimes, Held(r)', r # c PROVE r = activeRuntime
    BY <2>1, <1>3, <1>5, HeldIs, HeldIsNext DEF HeldInv
  <2>2. ASSUME NEW r \in Runtimes, Held(r)', r = c PROVE F # {}
    BY <2>2, <1>5, HeldIsNext
  <2>3. QED
    BY <2>1, <2>2, <1>4
<1>7. CASE transition.stopped
  <2>1. UNCHANGED authorityVars
    BY <1>1, <1>7 DEF AfterCandidateCleanup
  <2>2. /\ transition'.stage = "recoverServer" /\ transition'.candidate = c
        /\ transition'.stopped = transition.stopped
        /\ transition'.residue = (F # {})
        /\ transition' \in [stage : Stage, candidate : Runtimes \cup {Null},
                            stopped : BOOLEAN, residue : BOOLEAN, waiting : BOOLEAN]
    BY <1>1, <1>7, ResidueRecorded
  <2>3. GatewayTypeOK'
    BY <2>1, <2>2, <1>2, <1>3, <1>4, <1>5 DEF GatewayTypeOK
  <2>4. ControlInv' /\ ResidueInv'
    BY <2>1, <2>2, <1>2, <1>3, <1>4, <1>7 DEF ControlInv, ResidueInv, Outside, Recovering
  <2>5. HeldInv'
    BY <2>1, <1>6 DEF HeldInv
  <2>6. PreviousInv' /\ PublisherReachesHub'
    BY <2>1, <2>2, <1>2 DEF PreviousInv, PublisherReachesHub
  <2>7. QED
    BY <2>3, <2>4, <2>5, <2>6
<1>8. CASE ~transition.stopped
  <2>1. Conclude(activeRuntime # Null, F # {})
    BY <1>1, <1>8 DEF AfterCandidateCleanup
  <2>2. residualRuntimeCleanup' \subseteq Runtimes /\ (residualRuntimeCleanup' # {} => F # {})
    BY <1>3, <1>4
  <2>3. transition.stage \notin Outside
    BY <1>2 DEF Outside
  <2>4. QED
    BY <2>1, <2>2, <2>3, <1>2, <1>5, <1>6, ConcludeInv
<1>9. QED
  BY <1>7, <1>8

(* While the previous runtime is recovered the phase is still active.      *)
LEMMA RecoveringFacts ==
  ASSUME ActivationInv, transition.stage \in Recovering
  PROVE  /\ activeRuntime \in Runtimes /\ projectAuthorityPhase = "active"
         /\ hub.open /\ transition.stage \notin Outside
         /\ residualRuntimeCleanup # {} => transition.residue
         /\ residualRuntimeCleanup \subseteq Runtimes /\ transition.residue \in BOOLEAN
BY DEF ActivationInv, ControlInv, ResidueInv, PublisherReachesHub, GatewayTypeOK,
       Recovering, Outside

LEMMA RecoverServerInv ==
  ASSUME ActivationInv, RecoverServer
  PROVE  ActivationInv'
<1>1. PICK s \in AfterStart(activeRuntime, "server") :
         /\ SetAdapter(activeRuntime, "server", s)
         /\ Goto(IF StartRejected("server", s) THEN "recoveryFailed" ELSE "recoverClient")
  BY DEF RecoverServer
<1>2. Undecided /\ transition.stage \in Recovering
  BY DEF RecoverServer, Recovering
<1>3. s \in AdapterState /\ activeRuntime \in Runtimes
  BY <1>1, <1>2, AdapterResults, RecoveringFacts DEF Kinds, ActivationInv
<1>4. PICK to \in {"recoveryFailed", "recoverClient"} : Goto(to)
  BY <1>1
<1>5. QED
  BY <1>1, <1>2, <1>3, <1>4, RecoveringFacts, AdapterStep DEF Kinds, Stage, Outside, Recovering

LEMMA RecoverClientInv ==
  ASSUME ActivationInv, RecoverClient
  PROVE  ActivationInv'
<1> USE DEF ActivationInv, requestVars
<1>1. PICK s \in AfterStart(activeRuntime, "client") :
         /\ SetAdapter(activeRuntime, "client", s)
         /\ IF StartRejected("client", s)
            THEN Goto("recoveryFailed") /\ UNCHANGED authorityVars
            ELSE Conclude(TRUE, transition.residue)
  BY DEF RecoverClient
<1>2. /\ UNCHANGED <<residualRuntimeCleanup, hub, requestVars, service>>
      /\ transition.stage \in Recovering
  BY DEF RecoverClient, ActivationFrame, Recovering
<1>3. s \in AdapterState /\ activeRuntime \in Runtimes
  BY <1>1, <1>2, AdapterResults, RecoveringFacts DEF Kinds
<1>4. CASE StartRejected("client", s)
  <2>1. Goto("recoveryFailed") /\ Undecided
    BY <1>1, <1>2, <1>4 DEF Undecided, ActivationFrame
  <2>2. QED
    BY <2>1, <1>1, <1>2, <1>3, RecoveringFacts, AdapterStep
       DEF Kinds, Stage, Outside, Recovering
<1>5. CASE ~StartRejected("client", s)
  <2>1. Conclude(TRUE, transition.residue)
    BY <1>1, <1>5
  <2>2. /\ adapters' \in [Runtimes -> [Kinds -> AdapterState]]
        /\ \A o \in Runtimes, j \in Kinds :
               o # activeRuntime => adapters'[o][j] = adapters[o][j]
    BY <1>1, <1>3, SetAdapterEffect DEF Kinds
  <2>3. \A r \in Runtimes : Held(r)' => r = activeRuntime \/ r \in residualRuntimeCleanup'
    BY <2>2, <1>2, HeldIs, HeldIsNext DEF HeldInv
  <2>4. QED
    BY <2>1, <2>2, <2>3, <1>2, <1>3, RecoveringFacts, ConcludeInv, ActivationAssumption
<1>6. QED
  BY <1>4, <1>5

LEMMA RecoveryFailedInv ==
  ASSUME ActivationInv, RecoveryFailed
  PROVE  ActivationInv'
<1> USE DEF ActivationInv, requestVars
<1>1. /\ UNCHANGED <<residualRuntimeCleanup, hub, requestVars, service>>
      /\ transition.stage \in Recovering
      /\ Conclude(FALSE, transition.residue)
  BY DEF RecoveryFailed, ActivationFrame, Recovering
<1>2. activeRuntime \in Runtimes
  BY <1>1, RecoveringFacts
<1>3. PICK F \in SUBSET Stoppable({activeRuntime}) : StopAll({activeRuntime}, F)
  BY <1>2, ActivationAssumption DEF RecoveryFailed, Stoppable
<1>4. /\ adapters' \in [Runtimes -> [Kinds -> AdapterState]]
      /\ \A o \in Runtimes, j \in Kinds :
             o # activeRuntime => adapters'[o][j] = adapters[o][j]
  BY <1>2, <1>3, StopOneEffect
<1>5. \A r \in Runtimes : Held(r)' => r = activeRuntime \/ r \in residualRuntimeCleanup'
  BY <1>4, <1>1, HeldIs, HeldIsNext DEF HeldInv
<1>6. QED
  BY <1>1, <1>2, <1>4, <1>5, RecoveringFacts, ConcludeInv

-----------------------------------------------------------------------------
(* DELETE /project, stop() and start().                                    *)

(* After cleanupAuthoritativeRuntimeAdapters: what did not stop belongs to *)
(* the active runtime or is still a residue, and is in F.                  *)
LEMMA CleanUpEffect ==
  ASSUME ActivationInv, transition.candidate = Null,
         NEW F \in SUBSET Stoppable(CleanUpTargets), CleanUp(F)
  PROVE  /\ adapters' \in [Runtimes -> [Kinds -> AdapterState]]
         /\ residualRuntimeCleanup' \subseteq residualRuntimeCleanup
         /\ residualRuntimeCleanup' # {} => F # {}
         /\ \A r \in Runtimes, k \in Kinds : adapters'[r][k] # "on"
         /\ \A r \in Runtimes :
                Held(r)' => F # {} /\ (r = activeRuntime \/ r \in residualRuntimeCleanup')
<1> USE DEF ActivationInv
<1> DEFINE T == CleanUpTargets
<1>1. /\ StopAll(T, F)
      /\ residualRuntimeCleanup' =
             {r \in residualRuntimeCleanup : \E k \in Kinds : <<r, k>> \in F}
  BY DEF CleanUp
<1>2. \A r \in Runtimes : Held(r) => r \in T
  BY ActivationAssumption DEF HeldInv, CleanUpTargets
<1>3. \A r \in T : r = activeRuntime \/ r \in residualRuntimeCleanup
  BY DEF CleanUpTargets
<1> HIDE DEF T
<1>4. /\ adapters' \in [Runtimes -> [Kinds -> AdapterState]]
      /\ \A r \in Runtimes, k \in Kinds :
             /\ r \notin T => adapters'[r][k] = adapters[r][k]
             /\ adapters'[r][k] = "on" => r \notin T /\ adapters[r][k] = "on"
             /\ r \in T /\ adapters'[r][k] = "half" => <<r, k>> \in F
  BY <1>1, StopAllEffect DEF T
<1>5. ASSUME NEW r \in Runtimes, NEW k \in Kinds, adapters'[r][k] = "on" PROVE FALSE
  <2>1. r \notin T /\ adapters[r][k] = "on"
    BY <1>4, <1>5
  <2>2. Held(r)
    BY <2>1, HeldIs
  <2>3. QED
    BY <2>1, <2>2, <1>2
<1>6. ASSUME NEW r \in Runtimes, Held(r)'
      PROVE  F # {} /\ (r = activeRuntime \/ r \in residualRuntimeCleanup')
  <2>1. PICK k \in Kinds : adapters'[r][k] = "half"
    BY <1>5, <1>6, HeldIsNext
  <2>2. r \in T
    BY ZenonT(30), <2>1, <1>2, <1>4, HeldIs
  <2>3. <<r, k>> \in F
    BY <2>1, <2>2, <1>4
  <2>4. QED
    BY <2>2, <2>3, <1>1, <1>3
<1>7. QED
  BY <1>1, <1>4, <1>5, <1>6

(* A cleanup with nothing to clean.                                        *)
LEMMA NoTargets ==
  ASSUME ActivationInv, activeRuntime = Null
  PROVE  residualRuntimeCleanup = {} /\ Stoppable(CleanUpTargets) = {}
BY DEF ActivationInv, ResidueInv, CleanUpTargets, Stoppable

(* The transition ends and the runtime is given up or kept.                *)
LEMMA DecideInv ==
  ASSUME ActivationInv, transition.stage \in {"deactivating", "closing"},
         NEW F \in SUBSET Stoppable(CleanUpTargets), CleanUp(F),
         NEW clean \in BOOLEAN, Decide(clean), clean => F = {},
         clean \/ activeRuntime # Null,
         UNCHANGED <<requestVars, service>>, hub' \in {hub, NewHub, NoHub}
  PROVE  ActivationInv'
<1> USE DEF ActivationInv, authorityVars, requestVars
<1>1. transition.candidate = Null
  BY DEF ControlInv, Outside
<1>2. /\ adapters' \in [Runtimes -> [Kinds -> AdapterState]]
      /\ residualRuntimeCleanup' \subseteq residualRuntimeCleanup
      /\ residualRuntimeCleanup' # {} => F # {}
      /\ \A r \in Runtimes, k \in Kinds : adapters'[r][k] # "on"
      /\ \A r \in Runtimes :
             Held(r)' => F # {} /\ (r = activeRuntime \/ r \in residualRuntimeCleanup')
  BY <1>1, CleanUpEffect
<1>3. /\ activeRuntime' = IF clean THEN Null ELSE activeRuntime
      /\ projectAuthorityPhase' = IF clean THEN "inactive" ELSE "recovery-required"
      /\ transition' = NoTransition
  BY DEF Decide
<1>4. GatewayTypeOK'
  <2>1. hub' \in [open : BOOLEAN, runtime : Runtimes \cup {Null}]
    <3>1. hub \in [open : BOOLEAN, runtime : Runtimes \cup {Null}]
      BY DEF GatewayTypeOK
    <3>2. NewHub \in [open : BOOLEAN, runtime : Runtimes \cup {Null}]
      BY DEF NewHub
    <3>3. NoHub \in [open : BOOLEAN, runtime : Runtimes \cup {Null}]
      BY DEF NoHub
    <3>4. QED
      BY <3>1, <3>2, <3>3
  <2>2. NoTransition \in [stage : Stage, candidate : Runtimes \cup {Null},
                         stopped : BOOLEAN, residue : BOOLEAN, waiting : BOOLEAN]
    BY DEF NoTransition, Stage
  <2>3. residualRuntimeCleanup' \subseteq Runtimes
    BY <1>2 DEF GatewayTypeOK
  <2>4. QED
    BY <2>1, <2>2, <2>3, <1>2, <1>3 DEF GatewayTypeOK
<1>5. ControlInv' /\ ResidueInv'
  BY <1>2, <1>3 DEF ControlInv, ResidueInv, NoTransition, Outside, Recovering
<1>6. HeldInv' /\ PreviousInv' /\ PublisherReachesHub'
  BY <1>2, <1>3 DEF HeldInv, PreviousInv, PublisherReachesHub, NoTransition
<1>7. QED
  BY <1>4, <1>5, <1>6

LEMMA FinishDeactivateInv ==
  ASSUME ActivationInv, FinishDeactivate
  PROVE  ActivationInv'
<1>1. PICK F \in SUBSET Stoppable(CleanUpTargets) :
         /\ CleanUp(F)
         /\ Decide(AdaptersClean(F) /\ hub.open)
         /\ hub' \in {hub, NewHub}
  BY DEF FinishDeactivate
<1>2. /\ transition.stage = "deactivating" /\ UNCHANGED <<requestVars, service>>
      /\ activeRuntime # Null
  BY DEF FinishDeactivate, ActivationFrame, ActivationInv, ControlInv
<1>3. PICK clean \in BOOLEAN : Decide(clean) /\ (clean => F = {})
  BY <1>1 DEF AdaptersClean
<1>4. QED
  BY <1>1, <1>2, <1>3, DecideInv

LEMMA FinishCloseInv ==
  ASSUME ActivationInv, FinishClose
  PROVE  ActivationInv'
<1>1. PICK F \in SUBSET Stoppable(CleanUpTargets) : CleanUp(F) /\ Decide(AdaptersClean(F))
  BY DEF FinishClose
<1>2. /\ transition.stage = "closing" /\ UNCHANGED <<requestVars, service>>
      /\ hub' = NoHub
  BY DEF FinishClose, ActivationFrame
<1>3. PICK clean \in BOOLEAN : Decide(clean) /\ (clean <=> F = {})
  BY <1>1 DEF AdaptersClean
<1>4. activeRuntime = Null => F = {}
  BY NoTargets
<1>5. QED
  BY <1>1, <1>2, <1>3, <1>4, DecideInv

LEMMA DeactivateInactiveInv ==
  ASSUME ActivationInv, DeactivateInactive
  PROVE  ActivationInv'
<1> USE DEF ActivationInv, authorityVars
<1>1. /\ runtimeTail' \in Seq(Request) /\ runtimeTail # <<>> /\ activeRuntime = Null
      /\ UNCHANGED <<activeRuntime, transition, reading, requested, forsaken, service, hub>>
  BY Queue DEF DeactivateInactive
<1>2. /\ residualRuntimeCleanup = {}
      /\ CleanUp({}) /\ projectAuthorityPhase' = projectAuthorityPhase
  BY <1>1, NoTargets DEF DeactivateInactive, AdaptersClean
<1>3. residualRuntimeCleanup' = residualRuntimeCleanup
  BY <1>2 DEF CleanUp
<1>4. adapters' = adapters
  <2>1. Stoppable(CleanUpTargets) = {}
    BY <1>1, NoTargets
  <2>2. adapters' = [r \in Runtimes |-> [k \in Kinds |-> adapters[r][k]]]
    BY <1>2, <2>1 DEF CleanUp, StopAll
  <2>3. QED
    BY <2>2 DEF GatewayTypeOK
<1>5. QED
  BY <1>1, <1>2, <1>3, <1>4, RequestStep DEF GatewayTypeOK

LEMMA StartDeactivateInv ==
  ASSUME ActivationInv, StartDeactivate
  PROVE  ActivationInv'
<1> USE DEF ActivationInv
<1>1. /\ runtimeTail' \in Seq(Request) /\ runtimeTail # <<>>
      /\ transition.stage = "idle"
      /\ activeRuntime # Null
  <2>1. ASSUME Take("deactivate"), activeRuntime = Head(runtimeTail).runtime
        PROVE  activeRuntime # Null
    BY <2>1, Queue, ActivationAssumption DEF Request, PutRequest, FencedRequest, PlainRequest
  <2>2. QED
    BY <2>1, Queue DEF StartDeactivate
<1>2. /\ projectAuthorityPhase' = "deactivating"
      /\ transition' = [transition EXCEPT !.stage = "deactivating",
                                           !.waiting = Head(runtimeTail).waiting]
      /\ Head(runtimeTail).waiting \in BOOLEAN
      /\ UNCHANGED <<activeRuntime, residualRuntimeCleanup, adapters, reading, requested,
                     forsaken, service, hub>>
  BY Queue DEF StartDeactivate, Request, PutRequest, FencedRequest, PlainRequest
<1>3. /\ transition'.stage = "deactivating" /\ transition'.candidate = transition.candidate
      /\ transition' \in [stage : Stage, candidate : Runtimes \cup {Null},
                          stopped : BOOLEAN, residue : BOOLEAN, waiting : BOOLEAN]
  BY <1>2 DEF GatewayTypeOK, Stage
<1>4. GatewayTypeOK'
  BY <1>1, <1>2, <1>3 DEF GatewayTypeOK
<1>5. ControlInv' /\ ResidueInv' /\ PreviousInv' /\ PublisherReachesHub'
  BY <1>1, <1>2, <1>3
     DEF ControlInv, ResidueInv, PreviousInv, PublisherReachesHub, Outside, Recovering
<1>6. HeldInv'
  BY <1>1, <1>2, <1>3, HeldIs, HeldIsNext DEF HeldInv, Recovering
<1>7. QED
  BY <1>4, <1>5, <1>6

LEMMA StartCloseInv ==
  ASSUME ActivationInv, StartClose
  PROVE  ActivationInv'
<1> USE DEF ActivationInv, authorityVars
<1>1. /\ runtimeTail' \in Seq(Request) /\ runtimeTail # <<>>
      /\ transition.stage = "idle" /\ reading' = {}
      /\ transition' = [transition EXCEPT !.stage = "closing"]
      /\ UNCHANGED <<authorityVars, residualRuntimeCleanup, adapters, requested, forsaken,
                     service, hub>>
  BY Queue DEF StartClose, Goto
<1>2. /\ transition'.stage = "closing" /\ transition'.candidate = transition.candidate
      /\ transition' \in [stage : Stage, candidate : Runtimes \cup {Null},
                          stopped : BOOLEAN, residue : BOOLEAN, waiting : BOOLEAN]
  BY <1>1 DEF GatewayTypeOK, Stage
<1>3. GatewayTypeOK'
  BY <1>1, <1>2 DEF GatewayTypeOK
<1>4. ControlInv' /\ ResidueInv' /\ PreviousInv' /\ PublisherReachesHub'
  BY <1>1, <1>2
     DEF ControlInv, ResidueInv, PreviousInv, PublisherReachesHub, Outside, Recovering
<1>5. HeldInv'
  BY <1>1, <1>2, HeldIs, HeldIsNext DEF HeldInv, Recovering
<1>6. QED
  BY <1>3, <1>4, <1>5

(* A client that hangs up changes nothing but who waits for an answer.     *)
LEMMA HangUpEffect ==
  ASSUME GatewayTypeOK, HangUp
  PROVE  /\ runtimeTail' \in Seq(Request) /\ Len(runtimeTail') = Len(runtimeTail)
         /\ \A i \in 1..Len(runtimeTail) :
               /\ runtimeTail'[i].kind = runtimeTail[i].kind
               /\ runtimeTail'[i].runtime = runtimeTail[i].runtime
               /\ \/ runtimeTail'[i].waiting = runtimeTail[i].waiting
                  \/ runtimeTail[i].kind = "activate" => runtimeTail[i].runtime \in forsaken'
         /\ forsaken \subseteq forsaken' /\ forsaken' \subseteq Runtimes
         /\ transition' \in [stage : Stage, candidate : Runtimes \cup {Null},
                             stopped : BOOLEAN, residue : BOOLEAN, waiting : BOOLEAN]
         /\ transition'.stage = transition.stage
         /\ transition'.candidate = transition.candidate
         /\ transition'.stopped = transition.stopped
         /\ transition'.residue = transition.residue
         /\ \/ transition'.waiting = transition.waiting
            \/ transition.candidate # Null => transition.candidate \in forsaken'
         /\ service = "closing"
         /\ UNCHANGED <<authorityVars, residualRuntimeCleanup, adapters, reading, requested,
                        service, hub>>
<1>1. /\ service = "closing"
      /\ UNCHANGED <<authorityVars, residualRuntimeCleanup, adapters, reading, requested,
                     service, hub>>
  BY DEF HangUp
<1>2. ASSUME NEW i \in DOMAIN runtimeTail,
             runtimeTail' = [runtimeTail EXCEPT ![i].waiting = FALSE],
             forsaken' = IF runtimeTail[i].kind = "activate"
                         THEN forsaken \cup {runtimeTail[i].runtime} ELSE forsaken
      PROVE  /\ runtimeTail' \in Seq(Request) /\ Len(runtimeTail') = Len(runtimeTail)
             /\ \A j \in 1..Len(runtimeTail) :
                   /\ runtimeTail'[j].kind = runtimeTail[j].kind
                   /\ runtimeTail'[j].runtime = runtimeTail[j].runtime
                   /\ \/ runtimeTail'[j].waiting = runtimeTail[j].waiting
                      \/ runtimeTail[j].kind = "activate" => runtimeTail[j].runtime \in forsaken'
             /\ forsaken \subseteq forsaken' /\ forsaken' \subseteq Runtimes
  <2>1. /\ runtimeTail \in Seq(Request) /\ runtimeTail[i] \in Request
        /\ i \in 1..Len(runtimeTail)
    BY <1>2 DEF GatewayTypeOK
  <2>2. [runtimeTail[i] EXCEPT !.waiting = FALSE] \in Request
    BY <2>1 DEF Request, PutRequest, FencedRequest, PlainRequest
  <2>3. PICK q \in Request : q = [runtimeTail[i] EXCEPT !.waiting = FALSE]
    BY <2>2
  <2>4. q.kind = runtimeTail[i].kind /\ q.runtime = runtimeTail[i].runtime
    BY <2>1, <2>3 DEF Request, PutRequest, FencedRequest, PlainRequest
  <2>5. runtimeTail' = [runtimeTail EXCEPT ![i] = q]
    BY <1>2, <2>3
  <2>6. /\ runtimeTail' \in Seq(Request) /\ Len(runtimeTail') = Len(runtimeTail)
        /\ \A j \in 1..Len(runtimeTail) :
              runtimeTail'[j] = IF j = i THEN q ELSE runtimeTail[j]
    <3> HIDE DEF Request
    <3>1. runtimeTail \in [1..Len(runtimeTail) -> Request] /\ Len(runtimeTail) \in Nat
      BY <2>1
    <3>2. runtimeTail' \in [1..Len(runtimeTail) -> Request]
      BY <2>5, <3>1
    <3>3. runtimeTail' \in Seq(Request) /\ Len(runtimeTail') = Len(runtimeTail)
      BY <3>1, <3>2
    <3>4. QED
      BY <2>5, <3>1, <3>3
  <2>7. runtimeTail[i].kind = "activate" => runtimeTail[i].runtime \in Runtimes
    BY <2>1 DEF Request, PutRequest, FencedRequest, PlainRequest
  <2>8. forsaken \subseteq forsaken' /\ forsaken' \subseteq Runtimes
    BY <1>2, <2>7 DEF GatewayTypeOK
  <2>9. ASSUME NEW j \in 1..Len(runtimeTail)
        PROVE  \/ runtimeTail'[j].waiting = runtimeTail[j].waiting
               \/ runtimeTail[j].kind = "activate" => runtimeTail[j].runtime \in forsaken'
    <3>1. CASE j = i
      BY <1>2, <3>1
    <3>2. CASE j # i
      BY <2>6, <3>2
    <3>3. QED
      BY <3>1, <3>2
  <2>10. QED
    BY <2>4, <2>6, <2>8, <2>9
<1>3. CASE UNCHANGED transition
  <2>1. PICK i \in DOMAIN runtimeTail :
           /\ runtimeTail' = [runtimeTail EXCEPT ![i].waiting = FALSE]
           /\ forsaken' = IF runtimeTail[i].kind = "activate"
                          THEN forsaken \cup {runtimeTail[i].runtime} ELSE forsaken
    BY <1>3 DEF HangUp, GatewayTypeOK
  <2>2. transition' = transition
    BY <1>3
  <2>3. QED
    BY <1>1, <1>2, <2>1, <2>2 DEF GatewayTypeOK
<1>4. CASE ~UNCHANGED transition
  <2>1. /\ transition' = [transition EXCEPT !.waiting = FALSE]
        /\ forsaken' = forsaken \cup ({transition.candidate} \ {Null})
        /\ UNCHANGED runtimeTail
    BY <1>4 DEF HangUp
  <2>2. QED
    BY <1>1, <2>1 DEF GatewayTypeOK
<1>5. QED
  BY <1>3, <1>4

LEMMA HangUpInv ==
  ASSUME ActivationInv, HangUp
  PROVE  ActivationInv'
<1> USE DEF ActivationInv, authorityVars
<1>1. GatewayTypeOK'
  BY HangUpEffect DEF GatewayTypeOK
<1>2. /\ transition'.stage = transition.stage /\ transition'.candidate = transition.candidate
      /\ transition'.stopped = transition.stopped /\ transition'.residue = transition.residue
      /\ UNCHANGED <<authorityVars, residualRuntimeCleanup, adapters, requested, service, hub>>
  BY HangUpEffect
<1>3. ControlInv' /\ ResidueInv' /\ PreviousInv' /\ PublisherReachesHub'
  BY <1>2 DEF ControlInv, ResidueInv, PreviousInv, PublisherReachesHub, Outside, Recovering,
              Holding, AdapterOf
<1>4. HeldInv'
  BY <1>2, HeldIs, HeldIsNext DEF HeldInv, Recovering
<1>5. QED
  BY <1>1, <1>3, <1>4

LEMMA FinishStopInv ==
  ASSUME ActivationInv, FinishStop
  PROVE  ActivationInv'
<1> USE DEF ActivationInv, authorityVars, requestVars
<1>1. /\ ~hub.open /\ service' = "stopped" /\ hub' = NewHub
      /\ UNCHANGED <<authorityVars, residualRuntimeCleanup, adapters, transition, requestVars>>
  BY DEF FinishStop
<1>2. NewHub \in [open : BOOLEAN, runtime : Runtimes \cup {Null}]
  BY DEF NewHub
<1>3. GatewayTypeOK'
  BY <1>1, <1>2 DEF GatewayTypeOK
<1>4. ControlInv' /\ ResidueInv' /\ PublisherReachesHub'
  BY <1>1 DEF ControlInv, ResidueInv, PublisherReachesHub, Outside, Recovering
<1>5. HeldInv' /\ PreviousInv'
  BY <1>1 DEF HeldInv, PreviousInv, Held, Holding, AdapterOf, Recovering
<1>6. QED
  BY <1>3, <1>4, <1>5

-----------------------------------------------------------------------------
(* The invariant, and the properties it implies.                           *)

LEMMA InitInv == Init => ActivationInv
<1> SUFFICES ASSUME Init PROVE ActivationInv
  OBVIOUS
<1>1. \A r \in Runtimes : ~Held(r)
  BY ActivationAssumption DEF Init, Held, Holding, AdapterOf
<1>2. GatewayTypeOK
  BY DEF Init, GatewayTypeOK, AdapterState, NoTransition, NewHub, Stage
<1>3. QED
  BY <1>1, <1>2 DEF ActivationInv, Init, ControlInv, ResidueInv, HeldInv, PreviousInv,
                    PublisherReachesHub, NoTransition, NewHub, Outside, Recovering

LEMMA StutterInv ==
  ASSUME ActivationInv, UNCHANGED vars
  PROVE  ActivationInv'
<1>1. UNCHANGED <<authorityVars, residualRuntimeCleanup, adapters, transition, hub,
                  runtimeTail, reading, requested, forsaken, service>>
  BY DEF vars, requestVars
<1>2. QED
  BY <1>1, RequestStep DEF ActivationInv, GatewayTypeOK

LEMMA NextInv ==
  ASSUME ActivationInv, [Next]_vars
  PROVE  ActivationInv'
<1>1. CASE ActivateStep
  BY <1>1, Requests, StartActivateInv, StopPreviousInv, StartCandidateInv, InstallInv,
     InstallFailedInv, CleanupCandidateInv, RecoverServerInv, RecoverClientInv,
     RecoveryFailedInv DEF ActivateStep
<1>2. CASE DeactivateStep
  BY <1>2, Requests, DeactivateInactiveInv, StartDeactivateInv, FinishDeactivateInv,
     StartCloseInv, FinishCloseInv DEF DeactivateStep
<1>3. CASE UNCHANGED vars
  BY <1>3, StutterInv
<1>4. QED
  BY <1>1, <1>2, <1>3, Requests, HangUpInv, FinishStopInv DEF Next

(* The strengthened invariant holds of every Gateway.                      *)
THEOREM ActivationInvariant == Spec => []ActivationInv
<1>1. ActivationInv /\ [Next]_vars => ActivationInv'
  BY NextInv
<1>2. QED
  BY <1>1, InitInv, PTL DEF Spec

LEMMA InvImplies ==
  ASSUME ActivationInv
  PROVE  /\ GatewayTypeOK /\ NothingLeaked /\ InactiveIsClean /\ PublisherReachesHub
         /\ StartsOnFreePort
<1> USE DEF ActivationInv
<1>1. NothingLeaked
  BY DEF HeldInv, NothingLeaked
<1>2. InactiveIsClean
  <2>1. activeRuntime = Null => residualRuntimeCleanup = {} /\ projectAuthorityPhase = "inactive"
    BY DEF ControlInv, ResidueInv
  <2>2. ASSUME Idle, projectAuthorityPhase = "inactive", NEW r \in Runtimes PROVE ~Held(r)
    BY <2>1, <2>2, ActivationAssumption DEF ControlInv, HeldInv, Idle, Outside
  <2>3. QED
    BY <2>1, <2>2 DEF InactiveIsClean
<1>3. StartsOnFreePort
  <2>1. SUFFICES ASSUME transition.stage = "startServer",
                        NEW r \in Runtimes \ {transition.candidate}, Holding(r, "server")
                 PROVE  FALSE
    BY DEF StartsOnFreePort
  <2>2. residualRuntimeCleanup = {}
    BY <2>1 DEF ControlInv, ResidueInv, Outside, Recovering
  <2>3. Held(r)
    BY <2>1 DEF Held, Kinds
  <2>4. r = activeRuntime
    BY <2>2, <2>3 DEF HeldInv
  <2>5. QED
    BY <2>1, <2>4 DEF PreviousInv, Kinds
<1>4. QED
  BY <1>1, <1>2, <1>3

(* Every variable stays in its type, for any number of attempts.           *)
THEOREM GatewayTypeCorrect == Spec => []GatewayTypeOK
<1>1. ActivationInv => GatewayTypeOK
  BY InvImplies
<1>2. QED
  BY <1>1, ActivationInvariant, PTL

(* No adapter that runs or failed to stop is ever forgotten (main.ts:820). *)
THEOREM GatewayLeaksNothing == Spec => []NothingLeaked
<1>1. ActivationInv => NothingLeaked
  BY InvImplies
<1>2. QED
  BY <1>1, ActivationInvariant, PTL

(* A Gateway without authority has nothing left to stop (main.ts:1061).    *)
THEOREM GatewayInactiveIsClean == Spec => []InactiveIsClean
<1>1. ActivationInv => InactiveIsClean
  BY InvImplies
<1>2. QED
  BY <1>1, ActivationInvariant, PTL

(* An active authority always has its hub (main.ts:772-811).               *)
THEOREM GatewayPublisherReachesHub == Spec => []PublisherReachesHub
<1>1. ActivationInv => PublisherReachesHub
  BY InvImplies
<1>2. QED
  BY <1>1, ActivationInvariant, PTL

(* A candidate's server never meets another one (main.ts:722-726).         *)
THEOREM GatewayStartsOnFreePort == Spec => []StartsOnFreePort
<1>1. ActivationInv => StartsOnFreePort
  BY InvImplies
<1>2. QED
  BY <1>1, ActivationInvariant, PTL

-----------------------------------------------------------------------------
(* The Gateway implements the authority that the tabs rely on.             *)

Promised == Promise!AuthorityNext \/ UNCHANGED authorityVars

LEMMA ConcludePromised ==
  ASSUME ActivationInv, transition.stage \notin Outside,
         NEW recovered \in BOOLEAN, NEW residue \in BOOLEAN, Conclude(recovered, residue)
  PROVE  Promised
<1>1. /\ transition.candidate \in Runtimes
      /\ projectAuthorityPhase \in {"inactive", "active"}
      /\ projectAuthorityPhase = "inactive" <=> activeRuntime = Null
  BY DEF ActivationInv, ControlInv, GatewayTypeOK, Outside
<1>2. CASE residue \/ (activeRuntime # Null /\ ~recovered)
  <2>1. Promise!Break(transition.candidate)
    BY <1>1, <1>2 DEF Conclude, Promise!Break
  <2>2. QED
    BY <1>1, <2>1 DEF Promised, Promise!AuthorityNext
<1>3. CASE ~(residue \/ (activeRuntime # Null /\ ~recovered))
  BY <1>1, <1>3 DEF Conclude, Promised, authorityVars
<1>4. QED
  BY <1>2, <1>3

LEMMA DecidePromised ==
  ASSUME ActivationInv, NEW clean \in BOOLEAN, Decide(clean), activeRuntime # Null \/ clean
  PROVE  Promised
<1>1. CASE activeRuntime # Null
  BY <1>1 DEF Decide, Promised, Promise!AuthorityNext, Promise!Withdraw, Promise!KeepForRetry
<1>2. CASE activeRuntime = Null
  BY <1>2 DEF Decide, Promised, authorityVars, ActivationInv, ControlInv
<1>3. QED
  BY <1>1, <1>2

LEMMA StepPromised ==
  ASSUME ActivationInv, Next
  PROVE  Promised
<1>1. CASE UNCHANGED authorityVars
  BY <1>1 DEF Promised
<1>2. CASE Install
  <2>1. /\ transition.candidate \in Runtimes
        /\ projectAuthorityPhase \in {"inactive", "active"}
    BY <1>2 DEF Install, ActivationInv, ControlInv, GatewayTypeOK, Outside
  <2>2. Promise!Accept(transition.candidate)
    BY <1>2, <2>1 DEF Install, InstallCandidate, Promise!Accept
  <2>3. QED
    BY <2>1, <2>2 DEF Promised, Promise!AuthorityNext
<1>3. CASE CleanupCandidate
  <2>1. PICK failed \in BOOLEAN : AfterCandidateCleanup(failed)
    BY <1>3 DEF CleanupCandidate
  <2>2. transition.stage \notin Outside
    BY <1>3 DEF CleanupCandidate, Outside
  <2>3. QED
    BY <2>1, <2>2, ConcludePromised DEF AfterCandidateCleanup, Promised
<1>4. CASE RecoverClient \/ RecoveryFailed
  <2>1. transition.stage \in Recovering
    BY <1>4 DEF RecoverClient, RecoveryFailed, Recovering
  <2>2. UNCHANGED authorityVars \/ \E b \in BOOLEAN : Conclude(b, transition.residue)
    BY <1>4 DEF RecoverClient, RecoveryFailed
  <2>3. QED
    BY <2>1, <2>2, RecoveringFacts, ConcludePromised DEF Promised
<1>5. CASE DeactivateInactive
  <2>1. UNCHANGED authorityVars
    BY <1>5, NoTargets DEF DeactivateInactive, AdaptersClean, authorityVars
  <2>2. QED
    BY <2>1 DEF Promised
<1>6. CASE StartDeactivate
  <2>1. activeRuntime # Null
    <3>1. ASSUME Take("deactivate"), activeRuntime = Head(runtimeTail).runtime
          PROVE  activeRuntime # Null
      BY <3>1, Queue, ActivationAssumption
         DEF ActivationInv, Request, PutRequest, FencedRequest, PlainRequest
    <3>2. QED
      BY <1>6, <3>1 DEF StartDeactivate
  <2>2. Promise!StartWithdraw
    BY <1>6, <2>1 DEF StartDeactivate, Promise!StartWithdraw
  <2>3. QED
    BY <2>2 DEF Promised, Promise!AuthorityNext
<1>7. CASE FinishDeactivate
  <2>1. activeRuntime # Null
    BY <1>7 DEF FinishDeactivate, ActivationInv, ControlInv
  <2>2. PICK clean \in BOOLEAN : Decide(clean)
    BY <1>7 DEF FinishDeactivate, AdaptersClean
  <2>3. QED
    BY <2>1, <2>2, DecidePromised
<1>8. CASE FinishClose
  <2>1. PICK F \in SUBSET Stoppable(CleanUpTargets) : Decide(F = {})
    BY <1>8 DEF FinishClose, AdaptersClean
  <2>2. PICK clean \in BOOLEAN : Decide(clean) /\ (clean <=> F = {})
    BY <2>1
  <2>3. activeRuntime = Null => F = {}
    BY NoTargets
  <2>4. QED
    BY <2>2, <2>3, DecidePromised
<1>9. QED
  <2>1. ASSUME ActivateStep, ~Install, ~CleanupCandidate, ~RecoverClient, ~RecoveryFailed
        PROVE  UNCHANGED authorityVars
    BY <2>1 DEF ActivateStep, RefuseActivate, StartActivate, Begin, StopPrevious, StartCandidate,
                InstallFailed, RecoverServer, Undecided, authorityVars
  <2>2. ASSUME DeactivateStep, ~DeactivateInactive, ~StartDeactivate, ~FinishDeactivate,
               ~FinishClose
        PROVE  UNCHANGED authorityVars
    BY <2>2 DEF DeactivateStep, RefuseDeactivate, StartClose, authorityVars
  <2>3. ASSUME NEW r \in Runtimes, SendActivate(r) \/ SendDeactivate(r) \/ SendUnconditional
        PROVE  UNCHANGED authorityVars
    BY <2>3 DEF SendActivate, SendDeactivate, SendUnconditional, Send, authorityVars
  <2>4. ASSUME SendUnconditional \/ (\E q \in reading : BodyRead(q)) \/ HangUp \/ RequestStop
               \/ FinishStop \/ StartService
        PROVE  UNCHANGED authorityVars
    BY <2>4 DEF SendUnconditional, Send, BodyRead, HangUp, RequestStop, FinishStop, StartService,
                authorityVars
  <2>5. QED
    BY <1>1, <1>2, <1>3, <1>4, <1>5, <1>6, <1>7, <1>8, <2>1, <2>2, <2>3, <2>4 DEF Next

(* Whatever fails inside the Gateway and whatever waits in its queue, its  *)
(* authority and phase change only as GatewayAuthority says.               *)
THEOREM GatewayImplementsAuthority == Spec => ImplementsAuthority
<1>1. Init => Promise!AuthorityInit
  BY DEF Init, Promise!AuthorityInit
<1>2. ASSUME ActivationInv, [Next]_vars
      PROVE  [Promise!AuthorityNext]_(Promise!authorityVars)
  <2>1. Promised
    BY <1>2, StepPromised DEF Promised, vars
  <2>2. QED
    BY <2>1 DEF Promised, Promise!authorityVars, authorityVars
<1>3. QED
  BY <1>1, <1>2, ActivationInvariant, PTL DEF Spec, ImplementsAuthority, Promise!AuthoritySpec

-----------------------------------------------------------------------------
(* An active authority is served by its adapters, for any number of       *)
(* activation attempts and of queued requests.  ActivationInv says which   *)
(* adapters may be held, not that those of the active runtime are up again *)
(* when a candidate has failed.  ServedInv follows them through the stages *)
(* of an activation, and AttemptInv says that an activation never replaces *)
(* a runtime by itself: the clean-up of a candidate does not touch the     *)
(* runtime to recover.                                                     *)

(* Every attempt is requested once, so what still waits is neither active  *)
(* nor running, and no two requests are for the same one.                  *)
IsPut(q) == q.kind = "activate"

Unstarted == requested \ {activeRuntime, transition.candidate}

AttemptInv ==
    /\ {activeRuntime, transition.candidate} \subseteq requested \cup {Null}
    /\ transition.candidate # Null => transition.candidate # activeRuntime
    /\ \A q \in reading : IsPut(q) => q.runtime \in Unstarted
    /\ \A i \in 1..Len(runtimeTail) : 
           IsPut(runtimeTail[i]) => runtimeTail[i].runtime \in Unstarted
    /\ \A p, q \in reading : IsPut(p) /\ IsPut(q) /\ p.runtime = q.runtime => p = q
    /\ \A i, j \in 1..Len(runtimeTail) :
          /\ IsPut(runtimeTail[i]) /\ IsPut(runtimeTail[j])
          /\ runtimeTail[i].runtime = runtimeTail[j].runtime
          => i = j
    /\ \A q \in reading, i \in 1..Len(runtimeTail) :
          IsPut(q) /\ IsPut(runtimeTail[i]) => q.runtime # runtimeTail[i].runtime

(* What an active authority needs of its runtime.                          *)
Serving(r) == AdapterOf(r, "server") # "off" /\ AdapterOf(r, "client") \notin {"off", "half"}

(* The candidate's adapters are started one after the other; a previous    *)
(* runtime that was not stopped has none, and one that is recovered has    *)
(* its server before its client.                                           *)
ServedInv ==
    /\ projectAuthorityPhase = "active" /\ transition.stage = "idle" => Serving(activeRuntime)
    /\ transition.stage \notin Outside /\ ~transition.stopped =>
           \A k \in Kinds : AdapterOf(activeRuntime, k) = "none"
    /\ transition.stage = "recoverClient" => AdapterOf(activeRuntime, "server") # "off"
    /\ transition.stage \in {"stopServer", "stopClient", "startServer"} =>
           \A k \in Kinds : AdapterOf(transition.candidate, k) \in {"off", "none"}
    /\ transition.stage = "startClient" =>
           /\ AdapterOf(transition.candidate, "server") \in {"on", "none"}
           /\ AdapterOf(transition.candidate, "client") \in {"off", "none"}
    /\ transition.stage = "install" =>
           \A k \in Kinds : AdapterOf(transition.candidate, k) \in {"on", "none"}

ServiceInv == ActivationInv /\ AttemptInv /\ ServedInv

-----------------------------------------------------------------------------
(* The requests.                                                           *)

(* Nothing new waits, and no runtime is active or running that was not.    *)
LEMMA AttemptsKept ==
  ASSUME GatewayTypeOK, AttemptInv, requested' = requested, reading' \subseteq reading,
         \/ runtimeTail' = runtimeTail
         \/ runtimeTail # <<>> /\ runtimeTail' = Tail(runtimeTail),
         {activeRuntime', transition'.candidate} \subseteq
             {activeRuntime, transition.candidate, Null},
         transition'.candidate # Null => transition'.candidate # activeRuntime'
  PROVE  AttemptInv'
<1>1. Null \notin requested
  BY ActivationAssumption DEF GatewayTypeOK
<1>2. Unstarted \subseteq Unstarted'
  BY <1>1 DEF Unstarted
<1>3. PICK d \in {0, 1} :
         /\ \A i \in 1..Len(runtimeTail') :
               i + d \in 1..Len(runtimeTail) /\ runtimeTail'[i] = runtimeTail[i + d]
  <2>1. CASE runtimeTail' = runtimeTail
    <3>1. \A i \in 1..Len(runtimeTail') :
             i + 0 \in 1..Len(runtimeTail) /\ runtimeTail'[i] = runtimeTail[i + 0]
      BY <2>1 DEF GatewayTypeOK
    <3>2. QED
      BY <3>1
  <2>2. CASE runtimeTail # <<>> /\ runtimeTail' = Tail(runtimeTail)
    <3>1. \A i \in 1..Len(runtimeTail') :
             i + 1 \in 1..Len(runtimeTail) /\ runtimeTail'[i] = runtimeTail[i + 1]
      BY <2>2 DEF GatewayTypeOK
    <3>2. QED
      BY <3>1
  <2>3. QED
    BY <2>1, <2>2
<1>4. \A i \in 1..Len(runtimeTail') :
         IsPut(runtimeTail'[i]) => runtimeTail'[i].runtime \in Unstarted'
  BY <1>2, <1>3 DEF AttemptInv
<1>5. \A i, j \in 1..Len(runtimeTail') :
         /\ IsPut(runtimeTail'[i]) /\ IsPut(runtimeTail'[j])
         /\ runtimeTail'[i].runtime = runtimeTail'[j].runtime
         => i = j
  <2>1. ASSUME NEW i \in 1..Len(runtimeTail'), NEW j \in 1..Len(runtimeTail'),
               IsPut(runtimeTail'[i]), IsPut(runtimeTail'[j]),
               runtimeTail'[i].runtime = runtimeTail'[j].runtime
        PROVE  i = j
    <3>1. i + d = j + d
      BY SMTT(30), <2>1, <1>3 DEF AttemptInv
    <3>2. QED
      BY <3>1
  <2>2. QED
    BY <2>1
<1>6. \A q \in reading', i \in 1..Len(runtimeTail') :
         IsPut(q) /\ IsPut(runtimeTail'[i]) => q.runtime # runtimeTail'[i].runtime
  BY <1>3 DEF AttemptInv
<1>7. QED
  BY <1>1, <1>2, <1>4, <1>5, <1>6 DEF AttemptInv, IsPut

(* One more body is being read, or its request is queued.                  *)
LEMMA AttemptRead ==
  ASSUME GatewayTypeOK, AttemptInv, NEW q, reading' = reading \cup {q},
         requested \subseteq requested', requested' \subseteq Runtimes,
         UNCHANGED <<activeRuntime, transition, runtimeTail>>,
         IsPut(q) => q.runtime \in requested' \ requested
  PROVE  AttemptInv'
<1>1. Null \notin requested'
  BY ActivationAssumption
<1>2. Unstarted \subseteq Unstarted'
  BY DEF Unstarted
<1>3. IsPut(q) => q.runtime \in Unstarted'
  BY <1>1 DEF Unstarted, AttemptInv
<1>4. \A p \in reading : IsPut(p) => p.runtime \in requested
  BY DEF AttemptInv, Unstarted
<1>5. \A i \in 1..Len(runtimeTail) : IsPut(runtimeTail[i]) => runtimeTail[i].runtime \in requested
  BY DEF AttemptInv, Unstarted
<1>6. /\ \A p, o \in reading' : IsPut(p) /\ IsPut(o) /\ p.runtime = o.runtime => p = o
      /\ \A p \in reading', i \in 1..Len(runtimeTail') :
            IsPut(p) /\ IsPut(runtimeTail'[i]) => p.runtime # runtimeTail'[i].runtime
  BY <1>4, <1>5 DEF AttemptInv
<1>7. QED
  BY <1>2, <1>3, <1>6 DEF AttemptInv, IsPut

LEMMA AttemptQueued ==
  ASSUME GatewayTypeOK, AttemptInv, NEW q \in Request,
         runtimeTail' = Append(runtimeTail, q),
         UNCHANGED <<activeRuntime, transition, requested>>,
         reading' \subseteq reading, IsPut(q) => q \in reading \ reading'
  PROVE  AttemptInv'
<1>1. runtimeTail \in Seq(Request)
  BY DEF GatewayTypeOK
<1>2. /\ Len(runtimeTail') = Len(runtimeTail) + 1
      /\ \A i \in 1..Len(runtimeTail) : runtimeTail'[i] = runtimeTail[i]
      /\ runtimeTail'[Len(runtimeTail) + 1] = q
  BY <1>1
<1>3. \A i \in 1..Len(runtimeTail') :
         \/ i \in 1..Len(runtimeTail) /\ runtimeTail'[i] = runtimeTail[i]
         \/ i = Len(runtimeTail') /\ runtimeTail'[i] = q
  BY <1>1, <1>2
<1>4. Unstarted' = Unstarted
  BY DEF Unstarted
<1>5. IsPut(q) => /\ q.runtime \in Unstarted
                  /\ \A i \in 1..Len(runtimeTail) :
                        IsPut(runtimeTail[i]) => q.runtime # runtimeTail[i].runtime
                  /\ \A p \in reading' : IsPut(p) => p.runtime # q.runtime
  BY DEF AttemptInv
<1>6. \A i \in 1..Len(runtimeTail') :
         IsPut(runtimeTail'[i]) => runtimeTail'[i].runtime \in Unstarted'
  BY <1>3, <1>4, <1>5 DEF AttemptInv
<1>7. \A i, j \in 1..Len(runtimeTail') :
         /\ IsPut(runtimeTail'[i]) /\ IsPut(runtimeTail'[j])
         /\ runtimeTail'[i].runtime = runtimeTail'[j].runtime
         => i = j
  BY <1>3, <1>5 DEF AttemptInv
<1>8. \A p \in reading', i \in 1..Len(runtimeTail') :
         IsPut(p) /\ IsPut(runtimeTail'[i]) => p.runtime # runtimeTail'[i].runtime
  BY <1>3, <1>5 DEF AttemptInv
<1>9. QED
  BY <1>4, <1>6, <1>7, <1>8 DEF AttemptInv, IsPut

(* The activation at the head of the queue starts: what still waits is for *)
(* other runtimes.                                                         *)
LEMMA AttemptStarted ==
  ASSUME GatewayTypeOK, AttemptInv, StartActivate
  PROVE  AttemptInv'
<1> DEFINE c == Head(runtimeTail).runtime
<1>1. /\ runtimeTail \in Seq(Request) /\ runtimeTail # <<>>
      /\ IsPut(runtimeTail[1]) /\ c = runtimeTail[1].runtime
      /\ runtimeTail' = Tail(runtimeTail)
  BY DEF GatewayTypeOK, StartActivate, Take, IsPut
<1>2. /\ transition'.candidate = c
      /\ UNCHANGED <<activeRuntime, reading, requested>>
  BY DEF StartActivate, Begin, authorityVars
<1>3. /\ Len(runtimeTail') = Len(runtimeTail) - 1 /\ 1 \in 1..Len(runtimeTail)
      /\ \A i \in 1..Len(runtimeTail') :
            i + 1 \in 1..Len(runtimeTail) /\ runtimeTail'[i] = runtimeTail[i + 1]
  BY <1>1
<1>4. /\ c \in Unstarted
      /\ \A q \in reading : IsPut(q) => q.runtime # c
      /\ \A i \in 2..Len(runtimeTail) : IsPut(runtimeTail[i]) => runtimeTail[i].runtime # c
  BY <1>1, <1>3 DEF AttemptInv
<1> HIDE DEF c
<1>5. /\ Null \notin requested
      /\ Unstarted \ {c} \subseteq Unstarted'
  BY <1>2, ActivationAssumption DEF GatewayTypeOK, Unstarted, AttemptInv
<1>6. /\ {activeRuntime', transition'.candidate} \subseteq requested' \cup {Null}
      /\ transition'.candidate # activeRuntime'
  BY <1>2, <1>4 DEF AttemptInv, Unstarted
<1>7. /\ \A q \in reading' : IsPut(q) => q.runtime \in Unstarted'
      /\ \A p, q \in reading' : IsPut(p) /\ IsPut(q) /\ p.runtime = q.runtime => p = q
  BY <1>2, <1>4, <1>5 DEF AttemptInv
<1>8. \A i \in 1..Len(runtimeTail') : IsPut(runtimeTail'[i]) => runtimeTail'[i].runtime \in Unstarted'
  <2>1. ASSUME NEW i \in 1..Len(runtimeTail'), IsPut(runtimeTail'[i])
        PROVE  runtimeTail'[i].runtime \in Unstarted'
    <3>1. i + 1 \in 2..Len(runtimeTail) /\ runtimeTail'[i] = runtimeTail[i + 1]
      BY <1>3
    <3>2. runtimeTail[i + 1].runtime \in Unstarted \ {c}
      BY <2>1, <3>1, <1>4 DEF AttemptInv
    <3>3. QED
      BY <3>1, <3>2, <1>5
  <2>2. QED
    BY <2>1
<1>9. \A i, j \in 1..Len(runtimeTail') :
         /\ IsPut(runtimeTail'[i]) /\ IsPut(runtimeTail'[j])
         /\ runtimeTail'[i].runtime = runtimeTail'[j].runtime
         => i = j
  <2>1. ASSUME NEW i \in 1..Len(runtimeTail'), NEW j \in 1..Len(runtimeTail'),
               IsPut(runtimeTail'[i]), IsPut(runtimeTail'[j]),
               runtimeTail'[i].runtime = runtimeTail'[j].runtime
        PROVE  i = j
    <3>1. i + 1 = j + 1
      BY <2>1, <1>3 DEF AttemptInv
    <3>2. QED
      BY <3>1
  <2>2. QED
    BY <2>1
<1>10. \A q \in reading', i \in 1..Len(runtimeTail') :
         IsPut(q) /\ IsPut(runtimeTail'[i]) => q.runtime # runtimeTail'[i].runtime
  BY <1>2, <1>3 DEF AttemptInv
<1>11. QED
  BY <1>6, <1>7, <1>8, <1>9, <1>10 DEF AttemptInv, IsPut

(* A step of an activation leaves the requests alone and ends, if at all,  *)
(* with the previous runtime, with the candidate or with none.             *)
LEMMA AttemptGoesOn ==
  ASSUME GatewayTypeOK, AttemptInv, UNCHANGED <<runtimeTail, reading, requested>>,
         {activeRuntime', transition'.candidate} \subseteq
             {activeRuntime, transition.candidate, Null},
         transition'.candidate # Null => transition'.candidate # activeRuntime'
  PROVE  AttemptInv'
BY AttemptsKept DEF requestVars

LEMMA AttemptNext ==
  ASSUME ActivationInv, AttemptInv, [Next]_vars
  PROVE  AttemptInv'
<1> USE DEF authorityVars, requestVars
<1>t. GatewayTypeOK /\ activeRuntime \in Runtimes \cup {Null}
  BY DEF ActivationInv, GatewayTypeOK
<1>u. /\ transition.candidate # Null => transition.candidate # activeRuntime
      /\ NoTransition.candidate = Null
  BY DEF AttemptInv, NoTransition
<1>g. \A s : Goto(s) => transition'.candidate = transition.candidate
  BY <1>t DEF Goto, GatewayTypeOK
<1>c. \A a, b : Conclude(a, b) =>
         /\ activeRuntime' \in {activeRuntime, transition.candidate}
         /\ transition'.candidate = Null
  BY <1>u DEF Conclude
<1>1. ASSUME NEW r \in Runtimes, SendActivate(r) PROVE AttemptInv'
  <2>1. PICK modes \in SUBSET Kinds :
           Send([kind |-> "activate", runtime |-> r, expected |-> activeRuntime,
                 modes |-> modes, waiting |-> TRUE])
    BY <1>1 DEF SendActivate
  <2>2. /\ r \notin requested /\ requested' = requested \cup {r}
        /\ UNCHANGED <<activeRuntime, transition, runtimeTail>>
        /\ requested' \subseteq Runtimes
    BY <1>1, <1>t, <2>1 DEF SendActivate, Send, GatewayTypeOK
  <2>3. QED
    BY <1>t, <2>1, <2>2, AttemptRead DEF Send
<1>2. ASSUME NEW q, Send(q), UNCHANGED requested, ~IsPut(q) PROVE AttemptInv'
  <2>1. requested' \subseteq Runtimes
    BY <1>2, <1>t DEF GatewayTypeOK
  <2>2. QED
    BY <1>2, <1>t, <2>1, AttemptRead DEF Send
<1>3. ASSUME \/ \E r \in Runtimes : SendDeactivate(r)
             \/ SendUnconditional
      PROVE  AttemptInv'
  BY <1>2, <1>3 DEF SendDeactivate, SendUnconditional, DeactivateRequest, IsPut
<1>4. ASSUME NEW q \in reading, BodyRead(q) PROVE AttemptInv'
  BY <1>4, <1>t, AttemptQueued DEF BodyRead, GatewayTypeOK
<1>5. ASSUME RequestStop PROVE AttemptInv'
  <2>1. PICK q \in Request : q.kind = "close" /\ runtimeTail' = Append(runtimeTail, q)
    BY <1>5 DEF RequestStop, DeactivateRequest, Request, PlainRequest
  <2>2. QED
    BY <1>5, <1>t, <2>1, AttemptQueued DEF RequestStop, IsPut
<1>6. ASSUME \/ RefuseActivate \/ RefuseDeactivate \/ DeactivateInactive
             \/ StartDeactivate \/ StartClose
      PROVE  AttemptInv'
  <2>0. StartDeactivate => transition'.candidate = transition.candidate
    BY <1>t DEF StartDeactivate, GatewayTypeOK
  <2>1. /\ runtimeTail # <<>> /\ runtimeTail' = Tail(runtimeTail)
        /\ reading' \subseteq reading
        /\ UNCHANGED <<activeRuntime, requested>>
        /\ transition'.candidate = transition.candidate
    BY <1>6, <1>g, <2>0 DEF RefuseActivate, RefuseDeactivate, DeactivateInactive, StartDeactivate,
                     StartClose, Take
  <2>2. QED
    BY <1>t, <1>u, <2>1, AttemptsKept
<1>7. ASSUME \/ StopPrevious("server", "stopServer", "stopClient")
             \/ StopPrevious("client", "stopClient", "startServer")
             \/ StartCandidate("server", "startServer", "startClient")
             \/ StartCandidate("client", "startClient", "install")
             \/ InstallFailed \/ RecoverServer
      PROVE  AttemptInv'
  <2>1. /\ UNCHANGED activeRuntime /\ UNCHANGED requestVars
        /\ transition'.candidate = transition.candidate
    BY <1>7, <1>g DEF StopPrevious, StartCandidate, InstallFailed, RecoverServer,
                     Undecided, ActivationFrame
  <2>2. QED
    BY <1>t, <1>u, <2>1, AttemptGoesOn
<1>8. ASSUME Install PROVE AttemptInv'
  BY <1>8, <1>t, <1>u, AttemptGoesOn DEF Install, InstallCandidate, ActivationFrame
<1>9. ASSUME CleanupCandidate PROVE AttemptInv'
  <2>1. PICK failed \in BOOLEAN : AfterCandidateCleanup(failed)
    BY <1>9 DEF CleanupCandidate
  <2>2. \/ activeRuntime' = activeRuntime /\ transition'.candidate = transition.candidate
        \/ activeRuntime' \in {activeRuntime, transition.candidate}
           /\ transition'.candidate = Null
    BY <1>t, <1>c, <2>1 DEF AfterCandidateCleanup, GatewayTypeOK
  <2>3. UNCHANGED requestVars
    BY <1>9 DEF CleanupCandidate, ActivationFrame
  <2>4. QED
    BY <1>t, <1>u, <2>2, <2>3, AttemptGoesOn
<1>10. ASSUME RecoverClient \/ RecoveryFailed PROVE AttemptInv'
  <2>1. \/ activeRuntime' = activeRuntime /\ transition'.candidate = transition.candidate
        \/ activeRuntime' \in {activeRuntime, transition.candidate}
           /\ transition'.candidate = Null
    BY <1>10, <1>c, <1>g DEF RecoverClient, RecoveryFailed
  <2>2. UNCHANGED requestVars
    BY <1>10 DEF RecoverClient, RecoveryFailed, ActivationFrame
  <2>3. QED
    BY <1>t, <1>u, <2>1, <2>2, AttemptGoesOn
<1>11. ASSUME FinishDeactivate \/ FinishClose PROVE AttemptInv'
  <2>1. PICK clean : Decide(clean)
    BY <1>11 DEF FinishDeactivate, FinishClose
  <2>2. UNCHANGED requestVars
    BY <1>11 DEF FinishDeactivate, FinishClose, ActivationFrame
  <2>3. QED
    BY <1>t, <1>u, <2>1, <2>2, AttemptGoesOn DEF Decide
<1>12. ASSUME FinishStop \/ StartService \/ UNCHANGED vars PROVE AttemptInv'
  BY <1>12, <1>t, <1>u, AttemptGoesOn DEF FinishStop, StartService, vars
<1>13. ASSUME HangUp PROVE AttemptInv'
  <2>1. /\ Len(runtimeTail') = Len(runtimeTail)
        /\ \A i \in 1..Len(runtimeTail) :
              /\ IsPut(runtimeTail'[i]) <=> IsPut(runtimeTail[i])
              /\ runtimeTail'[i].runtime = runtimeTail[i].runtime
        /\ transition'.candidate = transition.candidate
        /\ UNCHANGED <<activeRuntime, reading, requested>>
    BY <1>13, <1>t, HangUpEffect DEF IsPut
  <2>2. Unstarted' = Unstarted
    BY <2>1 DEF Unstarted
  <2> HIDE DEF IsPut
  <2>3. QED
    BY <2>1, <2>2 DEF AttemptInv
<1>14. QED
  BY <1>t, <1>1, <1>3, <1>4, <1>5, <1>6, <1>7, <1>8, <1>9, <1>10, <1>11, <1>12, <1>13,
     AttemptStarted DEF Next, ActivateStep, DeactivateStep

-----------------------------------------------------------------------------
(* The adapters.                                                           *)

(* Steps that leave the adapters alone, and steps that end a transition.   *)
LEMMA ServedKept ==
  ASSUME ServedInv, UNCHANGED <<activeRuntime, adapters>>,
         transition' = transition \/ transition'.stage \in {"deactivating", "closing"},
         projectAuthorityPhase' = "active" => projectAuthorityPhase = "active"
  PROVE  ServedInv'
BY DEF ServedInv, Serving, AdapterOf, Outside

LEMMA ServedEnd ==
  ASSUME transition' = NoTransition,
         projectAuthorityPhase' = "active" => Serving(activeRuntime)'
  PROVE  ServedInv'
BY DEF ServedInv, NoTransition, Outside

LEMMA ServedStart ==
  ASSUME ServiceInv, StartActivate
  PROVE  ServedInv'
<1> DEFINE q == Head(runtimeTail)
<1> USE DEF ServiceInv, ActivationInv, authorityVars
<1>1. /\ q \in PutRequest /\ runtimeTail # <<>> /\ q = runtimeTail[1]
      /\ Begin(q)
  BY SMTT(30), Queue DEF StartActivate, Request, PutRequest, FencedRequest, PlainRequest, GatewayTypeOK
<1>2. 1 \in 1..Len(runtimeTail)
  BY <1>1 DEF GatewayTypeOK
<1>3. q.runtime \in Runtimes /\ q.runtime # activeRuntime
  BY <1>1, <1>2 DEF AttemptInv, Unstarted, IsPut, PutRequest
<1> HIDE DEF q
<1>4. /\ transition' = [stage |-> "stopServer", candidate |-> q.runtime,
                        stopped |-> HasAdapters(activeRuntime), residue |-> FALSE,
                        waiting |-> q.waiting]
      /\ UNCHANGED activeRuntime
  BY <1>1 DEF Begin
<1>5. /\ \A k \in Kinds : adapters'[q.runtime][k] \in {"off", "none"}
      /\ \A r \in Runtimes \ {q.runtime} : adapters'[r] = adapters[r]
  BY <1>1, <1>3 DEF Begin, GatewayTypeOK
<1>6. \A k \in Kinds : AdapterOf(activeRuntime, k)' = AdapterOf(activeRuntime, k)
  BY <1>3, <1>4, <1>5 DEF AdapterOf, GatewayTypeOK
<1>7. \A k \in Kinds : AdapterOf(transition.candidate, k)' \in {"off", "none"}
  BY <1>3, <1>4, <1>5 DEF AdapterOf
<1>8. QED
  BY <1>4, <1>6, <1>7 DEF ServedInv, HasAdapters, Outside

(* One adapter of the active runtime or of the candidate has changed, and  *)
(* the activation goes on.                                                 *)
LEMMA OneAdapter ==
  ASSUME ServiceInv, NEW r \in Runtimes \cup {Null}, NEW k \in Kinds, NEW s \in AdapterState,
         SetAdapter(r, k, s), r = Null => s = "none",
         UNCHANGED activeRuntime, transition'.candidate = transition.candidate,
         NEW j \in Kinds
  PROVE  /\ AdapterOf(activeRuntime, j)' =
               IF r = activeRuntime /\ j = k THEN s ELSE AdapterOf(activeRuntime, j)
         /\ AdapterOf(transition.candidate, j)' =
               IF r = transition.candidate /\ j = k THEN s
               ELSE AdapterOf(transition.candidate, j)
<1>1. \A p \in Runtimes, i \in Kinds :
             adapters'[p][i] = IF p = r /\ i = k THEN s ELSE adapters[p][i]
  BY SetAdapterEffect DEF ServiceInv, ActivationInv
<1>2. activeRuntime \in Runtimes \cup {Null} /\ transition.candidate \in Runtimes \cup {Null}
  BY DEF ServiceInv, ActivationInv, GatewayTypeOK
<1>3. QED
  BY <1>1, <1>2, ActivationAssumption DEF AdapterOf

LEMMA GotoEffect ==
  ASSUME GatewayTypeOK, NEW to \in Stage, Goto(to)
  PROVE  /\ transition'.stage = to /\ transition'.candidate = transition.candidate
         /\ transition'.stopped = transition.stopped
BY DEF Goto, GatewayTypeOK

(* The candidate of a running activation is not the runtime it replaces.   *)
LEMMA Different ==
  ASSUME ServiceInv, transition.stage \notin Outside
  PROVE  transition.candidate \in Runtimes /\ transition.candidate # activeRuntime
BY ActivationAssumption DEF ServiceInv, ActivationInv, ControlInv, AttemptInv

LEMMA ServedStopPrevious ==
  ASSUME ServiceInv,
         \/ StopPrevious("server", "stopServer", "stopClient")
         \/ StopPrevious("client", "stopClient", "startServer")
  PROVE  ServedInv'
<1>1. GatewayTypeOK /\ activeRuntime \in Runtimes \cup {Null}
  BY DEF ServiceInv, ActivationInv, GatewayTypeOK
<1>2. PICK k \in Kinds, s \in AdapterState, to \in {"cleanup", "stopClient", "startServer"} :
         /\ s \in AfterStop(activeRuntime, k)
         /\ SetAdapter(activeRuntime, k, s) /\ Goto(to)
         /\ transition.stage \in {"stopServer", "stopClient"} /\ Undecided
  <2>1. \A k \in Kinds : AfterStop(activeRuntime, k) \subseteq AdapterState
    BY <1>1, AdapterResults
  <2>2. CASE StopPrevious("server", "stopServer", "stopClient")
    BY <2>1, <2>2, Zenon DEF StopPrevious, Kinds
  <2>3. CASE StopPrevious("client", "stopClient", "startServer")
    BY <2>1, <2>3, Zenon DEF StopPrevious, Kinds
  <2>4. QED
    BY <2>2, <2>3
<1>3. /\ transition'.stage = to /\ transition'.candidate = transition.candidate
      /\ transition'.stopped = transition.stopped
      /\ UNCHANGED activeRuntime
  BY <1>1, <1>2, GotoEffect DEF Stage, Undecided, authorityVars
<1>4. transition.candidate # activeRuntime
  BY <1>2, Different DEF Outside
<1>5. AdapterOf(activeRuntime, k) = "none" => s = "none"
  BY <1>2 DEF AfterStop, Holding
<1>6. activeRuntime = Null => s = "none"
  BY <1>5 DEF AdapterOf
<1>7. \A j \in Kinds :
         /\ AdapterOf(activeRuntime, j)' = IF j = k THEN s ELSE AdapterOf(activeRuntime, j)
         /\ AdapterOf(transition.candidate, j)' = AdapterOf(transition.candidate, j)
  BY <1>1, <1>2, <1>3, <1>4, <1>6, OneAdapter
<1>8. QED
  BY <1>2, <1>3, <1>5, <1>7 DEF ServiceInv, ServedInv, Outside

LEMMA ServedStartCandidate ==
  ASSUME ServiceInv,
         \/ StartCandidate("server", "startServer", "startClient")
         \/ StartCandidate("client", "startClient", "install")
  PROVE  ServedInv'
<1>1. GatewayTypeOK
  BY DEF ServiceInv, ActivationInv
<1>2. transition.candidate \in Runtimes /\ transition.candidate # activeRuntime
  BY Different DEF StartCandidate, Outside
<1>3. \A k \in Kinds : AfterStart(transition.candidate, k) \subseteq AdapterState
  BY <1>1, <1>2, AdapterResults
<1>4. ASSUME NEW k \in Kinds, NEW s \in AfterStart(transition.candidate, k), NEW to \in Stage,
             SetAdapter(transition.candidate, k, s), Goto(to), UNCHANGED activeRuntime
      PROVE  /\ transition'.stage = to /\ transition'.stopped = transition.stopped
             /\ \A j \in Kinds :
                   /\ AdapterOf(activeRuntime, j)' = AdapterOf(activeRuntime, j)
                   /\ AdapterOf(transition.candidate, j)' =
                         IF j = k THEN s ELSE AdapterOf(transition.candidate, j)
  <2>1. /\ transition'.stage = to /\ transition'.candidate = transition.candidate
        /\ transition'.stopped = transition.stopped
    BY <1>1, <1>4, GotoEffect
  <2>2. s \in AdapterState
    BY <1>3, <1>4
  <2>3. QED
    BY <1>2, <1>4, <2>1, <2>2, OneAdapter, ActivationAssumption
<1>5. CASE StartCandidate("server", "startServer", "startClient")
  <2>1. PICK s \in AfterStart(transition.candidate, "server") :
           /\ SetAdapter(transition.candidate, "server", s)
           /\ Goto(IF StartRejected("server", s) THEN "cleanup" ELSE "startClient")
    BY <1>5 DEF StartCandidate
  <2>2. PICK to \in {"cleanup", "startClient"} :
           Goto(to) /\ (to = "startClient" => s # "off")
    BY <2>1 DEF StartRejected
  <2>3. /\ transition.stage = "startServer" /\ UNCHANGED activeRuntime
    BY <1>5 DEF StartCandidate, Undecided, authorityVars
  <2>4. /\ transition'.stage = to /\ transition'.stopped = transition.stopped
        /\ \A j \in Kinds :
              /\ AdapterOf(activeRuntime, j)' = AdapterOf(activeRuntime, j)
              /\ AdapterOf(transition.candidate, j)' =
                    IF j = "server" THEN s ELSE AdapterOf(transition.candidate, j)
    BY <1>4, <2>1, <2>2, <2>3 DEF Kinds, Stage
  <2>5. s \in {"on", "off", "none"}
    BY <2>1, <2>3 DEF AfterStart, ServiceInv, ServedInv, Kinds
  <2>6. QED
    BY <2>2, <2>3, <2>4, <2>5 DEF ServiceInv, ServedInv, Outside, Kinds
<1>6. CASE StartCandidate("client", "startClient", "install")
  <2>1. PICK s \in AfterStart(transition.candidate, "client") :
           /\ SetAdapter(transition.candidate, "client", s)
           /\ Goto(IF StartRejected("client", s) THEN "cleanup" ELSE "install")
    BY <1>6 DEF StartCandidate
  <2>2. PICK to \in {"cleanup", "install"} : Goto(to)
    BY <2>1
  <2>3. transition.stage = "startClient" /\ UNCHANGED activeRuntime
    BY <1>6 DEF StartCandidate, Undecided, authorityVars
  <2>4. /\ transition'.stage = to /\ transition'.stopped = transition.stopped
        /\ \A j \in Kinds :
              /\ AdapterOf(activeRuntime, j)' = AdapterOf(activeRuntime, j)
              /\ AdapterOf(transition.candidate, j)' =
                    IF j = "client" THEN s ELSE AdapterOf(transition.candidate, j)
    BY <1>4, <2>1, <2>2, <2>3 DEF Kinds, Stage
  <2>5. s \in {"on", "none"}
    BY <2>1, <2>3 DEF AfterStart, ServiceInv, ServedInv
  <2>6. QED
    BY <2>2, <2>3, <2>4, <2>5 DEF ServiceInv, ServedInv, Outside, Kinds
<1>7. QED
  BY <1>5, <1>6

LEMMA ServedInstall ==
  ASSUME ServiceInv, Install \/ InstallFailed
  PROVE  ServedInv'
<1>1. CASE Install
  <2>1. /\ transition.stage = "install" /\ transition' = NoTransition
        /\ activeRuntime' = transition.candidate /\ UNCHANGED adapters
    BY <1>1 DEF Install, InstallCandidate
  <2>2. QED
    BY <2>1, ServedEnd DEF ServiceInv, ServedInv, Serving, AdapterOf, Kinds
<1>2. CASE InstallFailed
  <2>1. /\ transition.stage = "install" /\ transition'.stage = "cleanup"
        /\ transition'.stopped = transition.stopped
        /\ UNCHANGED <<activeRuntime, adapters>>
    BY <1>2, GotoEffect DEF InstallFailed, Undecided, authorityVars, Stage, ServiceInv,
                           ActivationInv
  <2>2. QED
    BY <2>1 DEF ServiceInv, ServedInv, AdapterOf, Outside
<1>3. QED
  BY <1>1, <1>2

(* A previous runtime that had no adapters needs no recovery.              *)
LEMMA ServedCleanupCandidate ==
  ASSUME ServiceInv, CleanupCandidate
  PROVE  ServedInv'
<1> DEFINE c == transition.candidate
<1>1. PICK F \in SUBSET Stoppable({c}) : StopAll({c}, F) /\ AfterCandidateCleanup(F # {})
  BY DEF CleanupCandidate
<1>2. transition.stage = "cleanup" /\ GatewayTypeOK
  BY DEF CleanupCandidate, ServiceInv, ActivationInv
<1>3. c \in Runtimes /\ c # activeRuntime
  BY <1>2, Different DEF Outside
<1>4. CASE transition.stopped
  BY <1>1, <1>2, <1>4, ResidueRecorded DEF ServedInv, Outside
<1>5. CASE ~transition.stopped
  <2>1. Conclude(activeRuntime # Null, F # {})
    BY <1>1, <1>5 DEF AfterCandidateCleanup
  <2>2. \A k \in Kinds : AdapterOf(activeRuntime, k) = "none"
    BY <1>2, <1>5 DEF ServiceInv, ServedInv, Outside
  <2>3. ASSUME projectAuthorityPhase' = "active"
        PROVE  activeRuntime' = activeRuntime /\ activeRuntime \in Runtimes
    BY <1>2, <2>1, <2>3 DEF Conclude, GatewayTypeOK
  <2>4. \A r \in Runtimes, k \in Kinds : r # c => adapters'[r][k] = adapters[r][k]
    BY <1>1, <1>2, <1>3, StopOneEffect
  <2>5. projectAuthorityPhase' = "active" => Serving(activeRuntime)'
    BY <1>3, <2>2, <2>3, <2>4 DEF Serving, AdapterOf, Kinds
  <2>6. transition' = NoTransition
    BY <2>1 DEF Conclude
  <2>7. QED
    BY <2>5, <2>6, ServedEnd
<1>6. QED
  BY <1>4, <1>5

(* The server comes back before the client.                                *)
LEMMA ServedRecoverServer ==
  ASSUME ServiceInv, RecoverServer
  PROVE  ServedInv'
<1>1. /\ transition.stage = "recoverServer" /\ GatewayTypeOK
      /\ UNCHANGED activeRuntime
  BY DEF RecoverServer, Undecided, authorityVars, ServiceInv, ActivationInv
<1>2. activeRuntime \in Runtimes
  BY <1>1, RecoveringFacts DEF Recovering, ServiceInv
<1>3. PICK s \in AfterStart(activeRuntime, "server") :
         /\ SetAdapter(activeRuntime, "server", s)
         /\ Goto(IF StartRejected("server", s) THEN "recoveryFailed" ELSE "recoverClient")
  BY DEF RecoverServer
<1>4. PICK to \in {"recoveryFailed", "recoverClient"} :
         Goto(to) /\ (to = "recoverClient" => s # "off")
  BY <1>3 DEF StartRejected
<1>5. /\ transition'.stage = to /\ transition'.candidate = transition.candidate
      /\ transition'.stopped = transition.stopped
  BY <1>1, <1>4, GotoEffect DEF Stage
<1>6. s \in AdapterState
  BY <1>1, <1>2, <1>3, AdapterResults DEF Kinds
<1>7. \A j \in Kinds : AdapterOf(activeRuntime, j)' =
                          IF j = "server" THEN s ELSE AdapterOf(activeRuntime, j)
  BY <1>1, <1>2, <1>3, <1>5, <1>6, OneAdapter, ActivationAssumption DEF Kinds
<1>8. ~transition.stopped => s = "none"
  BY <1>1, <1>3 DEF AfterStart, ServiceInv, ServedInv, Outside, Kinds
<1>9. QED
  BY <1>1, <1>4, <1>5, <1>7, <1>8 DEF ServiceInv, ServedInv, Outside, Kinds

LEMMA ServedRecoverClient ==
  ASSUME ServiceInv, RecoverClient
  PROVE  ServedInv'
<1>1. /\ transition.stage = "recoverClient" /\ GatewayTypeOK
      /\ AdapterOf(activeRuntime, "server") # "off"
  BY DEF RecoverClient, ServiceInv, ActivationInv, ServedInv
<1>2. activeRuntime \in Runtimes
  BY <1>1, RecoveringFacts DEF Recovering, ServiceInv
<1>3. PICK s \in AfterStart(activeRuntime, "client") :
         /\ SetAdapter(activeRuntime, "client", s)
         /\ IF StartRejected("client", s)
            THEN Goto("recoveryFailed") /\ UNCHANGED authorityVars
            ELSE Conclude(TRUE, transition.residue)
  BY DEF RecoverClient
<1>4. s \in AdapterState /\ s # "off"
  BY <1>1, <1>2, <1>3, AdapterResults DEF Kinds, AfterStart
<1>5. CASE StartRejected("client", s)
  <2>1. /\ transition'.stage = "recoveryFailed" /\ transition'.candidate = transition.candidate
        /\ transition'.stopped = transition.stopped /\ UNCHANGED activeRuntime
    BY <1>1, <1>3, <1>5, GotoEffect DEF Stage, authorityVars
  <2>2. \A j \in Kinds : AdapterOf(activeRuntime, j)' =
                            IF j = "client" THEN s ELSE AdapterOf(activeRuntime, j)
    BY <1>2, <1>3, <1>4, <2>1, OneAdapter, ActivationAssumption DEF Kinds
  <2>3. ~transition.stopped => s = "none"
    BY <1>1, <1>3 DEF AfterStart, ServiceInv, ServedInv, Outside, Kinds
  <2>4. QED
    BY <1>1, <2>1, <2>2, <2>3 DEF ServiceInv, ServedInv, Outside, Kinds
<1>6. CASE ~StartRejected("client", s)
  <2>1. Conclude(TRUE, transition.residue)
    BY <1>3, <1>6
  <2>2. activeRuntime' = activeRuntime /\ transition' = NoTransition
    BY <1>2, <2>1, ActivationAssumption DEF Conclude
  <2>3. \A j \in Kinds :
           adapters'[activeRuntime][j] = IF j = "client" THEN s ELSE adapters[activeRuntime][j]
    BY <1>1, <1>2, <1>3, <1>4, SetAdapterEffect DEF Kinds
  <2>4. s # "half"
    BY <1>6 DEF StartRejected
  <2>5. Serving(activeRuntime)'
    BY <1>1, <1>2, <1>4, <2>2, <2>3, <2>4, ActivationAssumption DEF Serving, AdapterOf, Kinds
  <2>6. QED
    BY <2>2, <2>5, ServedEnd
<1>7. QED
  BY <1>5, <1>6

(* After a recovery that failed, and after a DELETE or stop(), the Gateway *)
(* does not call itself active.                                            *)
LEMMA ServedNotActive ==
  ASSUME ServiceInv, RecoveryFailed \/ FinishDeactivate \/ FinishClose
  PROVE  ServedInv'
<1>1. CASE RecoveryFailed
  <2>1. Conclude(FALSE, transition.residue)
    BY <1>1 DEF RecoveryFailed
  <2>2. activeRuntime # Null
    BY <1>1, RecoveringFacts, ActivationAssumption DEF RecoveryFailed, Recovering, ServiceInv
  <2>3. QED
    BY <2>1, <2>2, ServedEnd DEF Conclude
<1>2. CASE FinishDeactivate \/ FinishClose
  <2>1. PICK clean : Decide(clean)
    BY <1>2 DEF FinishDeactivate, FinishClose
  <2>2. QED
    BY <2>1, ServedEnd DEF Decide
<1>3. QED
  BY <1>1, <1>2

-----------------------------------------------------------------------------
(* The invariant, and the property.                                        *)

LEMMA ServedNext ==
  ASSUME ServiceInv, [Next]_vars
  PROVE  ServedInv'
<1> USE DEF authorityVars, requestVars
<1>1. ServedInv /\ GatewayTypeOK
  BY DEF ServiceInv, ActivationInv
<1>2. ASSUME \/ \E r \in Runtimes : SendActivate(r) \/ SendDeactivate(r)
             \/ SendUnconditional
             \/ \E q \in reading : BodyRead(q)
             \/ RefuseActivate \/ RefuseDeactivate
             \/ RequestStop \/ FinishStop \/ StartService \/ UNCHANGED vars
      PROVE  ServedInv'
  <2>1. UNCHANGED <<activeRuntime, projectAuthorityPhase, adapters, transition>>
    BY <1>2 DEF SendActivate, SendDeactivate, SendUnconditional, Send, BodyRead,
                RefuseActivate, RefuseDeactivate, RequestStop, FinishStop, StartService, vars
  <2>2. QED
    BY <1>1, <2>1, ServedKept
<1>3. ASSUME StartDeactivate \/ StartClose PROVE ServedInv'
  <2>1. /\ UNCHANGED <<activeRuntime, adapters>>
        /\ projectAuthorityPhase' = "active" => projectAuthorityPhase = "active"
        /\ transition'.stage \in {"deactivating", "closing"}
    BY <1>1, <1>3 DEF StartDeactivate, StartClose, Goto, GatewayTypeOK
  <2>2. QED
    BY <1>1, <2>1, ServedKept
<1>4. ASSUME DeactivateInactive PROVE ServedInv'
  <2>1. /\ transition.stage = "idle" /\ UNCHANGED transition
        /\ projectAuthorityPhase' # "active"
    BY <1>4 DEF DeactivateInactive, Take, ServiceInv, ActivationInv, ControlInv
  <2>2. QED
    BY <2>1 DEF ServedInv, Outside
<1>5. ASSUME HangUp PROVE ServedInv'
  <2>1. /\ UNCHANGED <<activeRuntime, projectAuthorityPhase, adapters>>
        /\ transition'.stage = transition.stage
        /\ transition'.candidate = transition.candidate
        /\ transition'.stopped = transition.stopped
    BY <1>1, <1>5, HangUpEffect
  <2>2. QED
    BY <1>1, <2>1 DEF ServedInv, Serving, AdapterOf
<1>6. QED
  BY <1>2, <1>3, <1>4, <1>5, ServedStart, ServedStopPrevious, ServedStartCandidate, ServedInstall,
     ServedCleanupCandidate, ServedRecoverServer, ServedRecoverClient, ServedNotActive
     DEF Next, ActivateStep, DeactivateStep

LEMMA ServiceInit == Init => ServiceInv
<1> SUFFICES ASSUME Init PROVE ServiceInv
  OBVIOUS
<1>1. AttemptInv
  BY DEF Init, AttemptInv, NoTransition
<1>2. ServedInv
  BY DEF Init, ServedInv, NoTransition, Outside
<1>3. QED
  BY <1>1, <1>2, InitInv DEF ServiceInv

LEMMA ServiceInvariant == Spec => []ServiceInv
<1>1. ServiceInv /\ [Next]_vars => ServiceInv'
  BY NextInv, AttemptNext, ServedNext DEF ServiceInv
<1>2. QED
  BY <1>1, ServiceInit, PTL DEF Spec

LEMMA ServiceImplies ==
  ASSUME ServiceInv
  PROVE  ActiveIsServed
<1> SUFFICES ASSUME Idle, projectAuthorityPhase = "active" PROVE
        /\ residualRuntimeCleanup = {}
        /\ \A k \in Kinds : AdapterOf(activeRuntime, k) # "off"
        /\ AdapterOf(activeRuntime, "client") # "half"
        /\ \A r \in Runtimes \ {activeRuntime} : ~Held(r)
  BY DEF ActiveIsServed
<1> USE DEF ServiceInv, ActivationInv, Idle
<1>1. residualRuntimeCleanup = {}
  BY DEF ResidueInv, Recovering
<1>2. Serving(activeRuntime)
  BY DEF ServedInv
<1>3. \A r \in Runtimes \ {activeRuntime} : ~Held(r)
  BY <1>1, ActivationAssumption DEF HeldInv, ControlInv, Outside
<1>4. QED
  BY <1>1, <1>2, <1>3 DEF Serving, Kinds

(* An authority the Gateway reports as active has every adapter of its     *)
(* Project up and no residue beside it, also after any number of           *)
(* candidates that failed (main.ts:821, 857).                              *)
THEOREM GatewayActiveIsServed == Spec => []ActiveIsServed
<1>1. ServiceInv => ActiveIsServed
  BY ServiceImplies
<1>2. QED
  BY <1>1, ServiceInvariant, PTL
-----------------------------------------------------------------------------
(* A stopped service.  What the queue still holds when the connections     *)
(* have ended was queued behind the close transition, so the hang-up of    *)
(* its client was seen by the shutdown: it is one of the forsaken.         *)

(* The close transition has been taken, or comes before position i.        *)
Behind(i) ==
    \/ ~hub.open
    \/ transition.stage = "closing"
    \/ \E j \in 1..(i - 1) : runtimeTail[j].kind = "close"

Settled(q) == IsPut(q) /\ ~q.waiting => q.runtime \in forsaken

(* A shutdown queues one close transition, runs it, and closes the hub.    *)
CloseInv ==
    /\ service # "closing" => hub.open
    /\ transition.stage = "closing" => service = "closing" /\ hub.open
    /\ \A q \in reading : q.waiting /\ q.kind # "close"
    /\ \A i \in 1..Len(runtimeTail) :
          /\ runtimeTail[i].kind = "close" => service = "closing" /\ ~Behind(i)
          /\ Behind(i) => Settled(runtimeTail[i])

(* Without a hub only a candidate runs an adapter.                         *)
CandidateInv ==
    /\ (~hub.open \/ service = "stopped") /\ transition.candidate # Null /\ ~transition.waiting
           => transition.candidate \in forsaken
    /\ ~hub.open =>
           \A r \in Runtimes, k \in Kinds : adapters[r][k] = "on" => r = transition.candidate

NobodyWaits ==
    service = "stopped" =>
        /\ reading = {} /\ ~transition.waiting
        /\ \A i \in 1..Len(runtimeTail) :
              /\ ~runtimeTail[i].waiting
              /\ IsPut(runtimeTail[i]) => runtimeTail[i].runtime \in forsaken

ForsakenInv ==
    service = "stopped" =>
        /\ projectAuthorityPhase = "active" => activeRuntime \in forsaken
        /\ \A r \in Runtimes, k \in Kinds : adapters[r][k] = "on" => r \in forsaken

ShutdownInv == CloseInv /\ CandidateInv /\ NobodyWaits /\ ForsakenInv

LEMMA QueueShorter ==
  ASSUME GatewayTypeOK,
         \/ runtimeTail' = runtimeTail
         \/ runtimeTail # <<>> /\ runtimeTail' = Tail(runtimeTail)
  PROVE  \E d \in {0, 1} :
            /\ runtimeTail' # runtimeTail => d = 1 /\ runtimeTail # <<>>
            /\ \A i \in 1..Len(runtimeTail') :
                  i + d \in 1..Len(runtimeTail) /\ runtimeTail'[i] = runtimeTail[i + d]
<1>1. CASE runtimeTail' = runtimeTail
  <2>1. \A i \in 1..Len(runtimeTail') :
           i + 0 \in 1..Len(runtimeTail) /\ runtimeTail'[i] = runtimeTail[i + 0]
    BY <1>1 DEF GatewayTypeOK
  <2>2. QED
    BY <1>1, <2>1
<1>2. CASE runtimeTail # <<>> /\ runtimeTail' = Tail(runtimeTail)
  <2>1. \A i \in 1..Len(runtimeTail') :
           i + 1 \in 1..Len(runtimeTail) /\ runtimeTail'[i] = runtimeTail[i + 1]
    BY <1>2 DEF GatewayTypeOK
  <2>2. QED
    BY <1>2, <2>1
<1>3. QED
  BY <1>1, <1>2

(* A transition is taken or goes on: nothing new waits in the queue.       *)
LEMMA QueueGoesOn ==
  ASSUME GatewayTypeOK, CloseInv, NobodyWaits,
         \/ runtimeTail' = runtimeTail
         \/ runtimeTail # <<>> /\ runtimeTail' = Tail(runtimeTail),
         UNCHANGED <<service, forsaken, reading>>, hub'.open = hub.open,
         transition'.stage = "closing" => transition.stage = "closing",
         service = "stopped" => ~transition'.waiting
  PROVE  CloseInv' /\ NobodyWaits'
<1>1. PICK d \in {0, 1} :
         \A i \in 1..Len(runtimeTail') :
            i + d \in 1..Len(runtimeTail) /\ runtimeTail'[i] = runtimeTail[i + d]
  BY QueueShorter
<1>2. ASSUME NEW i \in 1..Len(runtimeTail'), Behind(i)' PROVE Behind(i + d)
  <2>1. CASE ~hub'.open \/ transition'.stage = "closing"
    BY <2>1 DEF Behind
  <2>2. CASE \E j \in 1..(i - 1) : runtimeTail'[j].kind = "close"
    <3>1. PICK j \in 1..(i - 1) : runtimeTail'[j].kind = "close"
      BY <2>2
    <3>2. /\ j \in 1..Len(runtimeTail') /\ j + d \in 1..(i + d - 1)
      BY <3>1
    <3>3. runtimeTail[j + d].kind = "close"
      BY <1>1, <3>1, <3>2
    <3>4. QED
      BY <3>2, <3>3 DEF Behind
  <2>3. QED
    BY <1>2, <2>1, <2>2 DEF Behind
<1>3. ASSUME NEW i \in 1..Len(runtimeTail')
      PROVE  /\ runtimeTail'[i].kind = "close" => service' = "closing" /\ ~Behind(i)'
             /\ Behind(i)' => Settled(runtimeTail[i])'
  <2>1. i + d \in 1..Len(runtimeTail) /\ runtimeTail'[i] = runtimeTail[i + d]
    BY <1>1
  <2>2. /\ runtimeTail[i + d].kind = "close" => service = "closing" /\ ~Behind(i + d)
        /\ Behind(i + d) => Settled(runtimeTail[i + d])
    BY <2>1 DEF CloseInv
  <2>3. Settled(runtimeTail[i + d]) => Settled(runtimeTail[i])'
    BY <2>1 DEF Settled, IsPut
  <2>4. QED
    BY <1>2, <2>1, <2>2, <2>3
<1>4. CloseInv'
  BY <1>3 DEF CloseInv
<1>5. NobodyWaits'
  BY <1>1 DEF NobodyWaits, IsPut
<1>6. QED
  BY <1>4, <1>5

(* One more request is queued.                                             *)
LEMMA QueueLonger ==
  ASSUME GatewayTypeOK, CloseInv, NEW q \in Request, runtimeTail' = Append(runtimeTail, q),
         UNCHANGED <<forsaken, hub, transition>>, reading' \subseteq reading,
         service # "stopped", service' = "closing" \/ service' = service,
         IsPut(q) => q.waiting, q.kind = "close" => service = "listening" /\ service' = "closing"
  PROVE  CloseInv' /\ NobodyWaits'
<1>1. /\ Len(runtimeTail') = Len(runtimeTail) + 1
      /\ \A i \in 1..Len(runtimeTail) : runtimeTail'[i] = runtimeTail[i]
      /\ runtimeTail'[Len(runtimeTail) + 1] = q
      /\ Len(runtimeTail) \in Nat
  BY DEF GatewayTypeOK
<1>2. ASSUME NEW i \in 1..Len(runtimeTail) PROVE Behind(i)' <=> Behind(i)
  BY <1>1 DEF Behind
<1>3. ASSUME NEW i \in 1..Len(runtimeTail)
      PROVE  /\ runtimeTail'[i].kind = "close" => service' = "closing" /\ ~Behind(i)'
             /\ Behind(i)' => Settled(runtimeTail[i])'
  <2>1. Settled(runtimeTail[i]) => Settled(runtimeTail[i])'
    BY <1>1 DEF Settled, IsPut
  <2>2. QED
    BY <1>1, <1>2, <2>1 DEF CloseInv
<1>4. Settled(q)'
  BY DEF Settled, IsPut
<1>5. ASSUME NEW i \in 1..Len(runtimeTail'), i = Len(runtimeTail) + 1, q.kind = "close"
      PROVE  ~Behind(i)'
  <2>1. hub.open /\ transition.stage # "closing"
    BY <1>5 DEF CloseInv
  <2>2. \A j \in 1..(i - 1) : j \in 1..Len(runtimeTail) /\ runtimeTail'[j].kind # "close"
    BY <1>1, <1>5 DEF CloseInv
  <2>3. QED
    BY <2>1, <2>2 DEF Behind
<1>6. ASSUME NEW i \in 1..Len(runtimeTail')
      PROVE  /\ runtimeTail'[i].kind = "close" => service' = "closing" /\ ~Behind(i)'
             /\ Behind(i)' => Settled(runtimeTail[i])'
  <2>1. i \in 1..Len(runtimeTail) \/ i = Len(runtimeTail) + 1
    BY <1>1
  <2>2. CASE i = Len(runtimeTail) + 1
    <3>1. runtimeTail'[i] = q
      BY <1>1, <2>2
    <3>2. Settled(runtimeTail[i])'
      BY <1>4, <3>1 DEF Settled, IsPut
    <3>3. q.kind = "close" => service' = "closing" /\ ~Behind(i)'
      BY <1>5, <2>2
    <3>4. QED
      BY <3>1, <3>2, <3>3
  <2>3. QED
    BY <1>3, <2>1, <2>2
<1>7. CloseInv'
  BY <1>6 DEF CloseInv
<1>8. NobodyWaits'
  BY DEF NobodyWaits
<1>9. QED
  BY <1>7, <1>8

(* The rest of the invariant needs only to know what runs.                 *)
LEMMA AdaptersKept ==
  ASSUME CandidateInv, ForsakenInv,
         UNCHANGED <<activeRuntime, projectAuthorityPhase, adapters, service, hub>>,
         transition'.candidate = transition.candidate, forsaken \subseteq forsaken',
         \/ transition'.waiting = transition.waiting
         \/ transition.candidate # Null => transition.candidate \in forsaken'
  PROVE  CandidateInv' /\ ForsakenInv'
BY DEF CandidateInv, ForsakenInv

LEMMA ShutdownRequests ==
  ASSUME ActivationInv, ShutdownInv,
         \/ \E r \in Runtimes : SendActivate(r) \/ SendDeactivate(r)
         \/ SendUnconditional
         \/ \E q \in reading : BodyRead(q)
         \/ RequestStop
  PROVE  ShutdownInv'
<1> USE DEF ShutdownInv, authorityVars
<1>t. GatewayTypeOK
  BY DEF ActivationInv
<1>1. ASSUME NEW q, Send(q), q.waiting, q.kind # "close" PROVE ShutdownInv'
  <2>1. /\ UNCHANGED <<authorityVars, adapters, transition, runtimeTail, forsaken, service, hub>>
        /\ reading' = reading \cup {q} /\ service = "listening"
    BY <1>1 DEF Send
  <2>2. CandidateInv' /\ ForsakenInv'
    BY <2>1, AdaptersKept
  <2>3. CloseInv' /\ NobodyWaits'
    BY <1>1, <2>1 DEF CloseInv, Behind, Settled, IsPut, NobodyWaits
  <2>4. QED
    BY <2>2, <2>3
<1>2. ASSUME NEW r \in Runtimes, SendActivate(r) PROVE ShutdownInv'
  <2>1. PICK modes \in SUBSET Kinds :
           Send([kind |-> "activate", runtime |-> r, expected |-> activeRuntime,
                 modes |-> modes, waiting |-> TRUE])
    BY <1>2 DEF SendActivate
  <2>2. QED
    BY <1>1, <2>1
<1>3. ASSUME NEW r \in Runtimes, SendDeactivate(r) PROVE ShutdownInv'
  <2>1. Send(DeactivateRequest(r))
    BY <1>3 DEF SendDeactivate
  <2>2. DeactivateRequest(r).waiting /\ DeactivateRequest(r).kind # "close"
    BY DEF DeactivateRequest
  <2>3. QED
    BY <1>1, <2>1, <2>2
<1>4. ASSUME SendUnconditional PROVE ShutdownInv'
  <2> DEFINE q == [DeactivateRequest(Null) EXCEPT !.kind = "unconditional"]
  <2>1. Send(q)
    BY <1>4 DEF SendUnconditional
  <2>2. q.waiting /\ q.kind # "close"
    BY DEF DeactivateRequest
  <2> HIDE DEF q
  <2>3. QED
    BY <1>1, <2>1, <2>2
<1>5. ASSUME NEW q \in reading, BodyRead(q) PROVE ShutdownInv'
  <2>1. /\ UNCHANGED <<authorityVars, adapters, transition, forsaken, service, hub>>
        /\ reading' \subseteq reading /\ runtimeTail' = Append(runtimeTail, q)
    BY <1>5 DEF BodyRead
  <2>2. q \in Request /\ q.waiting /\ q.kind # "close" /\ service # "stopped"
    BY <1>t DEF GatewayTypeOK, CloseInv, NobodyWaits
  <2>3. CloseInv' /\ NobodyWaits'
    BY <1>t, <2>1, <2>2, QueueLonger
  <2>4. QED
    BY <2>1, <2>3, AdaptersKept
<1>6. ASSUME RequestStop PROVE ShutdownInv'
  <2> DEFINE q == [DeactivateRequest(Null) EXCEPT !.kind = "close", !.waiting = FALSE]
  <2>1. /\ UNCHANGED <<authorityVars, adapters, transition, forsaken, hub, reading>>
        /\ runtimeTail' = Append(runtimeTail, q)
        /\ service = "listening" /\ service' = "closing"
    BY <1>6 DEF RequestStop
  <2>2. q \in Request /\ ~IsPut(q)
    BY DEF DeactivateRequest, Request, PlainRequest, IsPut
  <2> HIDE DEF q
  <2>3. CloseInv' /\ NobodyWaits'
    BY <1>t, <2>1, <2>2, QueueLonger
  <2>4. CandidateInv' /\ ForsakenInv'
    BY <2>1 DEF CandidateInv, ForsakenInv
  <2>5. QED
    BY <2>3, <2>4
<1>7. QED
  BY <1>2, <1>3, <1>4, <1>5, <1>6

LEMMA ShutdownHangUp ==
  ASSUME ActivationInv, ShutdownInv, HangUp
  PROVE  ShutdownInv'
<1> USE DEF ShutdownInv, authorityVars
<1>t. GatewayTypeOK
  BY DEF ActivationInv
<1>1. /\ Len(runtimeTail') = Len(runtimeTail)
      /\ \A i \in 1..Len(runtimeTail) :
            /\ runtimeTail'[i].kind = runtimeTail[i].kind
            /\ runtimeTail'[i].runtime = runtimeTail[i].runtime
            /\ \/ runtimeTail'[i].waiting = runtimeTail[i].waiting
               \/ runtimeTail[i].kind = "activate" => runtimeTail[i].runtime \in forsaken'
      /\ forsaken \subseteq forsaken' /\ service = "closing"
      /\ transition'.stage = transition.stage
      /\ transition'.candidate = transition.candidate
      /\ \/ transition'.waiting = transition.waiting
         \/ transition.candidate # Null => transition.candidate \in forsaken'
      /\ UNCHANGED <<authorityVars, residualRuntimeCleanup, adapters, reading, requested,
                     service, hub>>
  BY <1>t, HangUpEffect
<1>2. Len(runtimeTail) \in Nat
  BY <1>t DEF GatewayTypeOK
<1>3. ASSUME NEW i \in 1..Len(runtimeTail) PROVE Behind(i)' <=> Behind(i)
  <2>1. \A j \in 1..(i - 1) : runtimeTail'[j].kind = runtimeTail[j].kind
    BY <1>1, <1>2
  <2>2. QED
    BY <1>1, <2>1 DEF Behind
<1>4. \A i \in 1..Len(runtimeTail) : Settled(runtimeTail[i]) => Settled(runtimeTail[i])'
  BY <1>1 DEF Settled, IsPut
<1>5. CloseInv'
  BY <1>1, <1>3, <1>4 DEF CloseInv
<1>6. NobodyWaits'
  BY <1>1 DEF NobodyWaits
<1>7. QED
  BY <1>1, <1>5, <1>6, AdaptersKept

(* A transition is taken and only its client is known.                     *)
LEMMA ShutdownTake ==
  ASSUME ActivationInv, ShutdownInv,
         \/ RefuseActivate \/ RefuseDeactivate \/ DeactivateInactive \/ StartDeactivate
  PROVE  ShutdownInv'
<1> USE DEF ShutdownInv, authorityVars
<1>t. GatewayTypeOK
  BY DEF ActivationInv
<1>1. /\ transition.stage = "idle" /\ runtimeTail # <<>> /\ runtimeTail' = Tail(runtimeTail)
      /\ UNCHANGED <<reading, service, hub, forsaken, activeRuntime>>
      /\ transition.candidate = Null
  BY DEF RefuseActivate, RefuseDeactivate, DeactivateInactive, StartDeactivate, Take,
         ActivationInv, ControlInv, Outside
<1>2. adapters' = adapters
  <2>1. CASE DeactivateInactive
    <3>1. Stoppable(CleanUpTargets) = {} /\ CleanUp({})
      BY <2>1, NoTargets DEF DeactivateInactive
    <3>2. adapters' = [r \in Runtimes |-> [k \in Kinds |-> adapters[r][k]]]
      BY <3>1 DEF CleanUp, StopAll
    <3>3. QED
      BY <1>t, <3>2 DEF GatewayTypeOK
  <2>2. QED
    BY <2>1 DEF RefuseActivate, RefuseDeactivate, StartDeactivate
<1>3. /\ transition'.candidate = Null /\ transition'.stage # "closing"
      /\ service = "stopped" => ~transition'.waiting
  <2>1. CASE StartDeactivate
    <3>1. Head(runtimeTail) = runtimeTail[1] /\ 1 \in 1..Len(runtimeTail)
      BY <1>t, <1>1 DEF GatewayTypeOK
    <3>2. service = "stopped" => ~Head(runtimeTail).waiting
      BY <3>1 DEF NobodyWaits
    <3>3. transition' = [transition EXCEPT !.stage = "deactivating",
                                           !.waiting = Head(runtimeTail).waiting]
      BY <2>1 DEF StartDeactivate
    <3>4. QED
      BY <1>t, <1>1, <3>2, <3>3 DEF GatewayTypeOK
  <2>2. CASE ~StartDeactivate
    BY <1>1, <2>2 DEF RefuseActivate, RefuseDeactivate, DeactivateInactive, NobodyWaits
  <2>3. QED
    BY <2>1, <2>2
<1>4. CloseInv' /\ NobodyWaits'
  BY <1>t, <1>1, <1>3, QueueGoesOn
<1>5. projectAuthorityPhase' = "active" => projectAuthorityPhase = "active"
  BY DEF RefuseActivate, RefuseDeactivate, DeactivateInactive, StartDeactivate
<1>6. CandidateInv' /\ ForsakenInv'
  BY <1>1, <1>2, <1>3, <1>5 DEF CandidateInv, ForsakenInv
<1>7. QED
  BY <1>4, <1>6

(* An activation is taken.                                                 *)
LEMMA ShutdownStart ==
  ASSUME ActivationInv, ShutdownInv, StartActivate
  PROVE  ShutdownInv'
<1> USE DEF ShutdownInv, authorityVars
<1> DEFINE q == Head(runtimeTail)
<1>t. GatewayTypeOK
  BY DEF ActivationInv
<1>1. /\ runtimeTail # <<>> /\ runtimeTail' = Tail(runtimeTail) /\ IsPut(q)
      /\ transition.candidate = Null /\ Begin(q)
  BY DEF StartActivate, Take, IsPut, ActivationInv, ControlInv, Outside
<1>2. q = runtimeTail[1] /\ 1 \in 1..Len(runtimeTail) /\ q \in Request
  BY <1>t, <1>1 DEF GatewayTypeOK
<1>3. q.runtime \in Runtimes
  BY <1>1, <1>2 DEF Request, PutRequest, FencedRequest, PlainRequest, IsPut
<1>4. /\ (~hub.open \/ service = "stopped") /\ ~q.waiting => q.runtime \in forsaken
      /\ service = "stopped" => ~q.waiting
  BY <1>1, <1>2 DEF CloseInv, Behind, Settled, NobodyWaits
<1> HIDE DEF q
<1>5. /\ transition' = [stage |-> "stopServer", candidate |-> q.runtime,
                        stopped |-> HasAdapters(activeRuntime), residue |-> FALSE,
                        waiting |-> q.waiting]
      /\ adapters' = [adapters EXCEPT ![q.runtime] =
                         [k \in Kinds |-> IF k \in q.modes THEN "off" ELSE "none"]]
      /\ UNCHANGED <<authorityVars, reading, forsaken, service, hub>>
  BY <1>1 DEF Begin
<1>6. \A r \in Runtimes, k \in Kinds : adapters'[r][k] = "on" => adapters[r][k] = "on"
  BY <1>t, <1>5 DEF GatewayTypeOK
<1>7. CloseInv' /\ NobodyWaits'
  BY <1>t, <1>1, <1>4, <1>5, QueueGoesOn
<1>8. CandidateInv' /\ ForsakenInv'
  BY <1>1, <1>4, <1>5, <1>6, ActivationAssumption DEF CandidateInv, ForsakenInv
<1>9. QED
  BY <1>7, <1>8

(* A transition goes on or ends.                                           *)
LEMMA ShutdownGoesOn ==
  ASSUME ActivationInv, ShutdownInv, UNCHANGED <<requestVars, service>>,
         hub'.open = hub.open,
         transition'.stage = "closing" => transition.stage = "closing",
         \/ /\ transition'.candidate = transition.candidate
            /\ transition'.waiting = transition.waiting
         \/ transition'.candidate = Null /\ ~transition'.waiting,
         ~hub.open => \A r \in Runtimes, k \in Kinds :
                         adapters'[r][k] = "on" => r = transition'.candidate,
         service = "stopped" =>
            /\ projectAuthorityPhase' = "active" => activeRuntime' \in forsaken
            /\ \A r \in Runtimes, k \in Kinds : adapters'[r][k] = "on" => r \in forsaken
  PROVE  ShutdownInv'
<1> USE DEF ShutdownInv, requestVars
<1>1. GatewayTypeOK
  BY DEF ActivationInv
<1>2. service = "stopped" => ~transition'.waiting
  BY DEF NobodyWaits
<1>3. CloseInv' /\ NobodyWaits'
  BY <1>1, <1>2, QueueGoesOn
<1>4. CandidateInv'
  BY DEF CandidateInv
<1>5. ForsakenInv'
  BY DEF ForsakenInv
<1>6. QED
  BY <1>3, <1>4, <1>5

(* One adapter of the active runtime or of the candidate is started or     *)
(* stopped: the active one is started only while it is the authority.      *)
LEMMA ShutdownAdapter ==
  ASSUME ActivationInv, ShutdownInv, NEW r \in Runtimes \cup {Null}, NEW k \in Kinds,
         NEW s \in AdapterState, SetAdapter(r, k, s), UNCHANGED <<requestVars, service, hub>>,
         transition.stage \notin Outside, transition'.stage # "closing",
         \/ transition'.candidate = transition.candidate /\ transition'.waiting = transition.waiting
         \/ transition'.candidate = Null /\ ~transition'.waiting,
         activeRuntime' = activeRuntime \/ projectAuthorityPhase' # "active",
         projectAuthorityPhase' = "active" => projectAuthorityPhase = "active",
         s = "on" => \/ r = transition.candidate /\ transition'.candidate = transition.candidate
                     \/ r = activeRuntime /\ projectAuthorityPhase = "active",
         ~hub.open => transition'.candidate = transition.candidate
  PROVE  ShutdownInv'
<1> USE DEF ShutdownInv, authorityVars
<1>1. GatewayTypeOK /\ PublisherReachesHub
  BY DEF ActivationInv
<1>2. \A o \in Runtimes, j \in Kinds :
         adapters'[o][j] = IF o = r /\ j = k THEN s ELSE adapters[o][j]
  BY <1>1, SetAdapterEffect
<1>3. transition.candidate # Null
  BY ActivationAssumption DEF ActivationInv, ControlInv
<1>4. service = "stopped" => transition.candidate \in forsaken
  BY <1>3 DEF CandidateInv, NobodyWaits
<1>5. ~hub.open => projectAuthorityPhase # "active"
  BY <1>1 DEF PublisherReachesHub
<1>6. ~hub.open => \A o \in Runtimes, j \in Kinds :
                      adapters'[o][j] = "on" => o = transition'.candidate
  BY <1>2, <1>5 DEF CandidateInv
<1>7. service = "stopped" =>
         /\ projectAuthorityPhase' = "active" => activeRuntime' \in forsaken
         /\ \A o \in Runtimes, j \in Kinds : adapters'[o][j] = "on" => o \in forsaken
  BY <1>2, <1>4 DEF ForsakenInv
<1>8. QED
  BY <1>6, <1>7, ShutdownGoesOn

LEMMA ShutdownActivation ==
  ASSUME ActivationInv, ShutdownInv,
         \/ StopPrevious("server", "stopServer", "stopClient")
         \/ StopPrevious("client", "stopClient", "startServer")
         \/ StartCandidate("server", "startServer", "startClient")
         \/ StartCandidate("client", "startClient", "install")
         \/ RecoverServer
  PROVE  ShutdownInv'
<1>t. GatewayTypeOK /\ activeRuntime \in Runtimes \cup {Null}
      /\ transition.candidate \in Runtimes \cup {Null}
  BY DEF ActivationInv, GatewayTypeOK
<1>1. Undecided /\ transition.stage \notin Outside
  BY DEF StopPrevious, StartCandidate, RecoverServer, Outside
<1>2. ASSUME NEW r \in Runtimes \cup {Null}, NEW k \in Kinds, NEW s \in AdapterState,
             NEW to \in Stage \ {"closing"}, SetAdapter(r, k, s), Goto(to),
             s = "on" => \/ r = transition.candidate
                         \/ r = activeRuntime /\ projectAuthorityPhase = "active"
      PROVE  ShutdownInv'
  <2>1. /\ transition'.stage = to /\ transition'.candidate = transition.candidate
        /\ transition'.waiting = transition.waiting
    BY <1>2, <1>t DEF Goto, GatewayTypeOK
  <2>2. UNCHANGED <<authorityVars, requestVars, service, hub>>
    BY <1>1 DEF Undecided, ActivationFrame
  <2>3. QED
    BY <1>1, <1>2, <2>1, <2>2, ShutdownAdapter DEF authorityVars
<1>3. \A k \in Kinds :
         /\ AfterStop(activeRuntime, k) \subseteq AdapterState
         /\ "on" \notin AfterStop(activeRuntime, k)
         /\ AfterStart(transition.candidate, k) \subseteq AdapterState
         /\ AfterStart(activeRuntime, k) \subseteq AdapterState
  BY <1>t, AdapterResults
<1>4. ASSUME NEW k \in Kinds, NEW from, NEW to \in Stage \ {"closing"}, StopPrevious(k, from, to)
      PROVE  ShutdownInv'
  <2>1. PICK s \in AfterStop(activeRuntime, k) :
           /\ SetAdapter(activeRuntime, k, s)
           /\ Goto(IF s = "half" THEN "cleanup" ELSE to)
    BY <1>4 DEF StopPrevious
  <2>2. PICK next \in Stage \ {"closing"} : Goto(next)
    BY <2>1 DEF Stage
  <2>3. QED
    BY <1>2, <1>3, <1>t, <2>1, <2>2
<1>5. ASSUME NEW k \in Kinds, NEW from, NEW to \in Stage \ {"closing"}, StartCandidate(k, from, to)
      PROVE  ShutdownInv'
  <2>1. PICK s \in AfterStart(transition.candidate, k) :
           /\ SetAdapter(transition.candidate, k, s)
           /\ Goto(IF StartRejected(k, s) THEN "cleanup" ELSE to)
    BY <1>5 DEF StartCandidate
  <2>2. PICK next \in Stage \ {"closing"} : Goto(next)
    BY <2>1 DEF Stage
  <2>3. QED
    BY <1>2, <1>3, <1>t, <2>1, <2>2
<1>6. ASSUME RecoverServer PROVE ShutdownInv'
  <2>1. PICK s \in AfterStart(activeRuntime, "server") :
           /\ SetAdapter(activeRuntime, "server", s)
           /\ Goto(IF StartRejected("server", s) THEN "recoveryFailed" ELSE "recoverClient")
    BY <1>6 DEF RecoverServer
  <2>2. PICK next \in Stage \ {"closing"} : Goto(next)
    BY <2>1 DEF Stage
  <2>3. projectAuthorityPhase = "active"
    BY <1>6, RecoveringFacts DEF RecoverServer, Recovering
  <2>4. QED
    BY <1>2, <1>3, <1>t, <2>1, <2>2, <2>3 DEF Kinds
<1>7. QED
  BY <1>4, <1>5, <1>6 DEF Kinds, Stage

(* The end of a failed activation: nothing new runs, nothing new is active.*)
LEMMA ConcludeShutdown ==
  ASSUME ActivationInv, NEW recovered \in BOOLEAN, NEW residue \in BOOLEAN,
         transition.stage \notin Outside, Conclude(recovered, residue)
  PROVE  /\ transition'.stage = "idle" /\ transition'.candidate = Null /\ ~transition'.waiting
         /\ activeRuntime' = activeRuntime \/ projectAuthorityPhase' # "active"
         /\ projectAuthorityPhase' = "active" => projectAuthorityPhase = "active"
BY DEF Conclude, NoTransition, ActivationInv, ControlInv, GatewayTypeOK, Outside

LEMMA ShutdownRecoverClient ==
  ASSUME ActivationInv, ShutdownInv, RecoverClient
  PROVE  ShutdownInv'
<1>1. PICK s \in AfterStart(activeRuntime, "client") :
         /\ SetAdapter(activeRuntime, "client", s)
         /\ IF StartRejected("client", s)
            THEN Goto("recoveryFailed") /\ UNCHANGED authorityVars
            ELSE Conclude(TRUE, transition.residue)
  BY DEF RecoverClient
<1>2. /\ transition.stage \in Recovering /\ UNCHANGED <<requestVars, service, hub>>
      /\ GatewayTypeOK
  BY DEF RecoverClient, Recovering, ActivationFrame, ActivationInv
<1>3. /\ activeRuntime \in Runtimes /\ projectAuthorityPhase = "active"
      /\ hub.open /\ transition.stage \notin Outside /\ transition.residue \in BOOLEAN
  BY <1>2, RecoveringFacts
<1>4. s \in AdapterState
  BY <1>1, <1>2, <1>3, AdapterResults DEF Kinds
<1>5. /\ transition'.stage # "closing"
      /\ \/ transition'.candidate = transition.candidate /\ transition'.waiting = transition.waiting
         \/ transition'.candidate = Null /\ ~transition'.waiting
      /\ activeRuntime' = activeRuntime \/ projectAuthorityPhase' # "active"
  <2>1. CASE StartRejected("client", s)
    BY <1>1, <1>2, <2>1 DEF Goto, GatewayTypeOK, authorityVars
  <2>2. CASE ~StartRejected("client", s)
    <3>1. Conclude(TRUE, transition.residue)
      BY <1>1, <2>2
    <3>2. QED
      BY <1>3, <3>1, ConcludeShutdown
  <2>3. QED
    BY <2>1, <2>2
<1>6. "client" \in Kinds
  BY DEF Kinds
<1>7. QED
  BY <1>1, <1>2, <1>3, <1>4, <1>5, <1>6, ShutdownAdapter

LEMMA ShutdownEnd ==
  ASSUME ActivationInv, ShutdownInv, Install \/ InstallFailed
  PROVE  ShutdownInv'
<1> USE DEF ShutdownInv
<1>t. GatewayTypeOK
  BY DEF ActivationInv
<1>1. CASE Install
  <2>1. /\ hub.open /\ transition.stage = "install" /\ transition' = NoTransition
        /\ activeRuntime' = transition.candidate /\ hub'.open = hub.open
        /\ UNCHANGED <<adapters, requestVars, service>>
    BY <1>1, <1>t DEF Install, InstallCandidate, ActivationFrame, GatewayTypeOK
  <2>2. transition.candidate # Null
    BY <2>1, ActivationAssumption DEF ActivationInv, ControlInv, Outside
  <2>3. service = "stopped" => transition.candidate \in forsaken
    BY <2>2 DEF CandidateInv, NobodyWaits
  <2>4. service = "stopped" =>
           \A r \in Runtimes, k \in Kinds : adapters'[r][k] = "on" => r \in forsaken
    BY <2>1 DEF ForsakenInv
  <2>5. transition'.candidate = Null /\ ~transition'.waiting /\ transition'.stage # "closing"
    BY <2>1 DEF NoTransition
  <2>6. QED
    BY <2>1, <2>3, <2>4, <2>5, ShutdownGoesOn
<1>2. CASE InstallFailed
  <2>1. /\ UNCHANGED <<authorityVars, adapters, requestVars, service, hub>>
        /\ transition'.stage # "closing" /\ transition'.candidate = transition.candidate
        /\ transition'.waiting = transition.waiting
    BY <1>2, <1>t DEF InstallFailed, Undecided, ActivationFrame, Goto, GatewayTypeOK
  <2>2. QED
    BY <2>1, ShutdownGoesOn DEF CandidateInv, ForsakenInv, authorityVars
<1>3. QED
  BY <1>1, <1>2

(* Adapters of a candidate, or of a runtime that did not recover, stop.    *)
LEMMA ShutdownCleanup ==
  ASSUME ActivationInv, ShutdownInv, CleanupCandidate \/ RecoveryFailed
  PROVE  ShutdownInv'
<1> USE DEF ShutdownInv
<1>t. GatewayTypeOK
  BY DEF ActivationInv
<1>1. /\ transition.stage \notin Outside /\ UNCHANGED <<requestVars, service, hub>>
  BY DEF CleanupCandidate, RecoveryFailed, ActivationFrame, Outside
<1>2. /\ \A r \in Runtimes, k \in Kinds : adapters'[r][k] = "on" => adapters[r][k] = "on"
      /\ CleanupCandidate => \A k \in Kinds : adapters'[transition.candidate][k] # "on"
  <2>1. CASE CleanupCandidate
    <3>1. PICK F \in SUBSET Stoppable({transition.candidate}) : StopAll({transition.candidate}, F)
      BY <2>1 DEF CleanupCandidate
    <3>2. transition.candidate \in Runtimes
      BY <1>1 DEF ActivationInv, ControlInv
    <3>3. PICK c \in Runtimes : c = transition.candidate
      BY <3>2
    <3>4. F \in SUBSET Stoppable({c}) /\ StopAll({c}, F)
      BY <3>1, <3>3
    <3>5. \A r \in Runtimes, k \in Kinds :
             adapters'[r][k] = "on" => r # c /\ adapters[r][k] = "on"
      BY <1>t, <3>4, StopOneEffect
    <3>6. QED
      BY <3>3, <3>5
  <2>2. CASE RecoveryFailed /\ ~CleanupCandidate
    <3>1. PICK F \in SUBSET Stoppable({activeRuntime} \ {Null}) : StopAll({activeRuntime}, F)
      BY <2>2 DEF RecoveryFailed
    <3>2. activeRuntime \in Runtimes
      BY <2>2, RecoveringFacts DEF RecoveryFailed, Recovering
    <3>3. PICK c \in Runtimes : c = activeRuntime
      BY <3>2
    <3>4. {activeRuntime} \ {Null} = {c} /\ {activeRuntime} = {c}
      BY <3>3, ActivationAssumption
    <3>5. F \in SUBSET Stoppable({c}) /\ StopAll({c}, F)
      BY <3>1, <3>4
    <3>6. \A r \in Runtimes, k \in Kinds :
             adapters'[r][k] = "on" => r # c /\ adapters[r][k] = "on"
      BY <1>t, <3>5, StopOneEffect
    <3>7. QED
      BY <2>2, <3>6
  <2>3. QED
    BY <2>1, <2>2
<1>3. /\ activeRuntime' = activeRuntime \/ projectAuthorityPhase' # "active"
      /\ projectAuthorityPhase' = "active" => projectAuthorityPhase = "active"
      /\ transition'.stage # "closing"
      /\ \/ transition'.candidate = transition.candidate /\ transition'.waiting = transition.waiting
         \/ transition'.candidate = Null /\ ~transition'.waiting
  <2>1. CASE CleanupCandidate
    <3>1. PICK failed \in BOOLEAN : AfterCandidateCleanup(failed)
      BY <2>1 DEF CleanupCandidate
    <3>2. CASE transition.stopped
      BY <1>t, <3>1, <3>2 DEF AfterCandidateCleanup, GatewayTypeOK, authorityVars
    <3>3. CASE ~transition.stopped
      <4>1. Conclude(activeRuntime # Null, failed)
        BY <3>1, <3>3 DEF AfterCandidateCleanup
      <4>2. QED
        BY <1>1, <4>1, ConcludeShutdown
    <3>4. QED
      BY <3>2, <3>3
  <2>2. CASE RecoveryFailed
    <3>1. Conclude(FALSE, transition.residue) /\ transition.residue \in BOOLEAN
      BY <1>t, <2>2 DEF RecoveryFailed, GatewayTypeOK
    <3>2. QED
      BY <1>1, <3>1, ConcludeShutdown
  <2>3. QED
    BY <2>1, <2>2
<1>4. ~hub.open => \A r \in Runtimes, k \in Kinds :
                      adapters'[r][k] = "on" => r = transition'.candidate
  <2>1. CASE CleanupCandidate
    BY <1>2, <2>1 DEF CandidateInv
  <2>2. CASE RecoveryFailed
    BY <2>2, RecoveringFacts DEF RecoveryFailed, Recovering
  <2>3. QED
    BY <2>1, <2>2
<1>5. service = "stopped" =>
         /\ projectAuthorityPhase' = "active" => activeRuntime' \in forsaken
         /\ \A r \in Runtimes, k \in Kinds : adapters'[r][k] = "on" => r \in forsaken
  BY <1>2, <1>3 DEF ForsakenInv
<1>6. QED
  BY <1>1, <1>3, <1>4, <1>5, ShutdownGoesOn

LEMMA ShutdownDecide ==
  ASSUME ActivationInv, ShutdownInv, FinishDeactivate \/ FinishClose
  PROVE  ShutdownInv'
<1> USE DEF ShutdownInv, requestVars
<1>t. GatewayTypeOK
  BY DEF ActivationInv
<1>1. PICK F \in SUBSET Stoppable(CleanUpTargets) : CleanUp(F)
  BY DEF FinishDeactivate, FinishClose
<1>2. transition.candidate = Null
  BY DEF FinishDeactivate, FinishClose, ActivationInv, ControlInv, Outside
<1>3. \A r \in Runtimes, k \in Kinds : adapters'[r][k] # "on"
  BY <1>1, <1>2, CleanUpEffect
<1>4. /\ transition' = NoTransition /\ projectAuthorityPhase' # "active"
      /\ UNCHANGED <<requestVars, service>>
  BY DEF FinishDeactivate, FinishClose, Decide, ActivationFrame
<1>5. transition'.candidate = Null /\ ~transition'.waiting /\ transition'.stage = "idle"
  BY <1>4 DEF NoTransition
<1>6. CASE FinishDeactivate
  <2>1. hub'.open = hub.open
    <3>1. hub' = hub \/ (hub.open /\ hub' = NewHub)
      BY <1>6 DEF FinishDeactivate
    <3>2. hub.open \in BOOLEAN
      BY <1>t DEF GatewayTypeOK
    <3>3. CASE hub' = hub
      BY <3>3
    <3>4. CASE hub.open /\ hub' = NewHub
      <4>1. hub'.open = TRUE
        BY <3>4 DEF NewHub
      <4>2. hub.open = TRUE
        BY <3>2, <3>4
      <4>3. QED
        BY <4>1, <4>2
    <3>5. QED
      BY <3>1, <3>3, <3>4
  <2>2. QED
    BY <1>3, <1>4, <1>5, <2>1, ShutdownGoesOn
<1>7. CASE FinishClose
  <2>1. transition.stage = "closing" /\ hub' = NoHub /\ service = "closing"
    BY <1>7 DEF FinishClose, CloseInv
  <2>2. \A i \in 1..Len(runtimeTail) : Behind(i)
    BY <2>1 DEF Behind
  <2>3. \A i \in 1..Len(runtimeTail) : Settled(runtimeTail[i])' /\ runtimeTail[i].kind # "close"
    BY <1>4, <2>2 DEF CloseInv, Settled, IsPut
  <2>4. CloseInv'
    BY <1>4, <1>5, <2>1, <2>3 DEF CloseInv
  <2>5. CandidateInv' /\ ForsakenInv' /\ NobodyWaits'
    BY <1>3, <1>4, <1>5, <2>1 DEF CandidateInv, ForsakenInv, NobodyWaits
  <2>6. QED
    BY <2>4, <2>5
<1>8. QED
  BY <1>6, <1>7

LEMMA ShutdownStartClose ==
  ASSUME ActivationInv, ShutdownInv, StartClose
  PROVE  ShutdownInv'
<1> USE DEF ShutdownInv, authorityVars
<1>t. GatewayTypeOK
  BY DEF ActivationInv
<1>1. /\ runtimeTail # <<>> /\ runtimeTail' = Tail(runtimeTail)
      /\ Head(runtimeTail).kind = "close" /\ reading' = {}
      /\ UNCHANGED <<authorityVars, adapters, forsaken, service, hub>>
  BY DEF StartClose, Take
<1>2. /\ transition'.stage = "closing" /\ transition'.candidate = transition.candidate
      /\ transition'.waiting = transition.waiting
  BY <1>t DEF StartClose, Goto, GatewayTypeOK
<1>3. runtimeTail[1].kind = "close" /\ 1 \in 1..Len(runtimeTail)
  BY <1>t, <1>1 DEF GatewayTypeOK
<1>4. service = "closing" /\ hub.open
  BY <1>3 DEF CloseInv, Behind
<1>5. ASSUME NEW i \in 1..Len(runtimeTail')
      PROVE  runtimeTail'[i].kind # "close" /\ Settled(runtimeTail[i])'
  <2>1. i + 1 \in 1..Len(runtimeTail) /\ runtimeTail'[i] = runtimeTail[i + 1]
    BY <1>t, <1>1 DEF GatewayTypeOK
  <2>2. Behind(i + 1)
    BY <1>3, <2>1 DEF Behind
  <2>3. runtimeTail[i + 1].kind # "close" /\ Settled(runtimeTail[i + 1])
    BY <2>1, <2>2 DEF CloseInv
  <2>4. QED
    BY <1>1, <2>1, <2>3 DEF Settled, IsPut
<1>6. CloseInv'
  BY <1>1, <1>2, <1>4, <1>5 DEF CloseInv
<1>7. NobodyWaits' /\ CandidateInv' /\ ForsakenInv'
  BY <1>1, <1>2, <1>4 DEF NobodyWaits, CandidateInv, ForsakenInv
<1>8. QED
  BY <1>6, <1>7

(* The connections have ended: whoever is left has hung up.                *)
LEMMA ShutdownFinishStop ==
  ASSUME ActivationInv, ShutdownInv, FinishStop
  PROVE  ShutdownInv'
<1> USE DEF ShutdownInv, authorityVars, requestVars
<1>t. GatewayTypeOK /\ PublisherReachesHub
  BY DEF ActivationInv
<1>1. /\ ~hub.open /\ hub' = NewHub /\ service' = "stopped" /\ service = "closing"
      /\ reading = {} /\ ~transition.waiting
      /\ \A i \in 1..Len(runtimeTail) : ~runtimeTail[i].waiting
      /\ UNCHANGED <<authorityVars, adapters, transition, requestVars>>
  BY <1>t DEF FinishStop, GatewayTypeOK
<1>2. transition.stage # "closing" /\ projectAuthorityPhase # "active"
  BY <1>1, <1>t DEF CloseInv, PublisherReachesHub
<1>3. \A i \in 1..Len(runtimeTail) :
         /\ runtimeTail[i].kind # "close"
         /\ IsPut(runtimeTail[i]) => runtimeTail[i].runtime \in forsaken
  BY <1>1 DEF CloseInv, Behind, Settled
<1>4. \A i \in 1..Len(runtimeTail') : Settled(runtimeTail[i])'
  BY <1>1, <1>3 DEF Settled, IsPut
<1>5. CloseInv'
  BY <1>1, <1>2, <1>3, <1>4 DEF CloseInv, NewHub
<1>6. NobodyWaits'
  BY <1>1, <1>3 DEF NobodyWaits, IsPut
<1>7. transition.candidate # Null => transition.candidate \in forsaken
  BY <1>1 DEF CandidateInv
<1>8. ASSUME NEW r \in Runtimes, NEW k \in Kinds, adapters[r][k] = "on"
      PROVE  r \in forsaken
  <2>1. r = transition.candidate
    BY <1>1, <1>8 DEF CandidateInv
  <2>2. QED
    BY <1>7, <2>1, ActivationAssumption
<1>9. CandidateInv' /\ ForsakenInv'
  BY <1>1, <1>2, <1>7, <1>8 DEF CandidateInv, ForsakenInv, NewHub
<1>10. QED
  BY <1>5, <1>6, <1>9

LEMMA ShutdownService ==
  ASSUME ActivationInv, ShutdownInv, StartService \/ UNCHANGED vars
  PROVE  ShutdownInv'
<1> USE DEF ShutdownInv, authorityVars, requestVars
<1>1. CASE StartService
  <2>1. /\ service = "stopped" /\ service' = "listening"
        /\ UNCHANGED <<authorityVars, adapters, transition, runtimeTail, reading, hub>>
    BY <1>1 DEF StartService
  <2>2. hub.open /\ transition.stage # "closing"
        /\ \A i \in 1..Len(runtimeTail) : runtimeTail[i].kind # "close"
    BY <2>1 DEF CloseInv
  <2>3. ASSUME NEW i \in 1..Len(runtimeTail') PROVE ~Behind(i)'
    <3>1. \A j \in 1..(i - 1) : j \in 1..Len(runtimeTail)
      BY <2>1, <2>3 DEF ActivationInv, GatewayTypeOK
    <3>2. QED
      BY <2>1, <2>2, <3>1 DEF Behind
  <2>4. CloseInv' /\ NobodyWaits' /\ CandidateInv' /\ ForsakenInv'
    BY <2>1, <2>2, <2>3 DEF CloseInv, NobodyWaits, CandidateInv, ForsakenInv
  <2>5. QED
    BY <2>4
<1>2. CASE UNCHANGED vars
  <2>1. UNCHANGED <<authorityVars, adapters, transition, requestVars, service, hub>>
    BY <1>2 DEF vars
  <2>2. CandidateInv' /\ ForsakenInv'
    BY <2>1, AdaptersKept
  <2>3. CloseInv' /\ NobodyWaits'
    BY <2>1, QueueGoesOn DEF ActivationInv, NobodyWaits
  <2>4. QED
    BY <2>2, <2>3
<1>3. QED
  BY <1>1, <1>2

LEMMA ShutdownNext ==
  ASSUME ActivationInv, ShutdownInv, [Next]_vars
  PROVE  ShutdownInv'
BY ShutdownRequests, ShutdownHangUp, ShutdownTake, ShutdownStart, ShutdownActivation,
   ShutdownRecoverClient, ShutdownEnd, ShutdownCleanup, ShutdownDecide, ShutdownStartClose,
   ShutdownFinishStop, ShutdownService DEF Next, ActivateStep, DeactivateStep

LEMMA ShutdownInit == Init => ShutdownInv
BY DEF Init, ShutdownInv, CloseInv, CandidateInv, NobodyWaits, ForsakenInv, NewHub, NoTransition

LEMMA ShutdownInvariant == Spec => [](ActivationInv /\ ShutdownInv)
<1>1. ActivationInv /\ ShutdownInv /\ [Next]_vars => (ActivationInv /\ ShutdownInv)'
  BY NextInv, ShutdownNext
<1>2. QED
  BY <1>1, InitInv, ShutdownInit, PTL DEF Spec

(* A stopped service runs no adapter but those of a runtime whose client   *)
(* hung up while stop() waited (main.ts:1716-1727, 1741-1800), for any     *)
(* number of attempts, of queued requests and of restarts.                 *)
THEOREM GatewayStoppedMeansDown == Spec => []StoppedMeansDown
<1>1. ShutdownInv => StoppedMeansDown
  BY DEF ShutdownInv, ForsakenInv, StoppedMeansDown
<1>2. QED
  BY <1>1, ShutdownInvariant, PTL
=============================================================================
