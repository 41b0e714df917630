------------------------- MODULE ProjectPublication -------------------------
(***************************************************************************)
(* The publication coordinator of each browser tab                         *)
(* (project-v5-publication.ts) driving three authorities: the IndexedDB    *)
(* repository all tabs share (ProjectRepository), the Runtime Gateway all  *)
(* tabs share, reached through the HTTP client of                          *)
(* runtime-gateway-connectivity-client.ts, and the tab's own Browser       *)
(* runtime.  One action is the code between two awaits of replace() or     *)
(* hydrate(), with the outcome of the awaited call; calls to the Gateway   *)
(* wait in its transition queue (main.ts enqueueRuntimeTransition).        *)
(*                                                                         *)
(* Abstractions: a Project is its revision id and content, the Gateway's   *)
(* authority tuple is the revision id and the activation attempt (projectId*)
(* and configRevision are functions of the document), and the Gateway's    *)
(* adapters appear only as the outcomes of a transition (GatewayActivation *)
(* details them).  A call rejected without any effect before an operation  *)
(* starts is no step.                                                      *)
(***************************************************************************)
EXTENDS ProjectRepository, Naturals, Sequences, FiniteSets

CONSTANTS MaxAttempts,  \* bound on activation attempt ids ever minted
          Faults,       \* the fault classes the environment exhibits
          MaxFaults     \* how many faults, or Null for no bound

(* gatewayLost: a request, its response or a status read is lost;          *)
(* gatewayFailed: adapters fail to start or stop during a transition;      *)
(* gatewaySlow: a transition outlives the request for it, by the client's  *)
(* timeout or, with reload, by a reload;                                   *)
(* runtimeFailed: the Browser runtime refuses to apply or commit;          *)
(* commitAborted / commitLost: the commit transaction aborts / its         *)
(* response is lost; storageLost: another repository call fails or loses   *)
(* its response; reload: the tab is closed or reloaded at any point.       *)
FaultClasses == {"gatewayLost", "gatewayFailed", "gatewaySlow", "runtimeFailed",
                 "commitAborted", "commitLost", "storageLost", "reload"}

ASSUME PublicationAssumption ==
    /\ MaxAttempts \in Nat
    /\ Faults \subseteq FaultClasses
    /\ MaxFaults \in Nat \cup {Null}
    /\ Null \notin Nat
    /\ Null \notin [revisionId : RevisionIds, attempt : Nat]

Tabs == Clients

VARIABLES gateway,      \* the Gateway's activeAuthority() and projectAuthorityPhase
          transitions,  \* queued Gateway transitions, the first one running
          pc,           \* per tab: the await the coordinator stands at
          op,           \* per tab: the locals of the running replace or hydrate
          published,    \* per tab: the coordinator's published revision
          settled,      \* per tab: no hydrate has ended yet, one has been tried
                        \* in vain, or a hydrate or replace succeeded (history)
          recovery,     \* per tab: recoveryRequired
          runtime,      \* per tab: active runtime graph and open transition
          cleanup,      \* per tab: retained cleanup tasks
          lastAttempt,  \* activation attempt ids minted so far
          faults,       \* faults so far, when bounded
          acked,        \* history: tokens of replaces that resolved
          rejected,     \* history: tokens of replaces that rejected cleanly
          abandoned     \* history: attempts given up without asking for recovery

tabVars == <<pc, op, published, settled, recovery, runtime, cleanup>>
historyVars == <<acked, rejected, abandoned>>
vars == <<repositoryVars, gateway, transitions, tabVars, lastAttempt, faults,
          historyVars>>

-----------------------------------------------------------------------------
(* Types and initial state.                                                *)

Attempts == 1..MaxAttempts
Revision == RevisionIds \cup {Null}
Authority == [revisionId : RevisionIds, attempt : Attempts]

(* Code between awaits; a "-ing" name waits for the Gateway's answer.      *)
Waiting == {"activating", "rollingBack", "rollbackRetrying", "reactivating"}
Stage == Waiting \cup
    {"idle", "prepareGateway", "activate", "winner", "commit", "commitRuntime",
     "pointerCheck", "verify", "finalize", "finalizeRead", "reconcile",
     "rollback", "rollbackStatus", "rollbackRetry", "rollbackTerminal",
     "checkInactive", "rollbackRuntime", "discard", "compensate", "reactivate",
     "reactivateSend", "reactivateVerify", "endCatch", "emptyStatus",
     "emptyVerify", "emptyPointer", "loadPrevious", "loadTarget",
     "restorePointer", "restoreCompensate", "restoreStable"}

NoOp == [kind |-> "none",        \* "replace" or "hydrate"
         next |-> Null,          \* the revision being published or restored
         previous |-> Null,      \* the publication to return to
         token |-> Null,         \* commit token
         commit |-> "none",      \* what is known of the repository commit
         saw |-> NoPointer,      \* the exact pointer a hydrate works from
         restoring |-> FALSE,    \* hydrate: restoring the compensated previous
         attempt |-> Null,       \* activation attempt of the Gateway candidate
         expected |-> Null,      \* expectedAuthority captured by prepare
         attempted |-> FALSE,    \* gatewayActivationAttempted
         winner |-> "no",        \* hydrate meets another tab's healthy authority
         conflict |-> FALSE,     \* the first DELETE answered 409
         disposition |-> "none", \* result of gateway.rollback
         activated |-> FALSE,    \* hydrate: restoreRuntimeAndGateway returned
         transition |-> FALSE,   \* a runtime transition is committed
         failed |-> FALSE]       \* compensationErrors is not empty

Op == [kind : {"none", "replace", "hydrate"}, next : Revision, previous : Revision,
       token : Tokens \cup {Null},
       commit : {"none", "started", "yes", "noEffect", "unknown"},
       saw : StoredProjectPointer, restoring : BOOLEAN,
       attempt : Attempts \cup {Null}, expected : Authority \cup {Null},
       attempted : BOOLEAN, winner : {"no", "converging", "yes"}, conflict : BOOLEAN,
       disposition : {"none", "candidate-deactivated", "candidate-absent",
                      "other-authority"},
       activated : BOOLEAN, transition : BOOLEAN, failed : BOOLEAN]

Request == [kind : {"activate", "deactivate"}, tab : Tabs, waiting : BOOLEAN,
            authority : Authority, expected : Authority \cup {Null}]

NoGateway == [authority |-> Null, phase |-> "inactive"]
NoRuntime == [active |-> Null, previous |-> Null, open |-> FALSE]
CleanupTask == [kind : {"runtime-transition-finalize", "gateway-previous",
                        "repository-garbage-collection"},
                revisionId : Revision]

Init ==
    /\ RepositoryInit
    /\ gateway = NoGateway
    /\ transitions = <<>>
    /\ pc = [t \in Tabs |-> "idle"]
    /\ op = [t \in Tabs |-> NoOp]
    /\ published = [t \in Tabs |-> Null]
    /\ settled = [t \in Tabs |-> "no"]
    /\ recovery = [t \in Tabs |-> FALSE]
    /\ runtime = [t \in Tabs |-> NoRuntime]
    /\ cleanup = [t \in Tabs |-> <<>>]
    /\ lastAttempt = 0
    /\ faults = 0
    /\ acked = {} /\ rejected = {} /\ abandoned = {}

-----------------------------------------------------------------------------
(* Helpers.                                                                *)

Fault(class) ==
    /\ class \in Faults
    /\ MaxFaults # Null => faults < MaxFaults
    /\ faults' = IF MaxFaults = Null THEN faults ELSE faults + 1

NoFault == UNCHANGED faults

At(stage, o) == [stage |-> stage, op |-> o]

(* The tab moves on to an await; nothing else of it changes.               *)
Goto(t, to) ==
    /\ pc' = [pc EXCEPT ![t] = to.stage]
    /\ op' = [op EXCEPT ![t] = to.op]
    /\ UNCHANGED <<published, settled, recovery, runtime, cleanup>>

(* The operation ends in vain; recoveryRequired is latched when r holds.   *)
Tried(t) == [settled EXCEPT ![t] = IF @ = "no" THEN "tried" ELSE @]

Leave(t, r) ==
    /\ pc' = [pc EXCEPT ![t] = "idle"]
    /\ op' = [op EXCEPT ![t] = NoOp]
    /\ recovery' = [recovery EXCEPT ![t] = @ \/ r]
    /\ settled' = Tried(t)
    /\ UNCHANGED <<published, runtime, cleanup>>

NoGatewayChange == UNCHANGED <<gateway, transitions, lastAttempt>>
LocalOnly == NoGatewayChange /\ UNCHANGED <<repositoryVars, historyVars>>

(* An await that changes nothing but the tab: it succeeds, or it fails.    *)
Step(t, to) == Goto(t, to) /\ LocalOnly /\ NoFault
FaultStep(t, class, to) == Goto(t, to) /\ LocalOnly /\ Fault(class)

(* What GET /status answers (main.ts status()).                            *)
StatusInactive == gateway.authority = Null
StatusMatches(r) == /\ gateway.authority # Null
                    /\ gateway.phase = "active"
                    /\ gateway.authority.revisionId = r

Candidate(o) == [revisionId |-> o.next, attempt |-> o.attempt]

Busy == {t \in Tabs : pc[t] # "idle"}

(* createCommitToken: a token never used before.                           *)
FreshTokens == Tokens \ (projectCommitTokens \cup rejected \cup {op[t].token : t \in Tabs})

(* Bounds: an operation mints at most two attempts and one token.          *)
AttemptsLeft == lastAttempt + 2 * Cardinality(Busy) + 2 <= MaxAttempts
TokensLeft == Cardinality(FreshTokens) > Cardinality(Busy)

-----------------------------------------------------------------------------
(* Where the code continues when an await throws.                          *)

(* gateway.rollback of a candidate that was never sent, or is consumed,    *)
(* does no I/O; of a consumed one it throws.                               *)
CatchRollback(o) ==
    IF ~o.attempted THEN At("rollbackRuntime", o)
    ELSE IF o.winner # "yes" THEN At("rollback", o)
    ELSE IF o.activated THEN At("rollbackRuntime", o)
    ELSE At("checkInactive", [o EXCEPT !.failed = TRUE])

(* The catch block of replace first reconciles an ambiguous commit.        *)
Catch(o) ==
    IF o.kind = "replace" /\ o.commit = "started" THEN At("reconcile", o)
    ELSE CatchRollback(o)

ChecksInactive(o) ==
    IF o.kind = "replace"
    THEN o.previous = Null /\ o.disposition = "candidate-deactivated"
    ELSE o.activated => o.disposition # "other-authority"

AfterRollback(o) ==
    At(IF ChecksInactive(o) THEN "checkInactive" ELSE "rollbackRuntime", o)

(* gateway.rollback resolves with disposition d.                           *)
RolledBack(o, d) ==
    IF o.winner = "converging"
    THEN At("commitRuntime", [o EXCEPT !.winner = "yes", !.disposition = "other-authority"])
    ELSE AfterRollback([o EXCEPT !.disposition = d])

(* gateway.rollback throws.                                                *)
RollbackThrew(o) ==
    IF o.winner = "converging" THEN At("rollback", [o EXCEPT !.winner = "no"])
    ELSE AfterRollback([o EXCEPT !.failed = TRUE])

Failed(o) == [o EXCEPT !.failed = TRUE]

(* Mutant: the previous publication is not given back to the Gateway.      *)
AfterRepositoryNoReactivate(o) == At("endCatch", o)

(* After the repository's part of replace's catch block.                   *)
AfterRepository(o) ==
    At(IF o.attempted /\ o.previous # Null /\ o.disposition = "candidate-deactivated"
       THEN "reactivate" ELSE "endCatch", o)

AfterRuntime(o) ==
    IF o.commit = "yes" THEN At("compensate", o)
    ELSE IF o.commit \in {"none", "noEffect"} THEN At("discard", o)
    ELSE AfterRepository(o)

-----------------------------------------------------------------------------
(* The Gateway: a queue of transitions, each fenced when it starts.        *)

Enqueue(kind, t, authority, expected) ==
    transitions' = Append(transitions,
        [kind |-> kind, tab |-> t, waiting |-> TRUE, authority |-> authority,
         expected |-> expected])

(* How a waiting coordinator continues on the answer to its request: "ok", *)
(* "conflict" (409), "failed" (503) or "lost" (timeout or no response).    *)
Answered(o, stage, answer) ==
    CASE stage = "activating" ->
             IF answer = "ok" THEN At(IF o.kind = "replace" THEN "commit" ELSE "commitRuntime", o)
             ELSE IF answer = "conflict" /\ o.kind = "hydrate" THEN At("winner", o)
             ELSE Catch(o)
      [] stage \in {"rollingBack", "rollbackRetrying"} ->
             IF answer = "ok" THEN RolledBack(o, "candidate-deactivated")
             ELSE IF answer = "failed" THEN RollbackThrew(o)
             ELSE IF stage = "rollingBack"
             THEN At("rollbackStatus", [o EXCEPT !.conflict = answer = "conflict"])
             ELSE At("rollbackTerminal", o)
      [] stage = "reactivating" ->
             IF answer = "ok" THEN At("reactivateVerify", o) ELSE At("endCatch", Failed(o))

(* The tab that waits for request q continues; a lost answer is a timeout  *)
(* or a broken connection to it.                                           *)
Answer(q, answer) ==
    IF q.waiting
    THEN Goto(q.tab, Answered(op[q.tab], pc[q.tab], answer))
    ELSE UNCHANGED tabVars

Respond(answer, authority, phase) ==
    /\ gateway' = [authority |-> authority, phase |-> phase]
    /\ transitions' = Tail(transitions)
    /\ UNCHANGED <<repositoryVars, historyVars, lastAttempt>>
    /\ \/ Answer(Head(transitions), answer) /\ NoFault
       \/ Head(transitions).waiting /\ Answer(Head(transitions), "lost") /\ Fault("gatewayLost")

(* The running transition fails inside the Gateway, and says so.           *)
RespondFailed(authority, phase) ==
    /\ gateway' = [authority |-> authority, phase |-> phase]
    /\ transitions' = Tail(transitions)
    /\ Answer(Head(transitions), "failed")
    /\ Fault("gatewayFailed")
    /\ UNCHANGED <<repositoryVars, historyVars, lastAttempt>>

(* PUT /project, once its transition's turn has come.                      *)
GatewayActivate ==
    /\ transitions # <<>>
    /\ Head(transitions).kind = "activate"
    /\ LET q == Head(transitions) IN
       \/ /\ gateway.phase = "recovery-required"
          /\ Respond("failed", gateway.authority, gateway.phase)
       \/ /\ gateway.phase # "recovery-required"
          /\ gateway.authority # q.expected
          /\ Respond("conflict", gateway.authority, gateway.phase)
       \/ /\ gateway.phase # "recovery-required"
          /\ gateway.authority = q.expected
          /\ \/ Respond("ok", q.authority, "active")
             \/ RespondFailed(gateway.authority, gateway.phase)
             \/ RespondFailed(IF gateway.authority = Null THEN q.authority
                              ELSE gateway.authority, "recovery-required")

(* Mutant: an inactive Gateway leaves a fenced DELETE unanswered.          *)
GatewayRefuseDeactivateSilent ==
    /\ transitions # <<>>
    /\ Head(transitions).kind = "deactivate"
    /\ gateway.authority \notin {Null, Head(transitions).authority}
    /\ Respond("conflict", gateway.authority, gateway.phase)

(* DELETE /project fenced by the whole authority tuple: a mismatch is a    *)
(* conflict; a match enters the deactivating phase before any cleanup.     *)
GatewayRefuseDeactivate ==
    /\ transitions # <<>>
    /\ Head(transitions).kind = "deactivate"
    /\ gateway.authority # Head(transitions).authority
    /\ Respond("conflict", gateway.authority, gateway.phase)

GatewayStartDeactivate ==
    /\ transitions # <<>>
    /\ Head(transitions).kind = "deactivate"
    /\ gateway.authority = Head(transitions).authority
    /\ gateway.phase # "deactivating"
    /\ gateway' = [gateway EXCEPT !.phase = "deactivating"]
    /\ UNCHANGED <<repositoryVars, historyVars, tabVars, transitions, lastAttempt, faults>>

(* Mutant: a cleanup that failed leaves no authority to retry it with.     *)
GatewayFinishDeactivateForgetting ==
    /\ transitions # <<>>
    /\ gateway.phase = "deactivating"
    /\ \/ Respond("ok", Null, "inactive")
       \/ RespondFailed(Null, "recovery-required")

GatewayFinishDeactivate ==
    /\ transitions # <<>>
    /\ gateway.phase = "deactivating"
    /\ \/ Respond("ok", Null, "inactive")
       \/ RespondFailed(gateway.authority, "recovery-required")

(* The client's timer fires first; the request stays in the queue.         *)
GatewayTimeout ==
    \E i \in DOMAIN transitions :
        /\ transitions[i].waiting
        /\ transitions' = [transitions EXCEPT ![i].waiting = FALSE]
        /\ Answer(transitions[i], "lost")
        /\ Fault("gatewaySlow")
        /\ UNCHANGED <<repositoryVars, historyVars, gateway, lastAttempt>>

GatewayStep == \/ GatewayActivate
               \/ GatewayRefuseDeactivate
               \/ GatewayStartDeactivate
               \/ GatewayFinishDeactivate

(* A tab sends a request and waits, or the request never arrives.          *)
Send(t, kind, authority, expected, stage, o) ==
    \/ /\ Enqueue(kind, t, authority, expected)
       /\ Goto(t, At(stage, o))
       /\ NoFault
       /\ UNCHANGED <<repositoryVars, historyVars, gateway>>
    \/ /\ Goto(t, Answered(o, stage, "lost"))
       /\ Fault("gatewayLost")
       /\ UNCHANGED <<repositoryVars, historyVars, gateway, transitions>>

-----------------------------------------------------------------------------
(* replace() and hydrate() up to the commit of the Browser runtime.        *)

Editable(t) == pc[t] = "idle" /\ ~recovery[t] /\ cleanup[t] = <<>>

(* replace(), up to the prepared revision handle.  The serial tails of the *)
(* mutation service and the coordinator run the hydrate of the application *)
(* bootstrap first (initial-project-bootstrap-v5.ts).                      *)
Begin(t) ==
    /\ Editable(t)
    /\ settled[t] # "no"
    /\ AttemptsLeft /\ TokensLeft
    /\ \E r \in RevisionIds, x \in Contents :
           /\ PrepareRevision(t, r, x)
           /\ Goto(t, At("prepareGateway",
                  [NoOp EXCEPT !.kind = "replace", !.next = r, !.previous = published[t]]))
    /\ NoFault /\ NoGatewayChange /\ UNCHANGED historyVars

(* hydrate(), up to the durable pointer it works from.                     *)
Hydrate(t) ==
    LET o == [NoOp EXCEPT !.kind = "hydrate", !.saw = pointer, !.next = pointer.revisionId]
    IN /\ Editable(t)
       /\ published[t] = Null
       /\ AttemptsLeft
       /\ Step(t, At(CASE pointer.state = "none" -> "emptyStatus"
                       [] pointer.previousRevisionId # Null -> "loadPrevious"
                       [] OTHER -> "loadTarget", o))

(* No durable pointer: the Gateway must own nothing either.                *)
EmptyStatus(t) ==
    /\ pc[t] = "emptyStatus"
    /\ UNCHANGED <<repositoryVars, historyVars>> /\ NoGatewayChange
    /\ \/ /\ StatusInactive
          /\ runtime' = [runtime EXCEPT ![t] = [active |-> Null, previous |-> @.active, open |-> TRUE]]
          /\ pc' = [pc EXCEPT ![t] = "emptyVerify"]
          /\ NoFault
          /\ UNCHANGED <<op, published, settled, recovery, cleanup>>
       \/ ~StatusInactive /\ Leave(t, TRUE) /\ NoFault
       \/ Leave(t, TRUE) /\ (Fault("gatewayLost") \/ Fault("runtimeFailed"))

EmptyFailed(t) ==
    /\ runtime' = [runtime EXCEPT ![t] = [NoRuntime EXCEPT !.active = runtime[t].previous]]
    /\ recovery' = [recovery EXCEPT ![t] = TRUE]
    /\ pc' = [pc EXCEPT ![t] = "idle"]
    /\ op' = [op EXCEPT ![t] = NoOp]
    /\ settled' = Tried(t)
    /\ UNCHANGED <<published, cleanup>>

EmptyVerify(t) ==
    /\ pc[t] = "emptyVerify"
    /\ LocalOnly
    /\ \/ StatusInactive /\ Goto(t, At("emptyPointer", op[t])) /\ NoFault
       \/ ~StatusInactive /\ EmptyFailed(t) /\ NoFault
       \/ EmptyFailed(t) /\ Fault("gatewayLost")

EmptyPointer(t) ==
    /\ pc[t] = "emptyPointer"
    /\ LocalOnly
    /\ \/ /\ pointer.state = "none"
          /\ NoFault
          /\ pc' = [pc EXCEPT ![t] = "idle"]
          /\ op' = [op EXCEPT ![t] = NoOp]
          /\ settled' = [settled EXCEPT ![t] = "yes"]
          /\ cleanup' = [cleanup EXCEPT ![t] =
                 <<[kind |-> "runtime-transition-finalize", revisionId |-> Null]>>]
          /\ UNCHANGED <<published, recovery, runtime>>
       \/ pointer.state # "none" /\ EmptyFailed(t) /\ NoFault
       \/ EmptyFailed(t) /\ Fault("storageLost")

(* readRevision of the row to return to, then of the row to publish: a     *)
(* missing row of an interrupted publication is rolled back.               *)
LoadPrevious(t) ==
    /\ pc[t] = "loadPrevious"
    /\ LocalOnly
    /\ \/ /\ projectRevisions[op[t].saw.previousRevisionId] # Null
          /\ Goto(t, At("loadTarget", [op[t] EXCEPT !.previous = op[t].saw.previousRevisionId]))
          /\ NoFault
       \/ projectRevisions[op[t].saw.previousRevisionId] = Null /\ Leave(t, TRUE) /\ NoFault
       \/ Leave(t, TRUE) /\ Fault("storageLost")

LoadFailed(t) ==
    IF op[t].previous # Null THEN Goto(t, At("restorePointer", op[t])) ELSE Leave(t, TRUE)

LoadTarget(t) ==
    /\ pc[t] = "loadTarget"
    /\ LocalOnly
    /\ \/ projectRevisions[op[t].next] # Null /\ Goto(t, At("prepareGateway", op[t])) /\ NoFault
       \/ projectRevisions[op[t].next] = Null /\ LoadFailed(t) /\ NoFault
       \/ LoadFailed(t) /\ Fault("storageLost")

(* gateway.prepare: the authority it finds becomes the fence of the PUT.   *)
(* replace wants exactly its previous publication, hydrate nothing or the  *)
(* revision it is about to restore.                                        *)
PrepareAllowed(o) ==
    IF o.kind = "replace" /\ o.previous # Null
    THEN StatusMatches(o.previous)
    ELSE StatusInactive \/ StatusMatches(o.next)

PrepareGateway(t) ==
    /\ pc[t] = "prepareGateway"
    /\ UNCHANGED <<repositoryVars, historyVars, gateway, transitions>>
    /\ \/ /\ PrepareAllowed(op[t])
          /\ lastAttempt' = lastAttempt + 1
          /\ Goto(t, At("activate", [op[t] EXCEPT !.attempt = lastAttempt',
                                                  !.expected = gateway.authority]))
          /\ NoFault
       \/ /\ ~PrepareAllowed(op[t])
          /\ Goto(t, Catch(op[t]))
          /\ NoFault /\ UNCHANGED lastAttempt
       \/ /\ Goto(t, Catch(op[t]))
          /\ Fault("gatewayLost") \/ Fault("runtimeFailed")
          /\ UNCHANGED lastAttempt

(* Mutant: the attempted activation is not remembered.                     *)
ActivateForgotten(t) ==
    /\ pc[t] = "activate"
    /\ UNCHANGED lastAttempt
    /\ \/ Send(t, "activate", Candidate(op[t]), op[t].expected, "activating", op[t])
       \/ FaultStep(t, "runtimeFailed", Catch(op[t]))

(* runtime.apply, then gateway.activate.                                   *)
Activate(t) ==
    /\ pc[t] = "activate"
    /\ UNCHANGED lastAttempt
    /\ \/ Send(t, "activate", Candidate(op[t]), op[t].expected, "activating",
               [op[t] EXCEPT !.attempted = TRUE])
       \/ FaultStep(t, "runtimeFailed", Catch(op[t]))

(* hydrate lost the activation race: another tab's healthy authority for   *)
(* the same revision counts as convergence.                                *)
Winner(t) ==
    /\ pc[t] = "winner"
    /\ \/ /\ StatusMatches(op[t].next)
          /\ Step(t, At("rollback", [op[t] EXCEPT !.winner = "converging"]))
       \/ ~StatusMatches(op[t].next) /\ Step(t, Catch(op[t]))
       \/ FaultStep(t, "gatewayLost", Catch(op[t]))

(* The commit transaction; expectedRevisionId is the published revision.   *)
Commit(t) ==
    /\ pc[t] = "commit"
    /\ NoGatewayChange /\ UNCHANGED historyVars
    /\ \E k \in FreshTokens :
       LET o == [op[t] EXCEPT !.token = k, !.commit = "started"]
       IN \/ /\ CommitPreparedRevision(t, o.previous, k)
             /\ Goto(t, At("commitRuntime", [o EXCEPT !.commit = "yes"]))
             /\ NoFault
          \/ CommitResponseLost(t, o.previous, k) /\ Goto(t, Catch(o)) /\ Fault("commitLost")
          \/ /\ ~CommitAllowed(t, o.previous, k)
             /\ CommitRejected(t) /\ Goto(t, Catch(o)) /\ NoFault
          \/ CommitRejected(t) /\ Goto(t, Catch(o)) /\ Fault("commitAborted")

(* runtime.commit opens a transition that can be rolled back or finalized. *)
CommitRuntime(t) ==
    /\ pc[t] = "commitRuntime"
    /\ \/ /\ runtime' = [runtime EXCEPT ![t] =
                 [active |-> op[t].next, previous |-> @.active, open |-> TRUE]]
          /\ pc' = [pc EXCEPT ![t] = IF op[t].kind = "replace" THEN "verify" ELSE "pointerCheck"]
          /\ op' = [op EXCEPT ![t].transition = TRUE, ![t].activated = op[t].kind = "hydrate"]
          /\ UNCHANGED <<published, settled, recovery, cleanup>>
          /\ LocalOnly /\ NoFault
       \/ FaultStep(t, "runtimeFailed", Catch(op[t]))

-----------------------------------------------------------------------------
(* The rest of replace() and hydrate(): verification, finalization,        *)
(* success.                                                                *)

Task(kind, r) == [kind |-> kind, revisionId |-> r]

CleanupFor(o) ==
    <<Task("runtime-transition-finalize", o.next)>>
    \o (IF o.previous \notin {Null, o.next}
        THEN <<Task("gateway-previous", o.previous)>> ELSE <<>>)
    \o <<Task("repository-garbage-collection", o.next)>>

(* published := next, cleanup is retained, the caller's promise resolves;  *)
(* tokens are those of the replace that resolves.                          *)
Succeed(t, tokens) ==
    /\ published' = [published EXCEPT ![t] = op[t].next]
    /\ settled' = [settled EXCEPT ![t] = "yes"]
    /\ cleanup' = [cleanup EXCEPT ![t] = CleanupFor(op[t])]
    /\ pc' = [pc EXCEPT ![t] = "idle"]
    /\ op' = [op EXCEPT ![t] = NoOp]
    /\ acked' = acked \cup tokens
    /\ UNCHANGED <<recovery, runtime, rejected, abandoned>>
    /\ NoGatewayChange

(* Mutant: a hydration that was overtaken leaves its activation behind.    *)
PointerCheckNoRollback(t) ==
    /\ pc[t] = "pointerCheck"
    /\ \/ /\ pointer = op[t].saw
          /\ IF op[t].restoring THEN Succeed(t, {}) /\ UNCHANGED repositoryVars /\ NoFault
             ELSE Step(t, At("verify", op[t]))
       \/ pointer # op[t].saw /\ Leave(t, FALSE) /\ LocalOnly /\ NoFault

(* hydrate: the pointer it works from must still be the exact same one;    *)
(* restoring the compensated previous publication ends here.               *)
PointerCheck(t) ==
    /\ pc[t] = "pointerCheck"
    /\ \/ /\ pointer = op[t].saw
          /\ IF op[t].restoring THEN Succeed(t, {}) /\ UNCHANGED repositoryVars /\ NoFault
             ELSE Step(t, At("verify", op[t]))
       \/ pointer # op[t].saw /\ Step(t, CatchRollback(op[t]))
       \/ FaultStep(t, "storageLost", CatchRollback(op[t]))

Verify(t) ==
    /\ pc[t] = "verify"
    /\ \/ /\ StatusMatches(op[t].next)
          /\ IF op[t].kind = "hydrate" /\ op[t].saw.state = "stable"
             THEN Succeed(t, {}) /\ UNCHANGED repositoryVars /\ NoFault
             ELSE Step(t, At("finalize", op[t]))
       \/ ~StatusMatches(op[t].next) /\ Step(t, Catch(op[t]))
       \/ FaultStep(t, "gatewayLost", Catch(op[t]))

(* The token finalizePublication is called with.                           *)
FinalToken(o) == IF o.kind = "replace" THEN o.token ELSE o.saw.commitToken
Acknowledged(o) == IF o.kind = "replace" THEN {o.token} ELSE {}

Finalize(t) ==
    LET k == FinalToken(op[t])
    IN /\ pc[t] = "finalize"
       /\ \/ FinalizePublication(k) /\ Succeed(t, Acknowledged(op[t])) /\ NoFault
          \/ /\ FinalizePublication(k) /\ Goto(t, At("finalizeRead", op[t]))
             /\ Fault("storageLost") /\ NoGatewayChange /\ UNCHANGED historyVars
          \/ ~FinalizeAllowed(k) /\ Step(t, At("finalizeRead", op[t]))
          \/ FaultStep(t, "storageLost", At("finalizeRead", op[t]))

(* Mutant: a pointer that is still publishing counts as finalized.         *)
FinalizedIfOwn(o) ==
    pointer.revisionId = o.next /\ pointer.commitToken = FinalToken(o)

(* After a rejected finalize the pointer decides whether it happened.      *)
FinalizedDespiteRejection(o) ==
    /\ pointer.state = "stable"
    /\ pointer.revisionId = o.next
    /\ pointer.commitToken = FinalToken(o)

FinalizeRead(t) ==
    /\ pc[t] = "finalizeRead"
    /\ \/ /\ FinalizedDespiteRejection(op[t])
          /\ Succeed(t, Acknowledged(op[t])) /\ UNCHANGED repositoryVars /\ NoFault
       \/ /\ ~FinalizedDespiteRejection(op[t])
          /\ Step(t, IF op[t].kind = "replace" THEN Catch(op[t])
                     ELSE CatchRollback(Failed(op[t])))
       \/ IF op[t].kind = "replace" THEN FaultStep(t, "storageLost", Catch(op[t]))
          ELSE Leave(t, TRUE) /\ LocalOnly /\ Fault("storageLost")

-----------------------------------------------------------------------------
(* The catch block of replace() and the rollbacks of hydrate().            *)

Reconcile(t) ==
    LET o == op[t]
        mine == pointer.revisionId = o.next /\ pointer.commitToken = o.token
        noEffect == IF o.previous = Null THEN pointer.state = "none"
                    ELSE pointer.state = "stable" /\ pointer.revisionId = o.previous
        unknown == Failed([o EXCEPT !.commit = "unknown"])
    IN /\ pc[t] = "reconcile"
       /\ \/ mine /\ Step(t, CatchRollback([o EXCEPT !.commit = "yes"]))
          \/ ~mine /\ noEffect /\ Step(t, CatchRollback([o EXCEPT !.commit = "noEffect"]))
          \/ ~mine /\ ~noEffect /\ Step(t, CatchRollback(unknown))
          \/ FaultStep(t, "storageLost", CatchRollback(unknown))

(* gateway.rollback: a fenced DELETE, and on a conflict or a lost answer a *)
(* status read, one retry, and a last status read.                         *)
Rollback(t) ==
    /\ pc[t] = "rollback"
    /\ UNCHANGED lastAttempt
    /\ Send(t, "deactivate", Candidate(op[t]), Null, "rollingBack", op[t])

RollbackStatus(t) ==
    LET o == op[t] IN
    /\ pc[t] = "rollbackStatus"
    /\ \/ /\ StatusInactive
          /\ Step(t, RolledBack(o, IF o.conflict THEN "candidate-absent"
                                   ELSE "candidate-deactivated"))
       \/ /\ gateway.authority \notin {Null, Candidate(o)}
          /\ Step(t, RolledBack(o, "other-authority"))
       \/ /\ gateway.authority = Candidate(o)
          /\ Step(t, IF gateway.phase = "recovery-required" THEN RollbackThrew(o)
                     ELSE At("rollbackRetry", o))
       \/ FaultStep(t, "gatewayLost", RollbackThrew(o))

RollbackRetry(t) ==
    /\ pc[t] = "rollbackRetry"
    /\ UNCHANGED lastAttempt
    /\ Send(t, "deactivate", Candidate(op[t]), Null, "rollbackRetrying", op[t])

RollbackTerminal(t) ==
    LET o == op[t] IN
    /\ pc[t] = "rollbackTerminal"
    /\ \/ StatusInactive /\ Step(t, RolledBack(o, "candidate-deactivated"))
       \/ /\ gateway.authority \notin {Null, Candidate(o)}
          /\ Step(t, RolledBack(o, "other-authority"))
       \/ gateway.authority = Candidate(o) /\ Step(t, RollbackThrew(o))
       \/ FaultStep(t, "gatewayLost", RollbackThrew(o))

CheckInactive(t) ==
    /\ pc[t] = "checkInactive"
    /\ \/ StatusInactive /\ Step(t, At("rollbackRuntime", op[t]))
       \/ ~StatusInactive /\ Step(t, At("rollbackRuntime", Failed(op[t])))
       \/ FaultStep(t, "gatewayLost", At("rollbackRuntime", Failed(op[t])))

(* The Browser runtime goes back to the graph before the transition.       *)
RestoreRuntime(t) ==
    runtime' = IF op[t].transition
               THEN [runtime EXCEPT ![t] = [NoRuntime EXCEPT !.active = runtime[t].previous]]
               ELSE runtime

(* hydrate gives up: recovery when a rollback failed, or when the Gateway  *)
(* and the runtime were not restored for a first publication or for the    *)
(* compensated previous one (once they were, restoreCompensatedPrevious    *)
(* returns rollbackActivation's promise un-awaited, past its own catch);   *)
(* an interrupted publication over a previous one is compensated instead.  *)
Interrupted(o) == o.saw.state = "publishing" /\ ~o.restoring /\ ~o.activated

RollbackRuntime(t) ==
    LET o == op[t]
        stuck == \/ Interrupted(o) /\ o.previous = Null
                 \/ o.restoring /\ ~o.activated
        goesOn == o.kind = "replace" \/ (Interrupted(o) /\ o.previous # Null)
        to == IF o.kind = "replace" THEN AfterRuntime(o)
              ELSE At("restorePointer", [NoOp EXCEPT !.kind = "hydrate", !.saw = o.saw,
                                             !.next = o.next, !.previous = o.previous])
    IN /\ pc[t] = "rollbackRuntime"
       /\ NoGatewayChange /\ UNCHANGED <<repositoryVars, acked, rejected>> /\ NoFault
       /\ RestoreRuntime(t)
       /\ pc' = [pc EXCEPT ![t] = IF goesOn THEN to.stage ELSE "idle"]
       /\ op' = [op EXCEPT ![t] = IF goesOn THEN to.op ELSE NoOp]
       /\ recovery' = [recovery EXCEPT
              ![t] = @ \/ (o.kind # "replace" /\ (o.failed \/ stuck))]
       /\ abandoned' = IF o.kind = "replace" \/ recovery'[t] THEN abandoned
                       ELSE abandoned \cup ({o.attempt} \ {Null})
       /\ settled' = IF goesOn THEN settled ELSE Tried(t)
       /\ UNCHANGED <<published, cleanup>>

(* discardPreparedRevision throws for a handle that is not 'prepared'.     *)
Discard(t) ==
    /\ pc[t] = "discard"
    /\ \/ /\ DiscardPreparedRevision(t) /\ Goto(t, AfterRepository(op[t]))
          /\ NoGatewayChange /\ NoFault /\ UNCHANGED historyVars
       \/ ~CanDiscard(t) /\ Step(t, AfterRepository(Failed(op[t])))

(* Mutant: a refused compensation counts as done.                          *)
CompensateUnchecked(t) ==
    LET k == op[t].token IN
    /\ pc[t] = "compensate"
    /\ \/ /\ CompensatePublication(k) /\ Goto(t, AfterRepository(op[t]))
          /\ NoGatewayChange /\ NoFault /\ UNCHANGED historyVars
       \/ ~CompensateAllowed(k) /\ Step(t, AfterRepository(op[t]))

Compensate(t) ==
    LET k == op[t].token IN
    /\ pc[t] = "compensate"
    /\ \/ /\ CompensatePublication(k)
          /\ NoGatewayChange /\ UNCHANGED historyVars
          /\ \/ Goto(t, AfterRepository(op[t])) /\ NoFault
             \/ Goto(t, AfterRepository(Failed(op[t]))) /\ Fault("storageLost")
       \/ ~CompensateAllowed(k) /\ Step(t, AfterRepository(Failed(op[t])))
       \/ FaultStep(t, "storageLost", AfterRepository(Failed(op[t])))

(* gateway.reactivate(previous): only an inactive Gateway, a new attempt.  *)
Reactivate(t) ==
    /\ pc[t] = "reactivate"
    /\ \/ StatusInactive /\ Step(t, At("reactivateSend", op[t]))
       \/ ~StatusInactive /\ Step(t, At("endCatch", Failed(op[t])))
       \/ FaultStep(t, "gatewayLost", At("endCatch", Failed(op[t])))

ReactivateSend(t) ==
    /\ pc[t] = "reactivateSend"
    /\ lastAttempt' = lastAttempt + 1
    /\ Send(t, "activate", [revisionId |-> op[t].previous, attempt |-> lastAttempt'], Null,
            "reactivating", op[t])

ReactivateVerify(t) ==
    /\ pc[t] = "reactivateVerify"
    /\ \/ StatusMatches(op[t].previous) /\ Step(t, At("endCatch", op[t]))
       \/ ~StatusMatches(op[t].previous) /\ Step(t, At("endCatch", Failed(op[t])))
       \/ FaultStep(t, "gatewayLost", At("endCatch", Failed(op[t])))

(* enterRecovery(compensationErrors) and the rejection of replace().       *)
EndCatch(t) ==
    /\ pc[t] = "endCatch"
    /\ Leave(t, op[t].failed)
    /\ IF op[t].failed THEN UNCHANGED <<rejected, abandoned>>
       ELSE /\ rejected' = rejected \cup ({op[t].token} \ {Null})
            /\ abandoned' = abandoned \cup ({op[t].attempt} \ {Null})
    /\ NoGatewayChange /\ NoFault /\ UNCHANGED <<repositoryVars, acked>>

-----------------------------------------------------------------------------
(* hydrate: compensate an interrupted publication and restore the previous *)
(* one (restoreCompensatedPrevious).                                       *)

RestorePointer(t) ==
    /\ pc[t] = "restorePointer"
    /\ LocalOnly
    /\ \/ pointer = op[t].saw /\ Goto(t, At("restoreCompensate", op[t])) /\ NoFault
       \/ pointer # op[t].saw /\ Leave(t, TRUE) /\ NoFault
       \/ Leave(t, TRUE) /\ Fault("storageLost")

RestoreCompensate(t) ==
    LET k == op[t].saw.commitToken IN
    /\ pc[t] = "restoreCompensate"
    /\ NoGatewayChange /\ UNCHANGED historyVars
    /\ \/ /\ CompensatePublication(k)
          /\ \/ Goto(t, At("restoreStable", op[t])) /\ NoFault
             \/ Leave(t, TRUE) /\ Fault("storageLost")
       \/ ~CompensateAllowed(k) /\ Leave(t, TRUE) /\ NoFault /\ UNCHANGED repositoryVars
       \/ Leave(t, TRUE) /\ Fault("storageLost") /\ UNCHANGED repositoryVars

RestoreStable(t) ==
    LET stable == StablePointer(op[t].saw.previousRevisionId, op[t].saw.previousCommitToken)
    IN /\ pc[t] = "restoreStable"
       /\ LocalOnly
       /\ \/ /\ pointer = stable
             /\ Goto(t, At("prepareGateway",
                    [NoOp EXCEPT !.kind = "hydrate", !.next = op[t].previous,
                                 !.saw = stable, !.restoring = TRUE]))
             /\ NoFault
          \/ pointer # stable /\ Leave(t, TRUE) /\ NoFault
          \/ Leave(t, TRUE) /\ Fault("storageLost")

-----------------------------------------------------------------------------
(* The cleanup drain, one retained task at a time.  A task that fails is   *)
(* retained and retried: no step.                                          *)
DrainStep(t) ==
    LET task == Head(cleanup[t]) IN
    /\ pc[t] = "idle"
    /\ cleanup[t] # <<>>
    /\ cleanup' = [cleanup EXCEPT ![t] = Tail(@)]
    /\ UNCHANGED <<pc, op, published, settled, recovery, historyVars>>
    /\ NoGatewayChange /\ NoFault
    /\ \/ /\ task.kind = "runtime-transition-finalize"
          /\ runtime' = [runtime EXCEPT ![t].previous = Null, ![t].open = FALSE]
          /\ UNCHANGED repositoryVars
       \/ /\ task.kind = "gateway-previous"
          /\ gateway.authority # Null => gateway.authority.revisionId # task.revisionId
          /\ UNCHANGED <<repositoryVars, runtime>>
       \/ /\ task.kind = "repository-garbage-collection"
          /\ GarbageCollect
          /\ UNCHANGED runtime

(* The user closes or reloads the tab: always possible, at any await a     *)
(* fault.  The tab's requests stay with the Gateway, nobody waits for them.*)
ReloadEffect(t) ==
    /\ pc' = [pc EXCEPT ![t] = "idle"]
    /\ op' = [op EXCEPT ![t] = NoOp]
    /\ published' = [published EXCEPT ![t] = Null]
    /\ settled' = [settled EXCEPT ![t] = "no"]
    /\ recovery' = [recovery EXCEPT ![t] = FALSE]
    /\ runtime' = [runtime EXCEPT ![t] = NoRuntime]
    /\ cleanup' = [cleanup EXCEPT ![t] = <<>>]
    /\ transitions' = [i \in DOMAIN transitions |->
           [transitions[i] EXCEPT !.waiting = @ /\ transitions[i].tab # t]]
    /\ UNCHANGED <<repositoryVars, historyVars, gateway, lastAttempt>>

Reload(t) ==
    /\ (\E i \in DOMAIN transitions : transitions[i].tab = t) => "gatewaySlow" \in Faults
    /\ ReloadEffect(t)
    /\ Fault("reload")

(* The reload a tab in recovery asks its user for.                         *)
RecoveryReload(t) == recovery[t] /\ pc[t] = "idle" /\ ReloadEffect(t) /\ NoFault

Forward(t) ==
    \/ EmptyStatus(t) \/ EmptyVerify(t) \/ EmptyPointer(t)
    \/ LoadPrevious(t) \/ LoadTarget(t)
    \/ PrepareGateway(t) \/ Activate(t) \/ Winner(t)
    \/ Commit(t) \/ CommitRuntime(t)
    \/ PointerCheck(t) \/ Verify(t) \/ Finalize(t) \/ FinalizeRead(t)

Backward(t) ==
    \/ Reconcile(t)
    \/ Rollback(t) \/ RollbackStatus(t) \/ RollbackRetry(t) \/ RollbackTerminal(t)
    \/ CheckInactive(t) \/ RollbackRuntime(t)
    \/ Discard(t) \/ Compensate(t)
    \/ Reactivate(t) \/ ReactivateSend(t) \/ ReactivateVerify(t) \/ EndCatch(t)
    \/ RestorePointer(t) \/ RestoreCompensate(t) \/ RestoreStable(t)

Next ==
    \/ \E t \in Tabs :
          \/ Begin(t) \/ Hydrate(t)
          \/ Forward(t) \/ Backward(t)
          \/ DrainStep(t)
          \/ Reload(t) \/ RecoveryReload(t)
    \/ GatewayStep
    \/ GatewayTimeout

Spec == Init /\ [][Next]_vars

(* An operation that has started runs on: its awaits settle, by an answer  *)
(* or by the client's timeouts, the Gateway works off its queue, and the   *)
(* drain retries.  Nothing makes a tab start an operation.                 *)
Progress ==
    /\ \A t \in Tabs : WF_vars(Forward(t) \/ Backward(t)) /\ WF_vars(DrainStep(t))
    /\ WF_vars(GatewayStep)

FairSpec == Spec /\ Progress

(* A user who keeps hydrating an unpublished tab, and reloads when asked.  *)
PersistentSpec ==
    /\ FairSpec
    /\ \A t \in Tabs : WF_vars(Hydrate(t) /\ settled[t] # "yes") /\ WF_vars(RecoveryReload(t))
-----------------------------------------------------------------------------
(* Type invariant: every local the code between two awaits relies on is    *)
(* set by the time it is used (project-v5-publication.ts:601-610).         *)
PublicationTypeOK ==
    /\ RepositoryTypeOK
    /\ gateway \in [authority : Authority \cup {Null},
                    phase : {"inactive", "active", "deactivating", "recovery-required"}]
    /\ \A i \in DOMAIN transitions : transitions[i] \in Request
    /\ pc \in [Tabs -> Stage]
    /\ op \in [Tabs -> Op]
    /\ published \in [Tabs -> Revision]
    /\ settled \in [Tabs -> {"no", "tried", "yes"}]
    /\ recovery \in [Tabs -> BOOLEAN]
    /\ runtime \in [Tabs -> [active : Revision, previous : Revision, open : BOOLEAN]]
    /\ \A t \in Tabs : \A i \in DOMAIN cleanup[t] : cleanup[t][i] \in CleanupTask
    /\ lastAttempt \in Attempts \cup {0}
    /\ faults \in Nat
    /\ acked \subseteq Tokens
    /\ rejected \subseteq Tokens
    /\ abandoned \subseteq Attempts

Quiet(t) == pc[t] = "idle" /\ ~recovery[t] /\ settled[t] = "yes"

GatewayRevision == IF StatusInactive THEN Null ELSE gateway.authority.revisionId

(* When every tab has come to rest without asking for recovery, and the    *)
(* Gateway has no transition left, the authorities agree: the pointer is   *)
(* stable and some tab published it, each tab's runtime has the revision   *)
(* the tab published, and the Gateway has the stable revision.  This is    *)
(* what the three-way compensation of replace and hydrate is for           *)
(* (project-v5-publication.ts:645-712, 536-578).                           *)
SettledAgreement ==
    (\A t \in Tabs : Quiet(t)) /\ transitions = <<>> =>
        /\ pointer.state # "publishing"
        /\ \E t \in Tabs : published[t] = pointer.revisionId
        /\ \A t \in Tabs : runtime[t].active = published[t]
        /\ GatewayRevision = pointer.revisionId

(* With several tabs the Gateway may be left without a revision, by a tab  *)
(* whose hydration failed after it had taken the authority over, but never *)
(* with one that is not the durable one: a tab that finds the pointer      *)
(* changed under its hydration takes its activation back                   *)
(* (project-v5-publication.ts:826-836, 559-578).                           *)
NoStaleAuthority ==
    (\A t \in Tabs : Quiet(t)) /\ transitions = <<>> =>
        /\ pointer.state # "publishing"
        /\ \E t \in Tabs : published[t] = pointer.revisionId
        /\ GatewayRevision \in {Null, pointer.revisionId}

(* A replace that resolved is durable for good: no hydration of another    *)
(* tab compensates it, and a lost response of finalize is not taken for    *)
(* success (project-v5-publication.ts:635-644, 774-802).                   *)
AcknowledgedDurable ==
    acked \subseteq finalized /\ acked \cap compensated = {}

(* A replace that rejected, and did not ask for recovery, left nothing     *)
(* durable behind: no other tab's hydration rolled its interrupted commit  *)
(* forward meanwhile (project-v5-publication.ts:655-683, 699-703).         *)
RejectedNotDurable ==
    rejected \cap (finalized \cup {pointer.commitToken}) = {}

(* The Gateway never ends up running the attempt of an operation that      *)
(* rejected without asking for recovery, although the answers to its PUT   *)
(* and DELETE may be lost (runtime-gateway-connectivity-client.ts:270-299).*)
AbandonedNotInGateway ==
    gateway.authority # Null => gateway.authority.attempt \notin abandoned

(* The coordinators rely on no more of the Gateway than it promises: with  *)
(* every fault allowed here, its authority and phase change only as the    *)
(* specification that GatewayActivation implements lets them.              *)
GatewayPromise == INSTANCE GatewayAuthority WITH
                      authority <- gateway.authority, phase <- gateway.phase,
                      Authorities <- Authority
GatewayFollowsAuthority == GatewayPromise!AuthoritySpec

(* Every operation comes to an end, whatever fails: the serial tail of the *)
(* coordinator is never blocked (project-v5-publication.ts:276-280).       *)
OperationsFinish == \A t \in Tabs : pc[t] # "idle" ~> pc[t] = "idle"

(* The prior authorities are back: the pointer, the Browser runtime and    *)
(* the Gateway all have the tab's published revision.                      *)
Restored(t) ==
    /\ pointer.revisionId = published[t]
    /\ pointer.state # "publishing"
    /\ runtime[t].active = published[t]
    /\ IF published[t] = Null THEN StatusInactive ELSE StatusMatches(published[t])

(* replace asks for recovery only when they are not: "enters explicit      *)
(* recovery only if restoring prior authority itself fails"                *)
(* (project-v5-publication.test.ts:520, project-v5-publication.ts:710).    *)
RecoveryOnlyIfNotRestored ==
    [][\A t \in Tabs : pc[t] = "endCatch" /\ recovery'[t] /\ ~recovery[t] => ~Restored(t)]_vars

(* A user who reloads when asked and keeps hydrating is served eventually, *)
(* faults being bounded: "Reload recovery is required before another       *)
(* Project V5 publication" (project-v5-publication.ts:284, 725-868).       *)
HydrationRecovers == \A t \in Tabs : []<>(settled[t] = "yes")
=============================================================================
