------------------------ MODULE BrowserProjectRuntime ------------------------
(***************************************************************************)
(* The runtime graphs of a page (browser-project-runtime-v5.ts) and the    *)
(* bundle cell that names the one in force (browser-runtime-bundle-store). *)
(* A candidate graph is prepared and applied beside the active one.  A     *)
(* commit suspends the active graph and the state stream, waits until the  *)
(* instructions under way have settled, puts the candidate in force and    *)
(* starts the stream again; its transition is then finalized, or rolled    *)
(* back to the graph before.  A deactivation does the same with no graph   *)
(* to put in force.  Calls may overlap, and the page may be left at any    *)
(* time.                                                                   *)
(*                                                                         *)
(* A graph has a revision, and the signals of its page while it is in      *)
(* force; only the first has jobs.  A bundle is named by its graph: each   *)
(* graph is installed once and only a rollback brings an old bundle back.  *)
(* finalize() and rollback() do their work one microtask after the call,   *)
(* here at once.  Left out: apply() and commit() of a handle that is       *)
(* committed already, which nothing refuses and no caller makes.           *)
(***************************************************************************)
EXTENDS DataPlane, SignalWrites

CONSTANT Graphs    \* 1..n, in the order they are created

ASSUME GraphsAssumption ==
    /\ Graphs = 1..Cardinality(Graphs) /\ 1 \in Graphs
    /\ IsFiniteSet(Graphs) /\ Null \notin Graphs
    /\ \A x \in Scenarios : x.jobPage \in Browsers \cup {Null}

VARIABLE project

(* OwnedBrowserRuntimeGraphV5 with its CandidateRecordV5; rolling is       *)
(* rollbackPromise # null.                                                 *)
NewGraph(revision, state, base, generation) ==
    [revision |-> revision, state |-> state, base |-> base, generation |-> generation,
     rolling |-> FALSE, suspended |-> FALSE, disposed |-> FALSE]

NoGraph == NewGraph(Null, "none", Null, 0)

(* activeTransition or activeDeactivation, while under.                    *)
NoTransition == [under |-> FALSE, to |-> Null, from |-> Null, signals |-> Null]

(* The page has a Project when it opens its stream.                        *)
NewProject(revision) ==
    [owner |-> "active", requested |-> FALSE,
     graph |-> [g \in Graphs |-> IF g = 1 THEN NewGraph(revision, "committed", Null, 0)
                                 ELSE NoGraph],
     active |-> 1, generation |-> 1,
     waiting |-> <<>>,      \* commits (their graph) and deactivations (Null) awaiting the jobs
     transition |-> NoTransition,
     doomed |-> Null]       \* the previous graph of the transition that dispose() found

ProjectInit == project = [b \in Browsers |-> NewProject(Min(scenario.revisions))]

Created(p) == {g \in Graphs : p.graph[g].state # "none"}
Candidates(p) == {g \in Created(p) : p.graph[g].state \notin {"committed", "consumed"}}
InState(p, state) == {g \in Created(p) : p.graph[g].state = state}

-----------------------------------------------------------------------------
(* Operations on a page: its runtime, its stream and its jobs.             *)

PageOf(b) ==
    [project |-> project[b], page |-> browser[b], jobs |-> jobs, write |-> write, lease |-> lease]

HasJobs(b, g) == b = scenario.jobPage /\ g = 1

(* suspendForTransition, resumeAfterTransition and disposeOwnedGraph clear *)
(* the lease of the graph's command client.                                *)
WithJobs(b, x, g, next) ==
    IF HasJobs(b, g) THEN [x EXCEPT !.jobs = next, !.write = Cleared(@), !.lease = Null] ELSE x

GraphSuspended(b, x, g) ==
    WithJobs(b, [x EXCEPT !.project.graph[g].suspended = TRUE], g, Quiesced(x.jobs))

GraphResumed(b, x, g) ==
    IF ~x.project.graph[g].suspended THEN x
    ELSE WithJobs(b, [x EXCEPT !.project.graph[g].suspended = FALSE], g, Resumed(x.jobs))

GraphDisposed(b, x, g) ==
    IF g = Null \/ x.project.graph[g].disposed THEN x
    ELSE WithJobs(b, [x EXCEPT !.project.graph[g].suspended = TRUE,
                               !.project.graph[g].disposed = TRUE],
                  g, JobsDisposed(x.jobs))

(* consumeAndDispose *)
Consumed(b, x, g) ==
    GraphDisposed(b, [x EXCEPT !.project.graph[g].state = "consumed"], g)

StreamOff(x) == [x EXCEPT !.page = StreamStopped(@)]
StreamOn(x) ==
    IF x.project.requested /\ ~x.page.started
    THEN [x EXCEPT !.page = CandidateMade(StreamStarted(@), NewSocket)] ELSE x

(* installPure and restorePure: the bundle names graph g, or nothing.      *)
Bundled(x, g, signals) ==
    LET target == IF g = Null THEN NoTarget
                  ELSE [graph |-> g, revision |-> x.project.graph[g].revision]
    IN [x EXCEPT !.project.active = g, !.project.generation = @ + 1,
                 !.page = Retargeted(@, target, signals)]

NoSignals == [e \in Endpoints |-> NewSignals]

(* The rest of commit() and of deactivate(), once nothing is under way.    *)
Installed(x, g) ==
    LET bundled == [Bundled(x, g, NoSignals) EXCEPT
                      !.project.transition =
                          [under |-> TRUE, to |-> g, from |-> x.project.active,
                           signals |-> x.page.signals]]
    IN IF g = Null THEN bundled
       ELSE StreamOn([bundled EXCEPT !.project.graph[g].state = "committed"])

(* The page of b becomes x; a socket it no longer has is given up.         *)
Becomes(b, x) ==
    /\ project' = [project EXCEPT ![b] = x.project]
    /\ Page(b, x.page)
    /\ hub' = IF x.page.candidate = browser[b].candidate THEN hub
              ELSE GivenUp(hub, browser[b].candidate)
    /\ lease' = x.lease
    /\ Follow(x.jobs, x.write, x.lease)

-----------------------------------------------------------------------------
(* Candidates.                                                             *)

Prepare(b, revision) ==
    LET p == project[b]
        g == Min(Graphs \ Created(p))
    IN /\ p.owner = "active" /\ Created(p) # Graphs
       /\ Spend("page")
       /\ Becomes(b, [PageOf(b) EXCEPT !.project.graph[g] =
                         NewGraph(revision, "prepared", p.active, p.generation)])

ApplyCalled(b, g) ==
    /\ project[b].owner = "active" /\ project[b].graph[g].state = "prepared"
    /\ Becomes(b, [PageOf(b) EXCEPT !.project.graph[g].state = "applying"])
    /\ UNCHANGED budget

(* runApply fails by itself or is aborted, by a rollback that then         *)
(* consumes the candidate, or by dispose().                                *)
ApplySettles(b, g) ==
    LET p == project[b]
        aborted == p.graph[g].rolling \/ p.owner # "active"
    IN /\ p.graph[g].state = "applying"
       /\ \E state \in {"applied", "failed"} :
             /\ aborted => state = "failed"
             /\ Becomes(b, IF p.graph[g].rolling THEN Consumed(b, PageOf(b), g)
                           ELSE [PageOf(b) EXCEPT !.project.graph[g].state = state])
       /\ UNCHANGED budget

RollbackCandidate(b, g) ==
    LET p == project[b]
    IN /\ p.owner = "active" /\ ~p.graph[g].rolling
       /\ p.graph[g].state \in {"prepared", "applying", "applied", "failed"}
       /\ Becomes(b, IF p.graph[g].state = "applying"
                     THEN [PageOf(b) EXCEPT !.project.graph[g].rolling = TRUE]
                     ELSE Consumed(b, PageOf(b), g))
       /\ UNCHANGED budget

-----------------------------------------------------------------------------
(* Transitions.                                                            *)

(* commit() and deactivate() up to their await: g is the graph to come.    *)
Suspending(b, g) ==
    LET x == GraphSuspended(b, PageOf(b), project[b].active)
        off == IF x.project.requested THEN StreamOff(x) ELSE x
    IN [off EXCEPT !.project.waiting = Append(@, g)]

Stale(p, g) == p.graph[g].base # p.active \/ p.graph[g].generation # p.generation

CommitCalled(b, g) ==
    LET p == project[b]
        committing == [Suspending(b, g) EXCEPT !.project.graph[g].state = "committing"]
    IN /\ p.owner = "active" /\ p.graph[g].state = "applied"
       /\ Connectable
       /\ \/ Stale(p, g) /\ Becomes(b, Consumed(b, PageOf(b), g))
          \/ /\ ~Stale(p, g) /\ ~p.transition.under
             /\ Becomes(b, IF p.active = Null THEN Installed(PageOf(b), g) ELSE committing)
       /\ UNCHANGED budget

DeactivateCalled(b) ==
    LET p == project[b]
    IN /\ p.owner = "active" /\ ~p.transition.under /\ p.active # Null
       /\ Spend("page")
       /\ Becomes(b, Suspending(b, Null))

(* All who wait, wait for the same promises and go on in the order of      *)
(* their calls.  The first finds everything as it was, unless dispose()    *)
(* was called; the others find another graph in force.                     *)
QuiesceSettles(b) ==
    LET p == project[b]
        late(g) == g \in Range(p.waiting) /\ (p.owner = "active" => g # Head(p.waiting))
        x == [PageOf(b) EXCEPT
                !.project.waiting = <<>>,
                !.project.graph = [g \in Graphs |->
                    IF late(g) THEN [p.graph[g] EXCEPT !.state = "applied"] ELSE p.graph[g]]]
    IN /\ p.waiting # <<>>
       /\ HasJobs(b, p.active) => jobs.settling = {}
       /\ Connectable
       /\ Becomes(b, IF p.owner = "active" THEN Installed(x, Head(p.waiting)) ELSE x)
       /\ UNCHANGED budget

Finalize(b) ==
    LET t == project[b].transition
    IN /\ t.under
       /\ Becomes(b, GraphDisposed(b, [PageOf(b) EXCEPT !.project.transition = NoTransition],
                                   t.from))
       /\ UNCHANGED budget

(* The graph before is in force again, with what it showed, and goes on.   *)
Restored(b, t) ==
    LET stopped == IF t.to = Null THEN PageOf(b) ELSE StreamOff(PageOf(b))
        bundled == [Bundled(stopped, t.from, t.signals) EXCEPT
                      !.project.transition = NoTransition]
        x == IF t.to = Null THEN bundled ELSE Consumed(b, bundled, t.to)
    IN IF t.from = Null THEN x ELSE StreamOn(GraphResumed(b, x, t.from))

RollbackTransition(b) ==
    /\ project[b].transition.under
    /\ Connectable
    /\ Becomes(b, Restored(b, project[b].transition))
    /\ UNCHANGED budget

-----------------------------------------------------------------------------
(* The stream, and the end of the page.                                    *)

(* In a late scenario the pages come when every endpoint is connected.     *)
Due == scenario.late => \A e \in scenario.endpoints : hub.admission[e].connected

(* Called once, by AppV6 when the bootstrap is over.                       *)
StartGatewayStream(b) ==
    LET p == project[b]
    IN /\ b \in scenario.browsers /\ Due
       /\ p.owner = "active" /\ p.active # Null /\ ~p.requested
       /\ p.waiting = <<>> /\ ~p.transition.under
       /\ Connectable
       /\ Becomes(b, StreamOn([PageOf(b) EXCEPT !.project.requested = TRUE]))
       /\ UNCHANGED budget

(* stopGatewayStream and dispose.                                          *)
DisposeCalled(b) ==
    LET p == project[b]
    IN /\ p.owner = "active"
       /\ Spend("dispose")
       /\ Becomes(b, [StreamOff(PageOf(b)) EXCEPT
                        !.project.owner = "disposing", !.project.requested = FALSE,
                        !.project.transition = NoTransition,
                        !.project.doomed = p.transition.from])

(* Mutant: the graph a transition came from is nobody's.                   *)
AllDisposedButPrevious(b) ==
    LET p == project[b]
        consumed == FoldLeft(LAMBDA x, g : Consumed(b, x, g), PageOf(b), SetToSeq(Candidates(p)))
    IN GraphDisposed(b, consumed, p.active)

AllDisposed(b) ==
    LET p == project[b]
        consumed == FoldLeft(LAMBDA x, g : Consumed(b, x, g), PageOf(b), SetToSeq(Candidates(p)))
    IN GraphDisposed(b, GraphDisposed(b, consumed, p.doomed), p.active)

(* Once every promise of a candidate has settled.                          *)
DisposeSettles(b) ==
    LET p == project[b]
    IN /\ p.owner = "disposing"
       /\ InState(p, "applying") \cup InState(p, "committing") = {}
       /\ Becomes(b, [AllDisposed(b) EXCEPT !.project.owner = "disposed"])
       /\ UNCHANGED budget

RuntimeStep ==
    \E b \in scenario.browsers \cup ({scenario.jobPage} \ {Null}) :
        /\ \/ \E revision \in scenario.revisions : Prepare(b, revision)
           \/ \E g \in Created(project[b]) :
                 \/ ApplyCalled(b, g)
                 \/ ApplySettles(b, g)
                 \/ RollbackCandidate(b, g)
                 \/ CommitCalled(b, g)
           \/ DeactivateCalled(b)
           \/ QuiesceSettles(b)
           \/ Finalize(b)
           \/ RollbackTransition(b)
           \/ StartGatewayStream(b)
           \/ DisposeCalled(b)
           \/ DisposeSettles(b)
        /\ UNCHANGED <<feed, staging, runtime, scenario>>
=============================================================================
