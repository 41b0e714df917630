------------------------------- MODULE Workcell -------------------------------
(***************************************************************************)
(* The data plane and the jobs of a page that close a loop through it: a   *)
(* job writes a signal of an OPC UA server (SignalWrites) and waits for    *)
(* what the page then shows (DataPlane), while sessions are lost, adapters *)
(* are replaced, the page starts and cancels its jobs (RobotJobs), and     *)
(* moves from one graph to another or is left (BrowserProjectRuntime).     *)
(*                                                                         *)
(* Bounds: a scenario also says which page has jobs (Null for none), their *)
(* robots, the programs a run may have, and how many runs, cancellations   *)
(* and lost commands there are.  Time goes up to its bound.                *)
(***************************************************************************)
EXTENDS BrowserProjectRuntime

ASSUME WorkcellAssumption ==
    \A x \in Scenarios : x.robots \subseteq Robots /\ x.programs \subseteq Seq(Instruction)

VARIABLE now   \* performance.now() of the page

pageVars == <<jobs, write, lease, now, project>>

WorkcellInit == Init /\ WritesInit /\ ProjectInit /\ now = 0

-----------------------------------------------------------------------------
(* What an instruction of kind "wait" finds when it looks.                 *)
Finds(met) ==
    met => \E e \in scenario.endpoints, c \in Channels :
               browser[scenario.jobPage].signals[e].signal[c].quality = "good"

(* Time passes between any two events, and is read when one happens.       *)
Clock == now' \in now..scenario.time

(* Operations of the page.  A graph that is suspended or disposed of       *)
(* starts and cancels nothing.                                             *)
GraphActive == ~project[scenario.jobPage].graph[1].suspended

StartJob(robot, program) ==
    /\ GraphActive /\ Unused(jobs) # {}
    /\ Spend("run")
    /\ scenario.late => \A e \in scenario.endpoints : hub.admission[e].connected
    /\ Clock
    /\ Follow(JobStarted(jobs, robot, program, now'), write, lease)
    /\ UNCHANGED lease

CancelJob(robot) ==
    /\ GraphActive /\ jobs.session[robot] # Null
    /\ Spend("cancel")
    /\ Follow(JobCancelled(jobs, robot), write, lease)
    /\ UNCHANGED <<now, lease>>

AnimationFrame(met) ==
    /\ jobs.frame
    /\ Clock
    /\ Follow(FrameFired(jobs, now', met), write, lease)
    /\ UNCHANGED budget

AttachmentSettles(i, met) ==
    /\ Awaits(jobs, i, "attach")
    /\ \E ok \in BOOLEAN : Follow(Answered(jobs, i, ok, met), write, lease)
    /\ UNCHANGED <<now, budget>>

PageOperation ==
    \/ \E robot \in scenario.robots, program \in scenario.programs : StartJob(robot, program)
    \/ \E robot \in scenario.robots : CancelJob(robot)

(* The command of run i; every one of them writes to the same endpoint.    *)
CommandStep(i, e, met) ==
    LET revision == project[scenario.jobPage].graph[1].revision
    IN /\ \/ Aborted(i, met) /\ UNCHANGED budget
          \/ Spend("loss") /\ GivesUp(i, met)
          \/ LeaseAnswered(i, revision, met) /\ UNCHANGED budget
          \/ CommandTaken(i, e, revision, met) /\ UNCHANGED budget
          \/ NamespacesRead(i, e, met) /\ UNCHANGED budget
          \/ Spend("loss") /\ NamespacesFail(i, met)
          \/ WriteDone(i, met) /\ UNCHANGED budget
          \/ Spend("loss") /\ WriteFails(i, met)
          \/ ServiceCloses(i, met) /\ UNCHANGED budget
       /\ UNCHANGED now

JobStep ==
    /\ scenario.jobPage # Null
    /\ \/ PageOperation
       \/ LeaseExpires /\ UNCHANGED <<now, budget>>
       \/ \E met \in BOOLEAN :
             /\ Finds(met)
             /\ \/ AnimationFrame(met) /\ UNCHANGED lease
                \/ \E i \in Issued(jobs) :
                      \/ AttachmentSettles(i, met) /\ UNCHANGED lease
                      \/ \E e \in scenario.endpoints : CommandStep(i, e, met)
    /\ UNCHANGED <<hub, feed, staging, runtime, browser, scenario, project>>

WorkcellNext ==
    \/ Next /\ UNCHANGED pageVars
    \/ RuntimeStep /\ UNCHANGED now
    \/ JobStep

WorkcellSpec == WorkcellInit /\ [][WorkcellNext]_<<vars, pageVars>>

-----------------------------------------------------------------------------
(* Properties.                                                             *)

SetsUpTo(run, n) == Cardinality({k \in 1..n : k \in DOMAIN run.program /\ run.program[k].kind = "set"})

(* However often a lease is stale, a session is lost or the client gives   *)
(* up, a set-do that a run has passed was written exactly once, and the    *)
(* one it stands at, or ended at, at most once.                            *)
SetDoWritesOnce ==
    \A i \in Issued(jobs) :
        LET run == jobs.run[i]
        IN write[i].landed \in SetsUpTo(run, run.cursor - 1)..SetsUpTo(run, run.cursor)

Rests(i) ==
    jobs.run[i].end # Null =>
        /\ jobs'.run[i].end = jobs.run[i].end
        /\ jobs'.run[i].cursor = jobs.run[i].cursor

(* Action property.  A run that is over stays over: its end and its place  *)
(* stand, a late answer neither moves the robot nor touches what the page  *)
(* shows, and the page shows that end until the robot's next run.          *)
FinishedRunsRest ==
    [][/\ \A i \in Issued(jobs) : Rests(i)
       /\ \A r \in Robots :
             /\ jobs'.pose[r] # jobs.pose[r] =>
                   /\ jobs.shown[r].run = jobs'.pose[r][1]
                   /\ jobs.shown[r].state = "RUNNING"
             /\ jobs'.shown[r] # jobs.shown[r] /\ jobs.shown[r].state # "RUNNING"
                   => jobs'.shown[r].state \in {"RUNNING", "IDLE"}
      ]_<<vars, pageVars>>

(* A robot shown as running is being run: its session is in force and has  *)
(* not ended, and a frame is on order unless a transition has the graph    *)
(* suspended.  And when the transition has waited for the jobs, as long as *)
(* the graph is not in force again, no run that is in force is in the      *)
(* middle of a tick: the graph can be switched under it.                   *)
RunningIsDriven ==
    \A r \in Running(jobs) :
        LET i == jobs.session[r]
        IN /\ i # Null /\ jobs.shown[r].run = i /\ jobs.run[i].end = Null
           /\ jobs.frame \/ project[scenario.jobPage].graph[1].suspended

QuiescedIsStill(p) ==
    p.graph[1].suspended /\ p.waiting = <<>> =>
        \A r \in Robots : jobs.session[r] # Null => jobs.run[jobs.session[r]].tick = Null

JobsFollowGraph ==
    /\ RunningIsDriven
    /\ \A b \in {scenario.jobPage} \ {Null} : QuiescedIsStill(project[b])

(* Wherever commits, deactivations, rollbacks and dispose() overlap, every *)
(* graph that was created is disposed of, is a candidate, is in force or   *)
(* is what a transition can go back to; only the one in force runs, and it *)
(* does unless a transition is waiting for it; and when the page has been  *)
(* left none remains.                                                      *)
InForce(p, g) == g = p.active /\ p.waiting = <<>>
Reserve(p) == {p.active, p.doomed, p.transition.from}

GraphsAccountedFor ==
    \A b \in Browsers :
        LET p == project[b]
        IN \A g \in Created(p) :
              LET graph == p.graph[g]
              IN /\ p.owner = "disposed" => graph.disposed
                 /\ graph.disposed \/ g \in Candidates(p) \cup Reserve(p)
                 /\ p.owner = "active" /\ g \notin Candidates(p)
                       => (graph.suspended <=> ~InForce(p, g))

(* The state stream runs exactly while it has been asked for and a graph   *)
(* is in force, whatever transitions, rollbacks and losses there were, and *)
(* then is never stuck: without a socket its timer runs; with one, the     *)
(* server has yet to accept a connection that never opened, something is   *)
(* on its way, or the page is at rest.  Once stopped it leaves no socket   *)
(* and no timer.                                                           *)
StreamRuns(p) ==
    p.owner = "active" /\ p.requested /\ p.active # Null /\ p.waiting = <<>>

PageNotStranded ==
    \A b \in Browsers :
        LET s == browser[b].candidate
        IN /\ browser[b].started <=> StreamRuns(project[b])
           /\ IF s = Null THEN browser[b].timer <=> browser[b].started
              ELSE /\ browser[b].started
                   /\ \/ Awaited(b) /\ browser[b].opened = NoTarget
                      \/ Arrives(b) \/ AtRest(b) \/ Busy(hub.socket[s])
=============================================================================
