------------------------------ MODULE RobotJobs ------------------------------
(***************************************************************************)
(* Robot jobs of one page: the executor (job-executor.ts), the playback    *)
(* controller that drives it frame by frame (simulation-clock.ts) and the  *)
(* state they show (job-runtime-store.ts).  A tick carries a run through   *)
(* its instructions until one has to wait, for time, for a signal, or for  *)
(* the answer to an external action; meanwhile the run may be cancelled,   *)
(* replaced, quiesced or disposed of, and the answer still comes.          *)
(*                                                                         *)
(* Every operation is one call, a function from jobs to jobs.  Playback is *)
(* the only caller of advanceRobot.  An instruction is a record of its     *)
(* kind and its duration; joint values, easing and attachments are left    *)
(* out, and so are store calls that throw.                                 *)
(***************************************************************************)
EXTENDS LogicalSignals

CONSTANTS Robots,
          Runs       \* run ids, 1..n, in the order they are issued

ASSUME RunsAssumption ==
    /\ IsFiniteSet(Runs) /\ Runs = 1..Cardinality(Runs)
    /\ IsFiniteSet(Robots) /\ Null \notin Runs \cup Robots

-----------------------------------------------------------------------------
(* State.                                                                  *)

Instruction == [kind : {"move", "set", "attach", "wait", "delay"}, ticks : Nat]

Idle == [state |-> "IDLE", run |-> Null, step |-> 0]

NewRun(robot, program, t) ==
    [robot |-> robot, program |-> program, cursor |-> 1, started |-> t, ready |-> Null,
     moved |-> FALSE,      \* lastMove # null
     tick |-> Null,        \* the supplied time of the execution under way
     waiting |-> FALSE,    \* active.pending # null
     last |-> t, end |-> Null]

NoRun == NewRun(Null, <<>>, 0)
NoAdvance == [run |-> Null, next |-> Null]

NoJobs ==
    [run |-> [i \in Runs |-> NoRun],         \* every run ever started
     session |-> [r \in Robots |-> Null],    \* sessions: the run in force
     shown |-> [r \in Robots |-> Idle],      \* byRobotId of the store
     pose |-> [r \in Robots |-> Null],       \* the run and step that last moved it
     latest |-> 0,                           \* latestTime
     last |-> 0,                             \* last, of the playback
     frame |-> FALSE,                        \* handle # null
     slot |-> [r \in Robots |-> NoAdvance],  \* advances
     settling |-> {},                        \* what quiesce() waits for
     quiesced |-> FALSE, disposed |-> FALSE,
     refused |-> FALSE]                      \* (history) an advance was rejected

Issued(j) == {i \in Runs : j.run[i] # NoRun}
Unused(j) == Runs \ Issued(j)

Entered(run) == IF run.ready = Null THEN run.started ELSE run.ready

Authoritative(j, i) ==
    LET robot == j.run[i].robot
    IN ~j.disposed /\ j.session[robot] = i
         /\ j.shown[robot].state = "RUNNING" /\ j.shown[robot].run = i

Running(j) == {r \in Robots : j.shown[r].state = "RUNNING"}

-----------------------------------------------------------------------------
(* How a run ends.                                                         *)

(* publishTerminal *)
RunEnded(j, i, state, at) ==
    LET run == j.run[i]
    IN IF ~Authoritative(j, i) \/ run.end # Null THEN j
       ELSE [j EXCEPT !.session[run.robot] = Null, !.run[i].end = <<state, at>>,
                      !.shown[run.robot] = [state |-> state, run |-> i, step |-> run.cursor]]

(* terminateDetached: the store already shows something else.              *)
Terminated(j, i) ==
    LET robot == j.run[i].robot
    IN [j EXCEPT !.session[robot] = IF @ = i THEN Null ELSE @,
                 !.run[i].end = IF @ = Null THEN <<"CANCELLED", j.run[i].last>> ELSE @]

-----------------------------------------------------------------------------
(* execute: met says whether the awaited signal is GOOD and as expected.   *)

(* The next instruction, entered at the given time.                        *)
Passed(j, i, at) ==
    [j EXCEPT !.run[i].cursor = @ + 1, !.run[i].ready = at,
              !.shown[j.run[i].robot].step = j.run[i].cursor + 1]

Moved(j, i) ==
    [j EXCEPT !.pose[j.run[i].robot] = <<i, j.run[i].cursor>>]

(* The loop goes on, stops, or has a tick wait for an external action.     *)
Go(j) == [j |-> j, going |-> TRUE]
Stop(j, i) == [j |-> [j EXCEPT !.run[i].tick = Null], going |-> FALSE]
Suspend(j, i, t) ==
    [j |-> [j EXCEPT !.run[i].tick = t, !.run[i].waiting = TRUE], going |-> FALSE]

(* One turn of the loop; after the last instruction the run has succeeded. *)
Turn(acc, i, t, met) ==
    LET run == acc.j.run[i]
        instruction == run.program[run.cursor]
        j == [acc.j EXCEPT !.run[i].last = t]
        done == Entered(run) + instruction.ticks
        over == acc.going /\ run.cursor > Len(run.program)
        at(kind) == acc.going /\ ~over /\ instruction.kind = kind
    IN CASE ~acc.going -> acc
         [] over -> Stop(RunEnded(acc.j, i, "SUCCEEDED", IF run.ready = Null THEN t ELSE run.ready), i)
         [] at("move") ->
              IF ~run.moved
              THEN Go(Passed([Moved(j, i) EXCEPT !.run[i].moved = TRUE], i, Entered(run)))
              ELSE IF t < done THEN Stop(Moved(j, i), i) ELSE Go(Passed(Moved(j, i), i, done))
         [] at("set") \/ at("attach") -> Suspend(j, i, t)
         [] at("wait") ->
              IF met THEN Go(Passed(j, i, t))
              ELSE IF t >= done THEN Stop(RunEnded(j, i, "FAILED", done), i) ELSE Stop(j, i)
         [] at("delay") ->
              IF t < done THEN Stop(j, i) ELSE Go(Passed(j, i, done))

Executed(j, i, t, met) ==
    LET run == j.run[i]
        turn(acc, k) == Turn(acc, i, t, met)
    IN IF ~Authoritative(j, i) THEN Stop(j, i).j
       ELSE FoldLeft(turn, Go(j), [k \in 1..(Len(run.program) - run.cursor + 2) |-> k]).j

-----------------------------------------------------------------------------
(* Playback.                                                               *)

EnsureRunning(j) ==
    IF j.disposed \/ j.quiesced \/ Running(j) = {} THEN j ELSE [j EXCEPT !.frame = TRUE]

AtLeast(a, b) == IF a = Null \/ a < b THEN b ELSE a

(* launch: the executor refuses a time before its latest.                  *)
Launched(j, robot, t, met) ==
    LET i == j.session[robot]
        free == [j EXCEPT !.slot[robot] = NoAdvance]
        timed == [j EXCEPT !.latest = t, !.slot[robot] = [run |-> i, next |-> Null]]
        executed == Executed(timed, i, t, met)
    IN IF j.disposed \/ j.quiesced THEN j
       ELSE IF j.slot[robot] # NoAdvance THEN [j EXCEPT !.slot[robot].next = AtLeast(@, t)]
       ELSE IF t < j.latest THEN EnsureRunning([free EXCEPT !.refused = TRUE])
       ELSE IF i = Null THEN EnsureRunning([free EXCEPT !.latest = t])
       ELSE IF executed.run[i].waiting THEN executed
       ELSE EnsureRunning([executed EXCEPT !.slot[robot] = NoAdvance])

(* An advance that was suspended is over.                                  *)
AdvanceOver(j, i, met) ==
    LET robot == j.run[i].robot
        settled == [j EXCEPT !.settling = @ \ {i}]
        free == [settled EXCEPT !.slot[robot] = NoAdvance]
        next == j.slot[robot].next
    IN IF j.run[i].waiting THEN j
       ELSE IF j.slot[robot].run # i THEN settled
       ELSE IF next # Null /\ ~j.disposed /\ ~j.quiesced /\ robot \in Running(j)
            THEN EnsureRunning(Launched(free, robot, next, met))
       ELSE EnsureRunning(free)

FrameFired(j, now, met) ==
    LET t == AtLeast(j.last, now)
        launch(k, robot) == Launched(k, robot, t, met)
    IN EnsureRunning(FoldLeft(launch, [j EXCEPT !.frame = FALSE, !.last = t],
                              SetToSeq(Running(j))))

(* Mutant: an answer moves its run, whether or not it is still in force.   *)
AnsweredUnchecked(j, i, ok, met) ==
    LET run == j.run[i]
        resumed == [j EXCEPT !.run[i].waiting = FALSE]
        ended == [RunEnded(resumed, i, "FAILED", Entered(run)) EXCEPT !.run[i].tick = Null]
        passed == Executed(Passed(resumed, i, Entered(run)), i, run.tick, met)
    IN AdvanceOver(IF ok THEN passed ELSE ended, i, met)

(* The awaited answer, whoever still waits for it.                         *)
Answered(j, i, ok, met) ==
    LET run == j.run[i]
        resumed == [j EXCEPT !.run[i].waiting = FALSE]
        ended == [RunEnded(resumed, i, "FAILED", Entered(run)) EXCEPT !.run[i].tick = Null]
        passed == Executed(Passed(resumed, i, Entered(run)), i, run.tick, met)
    IN AdvanceOver(IF ~Authoritative(j, i) THEN [resumed EXCEPT !.run[i].tick = Null]
                   ELSE IF ok THEN passed ELSE ended,
                   i, met)

(* startJob replaces the run of the robot, if there is one.                *)
JobStarted(j, robot, program, now) ==
    LET i == Min(Unused(j))
        t == AtLeast(j.last, now)
        prior == j.session[robot]
        started == [j EXCEPT !.run[i] = NewRun(robot, program, t), !.session[robot] = i,
                             !.shown[robot] = [state |-> "RUNNING", run |-> i, step |-> 1],
                             !.latest = t, !.last = t, !.slot[robot] = NoAdvance]
    IN EnsureRunning(IF prior = Null THEN started ELSE Terminated(started, prior))

(* cancelRobotJob *)
JobCancelled(j, robot) ==
    LET i == j.session[robot]
        over == IF i = Null THEN j
                ELSE IF Authoritative(j, i) THEN RunEnded(j, i, "CANCELLED", j.run[i].last)
                ELSE Terminated(j, i)
        freed == [over EXCEPT !.slot[robot] = NoAdvance]
    IN [freed EXCEPT !.frame = @ /\ Running(freed) # {}]

(* Mutant: the advances under way are forgotten, not waited for.           *)
QuiescedAtOnce(j) ==
    [j EXCEPT !.quiesced = TRUE, !.frame = FALSE, !.slot = [r \in Robots |-> NoAdvance],
              !.settling = {}]

(* quiesce, resume, and dispose with the executor's shutdown.              *)
Quiesced(j) ==
    LET active == {r \in Robots : j.slot[r] # NoAdvance}
    IN [j EXCEPT !.quiesced = TRUE, !.frame = FALSE,
                 !.slot = [r \in Robots |-> IF r \in active THEN [j.slot[r] EXCEPT !.next = Null]
                                            ELSE NoAdvance],
                 !.settling = {j.slot[r].run : r \in active}]

Resumed(j) == EnsureRunning([j EXCEPT !.quiesced = FALSE, !.settling = {}])

JobsDisposed(j) ==
    LET settle(k, i) == IF k.session[k.run[i].robot] = i THEN Terminated(k, i) ELSE k
    IN [FoldLeft(settle, j, SetToSeq(Issued(j)))
            EXCEPT !.disposed = TRUE, !.quiesced = TRUE, !.frame = FALSE,
                   !.shown = [r \in Robots |-> Idle]]
=============================================================================
