----------------------- MODULE ClientEndpoint_proofs -----------------------
(***************************************************************************)
(* Proofs about the endpoints of the client adapter, for every number of   *)
(* endpoints and channels and every scenario, in the composed              *)
(* specification WorkcellSpec: that a stopped endpoint leaves nothing      *)
(* behind (StopLeavesNothing of DataPlane), that one which was not stopped *)
(* always has something under way (EndpointNotStranded), and that the hub  *)
(* follows what the endpoints publish (HubFollowsEndpoint).                *)
(*                                                                         *)
(* None is inductive.  That no handle is open when a stop resolves         *)
(* rests on every open handle being owned or registered, also those that   *)
(* an overtaken attempt obtained while a pass was running, on passes       *)
(* starting over when such a handle came in, and on the stop being queued  *)
(* after the attempt has ended: OK says so.  That scheduleReconnect never  *)
(* declines without somebody else to bring the endpoint back rests on      *)
(* every handle left over having a cleanup asked for it, on the current    *)
(* attempt running alone, on the groups it has made, and on the failure    *)
(* epochs of the queued requests: Live says so.  EndpointInv is both, of   *)
(* every endpoint.                                                         *)
(*                                                                         *)
(* That the hub refuses no lifecycle message rests on each endpoint having *)
(* a source sequence left for the loss it may have to publish, and         *)
(* publishing it before anything else: LossOK says so.  What a step        *)
(* publishes leads, by a Run, from one View of an admission to one that    *)
(* Matches the record it leaves; a state whose stamp is ahead changes no   *)
(* view, so a view may be behind in states, while the session is live.     *)
(* A candidate's publications are staged in timelines that retain only     *)
(* part of them, in the order of Flattened; that the part leads to the     *)
(* same view, or behind it in states, is what Agrees says.  Hearing is all *)
(* that.                                                                   *)
(*                                                                         *)
(* The lemmas follow the module: first its helpers, which are functions    *)
(* from an endpoint's record to the next one, then its actions.            *)
(***************************************************************************)
EXTENDS Workcell, RobotJobs_proofs

-----------------------------------------------------------------------------
(* The inductive invariant of one endpoint.                                *)

(* The fields of an endpoint: what Fresh has.                              *)
Fields ==
    {"stopped", "generation", "connected", "sessionGeneration", "lossPublished", "nextSource",
     "task", "timer", "recovery", "cleanups", "pass", "cleanupFailed", "failureEpoch", "held",
     "residual", "open", "early", "retained", "sourceExhausted", "sessionExhausted", "halt",
     "halted"}

(* A place in the cleanup queue.                                           *)
Request == [by : {"recovery", "connect", "stop"}, epoch : Nat, joined : BOOLEAN]

(* A finite sequence, whatever its elements.                               *)
IsSequence(s) == s \in Seq(Range(s))

LEMMA SequenceOfItsValues ==
    ASSUME NEW S, NEW s \in Seq(S)
    PROVE  IsSequence(s)
<1>1. Len(s) \in Nat /\ s \in [1..Len(s) -> S] /\ DOMAIN s = 1..Len(s)
  OBVIOUS
<1>2. s \in [1..Len(s) -> Range(s)]
  BY <1>1 DEF Range
<1> QED BY <1>1, <1>2 DEF IsSequence

(* Nothing is a sequence, and so is one with an element more.              *)
LEMMA NothingIsSequence == IsSequence(<<>>)
<1>1. <<>> \in Seq(Range(<<>>))
  OBVIOUS
<1> QED BY <1>1 DEF IsSequence

LEMMA AppendedIsSequence ==
    ASSUME NEW s, IsSequence(s), NEW m
    PROVE  IsSequence(Append(s, m))
<1>. DEFINE t == Append(s, m)
            S == Range(s) \cup {m}
<1>1. t \in Seq(S) /\ s \in Seq(S)
  BY DEF IsSequence, Range
<1>. HIDE DEF S
<1> QED BY <1>1, SequenceOfItsValues

(* The part of the type that the argument needs: which fields there are,   *)
(* which of them are Boolean, that the queue is a sequence of requests,    *)
(* and the bounds of the counters.                                         *)
Shape(r) ==
    /\ DOMAIN r = Fields
    /\ {r.stopped, r.connected, r.timer, r.halted, r.recovery} \subseteq BOOLEAN
    /\ r.failureEpoch \in Nat
    /\ DOMAIN r.task = {"stage", "generation", "groups"}
    /\ DOMAIN r.halt = {"stage", "live", "epoch"}
    /\ r.cleanups \in Seq(Request)
    /\ IsSequence(r.early)
    /\ r.nextSource \in 1..(MaxSource + 1) /\ r.sessionGeneration \in 0..MaxSession

(* Every handle that the server still has is one the endpoint owns, keeps  *)
(* for a cleanup, or is about to register (H: what an overtaken attempt    *)
(* has just obtained).                                                     *)
Covered(r, H) == r.open \subseteq r.held \cup r.residual \cup H

(* The places in the cleanup queue that a stop waits for.                  *)
Stops(r) == {i \in 1..Len(r.cleanups) : r.cleanups[i].by = "stop"}

(* While a pass runs somebody has asked for it; a handle registered        *)
(* meanwhile has marked the pass dirty, so that another pass follows; and  *)
(* the pass a stop waits for has turned off the timer and the connection.  *)
PassOK(r) ==
    /\ DOMAIN r.pass = {"fresh", "failed", "dirty"}
    /\ r.cleanups # <<>>
    /\ r.pass.fresh # {} => r.pass.dirty
    /\ 1 \in Stops(r) => ~r.timer /\ ~r.connected

(* What StopLeavesNothing states, and that nothing can undo it: the        *)
(* endpoint is stopped.                                                    *)
HaltedOK(r) ==
    r.halted => /\ r.stopped /\ r.open = {} /\ ~r.connected /\ ~r.timer
                /\ r.task.stage = "none"

(* A stop under way keeps the endpoint stopped.  It is queued at most      *)
(* once, after the attempt that was under way has ended.                   *)
QueueOK(r) ==
    /\ r.halt.stage # "none" => r.stopped
    /\ Stops(r) # {} => r.stopped /\ r.halt.stage = "cleanup" /\ r.task.stage = "none"
    /\ \A i, j \in Stops(r) : i = j
    /\ r.pass # Null => PassOK(r)

(* The invariant of the record r of an endpoint, H being about to be       *)
(* registered.                                                             *)
OK(r, H) == Shape(r) /\ Covered(r, H) /\ HaltedOK(r) /\ QueueOK(r)

-----------------------------------------------------------------------------
(* The helpers of ClientEndpoint keep it.                                  *)

(* A new adapter (EndpointRuntimeV1 as constructed) satisfies the          *)
(* invariant.                                                              *)
LEMMA FreshOK == OK(Fresh, {})
<1>1. Shape(Fresh)
  <2>1. IsSequence(<<>>) /\ <<>> \in Seq(Request)
    BY NothingIsSequence
  <2> QED BY <2>1, EndpointAssumption DEF Shape, Fresh, Fields, NoTask, NoHalt
<1>2. Covered(Fresh, {}) /\ HaltedOK(Fresh) /\ QueueOK(Fresh)
  BY DEF Covered, HaltedOK, QueueOK, PassOK, Stops, Fresh, NoTask, NoHalt
<1> QED BY <1>1, <1>2 DEF OK

(* Raising the generation keeps the invariant and the attempt under way.   *)
LEMMA FenceOK ==
    ASSUME NEW r, OK(r, {})
    PROVE  OK(Fence(r), {}) /\ Fence(r).task = r.task
  BY NothingIsSequence
     DEF OK, Fence, ClearEarly, Shape, Covered, HaltedOK, QueueOK, PassOK, Stops, Fields

(* A recovery or an attempt that asks for a cleanup adds no stop to the    *)
(* queue.                                                                  *)
LEMMA EnqueueOK ==
    ASSUME NEW r, NEW H, OK(r, H), NEW by \in {"recovery", "connect"}
    PROVE  OK(Enqueue(r, by), H) /\ Enqueue(r, by).task = r.task
<1>. DEFINE q == [by |-> by, epoch |-> r.failureEpoch, joined |-> FALSE]
            s == Append(r.cleanups, q)
<1>1. q \in Request /\ r.cleanups \in Seq(Request)
  BY DEF OK, Shape, Request
<1>2. s \in Seq(Request) /\ Len(s) = Len(r.cleanups) + 1 /\ Len(r.cleanups) \in Nat
        /\ s[Len(s)].by # "stop"
        /\ \A i \in 1..Len(r.cleanups) : s[i] = r.cleanups[i]
  BY <1>1
<1>3. s # <<>>
  BY <1>2
<1> HIDE DEF s
<1>4. CASE ~r.cleanupFailed
  <2>. DEFINE n == [r EXCEPT !.cleanups = s]
  <2>1. Enqueue(r, by) = n
    BY <1>4 DEF Enqueue, s
  <2>2. Stops(n) = Stops(r)
    BY <1>2 DEF Stops, OK, Shape, Fields
  <2>3. Shape(n) /\ Covered(n, H) /\ HaltedOK(n)
    BY <1>2 DEF OK, Shape, Fields, Covered, HaltedOK
  <2>4. QueueOK(n)
    BY <1>2, <1>3, <2>2 DEF OK, Shape, Fields, QueueOK, PassOK
  <2> QED BY <2>1, <2>3, <2>4 DEF OK, Shape, Fields
<1>5. CASE r.cleanupFailed
  BY <1>5 DEF Enqueue
<1> QED BY <1>4, <1>5

(* scheduleReconnect sets the timer of a running endpoint only.            *)
LEMMA ScheduleReconnectOK ==
    ASSUME NEW r, NEW H, OK(r, H)
    PROVE  OK(ScheduleReconnect(r), H) /\ (r.stopped => ScheduleReconnect(r) = r)
<1>1. CASE ScheduleReconnect(r) = r
  BY <1>1
<1>2. CASE ScheduleReconnect(r) # r
  <2>. DEFINE n == [r EXCEPT !.timer = TRUE]
  <2>1. ScheduleReconnect(r) = n /\ ~r.stopped /\ r.cleanups = <<>>
    BY <1>2 DEF ScheduleReconnect, CleanupPending
  <2>2. n.pass = r.pass /\ n.pass = Null
    BY <2>1 DEF OK, Shape, Fields, QueueOK, PassOK
  <2>3. Shape(n) /\ Covered(n, H)
    BY DEF OK, Shape, Fields, Covered
  <2>4. HaltedOK(n)
    BY <2>1 DEF OK, Shape, Fields, HaltedOK
  <2>5. Stops(n) = Stops(r) /\ n.halt = r.halt /\ n.stopped = r.stopped /\ n.task = r.task
    BY DEF OK, Shape, Fields, Stops
  <2>6. QueueOK(n)
    BY <2>2, <2>5 DEF OK, QueueOK
  <2> QED BY <2>1, <2>3, <2>4, <2>6 DEF OK
<1> QED BY <1>1, <1>2

(* The end of an attempt keeps the invariant; of a stopped endpoint it     *)
(* changes nothing else.                                                   *)
LEMMA TaskOverOK ==
    ASSUME NEW r, NEW H, OK(r, H)
    PROVE  OK(TaskOver(r), H) /\ (r.stopped => TaskOver(r) = [r EXCEPT !.task = NoTask])
<1>1. OK([r EXCEPT !.task = NoTask], H)
        /\ [r EXCEPT !.task = NoTask].stopped = r.stopped
  BY DEF OK, Shape, Fields, Covered, HaltedOK, QueueOK, PassOK, Stops, NoTask
<1> QED BY <1>1, ScheduleReconnectOK DEF TaskOver

(* registerResidual: the handles that were still to be registered are      *)
(* covered afterwards, whether a pass runs or not.                         *)
LEMMA RegisterOK ==
    ASSUME NEW r, NEW H, OK(r, H), r.task.stage # "none"
    PROVE  /\ OK(Register(r, H), {})
           /\ Register(r, H).task = r.task
           /\ Register(r, H).cleanups = r.cleanups
<1>. DEFINE left == H \cap r.open
            add == left \ (r.residual \ r.pass.fresh)
<1>1. CASE left = {}
  BY <1>1 DEF Register, OK, Covered
<1>2. CASE left # {} /\ r.pass = Null
  BY <1>2 DEF Register, OK, Shape, Fields, Covered, HaltedOK, QueueOK, PassOK, Stops
<1>3. CASE left # {} /\ r.pass # Null
  <2>. DEFINE n == [r EXCEPT !.residual = @ \cup left,
                             !.pass.fresh = @ \cup add, !.pass.dirty = TRUE]
  <2>1. Register(r, H) = n
    BY <1>3 DEF Register
  <2>. HIDE DEF add
  <2>2. Shape(n) /\ Covered(n, {}) /\ HaltedOK(n) /\ n.task = r.task /\ n.cleanups = r.cleanups
    BY <1>3 DEF OK, Shape, Fields, Covered, HaltedOK
  <2>3. PassOK(n)
    BY <1>3, <2>2 DEF OK, Shape, Fields, QueueOK, PassOK, Stops
  <2>4. QueueOK(n)
    BY <1>3, <2>2, <2>3 DEF OK, Shape, Fields, QueueOK, Stops
  <2> QED BY <2>1, <2>2, <2>4 DEF OK
<1> QED BY <1>1, <1>2, <1>3

(* startConnect owns the client it opens.                                  *)
LEMMA StartConnectOK ==
    ASSUME NEW r, OK(r, {})
    PROVE  OK(StartConnect(r), {})
  BY DEF StartConnect, CleanupPending, OK, Shape, Fields, Covered, HaltedOK, QueueOK, PassOK, Stops

(* recover asks for a cleanup and keeps the attempt under way.             *)
LEMMA StartRecoveryOK ==
    ASSUME NEW r, OK(r, {})
    PROVE  OK(StartRecovery(r), {}) /\ StartRecovery(r).task = r.task
<1>1. OK(Enqueue(r, "recovery"), {}) /\ Enqueue(r, "recovery").task = r.task
  BY EnqueueOK
<1> QED BY <1>1 DEF StartRecovery, OK, Shape, Fields, Covered, HaltedOK, QueueOK, PassOK, Stops

(* A pass that begins turns off the timer and the connection.              *)
LEMMA BeginPassOK ==
    ASSUME NEW r, OK(r, {}), r.cleanups # <<>>
    PROVE  OK(BeginPass(r), {}) /\ PassOK(BeginPass(r))
  BY NothingIsSequence
     DEF BeginPass, OK, Shape, Fields, Covered, HaltedOK, QueueOK, PassOK, Stops

(* A handle that was closed is neither owned nor open any more, and its    *)
(* groups with it.                                                         *)
LEMMA RemovedOK ==
    ASSUME NEW r, OK(r, {}), PassOK(r), NEW h
    PROVE  OK(Removed(r, h), {}) /\ PassOK(Removed(r, h))
<1>. DEFINE gone == {h} \cup GroupsUnder(h, r.held)
                        \cup GroupsUnder(h, r.residual \ r.pass.fresh)
            n == [r EXCEPT !.held = @ \ gone, !.residual = @ \ gone, !.open = @ \ gone,
                           !.pass.failed = @ \ gone]
<1>1. Removed(r, h) = n
  BY DEF Removed
<1>. HIDE DEF gone
<1>2. Shape(n) /\ Covered(n, {}) /\ HaltedOK(n)
  BY DEF OK, Shape, Fields, Covered, HaltedOK
<1>3. PassOK(n)
  BY DEF OK, Shape, Fields, PassOK, Stops
<1>4. QueueOK(n)
  BY <1>3 DEF OK, Shape, Fields, QueueOK, Stops
<1> QED BY <1>1, <1>2, <1>3, <1>4 DEF OK

(* A handle that could not be closed stays owned and open.                 *)
LEMMA FailedOK ==
    ASSUME NEW r, OK(r, {}), PassOK(r), NEW h
    PROVE  /\ OK([r EXCEPT !.pass.failed = @ \cup {h}], {})
           /\ PassOK([r EXCEPT !.pass.failed = @ \cup {h}])
<1>. DEFINE n == [r EXCEPT !.pass.failed = @ \cup {h}]
<1>2. Shape(n) /\ Covered(n, {}) /\ HaltedOK(n)
  BY DEF OK, Shape, Fields, Covered, HaltedOK
<1>3. PassOK(n)
  BY DEF OK, Shape, Fields, PassOK, Stops
<1>4. QueueOK(n)
  BY <1>3 DEF OK, Shape, Fields, QueueOK, Stops
<1> QED BY <1>2, <1>3, <1>4 DEF OK

(* Once its promise is settled the request at the head leaves the queue,   *)
(* and the pass is over.                                                   *)
LEMMA PoppedOK ==
    ASSUME NEW r, OK(r, {}), r.cleanups # <<>>
    PROVE  LET popped == [r EXCEPT !.cleanups = Tail(@), !.pass = Null]
           IN OK(popped, {}) /\ OK([popped EXCEPT !.recovery = FALSE], {})
<1>. DEFINE request == Head(r.cleanups)
            popped == [r EXCEPT !.cleanups = Tail(@), !.pass = Null]
<1>1. r.cleanups \in Seq(Request) /\ Len(r.cleanups) \in Nat \ {0} /\ request = r.cleanups[1]
        /\ Tail(r.cleanups) \in Seq(Request)
        /\ Len(Tail(r.cleanups)) = Len(r.cleanups) - 1
        /\ \A i \in 1..(Len(r.cleanups) - 1) : Tail(r.cleanups)[i] = r.cleanups[i + 1]
  BY DEF OK, Shape
<1>2. Stops(popped) = {i \in 1..(Len(r.cleanups) - 1) : i + 1 \in Stops(r)}
  BY <1>1 DEF OK, Shape, Fields, Stops
<1>3. OK(popped, {})
  <2>1. Shape(popped) /\ Covered(popped, {}) /\ HaltedOK(popped)
    BY <1>1 DEF OK, Shape, Fields, Covered, HaltedOK
  <2>2. QueueOK(popped)
    BY <1>1, <1>2 DEF OK, Shape, Fields, QueueOK, Stops
  <2> QED BY <2>1, <2>2 DEF OK
<1>4. OK([popped EXCEPT !.recovery = FALSE], {})
  BY <1>3 DEF OK, Shape, Fields, Covered, HaltedOK, QueueOK, PassOK, Stops
<1> QED BY <1>3, <1>4

(* The request at the head settles.  A stop resolves only when no handle   *)
(* is open; that is the premise here, and EndPassOK and CleanupBeginsOK    *)
(* supply it.                                                              *)
LEMMA SettledOK ==
    ASSUME NEW r, OK(r, {}), NEW ok \in BOOLEAN, r.cleanups # <<>>,
           ok /\ 1 \in Stops(r) => r.open = {} /\ ~r.timer /\ ~r.connected
    PROVE  OK(Settled(r, ok), {})
<1>. DEFINE request == Head(r.cleanups)
            popped == [r EXCEPT !.cleanups = Tail(@), !.pass = Null]
            recovered == IF request.by # "recovery" THEN popped
                         ELSE IF ok THEN ScheduleReconnect([popped EXCEPT !.recovery = FALSE])
                         ELSE [popped EXCEPT !.recovery = FALSE]
            resumed == IF request.by = "connect" \/ request.joined THEN TaskOver(recovered)
                       ELSE recovered
            n == IF request.by = "stop" THEN [resumed EXCEPT !.halt = NoHalt, !.halted = ok]
                 ELSE resumed
<1>1. r.cleanups \in Seq(Request) /\ Len(r.cleanups) \in Nat \ {0} /\ request = r.cleanups[1]
        /\ Tail(r.cleanups) \in Seq(Request)
        /\ Len(Tail(r.cleanups)) = Len(r.cleanups) - 1
        /\ \A i \in 1..(Len(r.cleanups) - 1) : Tail(r.cleanups)[i] = r.cleanups[i + 1]
  BY DEF OK, Shape
<1>2. Stops(popped) = {i \in 1..(Len(r.cleanups) - 1) : i + 1 \in Stops(r)}
  BY SMTT(30), <1>1 DEF OK, Shape, Fields, Stops
<1>3. OK(popped, {})
  BY PoppedOK
<1>4. OK([popped EXCEPT !.recovery = FALSE], {})
  BY PoppedOK
<1>5. OK(recovered, {}) /\ (request.by = "stop" => recovered = popped)
  BY <1>3, <1>4, ScheduleReconnectOK
<1>6. OK(resumed, {})
  BY <1>5, TaskOverOK
<1>7. CASE request.by = "stop"
  <2>1. 1 \in Stops(r) /\ r.stopped /\ r.task.stage = "none"
    BY <1>1, <1>7 DEF OK, Shape, Stops, QueueOK
  <2>2. popped.stopped /\ popped.timer = r.timer /\ popped.connected = r.connected
          /\ popped.open = r.open /\ popped.task.stage = "none"
          /\ popped.task = r.task /\ popped.cleanups = Tail(r.cleanups)
          /\ popped.pass = Null /\ DOMAIN popped = Fields
    BY <2>1 DEF OK, Shape, Fields
  <2>3. resumed \in {popped, [popped EXCEPT !.task = NoTask]}
    BY <1>5, <1>7, <2>2, TaskOverOK
  <2>. HIDE DEF popped, recovered, resumed
  <2>4. resumed.stopped /\ resumed.timer = r.timer /\ resumed.connected = r.connected
          /\ resumed.open = r.open /\ resumed.task.stage = "none"
          /\ resumed.cleanups = popped.cleanups /\ resumed.pass = Null
    <3>1. CASE resumed = popped
      BY <2>2, <3>1
    <3>2. CASE resumed = [popped EXCEPT !.task = NoTask]
      BY <2>2, <3>2 DEF NoTask, Fields
    <3> QED BY <2>3, <3>1, <3>2
  <2>5. Stops(resumed) = {}
    <3>1. Stops(popped) = {}
      BY <1>1, <1>2, <2>1 DEF OK, QueueOK, Stops
    <3> QED BY <3>1, <2>4 DEF Stops
  <2>. DEFINE s == [resumed EXCEPT !.halt = NoHalt, !.halted = ok]
  <2>6. Stops(s) = {}
    BY <1>6, <2>5 DEF OK, Shape, Fields, Stops
  <2>7. Shape(s) /\ Covered(s, {}) /\ HaltedOK(s)
    BY <1>6, <2>1, <2>4 DEF OK, Shape, Fields, Covered, HaltedOK, NoHalt
  <2>8. QueueOK(s)
    BY <1>6, <2>4, <2>6 DEF OK, Shape, Fields, QueueOK, NoHalt
  <2>9. n = s
    BY <1>7
  <2>10. Settled(r, ok) = n
    BY DEF Settled, resumed, recovered, popped
  <2> QED BY <2>7, <2>8, <2>9, <2>10 DEF OK
<1>8. CASE request.by # "stop"
  BY <1>6, <1>8 DEF Settled
<1> QED BY <1>7, <1>8

(* A pass that has tried everything settles the request: with success only *)
(* if nothing is owned and no handle was registered meanwhile, hence       *)
(* nothing is open.                                                        *)
LEMMA EndPassOK ==
    ASSUME NEW r, OK(r, {}), PassOK(r)
    PROVE  OK(EndPass(r), {})
<1>1. CASE ToClose(r) # {}
  BY <1>1 DEF EndPass
<1>2. CASE ToClose(r) = {} /\ r.pass.failed # {}
  <2>. DEFINE n == [r EXCEPT !.cleanupFailed = TRUE, !.failureEpoch = @ + 1]
  <2>1. OK(n, {}) /\ n.cleanups = r.cleanups
    BY DEF OK, Shape, Fields, Covered, HaltedOK, QueueOK, PassOK, Stops
  <2>2. n.cleanups # <<>>
    BY <2>1 DEF PassOK
  <2>3. EndPass(r) = Settled(n, FALSE)
    BY <1>2 DEF EndPass
  <2>. HIDE DEF n
  <2> QED BY <2>1, <2>2, <2>3, SettledOK
<1>3. CASE ToClose(r) = {} /\ r.pass.failed = {} /\ r.pass.dirty /\ HasHandles(r)
  BY <1>3, BeginPassOK DEF EndPass, PassOK
<1>4. CASE ToClose(r) = {} /\ r.pass.failed = {} /\ ~(r.pass.dirty /\ HasHandles(r))
  <2>. DEFINE n == [r EXCEPT !.cleanupFailed = @ /\ HasHandles(r)]
  <2>1. r.held = {} /\ r.residual \subseteq r.pass.fresh
    BY <1>4 DEF ToClose
  <2>2. r.open = {}
    BY <1>4, <2>1 DEF OK, Covered, PassOK, HasHandles
  <2>3. OK(n, {}) /\ n.cleanups = r.cleanups /\ n.open = r.open /\ n.timer = r.timer
          /\ n.connected = r.connected
    BY DEF OK, Shape, Fields, Covered, HaltedOK, QueueOK, PassOK, Stops
  <2>4. EndPass(r) = Settled(n, TRUE)
    BY <1>4 DEF EndPass
  <2>5. Stops(n) = Stops(r)
    BY <2>3 DEF Stops
  <2>. HIDE DEF n
  <2> QED BY <2>2, <2>3, <2>4, <2>5, SettledOK DEF PassOK
<1> QED BY <1>1, <1>2, <1>3, <1>4

-----------------------------------------------------------------------------
(* What keeps an endpoint from being stranded.                             *)

(* The attempt under way is the current one.                               *)
Own(r) == InAttempt(r) /\ r.task.generation = r.generation

(* A cleanup is queued, or none will be made before the next start.        *)
Asked(r) == r.cleanups # <<>> \/ r.cleanupFailed \/ r.stopped

(* The current attempt runs alone, and has the groups of the channels it   *)
(* has gone through.                                                       *)
AttemptOK(r) ==
    Own(r) => /\ ~r.stopped /\ ~r.connected /\ r.cleanups = <<>>
              /\ r.task.groups \in Nat
              /\ r.task.stage # "monitor" => r.task.groups = 0
              /\ r.task.stage = "namespaces" => Channels # {}
              /\ r.task.stage = "monitor" => r.task.groups + 1 \in Channels
              /\ \A c \in Channels : c <= r.task.groups => Group(r.generation, c) \in r.held

(* A connected endpoint hears its server, or a rejected stop left it deaf; *)
(* no pass is closing its handles.                                         *)
ConnectedOK(r) == r.connected => (Hears(r) \/ Deaf(r)) /\ r.pass = Null

(* The requests of an earlier failure epoch are ahead of the others, and   *)
(* are left only while the failure lasts.                                  *)
EpochsOK(r) ==
    /\ \A i \in 1..Len(r.cleanups) : r.cleanups[i].epoch <= r.failureEpoch
    /\ \A i, j \in 1..Len(r.cleanups) :
          i <= j /\ r.cleanups[i].epoch = r.failureEpoch
             => r.cleanups[j].epoch = r.failureEpoch
    /\ ~r.cleanupFailed =>
          \A i \in 1..Len(r.cleanups) : r.cleanups[i].epoch = r.failureEpoch

(* Neither the attempt nor a handle is of a generation to come.            *)
NumbersOK(r) ==
    /\ r.generation \in Nat /\ r.task.generation \in Nat
    /\ r.task.generation <= r.generation
    /\ \A h \in r.held : h[2] \in Nat /\ h[2] <= r.generation

Core(r) == AttemptOK(r) /\ ConnectedOK(r) /\ EpochsOK(r) /\ NumbersOK(r)

(* Only a request of the present epoch gets a pass.                        *)
PassEpoch(r) == r.pass # Null => r.cleanups[1].epoch = r.failureEpoch

(* What is kept for a cleanup has been asked for.                          *)
Steady(r) == Core(r) /\ PassEpoch(r) /\ (r.residual # {} => Asked(r))

(* So have the handles of an endpoint that is not connected, unless the    *)
(* current attempt is using them.                                          *)
HeldAsked(r) == r.held # {} /\ ~r.connected => Asked(r) \/ Own(r)

(* EndpointNotStranded of one endpoint.                                    *)
CaredFor(r) ==
    \/ r.stopped \/ Exhausted(r) \/ r.cleanupFailed \/ Deaf(r)
    \/ Hears(r) \/ r.timer \/ r.recovery \/ r.task.stage # "none" \/ r.cleanups # <<>>

Live(r) == Steady(r) /\ HeldAsked(r) /\ CaredFor(r)

LEMMA ChannelsAre == \E n \in Nat : Channels = 1..n
  BY HubAssumption, FS_CardinalityType

(* Two records that these do not tell apart, except that the second may    *)
(* have run out of numbers.                                                *)
SameLife(r, s) ==
    /\ s.stopped = r.stopped /\ s.connected = r.connected /\ s.task = r.task
    /\ s.timer = r.timer /\ s.recovery = r.recovery /\ s.cleanups = r.cleanups
    /\ s.pass = r.pass /\ s.cleanupFailed = r.cleanupFailed
    /\ s.failureEpoch = r.failureEpoch /\ s.held = r.held
    /\ s.residual = r.residual /\ s.generation = r.generation
    /\ Exhausted(r) => Exhausted(s)

LEMMA SameLifeLive ==
    ASSUME NEW r, NEW s, SameLife(r, s)
    PROVE  /\ Core(r) => Core(s)
           /\ Steady(r) => Steady(s)
           /\ HeldAsked(r) => HeldAsked(s)
           /\ Live(r) => Live(s)
<1>1. Core(r) => Core(s)
  BY DEF SameLife, Core, AttemptOK, ConnectedOK, EpochsOK, NumbersOK, Own, InAttempt,
         Hears, Deaf
<1>2. Steady(r) => Steady(s)
  BY <1>1 DEF SameLife, Steady, PassEpoch, Asked
<1>3. HeldAsked(r) => HeldAsked(s)
  BY DEF SameLife, HeldAsked, Asked, Own, InAttempt
<1>4. CaredFor(r) => CaredFor(s)
  BY DEF SameLife, CaredFor, Hears, Deaf
<1> QED BY <1>1, <1>2, <1>3, <1>4 DEF Live

(* With a cleanup queued nothing else is needed.                           *)
LEMMA QueuedLive ==
    ASSUME NEW r, Core(r), PassEpoch(r), r.cleanups # <<>>
    PROVE  Live(r)
  BY DEF Live, Steady, HeldAsked, CaredFor, Asked

(* A new adapter's endpoint is stopped.                                    *)
LEMMA FreshLive == Live(Fresh)
  BY DEF Live, Steady, Core, AttemptOK, ConnectedOK, EpochsOK, NumbersOK, PassEpoch, HeldAsked,
         CaredFor, Asked, Own, InAttempt, Fresh, NoTask

(* After a fence there is no current attempt and no connection.            *)
LEMMA FenceLive ==
    ASSUME NEW r, Shape(r), Steady(r)
    PROVE  Steady(Fence(r)) /\ ~Own(Fence(r))
<1>. DEFINE n == Fence(r)
<1>1. /\ n.generation = r.generation + 1 /\ n.connected = FALSE /\ n.task = r.task
      /\ n.cleanups = r.cleanups /\ n.failureEpoch = r.failureEpoch
      /\ n.cleanupFailed = r.cleanupFailed /\ n.pass = r.pass /\ n.held = r.held
      /\ n.residual = r.residual /\ n.stopped = r.stopped
  BY DEF Fence, ClearEarly, Shape, Fields
<1>. HIDE DEF n
<1>2. ~Own(n) /\ NumbersOK(n)
  BY <1>1 DEF Steady, Core, NumbersOK, Own
<1>3. EpochsOK(n) /\ PassEpoch(n) /\ (n.residual # {} => Asked(n))
  BY <1>1 DEF Steady, Core, EpochsOK, PassEpoch, Asked
<1> QED BY <1>1, <1>2, <1>3 DEF Steady, Core, AttemptOK, ConnectedOK, n

(* One more request in the queue, of the present epoch.                    *)
LEMMA QueuedOnceMore ==
    ASSUME NEW r, Shape(r), Core(r), PassEpoch(r), ~Own(r),
           NEW by \in {"recovery", "connect", "stop"}
    PROVE  Live([r EXCEPT !.cleanups = Append(@, [by |-> by, epoch |-> r.failureEpoch,
                                                  joined |-> FALSE])])
<1>. DEFINE q == [by |-> by, epoch |-> r.failureEpoch, joined |-> FALSE]
            s == Append(r.cleanups, q)
            n == [r EXCEPT !.cleanups = s]
<1>1. q \in Request /\ r.cleanups \in Seq(Request) /\ q.epoch = r.failureEpoch
  BY DEF Shape, Request
<1>. HIDE DEF q
<1>2. /\ s \in Seq(Request) /\ Len(s) = Len(r.cleanups) + 1 /\ Len(r.cleanups) \in Nat
      /\ s[Len(s)].epoch = r.failureEpoch
      /\ \A i \in 1..Len(r.cleanups) : s[i] = r.cleanups[i]
      /\ r.failureEpoch \in Nat
  BY <1>1 DEF Shape
<1>3. s # <<>>
  <2>1. Len(s) # 0 /\ Len(<<>>) = 0
    BY <1>2
  <2> QED BY <2>1
<1>. HIDE DEF s
<1>4. /\ n.cleanups = s /\ n.generation = r.generation /\ n.connected = r.connected
      /\ n.task = r.task /\ n.failureEpoch = r.failureEpoch
      /\ n.cleanupFailed = r.cleanupFailed /\ n.pass = r.pass /\ n.held = r.held
      /\ n.residual = r.residual /\ n.stopped = r.stopped
  BY DEF Shape, Fields
<1>. HIDE DEF n
<1>5. AttemptOK(n) /\ ConnectedOK(n) /\ NumbersOK(n)
  BY <1>4 DEF Core, AttemptOK, ConnectedOK, NumbersOK, Own, InAttempt, Hears, Deaf
<1>6. EpochsOK(n)
  <2>1. \A i \in 1..Len(s) : i \in 1..Len(r.cleanups) \/ i = Len(s)
    BY <1>2
  <2>2. \A i \in 1..Len(s) : s[i].epoch <= r.failureEpoch
    BY <1>2, <2>1 DEF Core, EpochsOK
  <2>3. \A i, j \in 1..Len(s) :
           i <= j /\ s[i].epoch = r.failureEpoch => s[j].epoch = r.failureEpoch
    BY <1>2, <2>1 DEF Core, EpochsOK
  <2>4. ~r.cleanupFailed => \A i \in 1..Len(s) : s[i].epoch = r.failureEpoch
    BY <1>2, <2>1 DEF Core, EpochsOK
  <2> QED BY <1>4, <2>2, <2>3, <2>4 DEF EpochsOK
<1>7. PassEpoch(n)
  <2>1. s[1].epoch = r.cleanups[1].epoch \/ s[1].epoch = r.failureEpoch
    BY <1>2
  <2> QED BY <1>4, <2>1 DEF PassEpoch
<1>8. Live(n)
  BY <1>3, <1>4, <1>5, <1>6, <1>7, QueuedLive DEF Core
<1> QED BY <1>8 DEF n, s, q

(* A recovery or an attempt that asks for a cleanup will get one, or the   *)
(* failure of the last one lasts.                                          *)
LEMMA EnqueueLive ==
    ASSUME NEW r, Shape(r), Core(r), PassEpoch(r), ~Own(r), NEW by \in {"recovery", "connect"}
    PROVE  LET n == Enqueue(r, by)
           IN /\ n.cleanupFailed = r.cleanupFailed
              /\ r.cleanupFailed \/ n.cleanups # <<>>
              /\ Core(n) /\ PassEpoch(n) /\ (~r.cleanupFailed => Live(n))
<1>. DEFINE q == [by |-> by, epoch |-> r.failureEpoch, joined |-> FALSE]
            n == [r EXCEPT !.cleanups = Append(@, q)]
<1>1. CASE r.cleanupFailed
  BY <1>1 DEF Enqueue
<1>2. CASE ~r.cleanupFailed
  <2>1. Enqueue(r, by) = n
    BY <1>2 DEF Enqueue
  <2>2. Live(n)
    BY QueuedOnceMore
  <2>3. r.cleanups \in Seq(Request) /\ q \in Request
    BY DEF Shape, Request
  <2>. HIDE DEF q
  <2>4. Append(r.cleanups, q) # <<>>
    BY <2>3
  <2>5. n.cleanupFailed = r.cleanupFailed /\ n.cleanups # <<>>
    BY <2>4 DEF Shape, Fields
  <2>. HIDE DEF n
  <2> QED BY <2>1, <2>2, <2>5 DEF Live, Steady
<1> QED BY <1>1, <1>2

(* A recovery is waited for, or the last cleanup failed.                   *)
LEMMA StartRecoveryLive ==
    ASSUME NEW r, OK(r, {}), Steady(r), ~Own(r)
    PROVE  Live(StartRecovery(r))
<1>. DEFINE m == Enqueue(r, "recovery")
            n == [m EXCEPT !.recovery = ~r.cleanupFailed]
<1>1. /\ m.cleanupFailed = r.cleanupFailed /\ (r.cleanupFailed \/ m.cleanups # <<>>)
      /\ Core(m) /\ PassEpoch(m)
  BY EnqueueLive DEF OK, Steady
<1>2. Shape(m)
  BY EnqueueOK DEF OK
<1>. HIDE DEF m
<1>3. StartRecovery(r) = n
  BY DEF StartRecovery, m
<1>4. n.cleanupFailed = r.cleanupFailed /\ n.cleanups = m.cleanups
  BY <1>1, <1>2 DEF Shape, Fields
<1>5. Core(n) /\ PassEpoch(n)
  <2>1. /\ n.generation = m.generation /\ n.connected = m.connected
        /\ n.task = m.task /\ n.failureEpoch = m.failureEpoch
        /\ n.cleanupFailed = m.cleanupFailed /\ n.pass = m.pass /\ n.held = m.held
        /\ n.residual = m.residual /\ n.stopped = m.stopped
    BY <1>2 DEF Shape, Fields
  <2>. HIDE DEF n
  <2> QED BY <1>1, <1>4, <2>1 DEF Core, AttemptOK, ConnectedOK, EpochsOK, NumbersOK, PassEpoch,
             Own, InAttempt, Hears, Deaf
<1>. HIDE DEF n
<1>6. Asked(n) /\ CaredFor(n)
  BY <1>1, <1>4 DEF Asked, CaredFor
<1> QED BY <1>3, <1>5, <1>6 DEF Live, Steady, HeldAsked

(* scheduleReconnect sets the timer, or something else is under way.       *)
LEMMA ScheduleReconnectLive ==
    ASSUME NEW r, Shape(r), Steady(r), HeldAsked(r)
    PROVE  Live(ScheduleReconnect(r))
<1>. DEFINE n == [r EXCEPT !.timer = TRUE]
<1>1. n.timer /\ Steady(n) /\ HeldAsked(n)
  <2>1. /\ n.timer = TRUE /\ n.generation = r.generation /\ n.connected = r.connected
        /\ n.task = r.task /\ n.failureEpoch = r.failureEpoch /\ n.cleanups = r.cleanups
        /\ n.cleanupFailed = r.cleanupFailed /\ n.pass = r.pass /\ n.held = r.held
        /\ n.residual = r.residual /\ n.stopped = r.stopped
    BY DEF Shape, Fields
  <2>. HIDE DEF n
  <2> QED BY <2>1 DEF Steady, Core, AttemptOK, ConnectedOK, EpochsOK, NumbersOK, PassEpoch,
             HeldAsked, Asked, Own, InAttempt, Hears, Deaf
<1>. HIDE DEF n
<1>2. CASE ScheduleReconnect(r) = n
  BY <1>1, <1>2 DEF Live, CaredFor
<1>3. CASE ScheduleReconnect(r) # n
  <2>1. ScheduleReconnect(r) = r
    BY <1>3 DEF ScheduleReconnect, n
  <2>2. r.stopped \/ Exhausted(r) \/ r.timer \/ r.recovery \/ Connecting(r) \/ r.connected
           \/ CleanupPending(r)
    BY <1>3 DEF ScheduleReconnect, n
  <2>3. Connecting(r) => r.task.stage # "none"
    BY DEF Connecting
  <2>4. r.connected => Hears(r) \/ Deaf(r)
    BY DEF Steady, Core, ConnectedOK
  <2>5. CleanupPending(r) => Asked(r) \/ Own(r)
    BY DEF CleanupPending, HasHandles, Steady, HeldAsked, Asked
  <2>6. Own(r) => r.task.stage # "none"
    BY DEF Own, InAttempt
  <2>7. CaredFor(r)
    BY <2>2, <2>3, <2>4, <2>5, <2>6 DEF CaredFor, Asked
  <2> QED BY <2>1, <2>7 DEF Live
<1> QED BY <1>2, <1>3

(* The end of an attempt, when what it made has been seen to.              *)
LEMMA TaskOverLive ==
    ASSUME NEW r, NEW H, OK(r, H), Steady(r), r.held # {} /\ ~r.connected => Asked(r)
    PROVE  Live(TaskOver(r))
<1>. DEFINE n == [r EXCEPT !.task = NoTask]
<1>1. Shape(n)
  BY DEF OK, Shape, Fields, NoTask
<1>2. /\ n.task = NoTask /\ n.generation = r.generation /\ n.connected = r.connected
      /\ n.failureEpoch = r.failureEpoch /\ n.cleanups = r.cleanups
      /\ n.cleanupFailed = r.cleanupFailed /\ n.pass = r.pass /\ n.held = r.held
      /\ n.residual = r.residual /\ n.stopped = r.stopped
  BY DEF OK, Shape, Fields
<1>3. TaskOver(r) = ScheduleReconnect(n)
  BY DEF TaskOver
<1>. HIDE DEF n
<1>4. ~Own(n)
  BY <1>2 DEF Own, InAttempt, NoTask
<1>5. AttemptOK(n) /\ ConnectedOK(n) /\ EpochsOK(n) /\ PassEpoch(n) /\ HeldAsked(n)
        /\ (n.residual # {} => Asked(n))
  BY <1>2, <1>4 DEF Steady, Core, AttemptOK, ConnectedOK, EpochsOK, PassEpoch, HeldAsked, Asked,
     Hears, Deaf
<1>6. NumbersOK(n)
  BY <1>2 DEF Steady, Core, NumbersOK, NoTask
<1> QED BY <1>1, <1>3, <1>5, <1>6, ScheduleReconnectLive DEF Steady, Core

(* registerResidual touches nothing but what is kept for a cleanup and the *)
(* pass under way.                                                         *)
LEMMA RegisterCore ==
    ASSUME NEW r, NEW H, NEW G, OK(r, G), Core(r), PassEpoch(r)
    PROVE  LET n == Register(r, H)
           IN /\ Core(n) /\ PassEpoch(n) /\ n.task = r.task /\ n.cleanups = r.cleanups
              /\ n.cleanupFailed = r.cleanupFailed /\ n.stopped = r.stopped
              /\ n.held = r.held
<1>. DEFINE n == Register(r, H)
<1>1. /\ n.task = r.task /\ n.generation = r.generation /\ n.connected = r.connected
      /\ n.failureEpoch = r.failureEpoch /\ n.cleanups = r.cleanups
      /\ n.cleanupFailed = r.cleanupFailed /\ n.held = r.held /\ n.stopped = r.stopped
  BY DEF Register, OK, Shape, Fields
<1>2. r.pass = Null => n.pass = Null
  BY DEF Register, OK, Shape, Fields
<1>. HIDE DEF n
<1>3. Core(n) /\ PassEpoch(n)
  BY <1>1, <1>2 DEF Core, AttemptOK, ConnectedOK, EpochsOK, NumbersOK, PassEpoch, Own, InAttempt,
     Hears, Deaf
<1> QED BY <1>1, <1>3 DEF n

(* An attempt that waits for a cleanup has one to wait for.                *)
LEMMA AwaitCleanupLive ==
    ASSUME NEW r, OK(r, {}), Core(r), PassEpoch(r), r.task.stage # "none",
           NEW stage \in {"closing", "lateGroup"},
           NEW joins \in BOOLEAN, joins => r.cleanups # <<>>
    PROVE  Live(AwaitCleanup(r, stage, joins))
<1>. DEFINE waiting == [r EXCEPT !.task.stage = stage]
<1>1. Shape(waiting)
  BY DEF OK, Shape, Fields
<1>2. /\ waiting.task.stage = stage /\ waiting.task.generation = r.task.generation
      /\ waiting.generation = r.generation /\ waiting.connected = r.connected
      /\ waiting.failureEpoch = r.failureEpoch /\ waiting.cleanups = r.cleanups
      /\ waiting.cleanupFailed = r.cleanupFailed /\ waiting.pass = r.pass
      /\ waiting.held = r.held /\ waiting.residual = r.residual /\ waiting.stopped = r.stopped
  BY DEF OK, Shape, Fields
<1>3. AwaitCleanup(r, stage, joins)
        = IF joins THEN JoinCleanup(waiting)
          ELSE IF r.cleanupFailed THEN TaskOver(r) ELSE Enqueue(waiting, "connect")
  BY DEF AwaitCleanup
<1>. HIDE DEF waiting
<1>4. ~Own(waiting)
  BY <1>2 DEF Own, InAttempt
<1>5. Core(waiting) /\ PassEpoch(waiting)
  BY <1>2, <1>4 DEF Core, AttemptOK, ConnectedOK, EpochsOK, NumbersOK, PassEpoch, Hears, Deaf
<1>6. CASE joins
  <2>. DEFINE q == [waiting.cleanups[1] EXCEPT !.joined = TRUE]
              s == [waiting.cleanups EXCEPT ![1] = q]
              n == [waiting EXCEPT !.cleanups = s]
  <2>1. waiting.cleanups \in Seq(Request) /\ Len(waiting.cleanups) \in Nat \ {0}
    BY <1>1, <1>2, <1>6 DEF Shape
  <2>2. q.epoch = waiting.cleanups[1].epoch
    <3>1. waiting.cleanups[1] \in Request
      BY <2>1
    <3> QED BY <3>1 DEF Request
  <2>. HIDE DEF q
  <2>3. Len(s) = Len(waiting.cleanups) /\ s # <<>>
    BY <2>1
  <2>4. \A i \in 1..Len(s) : s[i].epoch = waiting.cleanups[i].epoch
    BY <2>1, <2>2, <2>3
  <2>5. JoinCleanup(waiting) = n
    BY DEF JoinCleanup, q
  <2>. HIDE DEF s
  <2>6. /\ n.cleanups = s /\ n.task = waiting.task
        /\ n.generation = waiting.generation /\ n.connected = waiting.connected
        /\ n.failureEpoch = waiting.failureEpoch
        /\ n.cleanupFailed = waiting.cleanupFailed /\ n.pass = waiting.pass
        /\ n.held = waiting.held /\ n.stopped = waiting.stopped
    BY <1>1 DEF Shape, Fields
  <2>. HIDE DEF n
  <2>7. AttemptOK(n) /\ ConnectedOK(n) /\ NumbersOK(n)
    BY <1>4, <1>5, <2>6 DEF Core, AttemptOK, ConnectedOK, NumbersOK, Own, InAttempt, Hears, Deaf
  <2>8. EpochsOK(n)
    BY <1>5, <2>3, <2>4, <2>6 DEF Core, EpochsOK
  <2>9. 1 \in 1..Len(s)
    BY <2>1, <2>3
  <2>10. PassEpoch(n)
    BY <1>5, <2>4, <2>6, <2>9 DEF PassEpoch
  <2>11. Live(n)
    BY <2>3, <2>6, <2>7, <2>8, <2>10, QueuedLive DEF Core
  <2> QED BY <1>3, <1>6, <2>5, <2>11
<1>7. CASE ~joins /\ r.cleanupFailed
  <2>1. Steady(r) /\ Asked(r)
    BY <1>7 DEF Steady, Asked
  <2>2. Live(TaskOver(r))
    BY <2>1, TaskOverLive
  <2> QED BY <1>3, <1>7, <2>2
<1>8. CASE ~joins /\ ~r.cleanupFailed
  BY <1>1, <1>2, <1>3, <1>4, <1>5, <1>8, EnqueueLive
<1> QED BY <1>6, <1>7, <1>8

(* An attempt that is over has left nothing uncared for.                   *)
LEMMA LeaveLive ==
    ASSUME NEW r, OK(r, {h \in r.open : h[2] = r.task.generation}), r.task.stage # "none",
           Core(r), PassEpoch(r)
    PROVE  Live(Leave(r))
<1>. DEFINE made == {h \in r.open : h[2] = r.task.generation}
            left == Register(r, made)
<1>1. OK(left, {}) /\ left.task = r.task /\ left.cleanups = r.cleanups
  BY RegisterOK
<1>2. Core(left) /\ PassEpoch(left)
  BY RegisterCore
<1>3. Joins(r, made) \in BOOLEAN /\ (Joins(r, made) => r.cleanups # <<>>)
  BY DEF Joins, OK, QueueOK, PassOK
<1>4. Leave(r) = IF ~Joins(r, made) /\ (~HasHandles(left) \/ left.stopped) THEN TaskOver(left)
                 ELSE AwaitCleanup(left, "closing", Joins(r, made))
  BY DEF Leave
<1>. HIDE DEF made, left
<1>5. left.task.stage # "none"
  BY <1>1
<1>6. Live(AwaitCleanup(left, "closing", Joins(r, made)))
  BY <1>1, <1>2, <1>3, <1>5, AwaitCleanupLive
<1>7. ASSUME ~HasHandles(left) \/ left.stopped PROVE Live(TaskOver(left))
  <2>1. Steady(left) /\ (left.held # {} /\ ~left.connected => Asked(left))
    BY <1>2, <1>7 DEF Steady, Asked, HasHandles
  <2> QED BY <1>1, <2>1, TaskOverLive
<1> QED BY <1>4, <1>6, <1>7

LEMMA LeaveLateGroupLive ==
    ASSUME NEW r, NEW h, OK(r, {h}), r.task.stage # "none", Core(r), PassEpoch(r)
    PROVE  Live(LeaveLateGroup(r, h))
<1>. DEFINE left == Register(r, {h})
<1>1. OK(left, {}) /\ left.task = r.task /\ left.cleanups = r.cleanups
  BY RegisterOK
<1>2. Core(left) /\ PassEpoch(left)
  BY RegisterCore
<1>3. Joins(r, {h}) \in BOOLEAN /\ (Joins(r, {h}) => r.cleanups # <<>>)
  BY DEF Joins, OK, QueueOK, PassOK
<1>. HIDE DEF left
<1>4. left.task.stage # "none"
  BY <1>1
<1>5. Live(AwaitCleanup(left, "lateGroup", Joins(r, {h})))
  BY <1>1, <1>2, <1>3, <1>4, AwaitCleanupLive
<1> QED BY <1>5 DEF LeaveLateGroup, left

(* startConnect starts the current attempt, or something else is under     *)
(* way.                                                                    *)
LEMMA StartConnectLive ==
    ASSUME NEW r, OK(r, {}), Steady(r), HeldAsked(r)
    PROVE  Live(StartConnect(r))
<1>. DEFINE t == [stage |-> "connect", generation |-> r.generation, groups |-> 0]
            n == [r EXCEPT !.task = t,
                           !.held = @ \cup {Client(r.generation)},
                           !.open = @ \cup {Client(r.generation)}]
            may == ~(\/ r.task.stage # "none" \/ Exhausted(r) \/ CleanupPending(r)
                     \/ r.stopped \/ r.connected \/ r.recovery)
<1>1. StartConnect(r) = IF may THEN n ELSE r
  BY DEF StartConnect
<1>2. CASE may
  <2>1. /\ n.task = [stage |-> "connect", generation |-> r.generation, groups |-> 0]
        /\ n.generation = r.generation /\ n.connected = r.connected
        /\ n.failureEpoch = r.failureEpoch /\ n.cleanups = r.cleanups
        /\ n.cleanupFailed = r.cleanupFailed /\ n.pass = r.pass
        /\ n.held = r.held \cup {Client(r.generation)}
        /\ n.residual = r.residual /\ n.stopped = r.stopped
    BY DEF OK, Shape, Fields
  <2>2. /\ ~r.stopped /\ ~r.connected /\ r.cleanups = <<>> /\ r.residual = {}
        /\ r.generation \in Nat
    BY <1>2 DEF CleanupPending, Steady, Core, NumbersOK
  <2>. HIDE DEF n
  <2>3. Own(n) /\ n.task.stage = "connect" /\ n.task.groups = 0
    BY <2>1 DEF Own, InAttempt
  <2>4. \A c \in Channels : ~(c <= 0)
    BY ChannelsAre
  <2>5. AttemptOK(n)
    BY <2>1, <2>2, <2>3, <2>4 DEF AttemptOK
  <2>6. ConnectedOK(n) /\ EpochsOK(n) /\ PassEpoch(n)
    BY <2>1, <2>2 DEF Steady, Core, ConnectedOK, EpochsOK, PassEpoch
  <2>7. NumbersOK(n)
    BY <2>1, <2>2 DEF Steady, Core, NumbersOK, Client
  <2>8. Live(n)
    BY <2>1, <2>2, <2>3, <2>5, <2>6, <2>7 DEF Live, Steady, Core, HeldAsked, CaredFor
  <2> QED BY <1>1, <1>2, <2>8
<1>3. CASE ~may
  <2>1. CleanupPending(r) => Asked(r) \/ Own(r)
    BY DEF CleanupPending, HasHandles, Steady, HeldAsked, Asked
  <2>2. Own(r) => r.task.stage # "none"
    BY DEF Own, InAttempt
  <2>3. r.connected => Hears(r) \/ Deaf(r)
    BY DEF Steady, Core, ConnectedOK
  <2>4. CaredFor(r)
    BY <1>3, <2>1, <2>2, <2>3 DEF CaredFor, Asked
  <2> QED BY <1>1, <1>3, <2>4 DEF Live
<1> QED BY <1>2, <1>3

(* start() and reconnect of an endpoint with no cleanup pending.           *)
LEMMA StartedLive ==
    ASSUME NEW r, OK(r, {}), r.halt.stage = "none", Live(r), ~CleanupPending(r)
    PROVE  Live(Started(r))
<1>. DEFINE n == [r EXCEPT !.stopped = FALSE, !.halted = FALSE]
<1>1. OK(n, {})
  BY DEF OK, Shape, Fields, Covered, HaltedOK, QueueOK, PassOK, Stops
<1>2. /\ n.task = r.task /\ n.generation = r.generation /\ n.connected = r.connected
      /\ n.failureEpoch = r.failureEpoch /\ n.cleanups = r.cleanups
      /\ n.cleanupFailed = r.cleanupFailed /\ n.pass = r.pass
      /\ n.held = r.held /\ n.residual = r.residual /\ n.stopped = FALSE
  BY DEF OK, Shape, Fields
<1>3. Started(r) = StartConnect(n)
  BY DEF Started
<1>. HIDE DEF n
<1>4. AttemptOK(n) /\ ConnectedOK(n) /\ EpochsOK(n) /\ NumbersOK(n) /\ PassEpoch(n)
  BY <1>2 DEF Live, Steady, Core, AttemptOK, ConnectedOK, EpochsOK, NumbersOK, PassEpoch,
         Own, InAttempt, Hears, Deaf
<1>5. n.residual = {} /\ (n.held # {} => n.connected)
  BY <1>2 DEF CleanupPending, HasHandles
<1> QED BY <1>1, <1>3, <1>4, <1>5, StartConnectLive DEF Steady, Core, HeldAsked

(* A stop overtakes the attempt and deafens the connection.                *)
LEMMA HaltingLive ==
    ASSUME NEW r, OK(r, {}), Live(r)
    PROVE  Live(Halting(r))
<1>. DEFINE n == Halting(r)
<1>1. /\ n.task = r.task /\ n.generation = r.generation + 1 /\ n.connected = r.connected
      /\ n.failureEpoch = r.failureEpoch /\ n.cleanups = r.cleanups
      /\ n.cleanupFailed = r.cleanupFailed /\ n.pass = r.pass
      /\ n.held = r.held /\ n.residual = r.residual /\ n.stopped = TRUE
  BY DEF Halting, OK, Shape, Fields
<1>. HIDE DEF n
<1>2. NumbersOK(n) /\ ~Own(n) /\ (r.connected => Deaf(n))
  BY <1>1 DEF Live, Steady, Core, NumbersOK, Own, Deaf
<1>3. AttemptOK(n) /\ ConnectedOK(n) /\ EpochsOK(n) /\ PassEpoch(n)
  BY <1>1, <1>2 DEF Live, Steady, Core, AttemptOK, ConnectedOK, EpochsOK, PassEpoch
<1>4. Live(n)
  BY <1>1, <1>2, <1>3 DEF Live, Steady, Core, HeldAsked, CaredFor, Asked
<1> QED BY <1>4 DEF n

(* What a pass goes by: nothing is connected, and the request it is for is *)
(* of the present epoch.                                                   *)
Passing(r) ==
    ~r.connected /\ r.cleanups # <<>> /\ r.cleanups[1].epoch = r.failureEpoch

(* A pass is for the present epoch, and so are the requests behind it.     *)
LEMMA BeginPassLive ==
    ASSUME NEW r, OK(r, {}), Steady(r), r.cleanups # <<>>,
           r.cleanups[1].epoch = r.failureEpoch
    PROVE  Live(BeginPass(r)) /\ Passing(BeginPass(r))
<1>. DEFINE p == [fresh |-> {}, failed |-> {}, dirty |-> FALSE]
            n == BeginPass(r)
<1>1. /\ n.task = r.task /\ n.generation = r.generation /\ n.connected = FALSE
      /\ n.failureEpoch = r.failureEpoch /\ n.cleanups = r.cleanups
      /\ n.cleanupFailed = r.cleanupFailed /\ n.pass = p
      /\ n.held = r.held /\ n.residual = r.residual /\ n.stopped = r.stopped
  BY DEF BeginPass, OK, Shape, Fields
<1>. HIDE DEF n, p
<1>3. AttemptOK(n) /\ ConnectedOK(n) /\ EpochsOK(n) /\ NumbersOK(n) /\ PassEpoch(n)
  BY <1>1 DEF Steady, Core, AttemptOK, ConnectedOK, EpochsOK, NumbersOK, PassEpoch,
         Own, InAttempt
<1> QED BY <1>1, <1>3, QueuedLive DEF Core, Passing, n

(* A handle is closed while a pass runs only: no attempt or connection     *)
(* needs it.                                                               *)
LEMMA RemovedLive ==
    ASSUME NEW r, OK(r, {}), PassOK(r), Passing(r), Steady(r), NEW h
    PROVE  Steady(Removed(r, h)) /\ Passing(Removed(r, h))
<1>. DEFINE gone == {h} \cup GroupsUnder(h, r.held)
                        \cup GroupsUnder(h, r.residual \ r.pass.fresh)
            p == [r.pass EXCEPT !.failed = @ \ gone]
            n == [r EXCEPT !.held = @ \ gone, !.residual = @ \ gone, !.open = @ \ gone,
                           !.pass.failed = @ \ gone]
<1>1. Removed(r, h) = n
  BY DEF Removed
<1>. HIDE DEF gone
<1>2. /\ n.task = r.task /\ n.generation = r.generation /\ n.connected = r.connected
      /\ n.failureEpoch = r.failureEpoch /\ n.cleanups = r.cleanups
      /\ n.cleanupFailed = r.cleanupFailed /\ n.pass = p
      /\ n.held = r.held \ gone /\ n.stopped = r.stopped
  BY DEF OK, Shape, Fields
<1>. HIDE DEF n, p
<1>4. ~n.connected /\ ~Own(n) /\ n.cleanups # <<>>
  BY <1>2 DEF Passing, Steady, Core, AttemptOK, Own, InAttempt
<1>5. AttemptOK(n) /\ ConnectedOK(n) /\ EpochsOK(n) /\ NumbersOK(n) /\ PassEpoch(n)
  BY <1>2, <1>4 DEF Passing, Steady, Core, AttemptOK, ConnectedOK, EpochsOK, NumbersOK, PassEpoch
<1> QED BY <1>1, <1>2, <1>4, <1>5 DEF Passing, Steady, Core, Asked

LEMMA FailedLive ==
    ASSUME NEW r, OK(r, {}), PassOK(r), Passing(r), Steady(r), NEW h
    PROVE  LET n == [r EXCEPT !.pass.failed = @ \cup {h}]
           IN Steady(n) /\ Passing(n)
<1>. DEFINE p == [r.pass EXCEPT !.failed = @ \cup {h}]
            n == [r EXCEPT !.pass.failed = @ \cup {h}]
<1>2. /\ n.task = r.task /\ n.generation = r.generation /\ n.connected = r.connected
      /\ n.failureEpoch = r.failureEpoch /\ n.cleanups = r.cleanups
      /\ n.cleanupFailed = r.cleanupFailed /\ n.pass = p
      /\ n.held = r.held /\ n.stopped = r.stopped /\ n.residual = r.residual
  BY DEF OK, Shape, Fields
<1>. HIDE DEF n, p
<1>4. ~n.connected /\ ~Own(n)
  BY <1>2 DEF Passing, Steady, Core, AttemptOK, Own, InAttempt
<1>5. AttemptOK(n) /\ ConnectedOK(n) /\ EpochsOK(n) /\ NumbersOK(n) /\ PassEpoch(n)
  BY <1>2, <1>4 DEF Passing, Steady, Core, AttemptOK, ConnectedOK, EpochsOK, NumbersOK, PassEpoch
<1> QED BY <1>2, <1>4, <1>5 DEF Passing, Steady, Core, Asked, n

(* The promise of the request at the head settles: well, when nothing is   *)
(* left to clean up, or badly, and then the failure lasts.                 *)
LEMMA SettledLive ==
    ASSUME NEW r, OK(r, {}), Core(r), NEW ok \in BOOLEAN, r.cleanups # <<>>,
           ok => ~HasHandles(r) /\ ~r.connected,
           ~ok => r.cleanupFailed
    PROVE  Live(Settled(r, ok))
<1>. DEFINE request == Head(r.cleanups)
            popped == [r EXCEPT !.cleanups = Tail(@), !.pass = Null]
            rested == [popped EXCEPT !.recovery = FALSE]
            recovered == IF request.by # "recovery" THEN popped
                         ELSE IF ok THEN ScheduleReconnect(rested) ELSE rested
            resumed == IF request.by = "connect" \/ request.joined THEN TaskOver(recovered)
                       ELSE recovered
            n == IF request.by = "stop" THEN [resumed EXCEPT !.halt = NoHalt, !.halted = ok]
                 ELSE resumed
            Clear(q) == /\ OK(q, {}) /\ Steady(q) /\ HeldAsked(q)
                        /\ q.held # {} /\ ~q.connected => Asked(q)
                        /\ q.stopped = r.stopped /\ (~ok => q.cleanupFailed)
<1>1. r.cleanups \in Seq(Request) /\ Len(r.cleanups) \in Nat \ {0} /\ request = r.cleanups[1]
        /\ request \in Request
        /\ Tail(r.cleanups) \in Seq(Request)
        /\ Len(Tail(r.cleanups)) = Len(r.cleanups) - 1
        /\ \A i \in 1..(Len(r.cleanups) - 1) : Tail(r.cleanups)[i] = r.cleanups[i + 1]
  BY DEF OK, Shape
<1>2. Clear(popped)
  <2>1. /\ popped.task = r.task /\ popped.generation = r.generation
        /\ popped.connected = r.connected /\ popped.failureEpoch = r.failureEpoch
        /\ popped.cleanups = Tail(r.cleanups) /\ popped.cleanupFailed = r.cleanupFailed
        /\ popped.pass = Null /\ popped.held = r.held /\ popped.residual = r.residual
        /\ popped.stopped = r.stopped
    BY SMTT(30) DEF OK, Shape, Fields
  <2>2. OK(popped, {})
    BY PoppedOK
  <2>. HIDE DEF popped
  <2>3. ~Own(popped)
    BY <2>1 DEF Core, AttemptOK, Own, InAttempt
  <2>4. AttemptOK(popped) /\ ConnectedOK(popped) /\ NumbersOK(popped) /\ PassEpoch(popped)
    BY <2>1, <2>3 DEF Core, AttemptOK, ConnectedOK, NumbersOK, PassEpoch, Hears, Deaf
  <2>5. EpochsOK(popped)
    <3>. DEFINE s == Tail(r.cleanups)
    <3>1. \A i \in 1..Len(s) : i + 1 \in 1..Len(r.cleanups) /\ s[i] = r.cleanups[i + 1]
      BY <1>1
    <3>2. \A i, j \in 1..Len(s) : i <= j => i + 1 <= j + 1
      BY <1>1
    <3>. HIDE DEF s
    <3>3. \A i \in 1..Len(s) : s[i].epoch <= r.failureEpoch
      BY <3>1 DEF Core, EpochsOK
    <3>4. \A i, j \in 1..Len(s) :
             i <= j /\ s[i].epoch = r.failureEpoch => s[j].epoch = r.failureEpoch
      BY ZenonT(30), <3>1, <3>2 DEF Core, EpochsOK
    <3>5. ~r.cleanupFailed => \A i \in 1..Len(s) : s[i].epoch = r.failureEpoch
      BY <3>1 DEF Core, EpochsOK
    <3>6. popped.cleanups = s
      BY <2>1 DEF s
    <3> QED BY <2>1, <3>3, <3>4, <3>5, <3>6 DEF EpochsOK
  <2>6. (popped.residual # {} => Asked(popped)) /\ (popped.held # {} => Asked(popped))
    BY <2>1 DEF HasHandles, Asked
  <2> QED BY <2>1, <2>2, <2>4, <2>5, <2>6 DEF Steady, Core, HeldAsked
<1>3. Clear(rested)
  <2>1. /\ rested.held = popped.held /\ rested.connected = popped.connected
        /\ rested.cleanups = popped.cleanups /\ rested.cleanupFailed = popped.cleanupFailed
        /\ rested.stopped = popped.stopped /\ rested.task = popped.task
        /\ rested.generation = popped.generation /\ rested.residual = popped.residual
        /\ rested.pass = popped.pass /\ rested.failureEpoch = popped.failureEpoch
    BY SMTT(30) DEF OK, Shape, Fields
  <2>2. OK(rested, {})
    BY PoppedOK
  <2>. HIDE DEF popped, rested
  <2>3. Steady(rested) /\ HeldAsked(rested)
    BY <1>2, <2>1 DEF Steady, Core, AttemptOK, ConnectedOK, EpochsOK, NumbersOK, PassEpoch,
       HeldAsked, Asked, Own, InAttempt, Hears, Deaf
  <2> QED BY <1>2, <2>1, <2>2, <2>3 DEF Asked
<1>. HIDE DEF popped, rested
<1>4. OK(ScheduleReconnect(rested), {}) /\ Live(ScheduleReconnect(rested))
  BY <1>3, ScheduleReconnectOK, ScheduleReconnectLive DEF OK
<1>5. /\ OK(recovered, {}) /\ Steady(recovered)
      /\ recovered.held # {} /\ ~recovered.connected => Asked(recovered)
      /\ request.by = "recovery" => Live(recovered)
      /\ request.by = "stop" => recovered.stopped = r.stopped
  <2>1. ASSUME request.by = "recovery", ok
        PROVE  Live(recovered) /\ recovered.held = rested.held
                 /\ recovered.connected = rested.connected
                 /\ (Asked(rested) => Asked(recovered))
    <3>1. recovered = ScheduleReconnect(rested)
      BY <2>1
    <3>2. /\ ScheduleReconnect(rested).held = rested.held
          /\ ScheduleReconnect(rested).connected = rested.connected
          /\ Asked(rested) => Asked(ScheduleReconnect(rested))
      BY <1>3 DEF ScheduleReconnect, OK, Shape, Fields, Asked
    <3> QED BY <1>4, <3>1, <3>2
  <2>2. ASSUME request.by = "recovery", ~ok PROVE recovered = rested /\ Live(rested)
    BY <1>3, <2>2 DEF Live, CaredFor
  <2>3. ASSUME request.by # "recovery" PROVE recovered = popped
    BY <2>3
  <2>4. OK(recovered, {})
    BY <1>2, <1>3, <1>4
  <2>. HIDE DEF recovered
  <2>5. CASE request.by = "recovery" /\ ok
    BY <1>3, <2>1, <2>4, <2>5 DEF Live
  <2>6. CASE request.by = "recovery" /\ ~ok
    BY <1>3, <2>2, <2>4, <2>6
  <2>7. CASE request.by # "recovery"
    BY <1>2, <2>3, <2>4, <2>7
  <2> QED BY <2>5, <2>6, <2>7
<1>. HIDE DEF recovered
<1>6. Live(TaskOver(recovered))
  BY <1>5, TaskOverLive
<1>7. CASE request.by # "stop"
  <2>1. Live(resumed)
    BY <1>1, <1>5, <1>6, <1>7 DEF Request
  <2> QED BY <1>7, <2>1 DEF Settled, recovered, rested, popped
<1>8. CASE request.by = "stop"
  <2>1. 1 \in Stops(r) /\ r.stopped
    BY <1>1, <1>8 DEF OK, Shape, Stops, QueueOK
  <2>2. Live(recovered)
    BY <1>5, <1>8, <2>1 DEF Live, HeldAsked, CaredFor
  <2>3. Live(resumed)
    BY <1>6, <2>2
  <2>4. OK(resumed, {})
    BY <1>5, TaskOverOK
  <2>. HIDE DEF resumed
  <2>5. SameLife(resumed, [resumed EXCEPT !.halt = NoHalt, !.halted = ok])
    BY <2>4 DEF SameLife, OK, Shape, Fields, Exhausted
  <2>6. Settled(r, ok) = [resumed EXCEPT !.halt = NoHalt, !.halted = ok]
    BY <1>8 DEF Settled, resumed, recovered, rested, popped
  <2> QED BY <2>3, <2>5, <2>6, SameLifeLive
<1> QED BY <1>7, <1>8

(* When a pass has tried everything its request settles, or a new pass     *)
(* begins.                                                                 *)
LEMMA EndPassLive ==
    ASSUME NEW r, OK(r, {}), PassOK(r), Passing(r), Steady(r)
    PROVE  Live(EndPass(r))
<1>1. CASE ToClose(r) # {}
  BY <1>1, QueuedLive DEF EndPass, Steady, PassOK
<1>2. CASE ToClose(r) = {} /\ r.pass.failed # {}
  <2>. DEFINE n == [r EXCEPT !.cleanupFailed = TRUE, !.failureEpoch = @ + 1]
  <2>1. OK(n, {}) /\ n.cleanups = r.cleanups
    BY DEF OK, Shape, Fields, Covered, HaltedOK, QueueOK, PassOK, Stops
  <2>2. /\ n.task = r.task /\ n.generation = r.generation /\ n.connected = r.connected
        /\ n.failureEpoch = r.failureEpoch + 1 /\ n.cleanupFailed = TRUE
        /\ n.held = r.held /\ n.stopped = r.stopped /\ n.pass = r.pass
    BY DEF OK, Shape, Fields
  <2>3. EndPass(r) = Settled(n, FALSE)
    BY <1>2 DEF EndPass
  <2>. HIDE DEF n
  <2>4. AttemptOK(n) /\ ConnectedOK(n) /\ NumbersOK(n)
    BY <2>1, <2>2 DEF Steady, Core, AttemptOK, ConnectedOK, NumbersOK, Own, InAttempt, Hears, Deaf
  <2>5. EpochsOK(n)
    <3>1. r.failureEpoch \in Nat /\ r.cleanups \in Seq(Request)
      BY DEF OK, Shape
    <3>2. \A i \in 1..Len(r.cleanups) :
             /\ r.cleanups[i].epoch <= r.failureEpoch + 1
             /\ r.cleanups[i].epoch # r.failureEpoch + 1
      <4>1. SUFFICES ASSUME NEW i \in 1..Len(r.cleanups)
                     PROVE  /\ r.cleanups[i].epoch <= r.failureEpoch + 1
                            /\ r.cleanups[i].epoch # r.failureEpoch + 1
        OBVIOUS
      <4>2. r.cleanups[i] \in Request
        BY <3>1
      <4>3. r.cleanups[i].epoch \in Nat /\ r.cleanups[i].epoch <= r.failureEpoch
        BY <4>2 DEF Steady, Core, EpochsOK, Request
      <4> QED BY <3>1, <4>3
    <3> QED BY <2>1, <2>2, <3>2 DEF EpochsOK
  <2>6. n.cleanups # <<>>
    BY <2>1 DEF PassOK
  <2> QED BY <2>1, <2>2, <2>3, <2>4, <2>5, <2>6, SettledLive DEF Core
<1>3. CASE ToClose(r) = {} /\ r.pass.failed = {} /\ r.pass.dirty /\ HasHandles(r)
  BY <1>3, BeginPassLive DEF EndPass, Passing
<1>4. CASE ToClose(r) = {} /\ r.pass.failed = {} /\ ~(r.pass.dirty /\ HasHandles(r))
  <2>. DEFINE n == [r EXCEPT !.cleanupFailed = @ /\ HasHandles(r)]
  <2>1. r.held = {} /\ r.residual \subseteq r.pass.fresh
    BY <1>4 DEF ToClose
  <2>2. ~HasHandles(r)
    BY <1>4, <2>1 DEF PassOK, HasHandles
  <2>3. OK(n, {}) /\ n.cleanups = r.cleanups
    BY DEF OK, Shape, Fields, Covered, HaltedOK, QueueOK, PassOK, Stops
  <2>4. /\ n.task = r.task /\ n.generation = r.generation /\ n.connected = r.connected
        /\ n.failureEpoch = r.failureEpoch /\ n.residual = r.residual
        /\ n.held = r.held /\ n.stopped = r.stopped /\ n.pass = r.pass
    BY DEF OK, Shape, Fields
  <2>5. EndPass(r) = Settled(n, TRUE)
    BY <1>4 DEF EndPass
  <2>. HIDE DEF n
  <2>6. AttemptOK(n) /\ ConnectedOK(n) /\ NumbersOK(n)
    BY <2>3, <2>4 DEF Steady, Core, AttemptOK, ConnectedOK, NumbersOK, Own, InAttempt, Hears, Deaf
  <2>7. EpochsOK(n)
    <3>1. r.cleanups \in Seq(Request) /\ \A i \in 1..Len(r.cleanups) : 1 <= i
      BY DEF OK, Shape
    <3>2. 1 \in 1..Len(r.cleanups)
      BY <3>1 DEF Passing
    <3>3. \A i \in 1..Len(r.cleanups) : r.cleanups[i].epoch = r.failureEpoch
      BY <3>1, <3>2 DEF Passing, Steady, Core, EpochsOK
    <3> QED BY <2>3, <2>4, <3>3 DEF Steady, Core, EpochsOK
  <2>8. n.cleanups # <<>> /\ ~n.connected /\ ~HasHandles(n)
    BY <2>2, <2>3, <2>4 DEF Passing, HasHandles
  <2> QED BY <2>3, <2>5, <2>6, <2>7, <2>8, SettledLive DEF Core
<1> QED BY <1>1, <1>2, <1>3, <1>4

-----------------------------------------------------------------------------
(* The steps that publish.                                                 *)

LEMMA JoinedIsSequence ==
    ASSUME NEW s, NEW t, IsSequence(s), IsSequence(t)
    PROVE  IsSequence(s \o t)
<1>. DEFINE S == Range(s) \cup Range(t)
<1>1. s \in Seq(S) /\ t \in Seq(S)
  BY DEF IsSequence
<1>2. s \o t \in Seq(S)
  BY <1>1
<1> QED BY <1>2, SequenceOfItsValues

(* Two records that differ in counters, early notifications and retained   *)
(* values only.                                                            *)
SameEndpoint(r, s) ==
    /\ DOMAIN s = DOMAIN r
    /\ IsSequence(s.early)
    /\ s.nextSource \in 1..(MaxSource + 1) /\ s.sessionGeneration \in 0..MaxSession
    /\ s.stopped = r.stopped /\ s.connected = r.connected /\ s.task = r.task
    /\ s.timer = r.timer /\ s.recovery = r.recovery /\ s.cleanups = r.cleanups
    /\ s.pass = r.pass /\ s.failureEpoch = r.failureEpoch /\ s.held = r.held
    /\ s.residual = r.residual /\ s.open = r.open /\ s.halt = r.halt /\ s.halted = r.halted
    /\ s.generation = r.generation /\ s.cleanupFailed = r.cleanupFailed
    /\ Exhausted(r) => Exhausted(s)

(* The invariant does not depend on those.                                 *)
LEMMA SameOK ==
    ASSUME NEW r, NEW s, OK(r, {}), SameEndpoint(r, s)
    PROVE  /\ OK(s, {})
           /\ Core(r) => Core(s)
           /\ Steady(r) => Steady(s)
           /\ Live(r) => Live(s)
<1>1. Stops(s) = Stops(r)
  BY DEF SameEndpoint, Stops
<1>2. Shape(s) /\ Covered(s, {}) /\ HaltedOK(s)
  BY DEF SameEndpoint, OK, Shape, Covered, HaltedOK
<1>3. QueueOK(s)
  BY <1>1 DEF SameEndpoint, OK, QueueOK, PassOK
<1>4. SameLife(r, s)
  BY DEF SameEndpoint, SameLife
<1> QED BY <1>2, <1>3, <1>4, SameLifeLive DEF OK

(* A step that keeps the invariant and has the attempt t under way; what   *)
(* it publishes is a sequence.                                             *)
StepOK(step, t) ==
    /\ DOMAIN step = {"r", "out"}
    /\ OK(step.r, {}) /\ Steady(step.r) /\ step.r.task = t
    /\ IsSequence(step.out)

(* A step that leaves an endpoint unstranded if it was.                    *)
LiveKept(step, next) == Live(step.r) => Live(next.r)

(* A step that publishes nothing.                                          *)
LEMMA QuietOK ==
    ASSUME NEW r, OK(r, {}), Steady(r)
    PROVE  StepOK(Quiet(r), r.task) /\ Quiet(r).r = r
  BY NothingIsSequence DEF Quiet, StepOK

(* Publishing a message uses up a source sequence and nothing else.        *)
LEMMA EmitOK ==
    ASSUME NEW step, NEW t, StepOK(step, t), step.r.nextSource <= MaxSource,
           NEW kind, NEW e, NEW note
    PROVE  /\ StepOK(Emit(step, kind, e, note), t)
           /\ Emit(step, kind, e, note).r.nextSource = step.r.nextSource + 1
           /\ LiveKept(step, Emit(step, kind, e, note))
           /\ Emit(step, kind, e, note).r.sourceExhausted = step.r.sourceExhausted
<1>. DEFINE s == [step.r EXCEPT !.nextSource = @ + 1]
            m == Message(kind, e, step.r, note)
<1>1. /\ SameEndpoint(step.r, s) /\ s.nextSource = step.r.nextSource + 1
      /\ s.sourceExhausted = step.r.sourceExhausted
  BY EndpointAssumption DEF StepOK, OK, Shape, Fields, SameEndpoint, Exhausted
<1>. HIDE DEF m
<1>2. /\ Emit(step, kind, e, note).r = s
      /\ DOMAIN Emit(step, kind, e, note) = {"r", "out"}
      /\ Emit(step, kind, e, note).out = Append(step.out, m)
  BY DEF Emit, m
<1>. HIDE DEF s
<1>3. OK(s, {}) /\ s.task = t /\ Steady(s) /\ (Live(step.r) => Live(s))
  BY <1>1, SameOK DEF StepOK, SameEndpoint
<1>4. IsSequence(Append(step.out, m))
  BY AppendedIsSequence DEF StepOK
<1> QED BY <1>1, <1>2, <1>3, <1>4 DEF StepOK, LiveKept

(* So does publishing the early notifications.                             *)
LEMMA EmitEachOK ==
    ASSUME NEW step, NEW t, StepOK(step, t), NEW e, NEW notes, IsSequence(notes),
           step.r.nextSource + Len(notes) <= MaxSource + 1
    PROVE  StepOK(EmitEach(step, e, notes), t)
<1>. DEFINE s == [step.r EXCEPT !.nextSource = @ + Len(notes)]
            message(i) == Message("state", e, [step.r EXCEPT !.nextSource = @ + i - 1], notes[i])
            added == [i \in DOMAIN notes |-> message(i)]
<1>0. Len(notes) \in Nat
  BY DEF IsSequence
<1>1. SameEndpoint(step.r, s)
  BY <1>0, EndpointAssumption DEF StepOK, OK, Shape, Fields, SameEndpoint, Exhausted
<1>. HIDE DEF message
<1>2. /\ EmitEach(step, e, notes).r = s
      /\ DOMAIN EmitEach(step, e, notes) = {"r", "out"}
      /\ EmitEach(step, e, notes).out = step.out \o added
  BY DEF EmitEach, message
<1>. HIDE DEF s
<1>3. OK(s, {}) /\ s.task = t /\ Steady(s)
  BY <1>1, SameOK DEF StepOK, SameEndpoint
<1>4. IsSequence(step.out \o added)
  <2>1. DOMAIN notes = 1..Len(notes) /\ Len(notes) \in Nat
    BY DEF IsSequence
  <2>2. added \in [1..Len(notes) -> Range(added)]
    BY <2>1 DEF Range
  <2>. HIDE DEF added
  <2>3. added \in Seq(Range(added))
    BY <2>1, <2>2
  <2> QED BY <2>3, JoinedIsSequence DEF StepOK, IsSequence
<1> QED BY <1>2, <1>3, <1>4 DEF StepOK

(* publishDisconnected marks the loss as published.                        *)
LEMMA PublishDisconnectedOK ==
    ASSUME NEW step, NEW t, StepOK(step, t), NEW e
    PROVE  /\ StepOK(PublishDisconnected(step, e), t)
           /\ LiveKept(step, PublishDisconnected(step, e))
           /\ PublishDisconnected(step, e).r.sourceExhausted = step.r.sourceExhausted
<1>. DEFINE marked == [step EXCEPT !.r.lossPublished = TRUE]
<1>1. SameEndpoint(step.r, marked.r) /\ DOMAIN marked = {"r", "out"} /\ marked.out = step.out
        /\ marked.r.nextSource = step.r.nextSource
        /\ marked.r.sourceExhausted = step.r.sourceExhausted
  BY DEF StepOK, OK, Shape, Fields, SameEndpoint, Exhausted
<1>2. StepOK(marked, t) /\ LiveKept(step, marked)
  BY <1>1, SameOK DEF StepOK, SameEndpoint, LiveKept
<1>3. step.r.nextSource \in Int /\ MaxSource \in Int
  BY EndpointAssumption DEF StepOK, OK, Shape
<1>. HIDE DEF marked
<1>4. CASE step.r.nextSource > MaxSource \/ step.r.lossPublished
  BY <1>1, <1>2, <1>4 DEF PublishDisconnected, marked, LiveKept
<1>5. CASE step.r.nextSource <= MaxSource /\ ~step.r.lossPublished
  <2>. DEFINE told == Emit(marked, "disconnected", e, NoNote)
  <2>1. /\ StepOK(told, t) /\ LiveKept(marked, told)
        /\ told.r.sourceExhausted = marked.r.sourceExhausted
    BY <1>1, <1>2, <1>5, EmitOK
  <2>2. ~(step.r.nextSource > MaxSource)
    BY <1>3, <1>5
  <2>3. PublishDisconnected(step, e) = told
    BY <1>5, <2>2 DEF PublishDisconnected, marked
  <2>. HIDE DEF told
  <2> QED BY <1>1, <1>2, <2>1, <2>3 DEF LiveKept
<1> QED BY <1>3, <1>4, <1>5

(* The fence and the cleanup that follow every loss.                       *)
LEMMA FencedRecoveryOK ==
    ASSUME NEW r, OK(r, {}), Steady(r)
    PROVE  /\ OK(StartRecovery(Fence(r)), {}) /\ StartRecovery(Fence(r)).task = r.task
           /\ Live(StartRecovery(Fence(r)))
<1>1. OK(Fence(r), {}) /\ Fence(r).task = r.task
  BY FenceOK
<1>2. Steady(Fence(r)) /\ ~Own(Fence(r))
  BY FenceLive DEF OK
<1> QED BY <1>1, <1>2, StartRecoveryOK, StartRecoveryLive

(* exhaustSourceSequence keeps the invariant and the attempt under way.    *)
LEMMA ExhaustSourceOK ==
    ASSUME NEW step, NEW t, StepOK(step, t), NEW e
    PROVE  /\ StepOK(ExhaustSource(step, e), t)
           /\ LiveKept(step, ExhaustSource(step, e))
           /\ ~step.r.sourceExhausted => Live(ExhaustSource(step, e).r)
<1>. DEFINE marked == [step EXCEPT !.r.sourceExhausted = TRUE]
            announced == IF step.r.connected THEN PublishDisconnected(marked, e) ELSE marked
            n == [announced EXCEPT !.r = StartRecovery(Fence(@))]
<1>1. SameEndpoint(step.r, marked.r) /\ DOMAIN marked = {"r", "out"}
  BY DEF StepOK, OK, Shape, Fields, SameEndpoint, Exhausted
<1>2. StepOK(marked, t)
  BY <1>1, SameOK DEF StepOK, SameEndpoint
<1>3. StepOK(announced, t)
  BY <1>2, PublishDisconnectedOK
<1>4. ExhaustSource(step, e) = IF step.r.sourceExhausted THEN step ELSE n
  BY DEF ExhaustSource, Then
<1>. HIDE DEF announced
<1>5. StepOK(n, t) /\ Live(n.r)
  <2>1. n.r = StartRecovery(Fence(announced.r)) /\ n.out = announced.out
          /\ DOMAIN n = {"r", "out"}
    BY <1>3 DEF StepOK
  <2>. HIDE DEF n
  <2> QED BY <1>3, <2>1, FencedRecoveryOK DEF StepOK, Live
<1>. HIDE DEF n
<1> QED BY <1>4, <1>5 DEF LiveKept

(* recover keeps the invariant and the attempt under way.                  *)
LEMMA RecoverOK ==
    ASSUME NEW step, NEW t, StepOK(step, t), NEW e
    PROVE  StepOK(Recover(step, e), t) /\ LiveKept(step, Recover(step, e))
<1>. DEFINE announced == IF step.r.connected THEN PublishDisconnected(step, e) ELSE step
            fenced == [announced EXCEPT !.r = Fence(@)]
            n == [fenced EXCEPT !.r = StartRecovery(@)]
<1>1. StepOK(announced, t) /\ announced.r.sourceExhausted = step.r.sourceExhausted
  BY PublishDisconnectedOK
<1>2. Recover(step, e) = IF step.r.stopped \/ step.r.sourceExhausted \/ step.r.recovery THEN step
                         ELSE IF fenced.r.nextSource > MaxSource THEN ExhaustSource(fenced, e)
                         ELSE n
  BY DEF Recover, Then
<1>. HIDE DEF announced
<1>3. StepOK(fenced, t) /\ ~Own(fenced.r)
        /\ fenced.r.sourceExhausted = step.r.sourceExhausted
  <2>1. fenced.r = Fence(announced.r) /\ fenced.out = announced.out
          /\ DOMAIN fenced = {"r", "out"}
    BY <1>1 DEF StepOK
  <2>2. Fence(announced.r).sourceExhausted = announced.r.sourceExhausted
    BY <1>1 DEF Fence, ClearEarly, StepOK, OK, Shape, Fields
  <2>3. Steady(Fence(announced.r)) /\ ~Own(Fence(announced.r))
    BY <1>1, FenceLive DEF StepOK, OK
  <2>. HIDE DEF fenced
  <2> QED BY <1>1, <2>1, <2>2, <2>3, FenceOK DEF StepOK
<1>. HIDE DEF fenced
<1>4. StepOK(n, t) /\ Live(n.r)
  <2>1. n.r = StartRecovery(fenced.r) /\ n.out = fenced.out /\ DOMAIN n = {"r", "out"}
    BY <1>3 DEF StepOK
  <2>. HIDE DEF n
  <2> QED BY <1>3, <2>1, StartRecoveryOK, StartRecoveryLive DEF StepOK, Live
<1>5. StepOK(ExhaustSource(fenced, e), t)
        /\ (~step.r.sourceExhausted => Live(ExhaustSource(fenced, e).r))
  BY <1>3, ExhaustSourceOK
<1>. HIDE DEF n
<1> QED BY <1>2, <1>4, <1>5 DEF LiveKept

(* An attempt that waits for a cleanup, of its own or one it joins, queues *)
(* no stop.                                                                *)
LEMMA AwaitCleanupOK ==
    ASSUME NEW r, OK(r, {}), r.task.stage # "none", NEW stage \in {"closing", "lateGroup"},
           NEW joins \in BOOLEAN, joins => r.cleanups # <<>>
    PROVE  OK(AwaitCleanup(r, stage, joins), {})
<1>. DEFINE waiting == [r EXCEPT !.task.stage = stage]
<1>1. OK(waiting, {}) /\ waiting.task.stage # "none" /\ waiting.cleanups = r.cleanups
  BY DEF OK, Shape, Fields, Covered, HaltedOK, QueueOK, PassOK, Stops
<1>. HIDE DEF waiting
<1>2. OK(Enqueue(waiting, "connect"), {})
  BY <1>1, EnqueueOK
<1>3. ASSUME joins PROVE OK(JoinCleanup(waiting), {})
  <2>. DEFINE q == [waiting.cleanups[1] EXCEPT !.joined = TRUE]
              s == [waiting.cleanups EXCEPT ![1] = q]
              n == [waiting EXCEPT !.cleanups = s]
  <2>1. waiting.cleanups \in Seq(Request) /\ Len(waiting.cleanups) \in Nat \ {0}
    BY <1>1, <1>3 DEF OK, Shape
  <2>2. s \in Seq(Request) /\ Len(s) = Len(waiting.cleanups)
    <3>1. waiting.cleanups[1] \in Request
      BY <2>1
    <3>2. q \in Request
      BY <3>1 DEF Request
    <3>. HIDE DEF q
    <3> QED BY <2>1, <3>2
  <2>3. \A i \in 1..Len(s) : s[i].by = waiting.cleanups[i].by
    BY <2>1, <2>2 DEF Request
  <2>4. s # <<>>
    BY <2>1, <2>2
  <2>5. JoinCleanup(waiting) = n
    BY DEF JoinCleanup
  <2>. HIDE DEF s
  <2>6. Stops(n) = Stops(waiting)
    BY <1>1, <2>2, <2>3 DEF OK, Shape, Fields, Stops
  <2>7. Shape(n) /\ Covered(n, {}) /\ HaltedOK(n)
    BY <1>1, <2>2 DEF OK, Shape, Fields, Covered, HaltedOK
  <2>8. QueueOK(n)
    BY <1>1, <2>4, <2>6 DEF OK, Shape, Fields, QueueOK, PassOK
  <2> QED BY <2>5, <2>7, <2>8 DEF OK
<1>4. OK(TaskOver(r), {})
  BY TaskOverOK
<1> QED BY <1>2, <1>3, <1>4 DEF AwaitCleanup, waiting

(* An attempt that is over registers everything it made and the server     *)
(* still has: what it had yet to register is covered afterwards.           *)
LEMMA LeaveOK ==
    ASSUME NEW r, OK(r, {h \in r.open : h[2] = r.task.generation}), r.task.stage # "none"
    PROVE  OK(Leave(r), {})
<1>. DEFINE made == {h \in r.open : h[2] = r.task.generation}
            left == Register(r, made)
<1>1. OK(left, {}) /\ left.task = r.task /\ left.cleanups = r.cleanups
  BY RegisterOK
<1>2. Joins(r, made) \in BOOLEAN /\ (Joins(r, made) => r.cleanups # <<>>)
  BY DEF Joins, OK, QueueOK, PassOK
<1>3. OK(AwaitCleanup(left, "closing", Joins(r, made)), {})
  <2>. HIDE DEF left, made
  <2>1. left.task.stage # "none"
    BY <1>1
  <2> QED BY <1>1, <1>2, <2>1, AwaitCleanupOK
<1>4. OK(TaskOver(left), {})
  BY <1>1, TaskOverOK
<1> QED BY <1>3, <1>4 DEF Leave

(* So does one whose group arrived late.                                   *)
LEMMA LeaveLateGroupOK ==
    ASSUME NEW r, NEW h, OK(r, {h}), r.task.stage # "none"
    PROVE  OK(LeaveLateGroup(r, h), {})
<1>. DEFINE left == Register(r, {h})
<1>1. OK(left, {}) /\ left.task = r.task /\ left.cleanups = r.cleanups
  BY RegisterOK
<1>2. Joins(r, {h}) \in BOOLEAN /\ (Joins(r, {h}) => r.cleanups # <<>>)
  BY DEF Joins, OK, QueueOK, PassOK
<1>. HIDE DEF left
<1>3. left.task.stage # "none"
  BY <1>1
<1>4. OK(AwaitCleanup(left, "lateGroup", Joins(r, {h})), {})
  BY <1>1, <1>2, <1>3, AwaitCleanupOK
<1> QED BY <1>4 DEF LeaveLateGroup, left

(* Dropping the early notifications.                                       *)
LEMMA ClearEarlyOK ==
    ASSUME NEW r, OK(r, {})
    PROVE  /\ OK(ClearEarly(r), {}) /\ ClearEarly(r).task = r.task
           /\ Steady(r) => Steady(ClearEarly(r))
           /\ Live(r) => Live(ClearEarly(r))
<1>1. SameEndpoint(r, ClearEarly(r))
  BY NothingIsSequence DEF ClearEarly, OK, Shape, Fields, SameEndpoint, Exhausted
<1> QED BY <1>1, SameOK DEF SameEndpoint

(* The two ends of an attempt that got a session: it is connected, or it   *)
(* gives up what it made.                                                  *)
LEMMA DoneOrLeftOK ==
    ASSUME NEW r, OK(r, {}), Steady(r), r.task.stage # "none"
    PROVE  LET n == IF r.connected THEN [r EXCEPT !.task = NoTask] ELSE Leave(r)
           IN OK(n, {}) /\ Live(n)
<1>. DEFINE n == [r EXCEPT !.task = NoTask]
<1>1. OK(n, {})
  BY DEF OK, Shape, Fields, Covered, HaltedOK, QueueOK, PassOK, Stops, NoTask
<1>2. OK(r, {h \in r.open : h[2] = r.task.generation})
  BY DEF OK, Covered
<1>3. OK(Leave(r), {}) /\ Live(Leave(r))
  BY <1>2, LeaveOK, LeaveLive DEF Steady
<1>4. ASSUME r.connected PROVE Live(n)
  <2>1. /\ n.task = NoTask /\ n.generation = r.generation /\ n.connected = r.connected
        /\ n.failureEpoch = r.failureEpoch /\ n.cleanups = r.cleanups
        /\ n.cleanupFailed = r.cleanupFailed /\ n.pass = r.pass /\ n.held = r.held
        /\ n.residual = r.residual /\ n.stopped = r.stopped
    BY DEF OK, Shape, Fields
  <2>. HIDE DEF n
  <2>2. ~Own(n) /\ NumbersOK(n)
    BY <2>1 DEF Own, InAttempt, NoTask, Steady, Core, NumbersOK
  <2>3. AttemptOK(n) /\ ConnectedOK(n) /\ EpochsOK(n) /\ PassEpoch(n)
          /\ (n.residual # {} => Asked(n))
    BY <2>1, <2>2 DEF Steady, Core, AttemptOK, ConnectedOK, EpochsOK, PassEpoch, Asked, Hears, Deaf
  <2>4. n.connected
    BY <1>4, <2>1
  <2> QED BY <2>2, <2>3, <2>4 DEF Live, Steady, Core, HeldAsked, CaredFor, ConnectedOK
<1>. HIDE DEF n
<1> QED BY <1>1, <1>3, <1>4 DEF n

(* The end of an attempt that got everything: connected, out of session    *)
(* numbers, or out of source sequences while the early notifications are   *)
(* drained.                                                                *)
LEMMA EstablishedOK ==
    ASSUME NEW step, NEW t, StepOK(step, t), t.stage = "done", step.r.pass = Null, NEW e,
           \A c \in Channels : Group(step.r.generation, c) \in step.r.held
    PROVE  /\ OK(Established(step, e).r, {}) /\ Live(Established(step, e).r)
           /\ IsSequence(Established(step, e).out)
<1>. DEFINE r == step.r
            live == [step EXCEPT !.r.sessionGeneration = @ + 1, !.r.lossPublished = FALSE,
                                 !.r.connected = TRUE]
            emitted == Emit(live, "connected", e, NoNote)
            announced == [emitted EXCEPT !.r = ClearEarly(@)]
            fit == Min({Len(r.early), MaxSource - announced.r.nextSource})
            sent == EmitEach(announced, e, SubSeq(r.early, 1, fit))
            drained == IF fit = Len(r.early) THEN sent ELSE ExhaustSource(sent, e)
            spent == [step EXCEPT !.r.sessionExhausted = TRUE]
            unlive == [live EXCEPT !.r.connected = FALSE]
            outcome == IF r.sessionGeneration >= MaxSession THEN Recover(spent, e)
                       ELSE IF ~CanReserve(r) THEN ExhaustSource(unlive, e)
                       ELSE drained
            final == [outcome EXCEPT !.r = IF @.connected THEN [@ EXCEPT !.task = NoTask]
                                           ELSE Leave(@)]
<1>0. Established(step, e) = final
  BY DEF Established, Then
<1>1. ASSUME ~(r.sessionGeneration >= MaxSession)
      PROVE  /\ StepOK(live, t) /\ StepOK(unlive, t)
             /\ live.r.nextSource = r.nextSource /\ live.r.early = r.early
  <2>. DEFINE n(connected) ==
                [[[r EXCEPT !.sessionGeneration = @ + 1] EXCEPT !.lossPublished = FALSE]
                    EXCEPT !.connected = connected]
  <2>1. live.r = n(TRUE) /\ DOMAIN live = {"r", "out"}
    BY DEF StepOK
  <2>2. unlive.r = n(FALSE) /\ DOMAIN unlive = {"r", "out"}
    BY DEF StepOK, OK, Shape, Fields
  <2>3. ASSUME NEW connected \in BOOLEAN
        PROVE  OK(n(connected), {}) /\ Steady(n(connected)) /\ n(connected).task = t
    <3>. DEFINE m == n(connected)
    <3>0. r.sessionGeneration + 1 \in 0..MaxSession
      BY <1>1, EndpointAssumption DEF StepOK, OK, Shape
    <3>1. Shape(m) /\ Covered(m, {}) /\ m.task = r.task /\ Stops(m) = Stops(r)
      BY <3>0 DEF StepOK, OK, Shape, Fields, Covered, Stops
    <3>2. ~r.halted /\ Stops(r) = {}
      BY DEF StepOK, OK, HaltedOK, QueueOK, Stops
    <3>3. HaltedOK(m)
      BY <3>2 DEF StepOK, OK, Shape, Fields, HaltedOK
    <3>4. /\ m.halt = r.halt /\ m.pass = r.pass /\ m.cleanups = r.cleanups
          /\ m.stopped = r.stopped /\ m.task = r.task /\ m.generation = r.generation
          /\ m.failureEpoch = r.failureEpoch /\ m.cleanupFailed = r.cleanupFailed
          /\ m.held = r.held /\ m.residual = r.residual
      BY DEF StepOK, OK, Shape, Fields
    <3>. HIDE DEF m
    <3>7. ~Own(m)
      BY <3>4 DEF StepOK, Own, InAttempt
    <3>8. AttemptOK(m) /\ ConnectedOK(m) /\ EpochsOK(m) /\ NumbersOK(m) /\ PassEpoch(m)
            /\ (m.residual # {} => Asked(m))
      BY <3>4, <3>7 DEF StepOK, Steady, Core, AttemptOK, ConnectedOK, EpochsOK, NumbersOK,
         PassEpoch, Asked, Hears
    <3>5. QueueOK(m)
      BY <3>1, <3>2, <3>4 DEF StepOK, OK, QueueOK, PassOK
    <3>6. OK(m, {}) /\ Steady(m) /\ m.task = t
      BY <3>1, <3>3, <3>5, <3>8 DEF StepOK, OK, Steady, Core
    <3> QED BY <3>6 DEF m
  <2>4. n(TRUE).nextSource = r.nextSource /\ n(TRUE).early = r.early
    BY DEF StepOK, OK, Shape, Fields
  <2>5. live.out = step.out /\ unlive.out = step.out
    BY DEF StepOK
  <2>. HIDE DEF n, live, unlive
  <2> QED BY <2>1, <2>2, <2>3, <2>4, <2>5 DEF StepOK
<1>3. StepOK(spent, t)
  <2>1. SameEndpoint(step.r, spent.r) /\ DOMAIN spent = {"r", "out"}
    BY DEF StepOK, OK, Shape, Fields, SameEndpoint, Exhausted
  <2> QED BY <2>1, SameOK DEF StepOK, SameEndpoint
<1>. HIDE DEF live, unlive, spent
<1>4. ASSUME ~(r.sessionGeneration >= MaxSession), CanReserve(r)
      PROVE  StepOK(drained, t)
  <2>1. MaxSource \in Nat /\ r.nextSource \in Nat /\ r.nextSource < MaxSource
          /\ IsSequence(r.early) /\ Len(r.early) \in Nat
    BY <1>4, EndpointAssumption DEF StepOK, OK, Shape, CanReserve, IsSequence
  <2>0. StepOK(live, t) /\ live.r.nextSource = r.nextSource /\ live.r.nextSource <= MaxSource
    BY <1>1, <1>4, <2>1
  <2>2. StepOK(emitted, t) /\ emitted.r.nextSource = r.nextSource + 1
    BY <2>0, EmitOK
  <2>. HIDE DEF emitted
  <2>3. /\ announced.r = ClearEarly(emitted.r) /\ announced.out = emitted.out
        /\ DOMAIN announced = {"r", "out"}
    BY <2>2 DEF StepOK
  <2>4. ClearEarly(emitted.r).nextSource = emitted.r.nextSource
    BY <2>2 DEF ClearEarly, StepOK, OK, Shape, Fields
  <2>. HIDE DEF announced
  <2>5. StepOK(announced, t) /\ announced.r.nextSource = r.nextSource + 1
    BY <2>2, <2>3, <2>4, ClearEarlyOK DEF StepOK
  <2>6. fit \in Nat /\ fit <= Len(r.early) /\ fit <= MaxSource - (r.nextSource + 1)
    <3>. DEFINE S == {Len(r.early), MaxSource - announced.r.nextSource}
    <3>1. \E x \in S : \A y \in S : x <= y
      BY <2>1, <2>5
    <3>2. fit \in S /\ \A y \in S : fit <= y
      BY <3>1 DEF Min
    <3> QED BY <2>1, <2>5, <3>2
  <2>. HIDE DEF fit
  <2>7. IsSequence(SubSeq(r.early, 1, fit)) /\ Len(SubSeq(r.early, 1, fit)) = fit
    <3>1. r.early \in Seq(Range(r.early))
      BY <2>1 DEF IsSequence
    <3>2. SubSeq(r.early, 1, fit) \in Seq(Range(r.early)) /\ Len(SubSeq(r.early, 1, fit)) = fit
      BY <2>1, <2>6, <3>1
    <3> QED BY <3>2, SequenceOfItsValues
  <2>71. announced.r.nextSource + Len(SubSeq(r.early, 1, fit)) <= MaxSource + 1
    BY <2>1, <2>5, <2>6, <2>7
  <2>8. StepOK(sent, t)
    BY <2>5, <2>7, <2>71, EmitEachOK
  <2>. HIDE DEF sent
  <2> QED BY <2>8, ExhaustSourceOK
<1>. HIDE DEF drained
<1>8. StepOK(outcome, t)
  BY <1>1, <1>3, <1>4, RecoverOK, ExhaustSourceOK
<1>. HIDE DEF outcome
<1>9. final.r = IF outcome.r.connected THEN [outcome.r EXCEPT !.task = NoTask]
                ELSE Leave(outcome.r)
  BY <1>8 DEF StepOK
<1>10. final.out = outcome.out
  BY <1>8 DEF StepOK
<1> QED BY <1>0, <1>8, <1>9, <1>10, DoneOrLeftOK DEF StepOK

(* The stage after an await is a stage of an attempt.                      *)
LEMMA AfterOK ==
    ASSUME NEW t, DOMAIN t = {"stage", "generation", "groups"}
    PROVE  DOMAIN After(t) = {"stage", "generation", "groups"} /\ After(t).stage # "none"
  BY DEF After

(* What an await makes carries the generation of its attempt.              *)
LEMMA MadeByGeneration ==
    ASSUME NEW t, NEW h \in MadeBy(t)
    PROVE  h[2] = t.generation
  BY DEF MadeBy, Session, Subscription, Group

(* publishState keeps the invariant, exhaustion included.                  *)
LEMMA PublishStateOK ==
    ASSUME NEW step, NEW t, StepOK(step, t), NEW e, NEW note
    PROVE  /\ StepOK(PublishState(step, e, note), t)
           /\ LiveKept(step, PublishState(step, e, note))
<1>1. CanReserve(step.r) => step.r.nextSource <= MaxSource
  BY EndpointAssumption DEF CanReserve, StepOK, OK, Shape
<1>2. LiveKept(step, step)
  BY DEF LiveKept
<1> QED BY <1>1, <1>2, EmitOK, ExhaustSourceOK DEF PublishState

(* start() and reconnect of an endpoint whose last stop is over.           *)
LEMMA StartedOK ==
    ASSUME NEW r, OK(r, {}), r.halt.stage = "none"
    PROVE  OK(Started(r), {})
<1>1. OK([r EXCEPT !.stopped = FALSE, !.halted = FALSE], {})
  BY DEF OK, Shape, Fields, Covered, HaltedOK, QueueOK, PassOK, Stops
<1> QED BY <1>1, StartConnectOK DEF Started

(* The synchronous part of stop() and disconnect.                          *)
LEMMA HaltingOK ==
    ASSUME NEW r, OK(r, {}), r.halt.stage = "none"
    PROVE  OK(Halting(r), {})
  BY DEF Halting, OK, Shape, Fields, Covered, HaltedOK, QueueOK, PassOK, Stops

-----------------------------------------------------------------------------
(* The invariant of all endpoints, and one lemma per action.               *)

(* The inductive invariant: every endpoint satisfies its own.              *)
EndpointInv ==
    /\ DOMAIN runtime = Endpoints
    /\ \A e \in Endpoints : OK(runtime[e], {}) /\ Live(runtime[e])

(* The hub hears nothing of a step, or a sequence of messages in order.    *)
Announced ==
    hub' = hub \/ \E out : IsSequence(out) /\ hub' = FoldLeft(Published, hub, out)

(* An action of one endpoint leaves the others alone.                      *)
LEMMA TakeOK ==
    ASSUME EndpointInv, NEW e \in Endpoints, NEW step, OK(step.r, {}), Live(step.r),
           IsSequence(step.out), Take(e, step)
    PROVE  EndpointInv' /\ Announced
<1>1. runtime' = [runtime EXCEPT ![e] = step.r]
  BY DEF Take
<1>2. hub' = hub \/ hub' = FoldLeft(Published, hub, step.out)
  BY DEF Take, Route
<1>3. EndpointInv'
  BY <1>1 DEF EndpointInv
<1>4. Announced
  BY Zenon, <1>2 DEF Announced
<1> QED BY <1>3, <1>4

(* The same for an action that publishes nothing.                          *)
LEMMA TakeQuietOK ==
    ASSUME EndpointInv, NEW e \in Endpoints, NEW r, OK(r, {}), Live(r), Take(e, Quiet(r))
    PROVE  EndpointInv' /\ Announced
<1>1. Quiet(r).r = r /\ IsSequence(Quiet(r).out)
  BY QuietOK DEF Live, StepOK
<1>. PICK step : step = Quiet(r)
  OBVIOUS
<1> QED BY <1>1, TakeOK

(* The stages of an attempt follow one another, and the last one has the   *)
(* groups of all channels.                                                 *)
LEMMA AfterStage ==
    ASSUME NEW t, DOMAIN t = {"stage", "generation", "groups"},
           t.stage \in {"connect", "session", "subscription", "namespaces", "monitor"}
    PROVE  /\ After(t).stage \in {"session", "subscription", "namespaces", "monitor", "done"}
           /\ After(t).generation = t.generation
  BY DEF After

LEMMA AttemptGoesOn ==
    ASSUME NEW r, OK(r, {}), AttemptOK(r), Own(r)
    PROVE  LET t == After(r.task)
               held == r.held \cup MadeBy(r.task)
           IN /\ t.generation = r.generation /\ t.stage \notin {"closing", "lateGroup", "none"}
              /\ t.groups \in Nat
              /\ t.stage \notin {"monitor", "done"} => t.groups = 0
              /\ t.stage = "namespaces" => Channels # {}
              /\ t.stage = "monitor" => t.groups + 1 \in Channels
              /\ \A c \in Channels :
                    c <= t.groups \/ t.stage = "done" => Group(r.generation, c) \in held
<1>. DEFINE t == After(r.task)
            held == r.held \cup MadeBy(r.task)
            k == r.task.groups
<1>1. DOMAIN r.task = {"stage", "generation", "groups"} /\ r.task.generation = r.generation
        /\ r.task.stage \in {"connect", "session", "subscription", "namespaces", "monitor"}
  BY DEF OK, Shape, Own, InAttempt
<1>2. t.generation = r.generation /\ t.stage \notin {"closing", "lateGroup", "none"}
  BY <1>1, AfterStage
<1>3. /\ k \in Nat
      /\ r.task.stage # "monitor" => k = 0
      /\ r.task.stage = "namespaces" => Channels # {}
      /\ r.task.stage = "monitor" => k + 1 \in Channels
      /\ \A c \in Channels : c <= k => Group(r.generation, c) \in r.held
  BY DEF AttemptOK
<1>4. PICK n \in Nat : Channels = 1..n
  BY ChannelsAre
<1>5. CASE r.task.stage \in {"connect", "session"}
  <2>1. t.groups = 0 /\ t.stage \in {"session", "subscription"}
    BY <1>1, <1>3, <1>5 DEF After
  <2>2. \A c \in Channels : ~(c <= 0)
    BY <1>4
  <2> QED BY <1>2, <2>1, <2>2
<1>6. CASE r.task.stage = "subscription"
  <2>1. t.groups = 0 /\ t.stage = IF Channels = {} THEN "done" ELSE "namespaces"
    BY <1>1, <1>3, <1>6 DEF After
  <2>2. \A c \in Channels : ~(c <= 0)
    BY <1>4
  <2> QED BY <1>2, <2>1, <2>2
<1>7. CASE r.task.stage = "namespaces"
  <2>1. t.groups = 0 /\ t.stage = "monitor"
    BY <1>1, <1>3, <1>7 DEF After
  <2>2. \A c \in Channels : ~(c <= 0)
    BY <1>4
  <2>3. 1 \in Channels
    BY <1>3, <1>4, <1>7
  <2> QED BY <1>2, <2>1, <2>2, <2>3
<1>8. CASE r.task.stage = "monitor"
  <2>1. t.groups = k + 1 /\ t.stage = IF k + 2 \in Channels THEN "monitor" ELSE "done"
    BY <1>1, <1>8 DEF After
  <2>2. MadeBy(r.task) = {Group(r.generation, k + 1)}
    BY <1>1, <1>8 DEF MadeBy
  <2>3. k + 1 <= n /\ (k + 2 \notin Channels => n = k + 1) /\ (k + 1) + 1 = k + 2
    BY <1>3, <1>4, <1>8
  <2>4. \A c \in Channels :
           c <= k + 1 \/ k + 2 \notin Channels => Group(r.generation, c) \in held
    <3>1. SUFFICES ASSUME NEW c \in Channels, c <= k + 1
                   PROVE  Group(r.generation, c) \in held
      BY <1>4, <2>3
    <3>2. c <= k \/ c = k + 1
      BY <1>3, <1>4, <3>1
    <3> QED BY <1>3, <2>2, <3>2
  <2>. HIDE DEF t, held
  <2>5. t.stage = "done" => k + 2 \notin Channels
    BY <2>1
  <2> QED BY <1>2, <1>3, <2>1, <2>3, <2>4, <2>5 DEF t, held
<1> QED BY <1>1, <1>5, <1>6, <1>7, <1>8

(* What an attempt that is current obtains is owned at once.               *)
LEMMA ConnectProceedsOK ==
    ASSUME EndpointInv, NEW e \in Endpoints, ConnectProceeds(e)
    PROVE  EndpointInv' /\ Announced
<1>. DEFINE r == runtime[e]
            t == After(r.task)
            made == MadeBy(r.task)
            next == [r EXCEPT !.task = t, !.held = @ \cup made, !.open = @ \cup made]
            step == IF next.task.stage = "done" THEN Established(Quiet(next), e) ELSE Quiet(next)
<1>1. r.task.stage # "none" /\ OK(r, {}) /\ Live(r) /\ InAttempt(r)
        /\ r.generation = r.task.generation /\ Take(e, step)
  BY DEF ConnectProceeds, InAttempt, Current, EndpointInv
<1>2. DOMAIN t = {"stage", "generation", "groups"} /\ t.stage # "none"
  BY <1>1, AfterOK DEF OK, Shape
<1>. HIDE DEF r, t, made
<1>3. OK(next, {}) /\ next.task = t
  <2>1. Shape(next) /\ Covered(next, {}) /\ next.task = t
    BY <1>1, <1>2 DEF OK, Shape, Fields, Covered
  <2>2. HaltedOK(next)
    BY <1>1 DEF OK, Shape, Fields, HaltedOK
  <2>3. QueueOK(next)
    BY <1>1 DEF OK, Shape, Fields, QueueOK, PassOK, Stops
  <2> QED BY <2>1, <2>2, <2>3 DEF OK
<1>4. /\ next.generation = r.generation /\ next.connected = r.connected
      /\ next.failureEpoch = r.failureEpoch /\ next.cleanups = r.cleanups
      /\ next.cleanupFailed = r.cleanupFailed /\ next.pass = r.pass
      /\ next.held = r.held \cup made /\ next.residual = r.residual
      /\ next.stopped = r.stopped
  BY <1>1 DEF OK, Shape, Fields
<1>. HIDE DEF next
<1>5. Own(r) /\ ~r.stopped /\ ~r.connected /\ r.cleanups = <<>> /\ r.pass = Null
  BY <1>1 DEF Own, Live, Steady, Core, AttemptOK, OK, QueueOK, PassOK
<1>6. /\ t.generation = r.generation /\ t.stage \notin {"closing", "lateGroup", "none"}
      /\ t.groups \in Nat
      /\ t.stage \notin {"monitor", "done"} => t.groups = 0
      /\ t.stage = "namespaces" => Channels # {}
      /\ t.stage = "monitor" => t.groups + 1 \in Channels
      /\ \A c \in Channels :
            c <= t.groups \/ t.stage = "done" => Group(r.generation, c) \in r.held \cup made
  BY <1>1, <1>5, AttemptGoesOn DEF Live, Steady, Core, t, made
<1>7. NumbersOK(next)
  BY <1>1, <1>3, <1>4, <1>6, MadeByGeneration DEF Live, Steady, Core, NumbersOK, made
<1>8. AttemptOK(next) /\ ConnectedOK(next) /\ EpochsOK(next) /\ PassEpoch(next)
        /\ (next.residual # {} => Asked(next))
  BY <1>1, <1>3, <1>4, <1>5, <1>6
     DEF Live, Steady, Core, AttemptOK, ConnectedOK, EpochsOK, PassEpoch, Asked, Own, InAttempt
<1>9. Steady(next)
  BY <1>7, <1>8 DEF Steady, Core
<1>10. StepOK(Quiet(next), t) /\ Quiet(next).r = next
  BY <1>3, <1>9, QuietOK
<1>11. CASE t.stage = "done"
  <2>1. /\ OK(Established(Quiet(next), e).r, {}) /\ Live(Established(Quiet(next), e).r)
        /\ IsSequence(Established(Quiet(next), e).out)
    BY <1>3, <1>4, <1>5, <1>6, <1>10, <1>11, EstablishedOK
  <2>2. step = Established(Quiet(next), e)
    BY <1>3, <1>11
  <2> QED BY <1>1, <2>1, <2>2, TakeOK
<1>12. CASE t.stage # "done"
  <2>1. InAttempt(next) /\ next.task.stage # "none"
    <3>1. DOMAIN r.task = {"stage", "generation", "groups"}
      BY <1>1 DEF OK, Shape
    <3>2. t.stage \in {"session", "subscription", "namespaces", "monitor", "done"}
      BY <1>1, <3>1, AfterStage DEF InAttempt, t
    <3> QED BY <1>3, <1>12, <3>2 DEF InAttempt
  <2>2. Live(next)
    BY <1>3, <1>4, <1>6, <1>9, <2>1 DEF Live, HeldAsked, CaredFor, Own
  <2>3. step = Quiet(next)
    BY <1>3, <1>12
  <2> QED BY <1>1, <1>3, <2>2, <2>3, TakeQuietOK
<1> QED BY <1>11, <1>12

(* An attempt that fails recovers, then gives up what it made.             *)
LEMMA ConnectFailsOK ==
    ASSUME EndpointInv, NEW e \in Endpoints, ConnectFails(e)
    PROVE  EndpointInv' /\ Announced
<1>. DEFINE r == runtime[e]
            recovered == Recover(Quiet(r), e)
            step == [recovered EXCEPT !.r = Leave(@)]
<1>1. r.task.stage # "none" /\ OK(r, {}) /\ Steady(r) /\ Take(e, step)
  BY DEF ConnectFails, InAttempt, EndpointInv, Then, Live
<1>2. StepOK(recovered, r.task)
  BY <1>1, QuietOK, RecoverOK
<1>. HIDE DEF recovered
<1>3. OK(recovered.r, {h \in recovered.r.open : h[2] = recovered.r.task.generation})
        /\ recovered.r.task.stage # "none" /\ Core(recovered.r) /\ PassEpoch(recovered.r)
  BY <1>1, <1>2 DEF StepOK, OK, Covered, Steady
<1>4. step.r = Leave(recovered.r) /\ IsSequence(step.out)
  BY <1>2 DEF StepOK
<1>. HIDE DEF step
<1> QED BY <1>1, <1>3, <1>4, LeaveOK, LeaveLive, TakeOK

(* What an attempt obtains after a loss or a stop is registered for a      *)
(* cleanup.                                                                *)
LEMMA ConnectOvertakenOK ==
    ASSUME EndpointInv, NEW e \in Endpoints, ConnectOvertaken(e)
    PROVE  EndpointInv' /\ Announced
<1>. DEFINE r == runtime[e]
            made == [r EXCEPT !.open = @ \cup MadeBy(r.task)]
            mine(x) == {h \in x.open : h[2] = x.task.generation}
<1>1. r.task.stage # "none" /\ OK(r, {}) /\ Steady(r)
  BY DEF ConnectOvertaken, InAttempt, EndpointInv, Live
<1>2. OK(r, mine(r))
  BY <1>1 DEF OK, Covered
<1>3. made.task = r.task /\ made.open = r.open \cup MadeBy(r.task)
        /\ made.held = r.held /\ made.residual = r.residual
  BY <1>1 DEF OK, Shape, Fields
<1>4. Shape(made) /\ HaltedOK(made) /\ QueueOK(made)
  BY <1>1 DEF OK, Shape, Fields, HaltedOK, QueueOK, PassOK, Stops
<1>5. OK(made, MadeBy(r.task))
  BY <1>1, <1>3, <1>4 DEF OK, Covered
<1>6. OK(made, mine(made))
  BY <1>1, <1>3, <1>4, MadeByGeneration DEF OK, Covered
<1>10. Steady(made)
  <2>1. SameLife(r, made)
    BY <1>1 DEF OK, Shape, Fields, SameLife, Exhausted
  <2>. HIDE DEF made
  <2> QED BY <1>1, <2>1, SameLifeLive
<1>. HIDE DEF r, made
<1>7. OK(Leave(r), {}) /\ OK(Leave(made), {}) /\ Live(Leave(r)) /\ Live(Leave(made))
  BY <1>1, <1>2, <1>3, <1>6, <1>10, LeaveOK, LeaveLive DEF Steady
<1>8. CASE Take(e, Quiet(Leave(r))) \/ Take(e, Quiet(Leave(made)))
  BY <1>7, <1>8, TakeQuietOK
<1>9. CASE /\ r.task.stage = "monitor"
           /\ \E h \in MadeBy(r.task) : Take(e, Quiet(LeaveLateGroup(made, h)))
  <2>1. PICK h \in MadeBy(r.task) : Take(e, Quiet(LeaveLateGroup(made, h)))
    BY <1>9
  <2>2. MadeBy(r.task) = {h}
    BY <1>9 DEF MadeBy
  <2>3. OK(LeaveLateGroup(made, h), {}) /\ Live(LeaveLateGroup(made, h))
    BY <1>1, <1>3, <1>5, <1>10, <2>2, LeaveLateGroupOK, LeaveLateGroupLive DEF Steady
  <2> QED BY <2>1, <2>3, TakeQuietOK
<1> QED BY <1>8, <1>9 DEF ConnectOvertaken, r, made

(* Replacing the early notification of a channel leaves a sequence of      *)
(* notifications: Without, as an instance of the induction over folds.     *)
KeepUnless(c, kept, n) == IF n.channel = c THEN kept ELSE Append(kept, n)
StillSequence(c, k, kept) == IsSequence(kept)
Filter == INSTANCE FoldInduction WITH Op <- KeepUnless, P <- StillSequence

LEMMA WithoutIsSequence ==
    ASSUME NEW c, NEW notes, IsSequence(notes)
    PROVE  IsSequence(Without(notes, c))
<1>1. Without(notes, c) = Filter!Fold(c, <<>>, notes)
  BY DEF Without, Filter!Fold, Filter!Iterates, FoldLeft, MapThenFoldSet, Filter!Max, Max,
         KeepUnless
<1>2. DOMAIN notes = 1..Len(notes) /\ Len(notes) \in Nat
  BY DEF IsSequence
<1>3. StillSequence(c, 0, <<>>)
  BY NothingIsSequence DEF StillSequence
<1>4. ASSUME NEW k \in 1..Len(notes), NEW kept, StillSequence(c, k - 1, kept)
      PROVE  StillSequence(c, k, KeepUnless(c, kept, notes[k]))
  BY <1>4, AppendedIsSequence DEF StillSequence, KeepUnless
<1>. HIDE DEF StillSequence, KeepUnless
<1>5. StillSequence(c, Len(notes), Filter!Fold(c, <<>>, notes))
  BY <1>2, <1>3, <1>4, Filter!FoldLeftInduction
<1> QED BY <1>1, <1>5 DEF StillSequence

(* A notification is published or kept as an early one.                    *)
LEMMA NotificationOK ==
    ASSUME EndpointInv, NEW e \in Endpoints, NEW note, Notification(e, note)
    PROVE  EndpointInv' /\ Announced
<1>. DEFINE r == runtime[e]
            c == note.channel
            kept == [r EXCEPT !.retained = IF note.good THEN @ \cup {c} ELSE @]
            early == Append(Without(kept.early, c), note)
            buffered == [kept EXCEPT !.early = early]
<1>1. OK(r, {}) /\ Live(r)
  BY DEF EndpointInv
<1>2. SameEndpoint(r, kept)
  BY <1>1 DEF OK, Shape, Fields, SameEndpoint, Exhausted
<1>. HIDE DEF kept, early
<1>3. OK(kept, {}) /\ Live(kept) /\ kept.task = r.task
  BY <1>1, <1>2, SameOK DEF SameEndpoint
<1>4. SameEndpoint(kept, buffered)
  <2>1. IsSequence(early)
    BY <1>3, WithoutIsSequence, AppendedIsSequence DEF early, OK, Shape
  <2> QED BY <1>3, <2>1 DEF OK, Shape, Fields, SameEndpoint, Exhausted
<1>5. OK(buffered, {}) /\ Live(buffered)
  BY <1>3, <1>4, SameOK
<1>6. /\ StepOK(PublishState(Quiet(kept), e, note), kept.task)
      /\ Live(PublishState(Quiet(kept), e, note).r)
  <2>1. StepOK(Quiet(kept), kept.task) /\ Quiet(kept).r = kept
    BY <1>3, QuietOK DEF Live
  <2> QED BY <1>3, <2>1, PublishStateOK DEF LiveKept
<1>7. Take(e, PublishState(Quiet(kept), e, note)) \/ Take(e, Quiet(buffered))
  BY DEF Notification, kept, early
<1>. HIDE DEF buffered
<1> QED BY <1>5, <1>6, <1>7, TakeOK, TakeQuietOK DEF StepOK

(* A loss recovers.                                                        *)
LEMMA ConnectionLostOK ==
    ASSUME EndpointInv, NEW e \in Endpoints, ConnectionLost(e)
    PROVE  EndpointInv' /\ Announced
<1>1. OK(runtime[e], {}) /\ Live(runtime[e])
  BY DEF EndpointInv
<1>2. /\ StepOK(Recover(Quiet(runtime[e]), e), runtime[e].task)
      /\ Live(Recover(Quiet(runtime[e]), e).r)
  <2>1. StepOK(Quiet(runtime[e]), runtime[e].task) /\ Quiet(runtime[e]).r = runtime[e]
    BY <1>1, QuietOK DEF Live
  <2> QED BY <1>1, <2>1, RecoverOK DEF LiveKept
<1> QED BY <1>2, TakeOK DEF ConnectionLost, StepOK

(* The timer starts an attempt, if one may start.                          *)
LEMMA ReconnectTimerFiresOK ==
    ASSUME EndpointInv, NEW e \in Endpoints, ReconnectTimerFires(e)
    PROVE  EndpointInv' /\ Announced
<1>. DEFINE n == [runtime[e] EXCEPT !.timer = FALSE]
<1>0. OK(runtime[e], {}) /\ Steady(runtime[e]) /\ HeldAsked(runtime[e])
  BY DEF EndpointInv, Live
<1>1. OK(n, {})
  BY <1>0 DEF OK, Shape, Fields, Covered, HaltedOK, QueueOK, PassOK, Stops
<1>3. Steady(n) /\ HeldAsked(n)
  <2>1. /\ n.task = runtime[e].task /\ n.generation = runtime[e].generation
        /\ n.connected = runtime[e].connected /\ n.failureEpoch = runtime[e].failureEpoch
        /\ n.cleanups = runtime[e].cleanups /\ n.cleanupFailed = runtime[e].cleanupFailed
        /\ n.pass = runtime[e].pass /\ n.held = runtime[e].held
        /\ n.residual = runtime[e].residual /\ n.stopped = runtime[e].stopped
    BY <1>0 DEF OK, Shape, Fields
  <2>. HIDE DEF n
  <2> QED BY <1>0, <2>1 DEF Steady, Core, AttemptOK, ConnectedOK, EpochsOK, NumbersOK,
             PassEpoch, HeldAsked, Asked, Own, InAttempt, Hears, Deaf
<1>. HIDE DEF n
<1>2. OK(StartConnect(n), {}) /\ Live(StartConnect(n))
  BY <1>1, <1>3, StartConnectOK, StartConnectLive
<1> QED BY <1>2, TakeQuietOK DEF ReconnectTimerFires, n

(* A request whose failure epoch is over fails; otherwise its pass begins, *)
(* and may have nothing to close.                                          *)
LEMMA CleanupBeginsOK ==
    ASSUME EndpointInv, NEW e \in Endpoints, CleanupBegins(e)
    PROVE  EndpointInv' /\ Announced
<1>. DEFINE r == runtime[e]
<1>1. OK(r, {}) /\ Steady(r) /\ r.cleanups # <<>> /\ Head(r.cleanups) = r.cleanups[1]
        /\ 1 \in 1..Len(r.cleanups)
  <2>1. OK(r, {}) /\ Steady(r) /\ r.cleanups # <<>>
    BY DEF EndpointInv, CleanupBegins, Live
  <2>2. r.cleanups \in Seq(Request)
    BY <2>1 DEF OK, Shape
  <2> QED BY <2>1, <2>2
<1>2. OK(Settled(r, FALSE), {})
  BY <1>1, SettledOK
<1>3. OK(EndPass(BeginPass(r)), {})
  BY <1>1, BeginPassOK, EndPassOK
<1>4. CASE Head(r.cleanups).epoch # r.failureEpoch
  <2>1. Take(e, Quiet(Settled(r, FALSE)))
    BY <1>4 DEF CleanupBegins
  <2>2. r.cleanupFailed
    BY <1>1, <1>4 DEF Steady, Core, EpochsOK
  <2>3. Live(Settled(r, FALSE))
    BY <1>1, <2>2, SettledLive DEF Steady
  <2> QED BY <1>2, <2>1, <2>3, TakeQuietOK
<1>5. CASE Head(r.cleanups).epoch = r.failureEpoch
  <2>1. Take(e, Quiet(EndPass(BeginPass(r))))
    BY <1>5 DEF CleanupBegins
  <2>2. OK(BeginPass(r), {}) /\ PassOK(BeginPass(r)) /\ Live(BeginPass(r)) /\ Passing(BeginPass(r))
    BY <1>1, <1>5, BeginPassOK, BeginPassLive
  <2>3. Live(EndPass(BeginPass(r)))
    BY <2>2, EndPassLive DEF Live
  <2> QED BY <1>3, <2>1, <2>3, TakeQuietOK
<1> QED BY <1>4, <1>5

(* A handle is closed, and the pass may be over.                           *)
LEMMA HandleClosesOK ==
    ASSUME EndpointInv, NEW e \in Endpoints, HandleCloses(e)
    PROVE  EndpointInv' /\ Announced
<1>1. OK(runtime[e], {}) /\ PassOK(runtime[e]) /\ Steady(runtime[e]) /\ Passing(runtime[e])
  BY DEF EndpointInv, HandleCloses, OK, QueueOK, Live, Steady, Core, ConnectedOK, PassEpoch,
         PassOK, Passing
<1>2. PICK h : Take(e, Quiet(EndPass(Removed(runtime[e], h))))
  BY DEF HandleCloses
<1>3. OK(Removed(runtime[e], h), {}) /\ PassOK(Removed(runtime[e], h))
        /\ Steady(Removed(runtime[e], h)) /\ Passing(Removed(runtime[e], h))
  BY <1>1, RemovedOK, RemovedLive
<1> QED BY <1>2, <1>3, EndPassOK, EndPassLive, TakeQuietOK

(* A handle cannot be closed, and the pass may be over.                    *)
LEMMA HandleCloseFailsOK ==
    ASSUME EndpointInv, NEW e \in Endpoints, HandleCloseFails(e)
    PROVE  EndpointInv' /\ Announced
<1>1. OK(runtime[e], {}) /\ PassOK(runtime[e]) /\ Steady(runtime[e]) /\ Passing(runtime[e])
  BY DEF EndpointInv, HandleCloseFails, OK, QueueOK, Live, Steady, Core, ConnectedOK, PassEpoch,
         PassOK, Passing
<1>2. PICK h : Take(e, Quiet(EndPass([runtime[e] EXCEPT !.pass.failed = @ \cup {h}])))
  BY DEF HandleCloseFails
<1>. DEFINE n == [runtime[e] EXCEPT !.pass.failed = @ \cup {h}]
<1>3. OK(n, {}) /\ PassOK(n) /\ Steady(n) /\ Passing(n)
  BY <1>1, FailedOK, FailedLive
<1>. HIDE DEF n
<1>4. Take(e, Quiet(EndPass(n)))
  BY <1>2 DEF n
<1> QED BY <1>3, <1>4, EndPassOK, EndPassLive, TakeQuietOK

(* The stop goes on to wait for what is under way.                         *)
LEMMA BrowseReleasedOK ==
    ASSUME EndpointInv, NEW e \in Endpoints, BrowseReleased(e)
    PROVE  EndpointInv' /\ Announced
<1>. DEFINE r == runtime[e]
            settling == [r EXCEPT !.halt.stage = "settle"]
            told == IF r.halt.live THEN PublishDisconnected(Quiet(settling), e) ELSE Quiet(settling)
            step == [told EXCEPT !.r = ClearEarly(@)]
<1>1. OK(r, {}) /\ Live(r) /\ r.halt.stage = "release" /\ Take(e, step)
  BY DEF EndpointInv, BrowseReleased, Then
<1>2. OK(settling, {}) /\ SameLife(r, settling)
  BY <1>1 DEF OK, Shape, Fields, Covered, HaltedOK, QueueOK, PassOK, Stops, SameLife, Exhausted
<1>. HIDE DEF settling
<1>5. StepOK(Quiet(settling), settling.task) /\ Live(Quiet(settling).r)
  BY <1>1, <1>2, SameLifeLive, QuietOK DEF Live
<1>3. StepOK(told, settling.task) /\ Live(told.r)
  BY <1>5, PublishDisconnectedOK DEF LiveKept
<1>. HIDE DEF told
<1>4. OK(step.r, {}) /\ Live(step.r) /\ IsSequence(step.out)
  BY <1>3, ClearEarlyOK DEF StepOK
<1>. HIDE DEF step
<1> QED BY <1>1, <1>4, TakeOK

(* The stop is rejected; the endpoint stays stopped but the stop did not   *)
(* resolve.                                                                *)
LEMMA BrowseNotReleasedOK ==
    ASSUME EndpointInv, NEW e \in Endpoints, BrowseNotReleased(e)
    PROVE  EndpointInv' /\ Announced
<1>. DEFINE n == [runtime[e] EXCEPT !.halt = NoHalt]
<1>1. OK(runtime[e], {}) /\ Live(runtime[e])
  BY DEF EndpointInv
<1>2. OK(n, {}) /\ SameLife(runtime[e], n)
  BY <1>1 DEF BrowseNotReleased, OK, Shape, Fields, Covered, HaltedOK, QueueOK, PassOK, Stops,
     NoHalt, SameLife, Exhausted
<1>. HIDE DEF n
<1>3. Live(n)
  BY <1>1, <1>2, SameLifeLive
<1> QED BY <1>2, <1>3, TakeQuietOK DEF BrowseNotReleased, n

(* The stop queues its cleanup, after the attempt has ended and only once. *)
LEMMA HaltSettlesOK ==
    ASSUME EndpointInv, NEW e \in Endpoints, HaltSettles(e)
    PROVE  EndpointInv' /\ Announced
<1>. DEFINE r == runtime[e]
            over == [r EXCEPT !.halt = NoHalt]
            q == [by |-> "stop", epoch |-> r.failureEpoch, joined |-> FALSE]
            s == Append(r.cleanups, q)
            n == [r EXCEPT !.halt.stage = "cleanup", !.cleanups = s]
<1>1. OK(r, {}) /\ r.halt.stage = "settle" /\ r.task.stage = "none" /\ r.stopped /\ Stops(r) = {}
        /\ Live(r)
  BY DEF EndpointInv, HaltSettles, OK, QueueOK
<1>2. OK(over, {}) /\ Live(over)
  <2>1. OK(over, {}) /\ SameLife(r, over)
    BY ZenonT(30), <1>1 DEF OK, Shape, Fields, Covered, HaltedOK, QueueOK, PassOK, Stops, NoHalt, SameLife,
       Exhausted
  <2>. HIDE DEF over
  <2> QED BY <1>1, <2>1, SameLifeLive
<1>8. Live(n)
  <2>. DEFINE m == [r EXCEPT !.cleanups = s]
  <2>1. Live(m)
    BY <1>1, QueuedOnceMore DEF OK, Live, Steady, Own, InAttempt
  <2>2. SameLife(m, n)
    BY <1>1 DEF OK, Shape, Fields, SameLife, Exhausted
  <2>. HIDE DEF m, n
  <2> QED BY <2>1, <2>2, SameLifeLive
<1>3. s \in Seq(Request) /\ Len(r.cleanups) \in Nat /\ Len(s) = Len(r.cleanups) + 1
        /\ \A i \in 1..Len(r.cleanups) : s[i] = r.cleanups[i]
        /\ (r.cleanups # <<>> => Len(r.cleanups) > 0)
  BY <1>1 DEF OK, Shape, Request
<1>. HIDE DEF s
<1>4. Stops(n) \subseteq {Len(r.cleanups) + 1}
  BY <1>1, <1>3 DEF OK, Shape, Fields, Stops
<1>5. OK(n, {})
  <2>1. Shape(n) /\ Covered(n, {}) /\ HaltedOK(n)
    BY <1>1, <1>3 DEF OK, Shape, Fields, Covered, HaltedOK
  <2>2. QueueOK(n)
    <3>1. n.stopped /\ n.halt.stage = "cleanup" /\ n.task.stage = "none" /\ n.pass = r.pass
            /\ n.cleanups = s
      BY <1>1 DEF OK, Shape, Fields
    <3>2. n.pass # Null => PassOK(n)
      <4>1. ASSUME r.pass # Null PROVE r.cleanups # <<>> /\ 1 \notin Stops(n) /\ s # <<>>
        BY <1>1, <1>3, <1>4, <4>1 DEF OK, QueueOK, PassOK
      <4> QED BY <1>1, <3>1, <4>1 DEF OK, QueueOK, PassOK
    <3> QED BY <1>4, <3>1, <3>2 DEF QueueOK
  <2> QED BY <2>1, <2>2 DEF OK
<1>6. Enqueue([r EXCEPT !.halt.stage = "cleanup"], "stop") = n
  BY <1>1 DEF Enqueue, OK, Shape, Fields, s
<1>. HIDE DEF n, over
<1>7. Take(e, Quiet(over)) \/ Take(e, Quiet(n))
  BY <1>6 DEF HaltSettles, over
<1> QED BY <1>2, <1>5, <1>7, <1>8, TakeQuietOK

(* start() of several endpoints.                                           *)
LEMMA StartEachOK ==
    ASSUME EndpointInv, NEW S, StartEach(S)
    PROVE  EndpointInv'
<1>1. \A e \in Endpoints : OK(Started(runtime[e]), {}) /\ (e \in S => Live(Started(runtime[e])))
  BY StartedOK, StartedLive DEF EndpointInv, StartEach, Unhalted
<1> QED BY <1>1 DEF EndpointInv, StartEach

(* stop() of several endpoints.                                            *)
LEMMA HaltEachOK ==
    ASSUME EndpointInv, NEW S, HaltEach(S)
    PROVE  EndpointInv'
<1>1. \A e \in Endpoints : OK(Halting(runtime[e]), {}) /\ Live(Halting(runtime[e]))
  BY HaltingOK, HaltingLive DEF EndpointInv, HaltEach, Unhalted
<1> QED BY <1>1 DEF EndpointInv, HaltEach

(* The adapter of a candidate starts from new endpoints.                   *)
LEMMA StartCandidateOK ==
    ASSUME EndpointInv, NEW revision, StartCandidate(revision)
    PROVE  EndpointInv'
<1>1. OK(Fresh, {}) /\ Fresh.halt.stage = "none"
  BY FreshOK DEF Fresh, NoHalt
<1>2. ~CleanupPending(Fresh)
  BY DEF CleanupPending, HasHandles, Fresh
<1>3. OK(Started(Fresh), {}) /\ Live(Started(Fresh))
  BY <1>1, <1>2, FreshLive, StartedOK, StartedLive
<1> QED BY <1>1, <1>3, FreshLive DEF EndpointInv, StartCandidate

(* Every step of an endpoint keeps the invariant, and the hub hears what   *)
(* it has to say.                                                          *)
LEMMA EndpointStepOK ==
    ASSUME EndpointInv, NEW e \in Endpoints, EndpointStep(e)
    PROVE  EndpointInv' /\ Announced
<1>1. CASE EndpointProgress(e)
  BY <1>1, ConnectProceedsOK, ConnectOvertakenOK, ReconnectTimerFiresOK, CleanupBeginsOK,
     HandleClosesOK, BrowseReleasedOK, HaltSettlesOK DEF EndpointProgress
<1>2. CASE EndpointFault(e)
  BY <1>2, ConnectFailsOK, ConnectionLostOK, HandleCloseFailsOK, BrowseNotReleasedOK
     DEF EndpointFault
<1>3. CASE \E note \in Notes : Notification(e, note)
  BY <1>3, NotificationOK
<1>4. CASE StopEndpoints({e}) \/ StartEndpoints({e})
  BY <1>4, StartEachOK, HaltEachOK DEF StopEndpoints, StartEndpoints, Announced
<1> QED BY <1>1, <1>2, <1>3, <1>4 DEF EndpointStep

(* So does every step of a Project transition.                             *)
LEMMA GatewayStepOK ==
    ASSUME EndpointInv, GatewayStep
    PROVE  EndpointInv'
<1>1. CASE StopPrevious \/ RecoveryFails \/ Withdraw
  BY <1>1, HaltEachOK DEF StopPrevious, RecoveryFails, Withdraw
<1>2. CASE RecoverPrevious
  BY <1>2, StartEachOK DEF RecoverPrevious
<1>3. CASE \E revision \in scenario.revisions : StartCandidate(revision)
  BY <1>3, StartCandidateOK
<1>4. CASE RecoveryRequired \/ Activate \/ Deactivate
  BY <1>4 DEF RecoveryRequired, Activate, Deactivate, EndpointInv
<1> QED BY <1>1, <1>2, <1>3, <1>4 DEF GatewayStep

-----------------------------------------------------------------------------
(* The theorems.                                                           *)

(* The inductive invariant holds in every state of the workcell, for all   *)
(* endpoints, channels, bounds and scenarios.                              *)
THEOREM EndpointsKept == WorkcellSpec => []EndpointInv
<1>1. WorkcellInit => EndpointInv
  BY FreshOK, FreshLive DEF WorkcellInit, Init, EndpointInv
<1>2. EndpointInv /\ [WorkcellNext]_<<vars, pageVars>> => EndpointInv'
  <2>. SUFFICES ASSUME EndpointInv, [WorkcellNext]_<<vars, pageVars>> PROVE EndpointInv'
    OBVIOUS
  <2>1. CASE \E e \in Endpoints : EndpointStep(e)
    BY <2>1, EndpointStepOK
  <2>2. CASE GatewayStep
    BY <2>2, GatewayStepOK
  <2>3. CASE \E s \in Sockets : SocketStep(s)
    BY <2>3 DEF SocketStep, SendCallback, SendFails, PeerGone, EndpointInv
  <2>4. CASE \E b \in Browsers : PageStep(b)
    BY <2>4 DEF PageStep, EndpointInv
  <2>5. CASE JobStep
    BY <2>5 DEF JobStep, EndpointInv
  <2>6. CASE RuntimeStep
    BY <2>6 DEF RuntimeStep, EndpointInv
  <2>7. CASE UNCHANGED <<vars, pageVars>>
    BY <2>7 DEF vars, EndpointInv
  <2> QED BY <2>1, <2>2, <2>3, <2>4, <2>5, <2>6, <2>7 DEF WorkcellNext, Next
<1> QED BY <1>1, <1>2, PTL DEF WorkcellSpec

(* Once stop() or a disconnect has resolved the server holds no client,    *)
(* session, subscription or group of the endpoint, nothing is under way    *)
(* that could make one, and the endpoint is neither connected nor about to *)
(* reconnect (stopEndpointRuntime, connectEndpoint and closeRuntimePass of *)
(* opcua-client-adapter.ts).                                               *)
THEOREM StoppedLeavesNothing == WorkcellSpec => []StopLeavesNothing
<1>1. EndpointInv => StopLeavesNothing
  BY DEF EndpointInv, OK, HaltedOK, StopLeavesNothing
<1> QED BY <1>1, EndpointsKept, PTL

(* However losses, timeouts, stops and cleanups interleave, an endpoint    *)
(* that was not stopped hears its server or has something under way that   *)
(* gets it there, unless it ran out of numbers, could not be cleaned up,   *)
(* or is deaf after a rejected stop (scheduleReconnect, startConnect and   *)
(* recover of opcua-client-adapter.ts).                                    *)
THEOREM NobodyStranded == WorkcellSpec => []EndpointNotStranded
<1>1. EndpointInv => EndpointNotStranded
  BY DEF EndpointInv, Live, CaredFor, EndpointNotStranded
<1> QED BY <1>1, EndpointsKept, PTL

-----------------------------------------------------------------------------
(* The hub follows the endpoints: HubFollowsEndpoint of DataPlane.  First  *)
(* the order in which a timeline hands over what it has retained.          *)

Olders(S, m) == {o \in S : Older(o, m)}

(* Observations of one publisher that their source sequences tell apart.   *)
Numbered(S, p) ==
    /\ IsFiniteSet(S) /\ p \in Nat
    /\ \A m \in S : m.publisher = p /\ m.seq \in Nat
    /\ \A m, o \in S : m.seq = o.seq => m = o

LEMMA RankGrows ==
    ASSUME NEW S, NEW p, Numbered(S, p), NEW m \in S, NEW o \in S, m.seq < o.seq
    PROVE  Cardinality(Olders(S, m)) < Cardinality(Olders(S, o))
<1>1. \A x \in S : x \in Olders(S, m) <=> x.seq < m.seq
  BY DEF Numbered, Olders, Older
<1>2. \A x \in S : x \in Olders(S, o) <=> x.seq < o.seq
  BY DEF Numbered, Olders, Older
<1>3. Olders(S, m) \subseteq S /\ Olders(S, o) \subseteq S
  BY DEF Olders
<1>4. m \notin Olders(S, m) /\ Olders(S, m) \cup {m} \subseteq Olders(S, o)
  BY <1>1, <1>2, <1>3 DEF Numbered
<1>5. IsFiniteSet(Olders(S, m)) /\ IsFiniteSet(Olders(S, o))
  BY <1>3, FS_Subset DEF Numbered
<1>6. Cardinality(Olders(S, m) \cup {m}) = Cardinality(Olders(S, m)) + 1
  BY <1>4, <1>5, FS_AddElement
<1>7. Cardinality(Olders(S, m) \cup {m}) <= Cardinality(Olders(S, o))
  BY <1>4, <1>5, FS_Subset
<1>8. Cardinality(Olders(S, m)) \in Nat /\ Cardinality(Olders(S, o)) \in Nat
  BY <1>5, FS_CardinalityType
<1> QED BY <1>6, <1>7, <1>8

(* Flattened is a sequence of exactly those observations, oldest first.    *)
LEMMA FlattenedIs ==
    ASSUME NEW S, NEW p, Numbered(S, p)
    PROVE  LET s == Flattened(S)
               n == Cardinality(S)
           IN /\ n \in Nat /\ s \in [1..n -> S]
              /\ \A m \in S : \E i \in 1..n : s[i] = m
              /\ \A i, j \in 1..n : i < j => s[i].seq < s[j].seq
<1>. DEFINE n == Cardinality(S)
            rank(m) == Cardinality(Olders(S, m))
            s == Flattened(S)
            f == [m \in S |-> rank(m) + 1]
<1>1. n \in Nat /\ IsFiniteSet(S)
  BY FS_CardinalityType DEF Numbered
<1>2. ASSUME NEW m \in S PROVE rank(m) \in Nat /\ rank(m) + 1 \in 1..n
  <2>1. Olders(S, m) \in SUBSET (S \ {m})
    BY DEF Olders, Older, Numbered
  <2>2. IsFiniteSet(S \ {m}) /\ Cardinality(S \ {m}) = n - 1
    BY <1>1, FS_RemoveElement
  <2>3. IsFiniteSet(Olders(S, m)) /\ rank(m) <= n - 1
    BY <2>1, <2>2, FS_Subset
  <2>4. rank(m) \in Nat
    BY <2>3, FS_CardinalityType
  <2> QED BY <1>1, <2>3, <2>4
<1>3. ASSUME NEW m \in S, NEW o \in S, rank(m) = rank(o) PROVE m = o
  <2>1. ~(rank(m) < rank(o)) /\ ~(rank(o) < rank(m))
    BY <1>2, <1>3
  <2>2. ~(m.seq < o.seq) /\ ~(o.seq < m.seq)
    BY <2>1, RankGrows
  <2>3. m.seq \in Nat /\ o.seq \in Nat
    BY DEF Numbered
  <2> QED BY <2>2, <2>3 DEF Numbered
<1>. HIDE DEF rank
<1>4. f \in Injection(S, 1..n)
  BY <1>2, <1>3 DEF Injection, IsInjective
<1>5. IsFiniteSet(1..n) /\ Cardinality(1..n) = n
  BY <1>1, FS_Interval
<1>6. f \in Surjection(S, 1..n)
  BY <1>4, <1>5, FS_Injection
<1>7. ASSUME NEW i \in 1..n PROVE s[i] \in S /\ rank(s[i]) = i - 1
  <2>1. PICK m \in S : f[m] = i
    BY <1>6 DEF Surjection
  <2>2. rank(m) = i - 1
    BY <1>2, <2>1
  <2>3. s[i] = CHOOSE x \in S : rank(x) = i - 1
    BY DEF Flattened, rank, Olders
  <2> QED BY <2>2, <2>3
<1>8. s \in [1..n -> S]
  <2>. DEFINE ranked(i) == CHOOSE m \in S : rank(m) = i - 1
  <2>1. s = [i \in 1..n |-> ranked(i)]
    BY DEF Flattened, rank, Olders
  <2>. HIDE DEF ranked
  <2>2. \A i \in 1..n : s[i] = ranked(i)
    BY <2>1
  <2>. HIDE DEF s
  <2> QED BY <1>7, <2>1, <2>2
<1>. HIDE DEF s, f
<1>9. ASSUME NEW m \in S PROVE \E i \in 1..n : s[i] = m
  <2>1. rank(m) + 1 \in 1..n /\ (rank(m) + 1) - 1 = rank(m)
    BY <1>2
  <2>2. s[rank(m) + 1] \in S /\ rank(s[rank(m) + 1]) = rank(m)
    BY <1>7, <2>1
  <2> QED BY <1>3, <2>1, <2>2
<1>10. ASSUME NEW i \in 1..n, NEW j \in 1..n, i < j PROVE s[i].seq < s[j].seq
  <2>1. s[i] \in S /\ s[j] \in S /\ rank(s[i]) < rank(s[j])
    BY <1>7, <1>10
  <2>2. ~(s[j].seq < s[i].seq)
    BY <1>2, <2>1, RankGrows DEF rank
  <2>3. s[i] # s[j]
    BY <1>2, <2>1
  <2> QED BY <2>1, <2>2, <2>3 DEF Numbered
<1> QED BY <1>1, <1>8, <1>9, <1>10 DEF s

-----------------------------------------------------------------------------
(* Runs: messages of one endpoint that come one after another.  Whether a  *)
(* state is kept depends on stamps, but what the hub will admit next does  *)
(* not, so a run leads from view to view.                                  *)

View(a) == [last |-> a.last, session |-> a.session, connected |-> a.connected]

Blank == View(NoAdmission)

IsAdmission(a) ==
    /\ a = [last |-> a.last, session |-> a.session, connected |-> a.connected]
    /\ a.last \in Nat /\ a.connected \in BOOLEAN

(* A message of endpoint e and of the runtime that is activated as v.      *)
Belongs(m, e, v) ==
    m.endpoint = e /\ m.revision = v.revision /\ m.publisher = v.publisher /\ m.seq \in Nat

(* What m makes of a view, if it is admitted.                              *)
Heeded(a, m) ==
    IF Admits(a, m)
    THEN [last |-> m.seq,
          session |-> IF m.kind = "connected" THEN <<m.publisher, m.session>> ELSE a.session,
          connected |-> IF m.kind = "state" THEN a.connected ELSE m.kind = "connected"]
    ELSE a

Steps(f, ms, e, v) ==
    \A i \in 1..Len(ms) : Belongs(ms[i], e, v) /\ f[i] = Heeded(f[i - 1], ms[i])

(* ms leads from view a to view b.                                         *)
Run(ms, e, v, a, b) ==
    IsSequence(ms) /\ \E f : f[0] = a /\ f[Len(ms)] = b /\ Steps(f, ms, e, v)

LEMMA ViewIs ==
    ASSUME NEW a, NEW m
    PROVE  /\ View(a).last = a.last /\ View(a).session = a.session
           /\ View(a).connected = a.connected
           /\ Admits(View(a), m) <=> Admits(a, m)
           /\ Admits(a, m) => View(Admitted(a, m)) = Heeded(View(a), m)
<1>1. View(a).last = a.last /\ View(a).session = a.session /\ View(a).connected = a.connected
  BY DEF View
<1>. DEFINE w == View(a)
<1>. HIDE DEF w
<1>2. w.last = a.last /\ w.session = a.session /\ w.connected = a.connected
  BY <1>1 DEF w
<1>3. Admits(w, m) <=> Admits(a, m)
  BY <1>2 DEF Admits
<1>4. ASSUME Admits(a, m) PROVE View(Admitted(a, m)) = Heeded(w, m)
  <2>1. /\ Admitted(a, m).last = m.seq
        /\ Admitted(a, m).session
             = IF m.kind = "connected" THEN <<m.publisher, m.session>> ELSE a.session
        /\ Admitted(a, m).connected
             = IF m.kind = "state" THEN a.connected ELSE m.kind = "connected"
    BY DEF Admitted
  <2> QED BY <1>2, <1>3, <1>4, <2>1 DEF View, Heeded
<1> QED BY <1>1, <1>3, <1>4 DEF w

LEMMA SequenceLength ==
    ASSUME NEW s, IsSequence(s)
    PROVE  Len(s) \in Nat /\ DOMAIN s = 1..Len(s)
  BY DEF IsSequence

LEMMA RunNothing ==
    ASSUME NEW e, NEW v, NEW a
    PROVE  Run(<<>>, e, v, a, a)
<1>. DEFINE f == [i \in 0..0 |-> a]
<1>1. f[0] = a /\ f[Len(<<>>)] = a /\ Steps(f, <<>>, e, v)
  BY DEF Steps
<1> QED BY <1>1, NothingIsSequence DEF Run

LEMMA RunAppend ==
    ASSUME NEW ms, NEW e, NEW v, NEW a, NEW b, Run(ms, e, v, a, b),
           NEW m, Belongs(m, e, v)
    PROVE  Run(Append(ms, m), e, v, a, Heeded(b, m))
<1>1. PICK f : f[0] = a /\ f[Len(ms)] = b /\ Steps(f, ms, e, v)
  BY DEF Run
<1>2. Len(ms) \in Nat /\ IsSequence(ms)
  BY SequenceLength DEF Run
<1>. DEFINE n == Len(ms)
            next == Heeded(b, m)
            g == [i \in 0..(n + 1) |-> IF i <= n THEN f[i] ELSE next]
            ns == Append(ms, m)
<1>3. Len(ns) = n + 1 /\ ns[n + 1] = m /\ \A i \in 1..n : ns[i] = ms[i]
  BY <1>2 DEF IsSequence
<1>4. IsSequence(ns)
  BY <1>2, AppendedIsSequence
<1>. HIDE DEF ns, next
<1>5. ASSUME NEW i \in 1..(n + 1)
      PROVE  Belongs(ns[i], e, v) /\ g[i] = Heeded(g[i - 1], ns[i])
  <2>1. CASE i = n + 1
    BY <1>1, <1>2, <1>3, <2>1 DEF next
  <2>2. CASE i # n + 1
    <3>1. i \in 1..n /\ g[i] = f[i] /\ g[i - 1] = f[i - 1]
      BY <1>2, <2>2
    <3> QED BY <1>1, <1>3, <3>1 DEF Steps
  <2> QED BY <2>1, <2>2
<1>6. g[0] = a /\ g[n + 1] = next
  BY <1>1, <1>2
<1>. HIDE DEF g
<1> QED BY <1>3, <1>4, <1>5, <1>6 DEF Run, Steps, ns, next

LEMMA RunOn ==
    ASSUME NEW s, NEW t, NEW e, NEW v, NEW a, NEW b, NEW c, Run(s, e, v, a, b), Run(t, e, v, b, c)
    PROVE  Run(s \o t, e, v, a, c)
<1>1. PICK f : f[0] = a /\ f[Len(s)] = b /\ Steps(f, s, e, v)
  BY DEF Run
<1>2. PICK h : h[0] = b /\ h[Len(t)] = c /\ Steps(h, t, e, v)
  BY DEF Run
<1>3. Len(s) \in Nat /\ Len(t) \in Nat /\ IsSequence(s) /\ IsSequence(t)
  BY SequenceLength DEF Run
<1>. DEFINE k == Len(s)
            n == Len(t)
            g == [i \in 0..(k + n) |-> IF i <= k THEN f[i] ELSE h[i - k]]
            ns == s \o t
<1>4. /\ Len(ns) = k + n
      /\ \A i \in 1..k : ns[i] = s[i]
      /\ \A i \in 1..n : ns[k + i] = t[i]
  <2>1. s \in Seq(Range(s) \cup Range(t)) /\ t \in Seq(Range(s) \cup Range(t))
    BY <1>3 DEF IsSequence
  <2> QED BY <1>3, <2>1
<1>5. IsSequence(ns)
  BY <1>3, JoinedIsSequence
<1>. HIDE DEF ns
<1>6. ASSUME NEW i \in 1..(k + n)
      PROVE  Belongs(ns[i], e, v) /\ g[i] = Heeded(g[i - 1], ns[i])
  <2>1. CASE i <= k
    <3>1. i \in 1..k /\ g[i] = f[i] /\ g[i - 1] = f[i - 1]
      BY <1>3, <2>1
    <3> QED BY <1>1, <1>4, <3>1 DEF Steps
  <2>2. CASE ~(i <= k)
    <3>1. i - k \in 1..n /\ k + (i - k) = i /\ g[i] = h[i - k]
      BY <1>3, <2>2
    <3>2. g[i - 1] = h[(i - k) - 1]
      <4>1. CASE i = k + 1
        <5>1. (i - k) - 1 = 0 /\ i - 1 = k /\ g[k] = f[k]
          BY <1>3, <4>1
        <5> QED BY <1>1, <1>2, <5>1
      <4>2. CASE i # k + 1
        BY <1>3, <2>2, <4>2
      <4> QED BY <4>1, <4>2
    <3>3. ns[i] = t[i - k]
      BY <1>4, <3>1
    <3> QED BY <1>2, <3>1, <3>2, <3>3 DEF Steps
  <2> QED BY <2>1, <2>2
<1>7. g[0] = a
  BY <1>1, <1>3
<1>8. g[k + n] = c
  <2>1. CASE n = 0
    BY <1>1, <1>2, <1>3, <2>1
  <2>2. CASE n # 0
    BY <1>2, <1>3, <2>2
  <2> QED BY <2>1, <2>2
<1>. HIDE DEF g
<1> QED BY <1>4, <1>5, <1>6, <1>7, <1>8 DEF Run, Steps, ns

LEMMA HeededIs ==
    ASSUME NEW a, IsAdmission(a), NEW m, m.seq \in Nat
    PROVE  IsAdmission(Heeded(a, m))
<1>1. a.connected \in BOOLEAN
  BY DEF IsAdmission
<1>2. PICK c \in BOOLEAN : c = IF m.kind = "state" THEN a.connected ELSE m.kind = "connected"
  BY <1>1
<1>3. PICK s : s = IF m.kind = "connected" THEN <<m.publisher, m.session>> ELSE a.session
  OBVIOUS
<1>4. Heeded(a, m) \in {a, [last |-> m.seq, session |-> s, connected |-> c]}
  BY <1>2, <1>3 DEF Heeded
<1> QED BY <1>4 DEF IsAdmission

(* What a run ends in is an admission.                                     *)
LEMMA RunEnds ==
    ASSUME NEW ms, NEW e, NEW v, NEW a, NEW b, Run(ms, e, v, a, b), IsAdmission(a)
    PROVE  IsAdmission(b)
<1>1. PICK f : f[0] = a /\ f[Len(ms)] = b /\ Steps(f, ms, e, v)
  BY DEF Run
<1>2. Len(ms) \in Nat
  BY SequenceLength DEF Run
<1>. DEFINE T == {k \in Nat : k <= Len(ms) => IsAdmission(f[k])}
<1>3. 0 \in T
  BY <1>1
<1>4. ASSUME NEW k \in T PROVE k + 1 \in T
  <2>1. SUFFICES ASSUME k + 1 <= Len(ms) PROVE IsAdmission(f[k + 1])
    OBVIOUS
  <2>2. k + 1 \in 1..Len(ms) /\ (k + 1) - 1 = k /\ IsAdmission(f[k])
    BY <1>2, <2>1
  <2>3. f[k + 1] = Heeded(f[k], ms[k + 1]) /\ ms[k + 1].seq \in Nat
    BY <1>1, <2>2 DEF Steps, Belongs
  <2> QED BY <2>2, <2>3, HeededIs
<1>5. T = Nat
  <2>. HIDE DEF T
  <2>1. T \in SUBSET Nat
    BY DEF T
  <2> QED BY <1>3, <1>4, <2>1, Filter!Climb
<1> QED BY <1>1, <1>2, <1>5

-----------------------------------------------------------------------------
(* A staging timeline has forgotten values, but what it hands over leads   *)
(* to the view that all its messages led to, or to one that is only behind *)
(* in states which were not kept.                                          *)

At(z, k) == [last |-> k, session |-> z.session, connected |-> z.connected]

(* The segment of states after view z, which leads to a.                   *)
Segment(S, e, v, z, a) ==
    /\ Numbered(S, v.publisher)
    /\ \A m \in S : /\ Belongs(m, e, v) /\ m.kind = "state" /\ ~Ahead(m)
                   /\ z.last < m.seq /\ m.seq <= a.last
    /\ S # {} => z.connected /\ \E m \in S : m.seq = a.last
    /\ S = {} => a.last = z.last
    /\ a = At(z, a.last) /\ a.last \in Nat

(* View b is behind view a in states at most.                              *)
Near(b, a) ==
    /\ IsAdmission(b) /\ b.session = a.session /\ b.connected = a.connected
    /\ b.last <= a.last /\ (~a.connected => b.last = a.last)

Agrees(t, e, v, a) ==
    /\ DOMAIN t = {"entries", "current"}
    /\ \E z, b : /\ Run(t.entries, e, v, Blank, z) /\ Segment(t.current, e, v, z, b)
                 /\ Near(b, a)

LEMMA BlankIs == IsAdmission(Blank) /\ Blank.last = 0 /\ Blank.session = Null /\ ~Blank.connected
  BY DEF Blank, View, NoAdmission, IsAdmission

LEMMA AtAdmits ==
    ASSUME NEW z, IsAdmission(z), z.connected, NEW k \in Nat, NEW m,
           m.kind = "state", m.seq \in Nat, k < m.seq, ~Ahead(m)
    PROVE  Admits(At(z, k), m) /\ Heeded(At(z, k), m) = At(z, m.seq)
<1>1. Admits(At(z, k), m)
  BY DEF At, Admits, IsAdmission
<1>2. At(z, k).session = z.session /\ At(z, k).connected = z.connected
  BY DEF At
<1> QED BY <1>1, <1>2 DEF At, Heeded

LEMMA SegmentRuns ==
    ASSUME NEW S, NEW e, NEW v, NEW z, NEW a, IsAdmission(z), Segment(S, e, v, z, a)
    PROVE  Run(Flattened(S), e, v, z, a)
<1>. DEFINE s == Flattened(S)
            n == Cardinality(S)
            last(i) == IF i = 0 THEN z.last ELSE s[i].seq
            f == [i \in 0..n |-> At(z, last(i))]
<1>1. /\ n \in Nat /\ s \in [1..n -> S]
      /\ \A m \in S : \E i \in 1..n : s[i] = m
      /\ \A i, j \in 1..n : i < j => s[i].seq < s[j].seq
  BY FlattenedIs DEF Segment
<1>. HIDE DEF s
<1>2. IsSequence(s) /\ Len(s) = n
  <2>1. s \in Seq(S) /\ Len(s) = n
    BY <1>1
  <2> QED BY <2>1, SequenceOfItsValues
<1>3. \A i \in 1..n : /\ Belongs(s[i], e, v) /\ s[i].kind = "state" /\ z.last < s[i].seq
                      /\ s[i].seq <= a.last /\ s[i].seq \in Nat /\ ~Ahead(s[i])
  BY <1>1 DEF Segment, Numbered
<1>4. z.last \in Nat /\ a.last \in Nat
  BY DEF IsAdmission, Segment
<1>5. ASSUME NEW i \in 1..n PROVE f[i] = Heeded(f[i - 1], s[i])
  <2>1. s[i] \in S /\ z.connected
    BY <1>1 DEF Segment
  <2>2. last(i - 1) \in Nat /\ last(i - 1) < s[i].seq
    <3>1. CASE i = 1
      BY <1>3, <1>4, <3>1
    <3>2. CASE i # 1
      <4>1. i - 1 \in 1..n /\ i - 1 < i
        BY <1>1, <3>2
      <4> QED BY <1>1, <1>3, <4>1
    <3> QED BY <3>1, <3>2
  <2>3. i - 1 \in 0..n /\ i \in 0..n /\ last(i) = s[i].seq
    BY <1>1
  <2>4. PICK k \in Nat : k = last(i - 1)
    BY <2>2
  <2>5. f[i - 1] = At(z, k) /\ f[i] = At(z, s[i].seq)
    BY <2>3, <2>4
  <2>. HIDE DEF f, last
  <2> QED BY <1>3, <2>1, <2>2, <2>4, <2>5, AtAdmits
<1>6. f[0] = z
  <2>1. f[0] = At(z, z.last)
    BY <1>1
  <2> QED BY <2>1 DEF At, IsAdmission
<1>7. f[n] = a
  <2>1. CASE S = {}
    <3>1. n = 0 /\ a = At(z, z.last)
      BY <1>1, <2>1, FS_EmptySet DEF Segment
    <3> QED BY <3>1
  <2>2. CASE S # {}
    <3>1. PICK m \in S : m.seq = a.last
      BY <2>2 DEF Segment
    <3>2. PICK i \in 1..n : s[i] = m
      BY <1>1, <3>1
    <3>3. n \in 1..n /\ (i = n \/ i < n)
      BY <1>1
    <3>4. s[n].seq = a.last
      BY <1>1, <1>3, <1>4, <3>1, <3>2, <3>3
    <3>5. f[n] = At(z, a.last)
      BY <3>3, <3>4
    <3> QED BY <3>5 DEF Segment
  <2> QED BY <2>1, <2>2
<1>. HIDE DEF f
<1>8. f[Len(s)] = a /\ Steps(f, s, e, v)
  BY <1>2, <1>3, <1>5, <1>7 DEF Steps
<1>9. Run(s, e, v, z, a)
  BY <1>2, <1>6, <1>8 DEF Run
<1> QED BY <1>9 DEF s

LEMMA MessagesRun ==
    ASSUME NEW t, NEW e, NEW v, NEW a, Agrees(t, e, v, a)
    PROVE  \E b : Run(MessagesOf(t), e, v, Blank, b) /\ Near(b, a)
<1>1. PICK z, b : /\ Run(t.entries, e, v, Blank, z) /\ Segment(t.current, e, v, z, b)
                  /\ Near(b, a)
  BY DEF Agrees
<1>2. Run(Flattened(t.current), e, v, z, b)
  BY <1>1, RunEnds, BlankIs, SegmentRuns
<1>3. Run(t.entries \o Flattened(t.current), e, v, Blank, b)
  BY <1>1, <1>2, RunOn
<1> QED BY <1>1, <1>3 DEF MessagesOf

LEMMA EmptyAgrees ==
    ASSUME NEW e, NEW v, v.publisher \in Nat
    PROVE  Agrees(EmptyTimeline, e, v, Blank)
<1>1. Segment({}, e, v, Blank, Blank)
  BY FS_EmptySet DEF Segment, Numbered, Blank, View, NoAdmission, At
<1>2. Near(Blank, Blank)
  BY BlankIs DEF Near, IsAdmission
<1> QED BY <1>1, <1>2, RunNothing DEF Agrees, EmptyTimeline

(* A barrier makes of a view what it makes of one that is behind.          *)
LEMMA BarrierLevels ==
    ASSUME NEW a, IsAdmission(a), NEW b, Near(b, a), NEW m, m.seq \in Nat,
           m.kind # "state", Admits(a, m)
    PROVE  Admits(b, m) /\ Heeded(b, m) = Heeded(a, m)
<1>1. Admits(b, m)
  BY DEF Admits, Near, IsAdmission
<1>2. b.session = a.session
  BY DEF Near
<1> QED BY <1>1, <1>2 DEF Heeded

(* A state that counts without being kept.                                 *)
LEMMA CountedAgrees ==
    ASSUME NEW t, NEW e, NEW v, NEW a, IsAdmission(a), Agrees(t, e, v, a),
           NEW m, m.seq \in Nat, m.kind = "state"
    PROVE  Agrees(t, e, v, Heeded(a, m))
<1>1. PICK z, b : /\ Run(t.entries, e, v, Blank, z) /\ Segment(t.current, e, v, z, b)
                  /\ Near(b, a)
  BY DEF Agrees
<1>2. CASE Admits(a, m)
  <2>1. a.connected /\ a.last < m.seq
    BY <1>2 DEF Admits, IsAdmission
  <2>2. /\ Heeded(a, m).last = m.seq /\ Heeded(a, m).session = a.session
        /\ Heeded(a, m).connected = a.connected
    BY <1>2 DEF Heeded
  <2>3. Near(b, Heeded(a, m))
    BY <1>1, <2>1, <2>2 DEF Near, IsAdmission
  <2> QED BY <1>1, <2>3 DEF Agrees
<1>3. CASE ~Admits(a, m)
  BY <1>3 DEF Heeded
<1> QED BY <1>2, <1>3

(* Extended, by a message that is admitted.                                *)
LEMMA ExtendedAgrees ==
    ASSUME NEW t, NEW e, NEW v, NEW a, IsAdmission(a), Agrees(t, e, v, a), v.publisher \in Nat,
           NEW m, Belongs(m, e, v), Admits(a, m)
    PROVE  Agrees(Extended(t, m), e, v, Heeded(a, m))
<1>1. PICK z, y : /\ Run(t.entries, e, v, Blank, z) /\ Segment(t.current, e, v, z, y)
                  /\ Near(y, a)
  BY DEF Agrees
<1>2. IsAdmission(z) /\ DOMAIN t = {"entries", "current"} /\ m.seq \in Nat
  BY <1>1, RunEnds, BlankIs DEF Agrees, Belongs
<1>3. CASE m.kind = "state"
  <2>. DEFINE U == t.current \cup {m}
              S == Retained(U)
              b == At(z, m.seq)
  <2>1. S \subseteq U
    BY DEF Retained
  <2>2. y = At(z, y.last) /\ y.last \in Nat /\ z.last \in Nat /\ z.last <= y.last
          /\ y.last <= a.last /\ a.last < m.seq /\ a.last \in Nat
    <3>1. y = At(z, y.last) /\ y.last \in Nat
      BY <1>1 DEF Segment
    <3>2. z.last \in Nat /\ a.last \in Nat /\ a.last < m.seq /\ y.last <= a.last
      BY <1>1, <1>2 DEF IsAdmission, Admits, Near
    <3>3. z.last <= y.last
      BY <1>1, <3>1, <3>2 DEF Segment, Numbered
    <3> QED BY <3>1, <3>2, <3>3
  <2>3. z.connected /\ a.connected /\ ~Ahead(m) /\ a.session = z.session
          /\ a.connected = z.connected
    <3>1. a.connected /\ ~Ahead(m)
      BY <1>3 DEF Admits
    <3>2. PICK k : k = y.last
      OBVIOUS
    <3>3. At(z, k).connected = z.connected /\ At(z, k).session = z.session
      BY DEF At
    <3>4. y.connected = z.connected /\ y.session = z.session
      BY <2>2, <3>2, <3>3
    <3> QED BY <1>1, <3>1, <3>4 DEF Near
  <2>4. m \in S
    <3>1. \A o \in t.current : o.publisher = v.publisher /\ o.seq \in Nat /\ o.seq <= y.last
      BY <1>1 DEF Segment, Numbered
    <3>2. m.publisher = v.publisher /\ v.publisher \in Nat
      BY DEF Belongs
    <3>3. \A o \in U : ~Older(m, o)
      BY <1>2, <2>2, <3>1, <3>2 DEF Older
    <3> QED BY <3>3 DEF Retained
  <2>. HIDE DEF S
  <2>5. b.last = m.seq /\ b = At(z, b.last) /\ b.session = z.session /\ b.connected = z.connected
    BY DEF At
  <2>6. Numbered(S, v.publisher)
    <3>1. IsFiniteSet(U)
      BY <1>1, FS_AddElement DEF Segment, Numbered
    <3>2. IsFiniteSet(S)
      BY <2>1, <3>1, FS_Subset
    <3>3. \A o \in t.current : o.publisher = v.publisher /\ o.seq \in Nat /\ o.seq < m.seq
      BY <1>1, <1>2, <2>2 DEF Segment, Numbered
    <3> QED BY <1>1, <1>2, <2>1, <3>2, <3>3 DEF Segment, Numbered, Belongs
  <2>7. \A o \in S : Belongs(o, e, v) /\ o.kind = "state" /\ ~Ahead(o) /\ z.last < o.seq
                     /\ o.seq <= b.last
    <3>1. \A o \in t.current : Belongs(o, e, v) /\ o.kind = "state" /\ ~Ahead(o)
                               /\ z.last < o.seq /\ o.seq <= y.last /\ o.seq \in Nat
      BY <1>1 DEF Segment, Numbered
    <3> QED BY <1>2, <1>3, <2>1, <2>2, <2>3, <2>5, <3>1
  <2>8. Segment(S, e, v, z, b)
    BY <1>2, <2>3, <2>4, <2>5, <2>6, <2>7 DEF Segment
  <2>9. Near(b, Heeded(a, m))
    <3>1. /\ Heeded(a, m).last = m.seq /\ Heeded(a, m).session = a.session
          /\ Heeded(a, m).connected = a.connected
      BY <1>3 DEF Heeded
    <3>2. IsAdmission(b)
      BY <1>2 DEF IsAdmission, At
    <3> QED BY <1>2, <2>3, <2>5, <3>1, <3>2 DEF Near
  <2>10. Extended(t, m) = [t EXCEPT !.current = S]
    BY <1>3 DEF Extended, S
  <2>11. /\ DOMAIN Extended(t, m) = {"entries", "current"} /\ Extended(t, m).entries = t.entries
         /\ Extended(t, m).current = S
    BY <1>2, <2>10
  <2>. HIDE DEF b
  <2> QED BY <1>1, <2>8, <2>9, <2>11 DEF Agrees
<1>4. CASE m.kind # "state"
  <2>. DEFINE ms == Append(t.entries \o Flattened(t.current), m)
              b == Heeded(a, m)
  <2>1. PICK x : Run(MessagesOf(t), e, v, Blank, x) /\ Near(x, a)
    BY MessagesRun
  <2>2. Heeded(x, m) = b
    BY <1>2, <1>4, <2>1, BarrierLevels
  <2>3. Run(ms, e, v, Blank, b)
    <3>1. Run(Append(MessagesOf(t), m), e, v, Blank, Heeded(x, m))
      BY <2>1, RunAppend
    <3> QED BY <2>2, <3>1 DEF MessagesOf
  <2>4. IsAdmission(b)
    BY <1>2, HeededIs
  <2>. HIDE DEF b, ms
  <2>5. Segment({}, e, v, b, b)
    BY <2>4, FS_EmptySet DEF Segment, Numbered, At, IsAdmission
  <2>6. Near(b, b)
    BY <2>4 DEF Near, IsAdmission
  <2>7. Extended(t, m) = [entries |-> ms, current |-> {}]
    BY <1>4 DEF Extended, ms
  <2> QED BY <2>3, <2>5, <2>6, <2>7 DEF Agrees, b
<1> QED BY <1>3, <1>4

-----------------------------------------------------------------------------
(* What an endpoint has said, and the view that follows from it.           *)

(* The last thing it said is that it is connected.                         *)
Said(r) == r.connected /\ ~r.lossPublished

(* Such an endpoint has a sequence left for the loss, nobody else has      *)
(* business with it, and a stop will publish the loss before it goes on.   *)
LossOK(r) ==
    /\ Said(r) => r.nextSource <= MaxSource /\ r.cleanups = <<>> /\ r.task.stage = "none"
    /\ r.connected /\ (r.lossPublished \/ r.halt.stage # "none") => Deaf(r)
    /\ r.halt.stage # "none" /\ Said(r) => r.halt.stage = "release" /\ r.halt.live
    /\ r.halt.stage = "release" /\ r.halt.live => r.connected \/ r.lossPublished

(* a is what the messages of publisher p, whose endpoint is r, lead to:    *)
(* states of a live session may have been refused.                         *)
Matches(a, r, p) ==
    /\ IsAdmission(a)
    /\ a.connected <=> Said(r)
    /\ IF Said(r) THEN a.last < r.nextSource ELSE a.last = r.nextSource - 1
    /\ a.session = Null \/ \E n \in 0..r.sessionGeneration : a.session = <<p, n>>
    /\ Said(r) => a.session = <<p, r.sessionGeneration>>

(* What the hub can hear of a record is the same in another.               *)
SameVoice(r, s) ==
    /\ DOMAIN s = Fields
    /\ s.nextSource = r.nextSource /\ s.sessionGeneration = r.sessionGeneration
    /\ Said(s) <=> Said(r)

LEMMA SameVoiceFollows ==
    ASSUME NEW r, NEW s, SameVoice(r, s), NEW a, NEW p, Matches(a, r, p)
    PROVE  Matches(a, s, p)
  BY DEF SameVoice, Matches

(* A view that is behind in states follows from the same record.           *)
LEMMA NearFollows ==
    ASSUME NEW a, NEW b, NEW r, NEW p, Matches(a, r, p), Near(b, a), r.nextSource \in Nat
    PROVE  Matches(b, r, p)
<1>1. b.last \in Nat /\ a.last \in Nat /\ b.last <= a.last /\ IsAdmission(b)
  BY DEF Matches, Near, IsAdmission
<1>2. b.session = a.session /\ b.connected = a.connected /\ (~a.connected => b.last = a.last)
  BY DEF Near
<1>3. CASE Said(r)
  BY <1>1, <1>2, <1>3 DEF Matches
<1>4. CASE ~Said(r)
  BY <1>1, <1>2, <1>4 DEF Matches
<1> QED BY <1>3, <1>4

(* A record that an operation may make of one that has announced its loss. *)
Falls(r, s) ==
    /\ DOMAIN s = Fields
    /\ s.nextSource = r.nextSource /\ s.sessionGeneration = r.sessionGeneration
    /\ s.lossPublished = r.lossPublished
    /\ s.connected => r.connected /\ s.generation = r.generation /\ s.held \subseteq r.held
    /\ s.halt.stage # "none" => r.halt.stage # "none"
    /\ s.halt.stage = "release" => s.halt = r.halt

LEMMA FallsOn ==
    ASSUME NEW r, NEW s, NEW t, Falls(r, s), Falls(s, t)
    PROVE  Falls(r, t)
  BY DEF Falls

LEMMA FallsAtAll ==
    ASSUME NEW r, DOMAIN r = Fields
    PROVE  Falls(r, r)
  BY DEF Falls

LEMMA FallenOK ==
    ASSUME NEW r, NEW s, Falls(r, s), ~Said(r)
    PROVE  ~Said(s) /\ SameVoice(r, s) /\ (LossOK(r) => LossOK(s))
<1>1. ~Said(s) /\ SameVoice(r, s)
  BY DEF Falls, Said, SameVoice
<1>2. s.connected /\ Deaf(r) => Deaf(s)
  BY DEF Falls, Deaf
<1>3. ASSUME LossOK(r) PROVE LossOK(s)
  BY <1>1, <1>2, <1>3 DEF LossOK, Falls, Said
<1> QED BY <1>1, <1>3

(* The helpers of ClientEndpoint make such records.                        *)
LEMMA EnqueueFalls ==
    ASSUME NEW r, DOMAIN r = Fields, NEW by
    PROVE  Falls(r, Enqueue(r, by))
  BY DEF Enqueue, Falls, Fields

LEMMA ScheduleReconnectFalls ==
    ASSUME NEW r, DOMAIN r = Fields
    PROVE  Falls(r, ScheduleReconnect(r))
  BY DEF ScheduleReconnect, Falls, Fields

LEMMA TaskOverFalls ==
    ASSUME NEW r, DOMAIN r = Fields
    PROVE  Falls(r, TaskOver(r))
<1>. DEFINE s == [r EXCEPT !.task = NoTask]
<1>1. Falls(r, s) /\ DOMAIN s = Fields
  BY DEF Falls, Fields
<1>. HIDE DEF s
<1>2. Falls(s, ScheduleReconnect(s))
  BY <1>1, ScheduleReconnectFalls
<1> QED BY <1>1, <1>2, FallsOn DEF TaskOver, s

LEMMA StartConnectFalls ==
    ASSUME NEW r, DOMAIN r = Fields
    PROVE  /\ Falls(r, StartConnect(r))
           /\ r.connected => StartConnect(r) = r
  BY DEF StartConnect, Falls, Fields

LEMMA RegisterFalls ==
    ASSUME NEW r, DOMAIN r = Fields, NEW H
    PROVE  Falls(r, Register(r, H))
  BY DEF Register, Falls, Fields

LEMMA AwaitCleanupFalls ==
    ASSUME NEW r, DOMAIN r = Fields, NEW stage, NEW joins
    PROVE  Falls(r, AwaitCleanup(r, stage, joins))
<1>. DEFINE w == [r EXCEPT !.task.stage = stage]
            j == JoinCleanup(w)
            q == Enqueue(w, "connect")
<1>1. Falls(r, w) /\ DOMAIN w = Fields
  BY DEF Falls, Fields
<1>. HIDE DEF w
<1>2. Falls(w, j)
  BY <1>1 DEF JoinCleanup, Falls, Fields
<1>3. Falls(w, q)
  BY <1>1, EnqueueFalls
<1>4. Falls(r, TaskOver(r))
  BY TaskOverFalls
<1>5. Falls(r, j) /\ Falls(r, q)
  BY <1>1, <1>2, <1>3, FallsOn
<1>. HIDE DEF j, q
<1> QED BY <1>4, <1>5 DEF AwaitCleanup, j, q, w

LEMMA LeaveFalls ==
    ASSUME NEW r, DOMAIN r = Fields
    PROVE  Falls(r, Leave(r))
<1>. DEFINE made == {h \in r.open : h[2] = r.task.generation}
            left == Register(r, made)
            joins == Joins(r, made)
<1>1. Falls(r, left) /\ DOMAIN left = Fields
  BY RegisterFalls DEF Falls
<1>. HIDE DEF made, left, joins
<1>2. Falls(left, TaskOver(left)) /\ Falls(left, AwaitCleanup(left, "closing", joins))
  <2>1. PICK stage : stage = "closing"
    OBVIOUS
  <2>2. Falls(left, AwaitCleanup(left, stage, joins))
    BY <1>1, AwaitCleanupFalls
  <2> QED BY <1>1, <2>1, <2>2, TaskOverFalls
<1>3. Falls(r, TaskOver(left)) /\ Falls(r, AwaitCleanup(left, "closing", joins))
  BY <1>1, <1>2, FallsOn
<1>4. Leave(r) \in {TaskOver(left), AwaitCleanup(left, "closing", joins)}
  BY DEF Leave, made, left, joins
<1> QED BY <1>3, <1>4

LEMMA LeaveLateGroupFalls ==
    ASSUME NEW r, DOMAIN r = Fields, NEW h
    PROVE  Falls(r, LeaveLateGroup(r, h))
<1>. DEFINE left == Register(r, {h})
            joins == Joins(r, {h})
<1>1. Falls(r, left) /\ DOMAIN left = Fields
  BY RegisterFalls DEF Falls
<1>. HIDE DEF left, joins
<1>2. PICK stage : stage = "lateGroup"
  OBVIOUS
<1>3. Falls(left, AwaitCleanup(left, stage, joins))
  BY <1>1, AwaitCleanupFalls
<1>4. LeaveLateGroup(r, h) = AwaitCleanup(left, stage, joins)
  BY <1>2 DEF LeaveLateGroup, left, joins
<1> QED BY <1>1, <1>3, <1>4, FallsOn

LEMMA BeginPassFalls ==
    ASSUME NEW r, DOMAIN r = Fields
    PROVE  Falls(r, BeginPass(r))
  BY DEF BeginPass, Falls, Fields

LEMMA RemovedFalls ==
    ASSUME NEW r, DOMAIN r = Fields, NEW h
    PROVE  Falls(r, Removed(r, h))
  BY DEF Removed, Falls, Fields

LEMMA SettledFalls ==
    ASSUME NEW r, DOMAIN r = Fields, NEW ok
    PROVE  Falls(r, Settled(r, ok))
<1>. DEFINE popped == [r EXCEPT !.cleanups = Tail(@), !.pass = Null]
            free == [popped EXCEPT !.recovery = FALSE]
            back == ScheduleReconnect(free)
<1>1. Falls(r, popped) /\ DOMAIN popped = Fields
  BY DEF Falls, Fields
<1>. HIDE DEF popped
<1>2. Falls(popped, free) /\ DOMAIN free = Fields
  BY <1>1 DEF Falls, Fields
<1>. HIDE DEF free
<1>3. Falls(free, back) /\ DOMAIN back = Fields
  BY <1>2, ScheduleReconnectFalls DEF Falls
<1>. HIDE DEF back
<1>4. PICK recovered : recovered = IF Head(r.cleanups).by # "recovery" THEN popped
                                   ELSE IF ok THEN back ELSE free
  OBVIOUS
<1>5. Falls(r, recovered) /\ DOMAIN recovered = Fields
  BY <1>1, <1>2, <1>3, <1>4, FallsOn
<1>6. Falls(recovered, TaskOver(recovered))
  BY <1>5, TaskOverFalls
<1>7. PICK resumed : resumed = IF Head(r.cleanups).by = "connect" \/ Head(r.cleanups).joined
                               THEN TaskOver(recovered) ELSE recovered
  OBVIOUS
<1>8. Falls(r, resumed) /\ DOMAIN resumed = Fields
  BY <1>5, <1>6, <1>7, FallsOn DEF Falls
<1>9. Falls(resumed, [resumed EXCEPT !.halt = NoHalt, !.halted = ok])
  BY <1>8 DEF Falls, Fields, NoHalt
<1>10. Settled(r, ok) \in {resumed, [resumed EXCEPT !.halt = NoHalt, !.halted = ok]}
  BY <1>4, <1>7 DEF Settled, popped, free, back
<1> QED BY <1>8, <1>9, <1>10, FallsOn

LEMMA EndPassFalls ==
    ASSUME NEW r, DOMAIN r = Fields
    PROVE  Falls(r, EndPass(r))
<1>. DEFINE f == [r EXCEPT !.cleanupFailed = TRUE, !.failureEpoch = @ + 1]
            g == [r EXCEPT !.cleanupFailed = @ /\ HasHandles(r)]
<1>1. Falls(r, f) /\ DOMAIN f = Fields /\ Falls(r, g) /\ DOMAIN g = Fields
  BY DEF Falls, Fields
<1>. HIDE DEF f, g
<1>2. PICK t, u : t = TRUE /\ u = FALSE
  OBVIOUS
<1>3. Falls(f, Settled(f, u)) /\ Falls(g, Settled(g, t))
  BY <1>1, SettledFalls
<1>4. Falls(r, Settled(f, u)) /\ Falls(r, Settled(g, t))
  BY <1>1, <1>3, FallsOn
<1>5. EndPass(r) \in {r, Settled(f, u), BeginPass(r), Settled(g, t)}
  BY <1>2 DEF EndPass, f, g
<1> QED BY <1>4, <1>5, FallsAtAll, BeginPassFalls

-----------------------------------------------------------------------------
(* The steps that publish: what they have published leads from view a to   *)
(* one that follows from the record they leave.                            *)

Voiced(step, e, a) ==
    /\ DOMAIN step = {"r", "out"} /\ DOMAIN step.r = Fields
    /\ step.r.nextSource \in Nat /\ step.r.sessionGeneration \in Nat
    /\ \E b : Run(step.out, e, Activation, a, b) /\ Matches(b, step.r, feed.publisher)

LEMMA QuietVoiced ==
    ASSUME NEW r, DOMAIN r = Fields, r.nextSource \in Nat, r.sessionGeneration \in Nat,
           NEW e, NEW a, Matches(a, r, feed.publisher)
    PROVE  Voiced(Quiet(r), e, a) /\ Quiet(r).r = r
<1>1. Run(<<>>, e, Activation, a, a)
  BY RunNothing
<1> QED BY <1>1 DEF Voiced, Quiet

LEMMA SameVoiced ==
    ASSUME NEW step, NEW e, NEW a, Voiced(step, e, a),
           NEW n, DOMAIN n = {"r", "out"}, n.out = step.out, SameVoice(step.r, n.r)
    PROVE  Voiced(n, e, a)
<1>1. PICK b : Run(step.out, e, Activation, a, b) /\ Matches(b, step.r, feed.publisher)
  BY DEF Voiced
<1>2. Matches(b, n.r, feed.publisher)
  BY <1>1, SameVoiceFollows
<1> QED BY <1>1, <1>2 DEF Voiced, SameVoice

LEMMA FallenVoiced ==
    ASSUME NEW step, NEW e, NEW a, Voiced(step, e, a), ~Said(step.r),
           NEW n, DOMAIN n = {"r", "out"}, n.out = step.out, Falls(step.r, n.r)
    PROVE  Voiced(n, e, a) /\ ~Said(n.r)
<1>1. ~Said(n.r) /\ SameVoice(step.r, n.r)
  BY FallenOK
<1> QED BY <1>1, SameVoiced

(* One more message.                                                       *)
LEMMA EmitRuns ==
    ASSUME NEW step, NEW e, NEW a, NEW b, Run(step.out, e, Activation, a, b),
           step.r.nextSource \in Nat, NEW kind, NEW note
    PROVE  Run(Emit(step, kind, e, note).out, e, Activation, a,
               Heeded(b, Message(kind, e, step.r, note)))
<1>1. PICK m : m = Message(kind, e, step.r, note)
  OBVIOUS
<1>2. Belongs(m, e, Activation)
  BY <1>1 DEF Belongs, Message, Activation
<1>3. Run(Append(step.out, m), e, Activation, a, Heeded(b, m))
  BY <1>2, RunAppend
<1>4. Emit(step, kind, e, note).out = Append(step.out, m)
  BY <1>1 DEF Emit
<1> QED BY <1>1, <1>3, <1>4

LEMMA EmitIs ==
    ASSUME NEW step, DOMAIN step.r = Fields, NEW kind, NEW e, NEW note
    PROVE  LET n == Emit(step, kind, e, note)
           IN /\ DOMAIN n = {"r", "out"} /\ DOMAIN n.r = Fields
              /\ n.r.nextSource = step.r.nextSource + 1
              /\ \A f \in Fields \ {"nextSource"} : n.r[f] = step.r[f]
  BY DEF Emit, Fields

(* A state of an endpoint that has said it is connected.                   *)
LEMMA StateHeeded ==
    ASSUME NEW b, IsAdmission(b), NEW m, m.kind = "state", m.seq \in Nat
    PROVE  LET d == Heeded(b, m)
           IN /\ IsAdmission(d) /\ d.connected = b.connected /\ d.session = b.session
              /\ d.last \in {b.last, m.seq}
<1>1. PICK d : d = Heeded(b, m)
  OBVIOUS
<1>2. d.connected = b.connected /\ d.session = b.session /\ d.last \in {b.last, m.seq}
  BY <1>1 DEF Heeded
<1> QED BY <1>1, <1>2, HeededIs

LEMMA StateVoiced ==
    ASSUME NEW step, NEW e, NEW a, Voiced(step, e, a), Said(step.r), NEW note
    PROVE  LET n == Emit(step, "state", e, note)
           IN /\ Voiced(n, e, a) /\ Said(n.r) /\ n.r.nextSource = step.r.nextSource + 1
              /\ \A f \in Fields \ {"nextSource"} : n.r[f] = step.r[f]
<1>1. PICK b : Run(step.out, e, Activation, a, b) /\ Matches(b, step.r, feed.publisher)
  BY DEF Voiced
<1>2. PICK kind : kind = "state"
  OBVIOUS
<1>. DEFINE n == Emit(step, kind, e, note)
<1>3. PICK m : m = Message(kind, e, step.r, note)
  OBVIOUS
<1>4. m.kind = "state" /\ m.seq = step.r.nextSource /\ m.seq \in Nat
  BY <1>2, <1>3 DEF Message, Voiced
<1>5. b.connected /\ b.last \in Nat /\ b.last < m.seq /\ IsAdmission(b)
  BY <1>1, <1>4 DEF Matches, IsAdmission
<1>6. PICK d : d = Heeded(b, m)
  OBVIOUS
<1>7. Run(n.out, e, Activation, a, d)
  BY <1>1, <1>3, <1>6, EmitRuns DEF Voiced
<1>8. /\ DOMAIN n = {"r", "out"} /\ DOMAIN n.r = Fields
      /\ n.r.nextSource = step.r.nextSource + 1
      /\ \A f \in Fields \ {"nextSource"} : n.r[f] = step.r[f]
  BY EmitIs DEF Voiced
<1>. HIDE DEF n
<1>9. n.r.connected = step.r.connected /\ n.r.lossPublished = step.r.lossPublished
        /\ n.r.sessionGeneration = step.r.sessionGeneration
  BY <1>8 DEF Fields
<1>10. /\ IsAdmission(d) /\ d.connected = b.connected /\ d.session = b.session
       /\ d.last \in {b.last, m.seq}
  BY <1>4, <1>5, <1>6, StateHeeded
<1>11. Said(n.r)
  BY <1>9 DEF Said
<1>12. d.last < n.r.nextSource
  BY <1>4, <1>5, <1>8, <1>10
<1>13. Matches(d, n.r, feed.publisher)
  BY <1>1, <1>5, <1>9, <1>10, <1>11, <1>12 DEF Matches
<1> QED BY <1>2, <1>7, <1>8, <1>9, <1>11, <1>13 DEF Voiced, n

(* Several.                                                                *)
LEMMA StatesRun ==
    ASSUME NEW e, NEW v, NEW b, IsAdmission(b), NEW from \in Nat, b.last < from,
           NEW added, IsSequence(added),
           \A i \in 1..Len(added) : /\ added[i].kind = "state" /\ added[i].seq = from + i - 1
                                    /\ Belongs(added[i], e, v)
    PROVE  \E d : /\ Run(added, e, v, b, d) /\ IsAdmission(d) /\ d.connected = b.connected
                  /\ d.session = b.session /\ d.last < from + Len(added)
<1>. DEFINE k == Len(added)
            part(j) == [i \in 1..j |-> added[i]]
            Leads(j, d) == /\ Run(part(j), e, v, b, d) /\ IsAdmission(d)
                           /\ d.connected = b.connected /\ d.session = b.session
                           /\ d.last < from + j
            T == {j \in Nat : j <= k => \E d : Leads(j, d)}
<1>1. k \in Nat /\ DOMAIN added = 1..k
  BY SequenceLength
<1>2. 0 \in T
  <2>1. part(0) = <<>> /\ b.last < from + 0
    OBVIOUS
  <2>2. Leads(0, b)
    BY <2>1, RunNothing
  <2>. HIDE DEF Leads
  <2> QED BY <2>2
<1>3. ASSUME NEW j \in Nat, j + 1 <= k, NEW c, Leads(j, c) PROVE \E d : Leads(j + 1, d)
  <2>2. j + 1 \in 1..k
    BY <1>1, <1>3
  <2>3. Leads(j, c)
    BY <1>3
  <2>4. PICK m : m = added[j + 1]
    OBVIOUS
  <2>5. m.kind = "state" /\ m.seq = from + (j + 1) - 1 /\ Belongs(m, e, v) /\ m.seq \in Nat
    BY <2>2, <2>4 DEF Belongs
  <2>6. PICK d : d = Heeded(c, m)
    OBVIOUS
  <2>7. /\ IsAdmission(d) /\ d.connected = c.connected /\ d.session = c.session
        /\ d.last \in {c.last, m.seq}
    BY <2>3, <2>5, <2>6, StateHeeded
  <2>8. c.last \in Nat
    BY <2>3 DEF IsAdmission
  <2>9. part(j + 1) = Append(part(j), m)
    BY <2>2, <2>4
  <2>10. Run(Append(part(j), m), e, v, b, d)
    BY <2>3, <2>5, <2>6, RunAppend
  <2>11. d.last < from + (j + 1)
    BY <2>2, <2>3, <2>5, <2>7, <2>8
  <2> QED BY <2>3, <2>7, <2>9, <2>10, <2>11
<1>. HIDE DEF Leads
<1>4. T = Nat
  <2>1. ASSUME NEW j \in T PROVE j + 1 \in T
    BY <1>1, <1>3
  <2>. HIDE DEF T
  <2>2. T \in SUBSET Nat
    BY DEF T
  <2> QED BY <1>2, <2>1, <2>2, Filter!Climb
<1>5. PICK d : Leads(k, d)
  BY <1>1, <1>4
<1>6. part(k) = added
  <2>1. \E S : added \in [1..k -> S]
    BY <1>1 DEF IsSequence
  <2> QED BY <2>1
<1> QED BY <1>5, <1>6 DEF Leads

LEMMA StatesVoiced ==
    ASSUME NEW step, NEW e, NEW a, Voiced(step, e, a), Said(step.r),
           NEW notes, IsSequence(notes)
    PROVE  LET n == EmitEach(step, e, notes)
           IN /\ Voiced(n, e, a) /\ n.r.nextSource = step.r.nextSource + Len(notes)
              /\ \A f \in Fields \ {"nextSource"} : n.r[f] = step.r[f]
<1>1. PICK b : Run(step.out, e, Activation, a, b) /\ Matches(b, step.r, feed.publisher)
  BY DEF Voiced
<1>. DEFINE k == Len(notes)
            from == step.r.nextSource
            message(i) == Message("state", e, [step.r EXCEPT !.nextSource = @ + i - 1], notes[i])
            added == [i \in DOMAIN notes |-> message(i)]
            n == EmitEach(step, e, notes)
<1>2. k \in Nat /\ DOMAIN notes = 1..k /\ from \in Nat
  BY SequenceLength DEF Voiced
<1>3. b.connected /\ b.last \in Nat /\ b.last < from /\ IsAdmission(b)
  BY <1>1 DEF Matches, IsAdmission
<1>4. ASSUME NEW i \in 1..k
      PROVE  /\ message(i).kind = "state" /\ message(i).seq = from + i - 1
             /\ Belongs(message(i), e, Activation)
  <2>1. message(i).seq = from + i - 1 /\ from + i - 1 \in Nat
    BY <1>2 DEF Message, Voiced, Fields
  <2> QED BY <2>1 DEF Message, Belongs, Activation
<1>. HIDE DEF message
<1>5. \A i \in 1..k : added[i] = message(i)
  BY <1>2
<1>6. IsSequence(added) /\ Len(added) = k
  <2>1. added \in [1..k -> Range(added)]
    BY <1>2 DEF Range
  <2>. HIDE DEF added
  <2>2. added \in Seq(Range(added)) /\ Len(added) = k
    BY <1>2, <2>1
  <2> QED BY <2>2 DEF IsSequence
<1>7. /\ DOMAIN n = {"r", "out"} /\ n.r = [step.r EXCEPT !.nextSource = @ + k]
      /\ n.out = step.out \o added
  BY DEF EmitEach, message
<1>. HIDE DEF added, n
<1>8. PICK d : /\ Run(added, e, Activation, b, d) /\ IsAdmission(d) /\ d.connected = b.connected
               /\ d.session = b.session /\ d.last < from + k
  <2>1. \A i \in 1..Len(added) : /\ added[i].kind = "state" /\ added[i].seq = from + i - 1
                                 /\ Belongs(added[i], e, Activation)
    BY <1>4, <1>5, <1>6
  <2>2. PICK x \in Nat : x = from
    BY <1>2
  <2> QED BY <1>3, <1>6, <2>1, <2>2, StatesRun
<1>9. Run(n.out, e, Activation, a, d)
  BY <1>1, <1>7, <1>8, RunOn
<1>10. /\ DOMAIN n.r = Fields /\ n.r.nextSource = from + k
       /\ \A g \in Fields \ {"nextSource"} : n.r[g] = step.r[g]
  BY <1>7 DEF Voiced, Fields
<1>11. n.r.connected = step.r.connected /\ n.r.lossPublished = step.r.lossPublished
         /\ n.r.sessionGeneration = step.r.sessionGeneration
  BY <1>10 DEF Fields
<1>12. Said(n.r)
  BY <1>11 DEF Said
<1>13. Matches(d, n.r, feed.publisher)
  BY <1>1, <1>3, <1>8, <1>10, <1>11, <1>12 DEF Matches
<1>14. n.r.nextSource \in Nat /\ n.r.sessionGeneration \in Nat
  BY <1>2, <1>10, <1>11 DEF Voiced
<1> QED BY <1>7, <1>9, <1>10, <1>13, <1>14 DEF Voiced, n

(* The loss of the session, if it has not been announced.                  *)
LEMMA LossVoiced ==
    ASSUME NEW step, NEW e, NEW a, Voiced(step, e, a),
           Said(step.r) => step.r.nextSource <= MaxSource,
           step.r.connected \/ step.r.lossPublished
    PROVE  LET n == PublishDisconnected(step, e)
           IN /\ Voiced(n, e, a) /\ ~Said(n.r) /\ n.r.lossPublished
              /\ \A f \in Fields \ {"nextSource", "lossPublished"} : n.r[f] = step.r[f]
<1>. DEFINE marked == [step EXCEPT !.r.lossPublished = TRUE]
            n == PublishDisconnected(step, e)
<1>1. CASE step.r.lossPublished
  <2>1. n = step
    BY <1>1 DEF PublishDisconnected
  <2>. HIDE DEF n
  <2> QED BY <1>1, <2>1 DEF Said, n
<1>2. CASE ~step.r.lossPublished
  <2>1. Said(step.r) /\ step.r.nextSource <= MaxSource /\ ~(step.r.nextSource > MaxSource)
    BY <1>2, EndpointAssumption DEF Said, Voiced
  <2>2. PICK b : Run(step.out, e, Activation, a, b) /\ Matches(b, step.r, feed.publisher)
    BY DEF Voiced
  <2>3. PICK kind, note : kind = "disconnected" /\ note = NoNote
    OBVIOUS
  <2>4. /\ DOMAIN marked = {"r", "out"} /\ DOMAIN marked.r = Fields /\ marked.out = step.out
        /\ marked.r.lossPublished
        /\ \A f \in Fields \ {"lossPublished"} : marked.r[f] = step.r[f]
    BY DEF Voiced, Fields
  <2>. HIDE DEF marked
  <2>5. n = Emit(marked, kind, e, note)
    BY <1>2, <2>1, <2>3 DEF PublishDisconnected, marked
  <2>. HIDE DEF n
  <2>6. PICK m : m = Message(kind, e, marked.r, note)
    OBVIOUS
  <2>7. marked.r.nextSource = step.r.nextSource
          /\ marked.r.sessionGeneration = step.r.sessionGeneration
    BY <2>4 DEF Fields
  <2>8. m.kind = "disconnected" /\ m.seq = step.r.nextSource /\ m.publisher = feed.publisher
          /\ m.session = step.r.sessionGeneration
    BY <2>3, <2>6, <2>7 DEF Message
  <2>9. b.connected /\ b.last \in Nat /\ b.last < m.seq /\ IsAdmission(b) /\ m.seq \in Nat
          /\ b.session = <<m.publisher, m.session>>
    BY <2>1, <2>2, <2>8 DEF Matches, IsAdmission, Voiced
  <2>10. Admits(b, m)
    BY <2>8, <2>9 DEF Admits
  <2>11. Run(n.out, e, Activation, a, Heeded(b, m))
    BY <2>2, <2>4, <2>5, <2>6, <2>7, EmitRuns DEF Voiced
  <2>12. /\ DOMAIN n = {"r", "out"} /\ DOMAIN n.r = Fields
         /\ n.r.nextSource = step.r.nextSource + 1
         /\ \A f \in Fields \ {"nextSource"} : n.r[f] = marked.r[f]
    BY <2>4, <2>5, <2>7, EmitIs
  <2>13. /\ n.r.lossPublished /\ n.r.sessionGeneration = step.r.sessionGeneration
         /\ \A f \in Fields \ {"nextSource", "lossPublished"} : n.r[f] = step.r[f]
    BY <2>4, <2>12 DEF Fields
  <2>14. PICK d : d = Heeded(b, m)
    OBVIOUS
  <2>15. IsAdmission(d) /\ d.last = m.seq /\ ~d.connected /\ d.session = b.session
    <3>1. IsAdmission(d)
      BY <2>9, <2>14, HeededIs
    <3> QED BY <2>8, <2>10, <2>14, <3>1 DEF Heeded
  <2>16. Matches(d, n.r, feed.publisher)
    <3>1. ~Said(n.r)
      BY <2>13 DEF Said
    <3>2. d.last = n.r.nextSource - 1
      BY <2>8, <2>9, <2>12, <2>15
    <3> QED BY <2>2, <2>13, <2>15, <3>1, <3>2 DEF Matches
  <2> QED BY <2>11, <2>12, <2>13, <2>14, <2>16 DEF Voiced, Said, n
<1> QED BY <1>1, <1>2

(* An endpoint that is neither connected nor being stopped.                *)
Down(r) == ~r.connected /\ r.halt.stage = "none"

LEMMA DownOK ==
    ASSUME NEW r, Down(r)
    PROVE  LossOK(r) /\ ~Said(r)
  BY DEF Down, LossOK, Said

LEMMA DownFalls ==
    ASSUME NEW r, NEW s, Down(r), Falls(r, s)
    PROVE  Down(s)
  BY DEF Down, Falls

(* A new generation, and a cleanup.                                        *)
LEMMA FenceFalls ==
    ASSUME NEW r, DOMAIN r = Fields
    PROVE  /\ Falls(r, Fence(r)) /\ ~Fence(r).connected /\ Fence(r).halt = r.halt
  BY DEF Fence, ClearEarly, Falls, Fields

LEMMA StartRecoveryFalls ==
    ASSUME NEW r, DOMAIN r = Fields
    PROVE  Falls(r, StartRecovery(r))
<1>1. PICK q : q = Enqueue(r, "recovery")
  OBVIOUS
<1>2. PICK by : by = "recovery"
  OBVIOUS
<1>3. Falls(r, q)
  BY <1>1, <1>2, EnqueueFalls
<1>4. StartRecovery(r) = [q EXCEPT !.recovery = ~r.cleanupFailed]
  BY <1>1 DEF StartRecovery
<1>5. Falls(q, StartRecovery(r))
  BY <1>3, <1>4 DEF Falls, Fields
<1> QED BY <1>3, <1>5, FallsOn

(* Then of a step whose record falls.                                      *)
LEMMA ThenFalls ==
    ASSUME NEW step, NEW e, NEW a, Voiced(step, e, a), ~Said(step.r),
           NEW s, Falls(step.r, s)
    PROVE  /\ Voiced([step EXCEPT !.r = s], e, a) /\ ~Said([step EXCEPT !.r = s].r)
           /\ [step EXCEPT !.r = s].r = s
<1>. DEFINE n == [step EXCEPT !.r = s]
<1>1. DOMAIN n = {"r", "out"} /\ n.out = step.out /\ n.r = s
  BY DEF Voiced
<1>. HIDE DEF n
<1>2. Voiced(n, e, a) /\ ~Said(n.r)
  BY <1>1, FallenVoiced
<1> QED BY <1>1, <1>2 DEF n

LEMMA FencedVoiced ==
    ASSUME NEW step, NEW e, NEW a, Voiced(step, e, a), ~Said(step.r), step.r.halt.stage = "none"
    PROVE  /\ Voiced(Then(step, Fence), e, a) /\ Down(Then(step, Fence).r)
           /\ Then(step, Fence).r.sourceExhausted = step.r.sourceExhausted
<1>1. Falls(step.r, Fence(step.r)) /\ Down(Fence(step.r))
  BY FenceFalls DEF Voiced, Down
<1>2. PICK s : s = Fence(step.r)
  OBVIOUS
<1>3. Then(step, Fence) = [step EXCEPT !.r = s]
  BY <1>2 DEF Then
<1>4. s.sourceExhausted = step.r.sourceExhausted
  BY <1>2 DEF Voiced, Fence, ClearEarly, Fields
<1> QED BY <1>1, <1>2, <1>3, <1>4, ThenFalls

LEMMA RecoveryVoiced ==
    ASSUME NEW step, NEW e, NEW a, Voiced(step, e, a), Down(step.r)
    PROVE  Voiced(Then(step, StartRecovery), e, a) /\ Down(Then(step, StartRecovery).r)
<1>1. ~Said(step.r)
  BY DownOK
<1>2. PICK s : s = StartRecovery(step.r)
  OBVIOUS
<1>3. Falls(step.r, s) /\ Down(s)
  BY <1>2, StartRecoveryFalls, DownFalls DEF Voiced
<1>4. Then(step, StartRecovery) = [step EXCEPT !.r = s]
  BY <1>2 DEF Then
<1> QED BY <1>1, <1>3, <1>4, ThenFalls

(* The endpoint has run out of source sequences.                           *)
LEMMA ExhaustSourceVoiced ==
    ASSUME NEW step, NEW e, NEW a, Voiced(step, e, a), ~step.r.sourceExhausted,
           step.r.halt.stage = "none", Said(step.r) => step.r.nextSource <= MaxSource
    PROVE  Voiced(ExhaustSource(step, e), e, a) /\ Down(ExhaustSource(step, e).r)
<1>. DEFINE marked == [step EXCEPT !.r.sourceExhausted = TRUE]
            lost == PublishDisconnected(marked, e)
<1>1. PICK announced : announced = IF step.r.connected THEN lost ELSE marked
  OBVIOUS
<1>2. /\ DOMAIN marked = {"r", "out"} /\ marked.out = step.out /\ SameVoice(step.r, marked.r)
      /\ marked.r.connected = step.r.connected /\ marked.r.halt = step.r.halt
      /\ marked.r.nextSource = step.r.nextSource
  BY DEF Voiced, Fields, SameVoice, Said
<1>. HIDE DEF marked
<1>3. Voiced(marked, e, a) /\ (Said(marked.r) <=> Said(step.r))
  BY <1>2, SameVoiced DEF SameVoice
<1>4. Voiced(announced, e, a) /\ ~Said(announced.r) /\ announced.r.halt.stage = "none"
  <2>1. CASE step.r.connected
    <3>1. /\ Voiced(lost, e, a) /\ ~Said(lost.r)
          /\ \A f \in Fields \ {"nextSource", "lossPublished"} : lost.r[f] = marked.r[f]
      <4>1. Said(marked.r) => marked.r.nextSource <= MaxSource
        BY <1>2, <1>3
      <4>2. marked.r.connected \/ marked.r.lossPublished
        BY <1>2, <2>1
      <4> QED BY <1>3, <4>1, <4>2, LossVoiced
    <3>. HIDE DEF lost
    <3>2. lost.r.halt = marked.r.halt
      BY <3>1 DEF Fields
    <3> QED BY <1>1, <1>2, <2>1, <3>1, <3>2
  <2>2. CASE ~step.r.connected
    BY <1>1, <1>2, <1>3, <2>2 DEF Said
  <2> QED BY <2>1, <2>2
<1>5. PICK fenced : fenced = Then(announced, Fence)
  OBVIOUS
<1>6. Voiced(fenced, e, a) /\ Down(fenced.r)
  BY <1>4, <1>5, FencedVoiced
<1>7. Voiced(Then(fenced, StartRecovery), e, a) /\ Down(Then(fenced, StartRecovery).r)
  BY <1>6, RecoveryVoiced
<1>8. ExhaustSource(step, e) = Then(announced, LAMBDA r : StartRecovery(Fence(r)))
  BY <1>1 DEF ExhaustSource, marked
<1>9. Then(fenced, StartRecovery) = Then(announced, LAMBDA r : StartRecovery(Fence(r)))
  BY <1>4, <1>5 DEF Then, Voiced
<1> QED BY <1>7, <1>8, <1>9

(* recover.                                                                *)
LEMMA RecoverVoiced ==
    ASSUME NEW step, NEW e, NEW a, Voiced(step, e, a),
           step.r.halt.stage = "none", Said(step.r) => step.r.nextSource <= MaxSource
    PROVE  /\ Voiced(Recover(step, e), e, a)
           /\ Recover(step, e) = step \/ Down(Recover(step, e).r)
<1>. DEFINE lost == PublishDisconnected(step, e)
<1>1. CASE step.r.stopped \/ step.r.sourceExhausted \/ step.r.recovery
  BY <1>1 DEF Recover
<1>2. CASE ~(step.r.stopped \/ step.r.sourceExhausted \/ step.r.recovery)
  <2>1. PICK announced : announced = IF step.r.connected THEN lost ELSE step
    OBVIOUS
  <2>2. /\ Voiced(announced, e, a) /\ ~Said(announced.r) /\ announced.r.halt.stage = "none"
        /\ announced.r.sourceExhausted = step.r.sourceExhausted
    <3>1. CASE step.r.connected
      <4>1. /\ Voiced(lost, e, a) /\ ~Said(lost.r)
            /\ \A f \in Fields \ {"nextSource", "lossPublished"} : lost.r[f] = step.r[f]
        BY <3>1, LossVoiced
      <4>. HIDE DEF lost
      <4>2. lost.r.halt = step.r.halt /\ lost.r.sourceExhausted = step.r.sourceExhausted
        BY <4>1 DEF Fields
      <4> QED BY <2>1, <3>1, <4>1, <4>2
    <3>2. CASE ~step.r.connected
      BY <2>1, <3>2 DEF Said
    <3> QED BY <3>1, <3>2
  <2>3. PICK fenced : fenced = Then(announced, Fence)
    OBVIOUS
  <2>4. /\ Voiced(fenced, e, a) /\ Down(fenced.r)
        /\ fenced.r.sourceExhausted = announced.r.sourceExhausted
    BY <2>2, <2>3, FencedVoiced
  <2>5. Voiced(Then(fenced, StartRecovery), e, a) /\ Down(Then(fenced, StartRecovery).r)
    BY <2>4, RecoveryVoiced
  <2>6. Voiced(ExhaustSource(fenced, e), e, a) /\ Down(ExhaustSource(fenced, e).r)
    BY <1>2, <2>2, <2>4, DownOK, ExhaustSourceVoiced DEF Down
  <2>7. Recover(step, e) \in {ExhaustSource(fenced, e), Then(fenced, StartRecovery)}
    BY <1>2, <2>1, <2>3 DEF Recover
  <2> QED BY <2>5, <2>6, <2>7
<1> QED BY <1>1, <1>2

(* A value of a channel is published, or there is no sequence left for it. *)
LEMMA PublishStateVoiced ==
    ASSUME NEW step, NEW e, NEW a, Voiced(step, e, a), NEW note,
           LossOK(step.r), step.r.halt.stage = "none", step.r.connected => Said(step.r)
    PROVE  Voiced(PublishState(step, e, note), e, a) /\ LossOK(PublishState(step, e, note).r)
<1>1. CASE ~step.r.connected \/ step.r.sourceExhausted
  BY <1>1 DEF PublishState
<1>2. CASE step.r.connected /\ ~step.r.sourceExhausted /\ ~CanReserve(step.r)
  <2>1. PublishState(step, e, note) = ExhaustSource(step, e)
    BY <1>2 DEF PublishState
  <2>2. Said(step.r) => step.r.nextSource <= MaxSource
    BY DEF LossOK
  <2> QED BY <1>2, <2>1, <2>2, ExhaustSourceVoiced, DownOK
<1>3. CASE step.r.connected /\ ~step.r.sourceExhausted /\ CanReserve(step.r)
  <2>1. PICK n : n = Emit(step, "state", e, note)
    OBVIOUS
  <2>2. PublishState(step, e, note) = n
    BY <1>3, <2>1 DEF PublishState
  <2>3. /\ Voiced(n, e, a) /\ Said(n.r) /\ n.r.nextSource = step.r.nextSource + 1
        /\ \A f \in Fields \ {"nextSource"} : n.r[f] = step.r[f]
    BY <1>3, <2>1, StateVoiced
  <2>4. /\ n.r.connected = step.r.connected /\ n.r.lossPublished = step.r.lossPublished
        /\ n.r.cleanups = step.r.cleanups /\ n.r.task = step.r.task /\ n.r.halt = step.r.halt
    BY <2>3 DEF Fields
  <2>5. n.r.nextSource <= MaxSource
    BY <1>3, <2>3, EndpointAssumption DEF CanReserve, Voiced
  <2>6. LossOK(n.r)
    BY <1>3, <2>3, <2>4, <2>5 DEF LossOK, Said
  <2> QED BY <2>2, <2>3, <2>6
<1> QED BY <1>1, <1>2, <1>3

(* The connected message opens a session newer than the one before it.     *)
LEMMA ConnectedVoiced ==
    ASSUME NEW step, NEW e, NEW a, Voiced(step, e, a), ~Said(step.r),
           NEW live, DOMAIN live = {"r", "out"}, live.out = step.out, DOMAIN live.r = Fields,
           live.r.sessionGeneration = step.r.sessionGeneration + 1,
           live.r.nextSource = step.r.nextSource, Said(live.r), NEW note
    PROVE  LET n == Emit(live, "connected", e, note)
           IN /\ Voiced(n, e, a) /\ Said(n.r) /\ n.r.nextSource = step.r.nextSource + 1
              /\ \A f \in Fields \ {"nextSource"} : n.r[f] = live.r[f]
<1>1. PICK b : Run(step.out, e, Activation, a, b) /\ Matches(b, step.r, feed.publisher)
  BY DEF Voiced
<1>2. PICK kind : kind = "connected"
  OBVIOUS
<1>. DEFINE n == Emit(live, kind, e, note)
<1>3. PICK m : m = Message(kind, e, live.r, note)
  OBVIOUS
<1>4. m.kind = "connected" /\ m.seq = step.r.nextSource /\ m.publisher = feed.publisher
        /\ m.session = step.r.sessionGeneration + 1
  BY <1>2, <1>3 DEF Message
<1>5. b.last \in Nat /\ b.last < m.seq /\ IsAdmission(b) /\ m.seq \in Nat
  BY <1>1, <1>4 DEF Matches, IsAdmission, Voiced
<1>6. NewSession(m, b.session)
  <2>1. CASE b.session = Null
    BY <2>1 DEF NewSession
  <2>2. CASE b.session # Null
    <3>1. PICK k \in 0..step.r.sessionGeneration : b.session = <<feed.publisher, k>>
      BY <1>1, <2>2 DEF Matches
    <3>2. m.session > k
      BY <1>4, <3>1 DEF Voiced
    <3> QED BY <1>4, <3>1, <3>2 DEF NewSession
  <2> QED BY <2>1, <2>2
<1>7. Admits(b, m)
  BY <1>4, <1>5, <1>6 DEF Admits
<1>8. Run(n.out, e, Activation, a, Heeded(b, m))
  BY <1>1, <1>3, EmitRuns DEF Voiced
<1>9. /\ DOMAIN n = {"r", "out"} /\ DOMAIN n.r = Fields
      /\ n.r.nextSource = step.r.nextSource + 1
      /\ \A f \in Fields \ {"nextSource"} : n.r[f] = live.r[f]
  BY EmitIs
<1>. HIDE DEF n
<1>10. n.r.connected = live.r.connected /\ n.r.lossPublished = live.r.lossPublished
         /\ n.r.sessionGeneration = step.r.sessionGeneration + 1
  BY <1>9 DEF Fields
<1>11. PICK d : d = Heeded(b, m)
  OBVIOUS
<1>12. IsAdmission(d) /\ d.last = m.seq /\ d.connected /\ d.session = <<m.publisher, m.session>>
  <2>1. IsAdmission(d)
    BY <1>5, <1>11, HeededIs
  <2> QED BY <1>4, <1>7, <1>11, <2>1 DEF Heeded
<1>13. Said(n.r)
  BY <1>10 DEF Said
<1>14. n.r.nextSource \in Nat /\ n.r.sessionGeneration \in Nat
         /\ n.r.sessionGeneration \in 0..n.r.sessionGeneration
  BY <1>9, <1>10 DEF Voiced
<1>15. Matches(d, n.r, feed.publisher)
  <2>1. d.last = n.r.nextSource - 1
    BY <1>4, <1>5, <1>9, <1>12
  <2>2. d.session = <<feed.publisher, n.r.sessionGeneration>>
    BY <1>4, <1>10, <1>12
  <2> QED BY <1>12, <1>13, <1>14, <2>1, <2>2 DEF Matches
<1> QED BY <1>2, <1>8, <1>9, <1>11, <1>13, <1>14, <1>15 DEF Voiced, n

(* The end of an attempt that got everything.                              *)
LEMMA EstablishedVoiced ==
    ASSUME NEW step, NEW e, NEW a, Voiced(step, e, a), Down(step.r),
           IsSequence(step.r.early), step.r.cleanups = <<>>
    PROVE  Voiced(Established(step, e), e, a) /\ LossOK(Established(step, e).r)
<1>. DEFINE r == step.r
            live == [step EXCEPT !.r.sessionGeneration = @ + 1, !.r.lossPublished = FALSE,
                                 !.r.connected = TRUE]
            emitted == Emit(live, "connected", e, NoNote)
            announced == [emitted EXCEPT !.r = ClearEarly(@)]
            fit == Min({Len(r.early), MaxSource - announced.r.nextSource})
            sent == EmitEach(announced, e, SubSeq(r.early, 1, fit))
            drained == IF fit = Len(r.early) THEN sent ELSE ExhaustSource(sent, e)
            spent == [step EXCEPT !.r.sessionExhausted = TRUE]
            unlive == [live EXCEPT !.r.connected = FALSE]
            outcome == IF r.sessionGeneration >= MaxSession THEN Recover(spent, e)
                       ELSE IF ~CanReserve(r) THEN ExhaustSource(unlive, e)
                       ELSE drained
            final == [outcome EXCEPT !.r = IF @.connected THEN [@ EXCEPT !.task = NoTask]
                                           ELSE Leave(@)]
            Ready(o) == /\ Voiced(o, e, a) /\ o.r.halt.stage = "none"
                        /\ o.r.connected => /\ Said(o.r) /\ o.r.nextSource <= MaxSource
                                            /\ o.r.cleanups = <<>>
<1>0. Established(step, e) = final
  BY DEF Established, Then
<1>1. ~Said(r) /\ r.nextSource \in Nat /\ r.sessionGeneration \in Nat /\ DOMAIN r = Fields
        /\ DOMAIN step = {"r", "out"} /\ ~r.connected /\ r.halt.stage = "none"
        /\ IsSequence(r.early) /\ Len(r.early) \in Nat
  BY DownOK, SequenceLength DEF Voiced, Down
<1>2. ASSUME r.sessionGeneration >= MaxSession PROVE Ready(outcome)
  <2>1. /\ DOMAIN spent = {"r", "out"} /\ spent.out = step.out /\ SameVoice(r, spent.r)
        /\ Down(spent.r)
    BY <1>1 DEF Fields, SameVoice, Said, Down
  <2>. HIDE DEF spent
  <2>2. Voiced(spent, e, a) /\ ~Said(spent.r) /\ spent.r.halt.stage = "none"
    BY <2>1, SameVoiced, DownOK DEF Down
  <2>3. Voiced(Recover(spent, e), e, a) /\ Down(Recover(spent, e).r)
    BY <2>1, <2>2, RecoverVoiced
  <2>4. outcome = Recover(spent, e)
    BY <1>2
  <2>. HIDE DEF outcome
  <2> QED BY <2>3, <2>4 DEF Down
<1>3. /\ DOMAIN live = {"r", "out"} /\ live.out = step.out /\ DOMAIN live.r = Fields
      /\ live.r.sessionGeneration = r.sessionGeneration + 1 /\ live.r.nextSource = r.nextSource
      /\ live.r.halt = r.halt /\ live.r.cleanups = r.cleanups /\ live.r.connected
      /\ ~live.r.lossPublished /\ live.r.sourceExhausted = r.sourceExhausted
  BY <1>1 DEF Fields
<1>. HIDE DEF live
<1>4. ASSUME ~(r.sessionGeneration >= MaxSession), ~CanReserve(r) PROVE Ready(outcome)
  <2>1. /\ DOMAIN unlive = {"r", "out"} /\ unlive.out = step.out /\ DOMAIN unlive.r = Fields
        /\ unlive.r.sessionGeneration = r.sessionGeneration + 1
        /\ unlive.r.nextSource = r.nextSource /\ Down(unlive.r)
    BY <1>1, <1>3 DEF Fields, Down
  <2>. HIDE DEF unlive
  <2>2. PICK b : Run(step.out, e, Activation, a, b) /\ Matches(b, r, feed.publisher)
    BY DEF Voiced
  <2>3. Matches(b, unlive.r, feed.publisher)
    <3>1. \A n \in 0..r.sessionGeneration : n \in 0..unlive.r.sessionGeneration
      BY <1>1, <2>1
    <3>2. ~Said(unlive.r)
      BY <2>1, DownOK
    <3> QED BY <1>1, <2>1, <2>2, <3>1, <3>2 DEF Matches
  <2>4. Voiced(unlive, e, a)
    BY <1>1, <2>1, <2>2, <2>3 DEF Voiced
  <2>5. Voiced(ExhaustSource(unlive, e), e, a) /\ Down(ExhaustSource(unlive, e).r)
    <3>1. CASE unlive.r.sourceExhausted
      BY <2>1, <2>4, <3>1 DEF ExhaustSource
    <3>2. CASE ~unlive.r.sourceExhausted
      <4>1. ~Said(unlive.r) /\ unlive.r.halt.stage = "none"
        BY <2>1, DownOK DEF Down
      <4> QED BY <2>4, <3>2, <4>1, ExhaustSourceVoiced
    <3> QED BY <3>1, <3>2
  <2>6. outcome = ExhaustSource(unlive, e)
    BY <1>4
  <2>. HIDE DEF outcome
  <2> QED BY <2>5, <2>6 DEF Down
<1>5. ASSUME ~(r.sessionGeneration >= MaxSession), CanReserve(r) PROVE Ready(outcome)
  <2>1. MaxSource \in Nat /\ r.nextSource < MaxSource /\ Said(live.r)
    BY <1>3, <1>5, EndpointAssumption DEF CanReserve, Said
  <2>2. /\ Voiced(emitted, e, a) /\ Said(emitted.r)
        /\ emitted.r.nextSource = r.nextSource + 1
        /\ \A f \in Fields \ {"nextSource"} : emitted.r[f] = live.r[f]
    <3>1. PICK note : note = NoNote
      OBVIOUS
    <3>2. PICK n : n = Emit(live, "connected", e, note)
      OBVIOUS
    <3>3. /\ Voiced(n, e, a) /\ Said(n.r) /\ n.r.nextSource = r.nextSource + 1
          /\ \A f \in Fields \ {"nextSource"} : n.r[f] = live.r[f]
      BY <1>1, <1>3, <2>1, <3>2, ConnectedVoiced
    <3>4. emitted = n
      BY <3>1, <3>2
    <3> QED BY <3>3, <3>4
  <2>. HIDE DEF emitted
  <2>3. /\ DOMAIN announced = {"r", "out"} /\ announced.out = emitted.out
        /\ SameVoice(emitted.r, announced.r)
        /\ announced.r.nextSource = r.nextSource + 1
        /\ announced.r.halt = r.halt /\ announced.r.cleanups = r.cleanups
        /\ announced.r.sourceExhausted = r.sourceExhausted
    BY <1>3, <2>2 DEF Voiced, Fields, ClearEarly, SameVoice, Said
  <2>. HIDE DEF announced
  <2>4. Voiced(announced, e, a) /\ Said(announced.r)
    BY <2>2, <2>3, SameVoiced DEF SameVoice
  <2>5. fit \in Nat /\ fit <= Len(r.early) /\ fit <= MaxSource - (r.nextSource + 1)
    <3>. DEFINE S == {Len(r.early), MaxSource - announced.r.nextSource}
    <3>1. \E x \in S : \A y \in S : x <= y
      BY <1>1, <2>1, <2>3
    <3>2. fit \in S /\ \A y \in S : fit <= y
      BY <3>1 DEF Min
    <3> QED BY <1>1, <2>1, <2>3, <3>2
  <2>. HIDE DEF fit
  <2>6. PICK notes : notes = SubSeq(r.early, 1, fit)
    OBVIOUS
  <2>7. IsSequence(notes) /\ Len(notes) = fit
    <3>1. r.early \in Seq(Range(r.early))
      BY <1>1 DEF IsSequence
    <3>2. PICK S : S = Range(r.early)
      OBVIOUS
    <3>3. notes \in Seq(S) /\ Len(notes) = fit
      BY <1>1, <2>5, <2>6, <3>1, <3>2
    <3> QED BY <3>3, SequenceOfItsValues
  <2>8. /\ Voiced(sent, e, a) /\ sent.r.nextSource = announced.r.nextSource + Len(notes)
        /\ \A f \in Fields \ {"nextSource"} : sent.r[f] = announced.r[f]
    <3>1. PICK n : n = EmitEach(announced, e, notes)
      OBVIOUS
    <3>2. /\ Voiced(n, e, a) /\ n.r.nextSource = announced.r.nextSource + Len(notes)
          /\ \A f \in Fields \ {"nextSource"} : n.r[f] = announced.r[f]
      BY <2>4, <2>7, <3>1, StatesVoiced
    <3>3. sent = n
      BY <2>6, <3>1
    <3> QED BY <3>2, <3>3
  <2>. HIDE DEF sent
  <2>9. /\ sent.r.nextSource <= MaxSource /\ sent.r.halt.stage = "none"
        /\ sent.r.cleanups = <<>> /\ Said(sent.r)
    <3>1. sent.r.nextSource = r.nextSource + 1 + fit
      BY <2>3, <2>7, <2>8
    <3>2. sent.r.nextSource <= MaxSource
      BY <1>1, <2>1, <2>5, <3>1
    <3>3. /\ sent.r.halt = announced.r.halt /\ sent.r.cleanups = announced.r.cleanups
          /\ sent.r.connected = announced.r.connected
          /\ sent.r.lossPublished = announced.r.lossPublished
      BY <2>8 DEF Fields
    <3> QED BY <1>1, <2>3, <2>4, <3>2, <3>3 DEF Said
  <2>10. Ready(sent)
    BY <2>8, <2>9
  <2>11. Ready(ExhaustSource(sent, e))
    <3>1. CASE sent.r.sourceExhausted
      BY <2>10, <3>1 DEF ExhaustSource
    <3>2. CASE ~sent.r.sourceExhausted
      <4>1. Voiced(ExhaustSource(sent, e), e, a) /\ Down(ExhaustSource(sent, e).r)
        BY <2>8, <2>9, <3>2, ExhaustSourceVoiced
      <4> QED BY <4>1 DEF Down
    <3> QED BY <3>1, <3>2
  <2>12. outcome \in {sent, ExhaustSource(sent, e)}
    BY <1>5
  <2>. HIDE DEF outcome, Ready
  <2> QED BY <2>10, <2>11, <2>12
<1>. HIDE DEF outcome
<1>6. Ready(outcome)
  BY <1>2, <1>4, <1>5
<1>7. CASE outcome.r.connected
  <2>1. PICK s : s = [outcome.r EXCEPT !.task = NoTask]
    OBVIOUS
  <2>2. DOMAIN final = {"r", "out"} /\ final.out = outcome.out /\ final.r = s
    BY <1>6, <1>7, <2>1 DEF Voiced
  <2>3. SameVoice(outcome.r, s) /\ LossOK(s)
    BY <1>6, <1>7, <2>1 DEF Voiced, Fields, SameVoice, Said, LossOK, NoTask
  <2>. HIDE DEF final
  <2> QED BY <1>0, <1>6, <2>2, <2>3, SameVoiced
<1>8. CASE ~outcome.r.connected
  <2>1. PICK s : s = Leave(outcome.r)
    OBVIOUS
  <2>2. DOMAIN final = {"r", "out"} /\ final.out = outcome.out /\ final.r = s
    BY <1>6, <1>8, <2>1 DEF Voiced
  <2>3. Down(outcome.r)
    BY <1>6, <1>8 DEF Down
  <2>4. Falls(outcome.r, s)
    BY <1>6, <2>1, LeaveFalls DEF Voiced
  <2>5. LossOK(s) /\ ~Said(outcome.r)
    BY <2>3, <2>4, DownFalls, DownOK
  <2>. HIDE DEF final
  <2> QED BY <1>0, <1>6, <2>2, <2>4, <2>5, FallenVoiced
<1> QED BY <1>7, <1>8

-----------------------------------------------------------------------------
(* One lemma per action: the endpoint's publications lead the hub to the   *)
(* view that follows from its record.                                      *)

Told(e, step) ==
    /\ LossOK(step.r)
    /\ \A a : Matches(a, runtime[e], feed.publisher) => Voiced(step, e, a)

Heard(e) == \E step : Take(e, step) /\ Told(e, step)

(* Some view follows from every endpoint.                                  *)
LEMMA SomeFollows ==
    ASSUME EndpointInv, NEW e \in Endpoints
    PROVE  \E a : Matches(a, runtime[e], feed.publisher)
<1>. DEFINE r == runtime[e]
<1>1. r.nextSource - 1 \in Nat /\ r.sessionGeneration \in 0..r.sessionGeneration
  BY EndpointAssumption DEF EndpointInv, OK, Shape
<1>2. PICK said \in BOOLEAN : said <=> Said(r)
  OBVIOUS
<1>3. PICK a : a = [last |-> r.nextSource - 1,
                    session |-> <<feed.publisher, r.sessionGeneration>>, connected |-> said]
  OBVIOUS
<1>4. /\ a.last = r.nextSource - 1 /\ (a.connected <=> Said(r)) /\ IsAdmission(a)
      /\ a.session = <<feed.publisher, r.sessionGeneration>>
  BY <1>1, <1>2, <1>3 DEF IsAdmission
<1>5. r.nextSource - 1 < r.nextSource
  BY <1>1, EndpointAssumption DEF EndpointInv, OK, Shape
<1>6. Matches(a, r, feed.publisher)
  BY <1>1, <1>4, <1>5 DEF Matches
<1> QED BY <1>6

LEMMA HeardAnyway ==
    ASSUME EndpointInv, NEW e \in Endpoints, NEW step, Take(e, step),
           \A a : Matches(a, runtime[e], feed.publisher) => Voiced(step, e, a) /\ LossOK(step.r)
    PROVE  Heard(e)
  BY SomeFollows DEF Heard, Told

LEMMA VoiceHeard ==
    ASSUME EndpointInv, NEW e \in Endpoints, NEW s, SameVoice(runtime[e], s), LossOK(s),
           Take(e, Quiet(s))
    PROVE  Heard(e)
<1>1. Shape(runtime[e])
  BY DEF EndpointInv, OK
<1>2. PICK step : step = Quiet(s)
  OBVIOUS
<1>3. DOMAIN s = Fields /\ s.nextSource \in Nat /\ s.sessionGeneration \in Nat
  BY <1>1, EndpointAssumption DEF Shape, SameVoice
<1>4. ASSUME NEW a, Matches(a, runtime[e], feed.publisher) PROVE Voiced(step, e, a)
  <2>1. Matches(a, s, feed.publisher)
    BY <1>4, SameVoiceFollows
  <2> QED BY <1>2, <1>3, <2>1, QuietVoiced
<1>5. step.r = s
  BY <1>2 DEF Quiet
<1>6. Told(e, step)
  BY <1>4, <1>5 DEF Told
<1> QED BY <1>2, <1>6 DEF Heard

LEMMA FallHeard ==
    ASSUME EndpointInv, NEW e \in Endpoints, LossOK(runtime[e]), ~Said(runtime[e]),
           NEW s, Falls(runtime[e], s), Take(e, Quiet(s))
    PROVE  Heard(e)
<1>1. SameVoice(runtime[e], s) /\ LossOK(s)
  BY FallenOK
<1> QED BY <1>1, VoiceHeard

LEMMA EndpointShape ==
    ASSUME EndpointInv, NEW e \in Endpoints
    PROVE  /\ Shape(runtime[e]) /\ DOMAIN runtime[e] = Fields
           /\ runtime[e].nextSource \in Nat /\ runtime[e].sessionGeneration \in Nat
           /\ IsSequence(runtime[e].early)
           /\ ~runtime[e].stopped => runtime[e].halt.stage = "none"
  BY EndpointAssumption DEF EndpointInv, OK, Shape, QueueOK

(* While the current attempt runs there is nothing to lose.                *)
LEMMA AttemptDown ==
    ASSUME EndpointInv, NEW e \in Endpoints, InAttempt(runtime[e]),
           Current(runtime[e], runtime[e].task.generation)
    PROVE  Down(runtime[e]) /\ runtime[e].cleanups = <<>>
<1>1. Own(runtime[e]) /\ AttemptOK(runtime[e])
  BY DEF EndpointInv, Live, Steady, Core, Own, Current
<1>2. runtime[e].halt.stage = "none"
  BY EndpointShape DEF Current
<1> QED BY <1>1, <1>2 DEF AttemptOK, Down

LEMMA QuietIs ==
    ASSUME EndpointInv, NEW e \in Endpoints, NEW a, Matches(a, runtime[e], feed.publisher),
           NEW s, SameVoice(runtime[e], s)
    PROVE  Voiced(Quiet(s), e, a) /\ Quiet(s).r = s
<1>1. Matches(a, s, feed.publisher)
  BY SameVoiceFollows
<1>2. DOMAIN s = Fields /\ s.nextSource \in Nat /\ s.sessionGeneration \in Nat
  BY EndpointShape DEF SameVoice
<1> QED BY <1>1, <1>2, QuietVoiced

LEMMA ConnectProceedsHeard ==
    ASSUME EndpointInv, NEW e \in Endpoints, LossOK(runtime[e]), ConnectProceeds(e)
    PROVE  Heard(e)
<1>. DEFINE r == runtime[e]
            next == [r EXCEPT !.task = After(@), !.held = @ \cup MadeBy(r.task),
                              !.open = @ \cup MadeBy(r.task)]
<1>1. InAttempt(r) /\ Current(r, r.task.generation) /\ Down(r) /\ r.cleanups = <<>>
  BY AttemptDown DEF ConnectProceeds
<1>2. /\ SameVoice(r, next) /\ Down(next) /\ next.cleanups = <<>>
      /\ IsSequence(next.early)
  BY <1>1, EndpointShape DEF Fields, SameVoice, Said, Down
<1>3. Take(e, IF next.task.stage = "done" THEN Established(Quiet(next), e) ELSE Quiet(next))
  BY DEF ConnectProceeds
<1>. HIDE DEF next
<1>4. LossOK(next)
  BY <1>2, DownOK
<1>5. CASE next.task.stage # "done"
  <2>1. Take(e, Quiet(next))
    BY <1>3, <1>5
  <2> QED BY <1>2, <1>4, <2>1, VoiceHeard
<1>6. CASE next.task.stage = "done"
  <2>1. PICK q : q = Quiet(next)
    OBVIOUS
  <2>2. PICK step : step = Established(q, e)
    OBVIOUS
  <2>3. Take(e, step)
    BY <1>3, <1>6, <2>1, <2>2
  <2>4. ASSUME NEW a, Matches(a, r, feed.publisher) PROVE Voiced(step, e, a) /\ LossOK(step.r)
    <3>1. Voiced(q, e, a) /\ q.r = next
      BY <1>2, <2>1, <2>4, QuietIs
    <3> QED BY <1>2, <2>2, <3>1, EstablishedVoiced
  <2> QED BY <2>3, <2>4, HeardAnyway
<1> QED BY <1>5, <1>6

LEMMA ConnectFailsHeard ==
    ASSUME EndpointInv, NEW e \in Endpoints, LossOK(runtime[e]), ConnectFails(e)
    PROVE  Heard(e)
<1>. DEFINE r == runtime[e]
<1>1. InAttempt(r) /\ Current(r, r.task.generation) /\ Down(r)
  BY AttemptDown DEF ConnectFails
<1>2. PICK q : q = Quiet(r)
  OBVIOUS
<1>3. PICK n : n = Recover(q, e)
  OBVIOUS
<1>4. PICK step : step = [n EXCEPT !.r = Leave(n.r)]
  OBVIOUS
<1>5. Take(e, step)
  BY <1>2, <1>3, <1>4 DEF ConnectFails, Then
<1>6. ASSUME NEW a, Matches(a, r, feed.publisher) PROVE Voiced(step, e, a) /\ LossOK(step.r)
  <2>1. SameVoice(r, r)
    BY EndpointShape DEF SameVoice
  <2>2. Voiced(q, e, a) /\ q.r = r
    BY <1>2, <1>6, <2>1, QuietIs
  <2>3. q.r.halt.stage = "none" /\ ~Said(q.r)
    BY <1>1, <2>2, DownOK DEF Down
  <2>4. Voiced(n, e, a) /\ Down(n.r)
    BY <1>1, <1>3, <2>2, <2>3, RecoverVoiced
  <2>5. PICK s : s = Leave(n.r)
    OBVIOUS
  <2>6. Falls(n.r, s) /\ Down(s) /\ ~Said(n.r)
    BY <2>4, <2>5, LeaveFalls, DownFalls, DownOK DEF Voiced
  <2>7. step = [n EXCEPT !.r = s]
    BY <1>4, <2>5
  <2> QED BY <2>4, <2>6, <2>7, ThenFalls, DownOK
<1> QED BY <1>5, <1>6, HeardAnyway

LEMMA ConnectOvertakenHeard ==
    ASSUME EndpointInv, NEW e \in Endpoints, LossOK(runtime[e]), ConnectOvertaken(e)
    PROVE  Heard(e)
<1>. DEFINE r == runtime[e]
            made == [r EXCEPT !.open = @ \cup MadeBy(r.task)]
<1>1. ~Said(r) /\ DOMAIN r = Fields
  BY EndpointShape DEF ConnectOvertaken, InAttempt, LossOK
<1>2. Falls(r, made) /\ DOMAIN made = Fields
  BY <1>1 DEF Falls, Fields
<1>3. \/ Take(e, Quiet(Leave(r)))
      \/ Take(e, Quiet(Leave(made)))
      \/ \E h : Take(e, Quiet(LeaveLateGroup(made, h)))
  BY DEF ConnectOvertaken
<1>. HIDE DEF made
<1>4. Falls(r, Leave(r)) /\ Falls(r, Leave(made)) /\ \A h : Falls(r, LeaveLateGroup(made, h))
  <2>1. Falls(made, Leave(made)) /\ \A h : Falls(made, LeaveLateGroup(made, h))
    BY <1>2, LeaveFalls, LeaveLateGroupFalls
  <2> QED BY <1>1, <1>2, <2>1, LeaveFalls, FallsOn
<1> QED BY <1>1, <1>3, <1>4, FallHeard

LEMMA NotificationHeard ==
    ASSUME EndpointInv, NEW e \in Endpoints, LossOK(runtime[e]), NEW note,
           Notification(e, note)
    PROVE  Heard(e)
<1>. DEFINE r == runtime[e]
            c == note.channel
            kept == [r EXCEPT !.retained = IF note.good THEN @ \cup {c} ELSE @]
            buffered == [kept EXCEPT !.early = Append(Without(@, c), note)]
<1>1. DOMAIN r = Fields /\ r.halt.stage = "none" /\ (r.connected => Said(r))
  <2>1. r.halt.stage = "none" /\ DOMAIN r = Fields
    BY EndpointShape DEF Notification, Listening
  <2>2. ~Deaf(r)
    <3>1. Group(r.generation, c) \in r.held /\ Group(r.generation, c)[2] = r.generation
      BY DEF Notification, Listening, Group
    <3>2. r.generation \in Nat
      BY DEF EndpointInv, Live, Steady, Core, NumbersOK
    <3> QED BY <3>1, <3>2 DEF Deaf
  <2> QED BY <2>1, <2>2 DEF LossOK, Said
<1>2. SameVoice(r, kept) /\ LossOK(kept) /\ kept.halt = r.halt /\ kept.connected = r.connected
        /\ (Said(kept) <=> Said(r))
  <2>1. /\ DOMAIN kept = Fields /\ kept.connected = r.connected /\ kept.halt = r.halt
        /\ kept.lossPublished = r.lossPublished /\ kept.nextSource = r.nextSource
        /\ kept.sessionGeneration = r.sessionGeneration /\ kept.cleanups = r.cleanups
        /\ kept.task = r.task
    BY <1>1 DEF Fields
  <2>. HIDE DEF kept
  <2> QED BY <1>1, <2>1 DEF SameVoice, LossOK, Said
<1>3. CASE r.connected
  <2>1. PICK q : q = Quiet(kept)
    OBVIOUS
  <2>2. PICK step : step = PublishState(q, e, note)
    OBVIOUS
  <2>3. Take(e, step)
    BY <1>3, <2>1, <2>2 DEF Notification
  <2>. HIDE DEF kept
  <2>4. ASSUME NEW a, Matches(a, r, feed.publisher) PROVE Voiced(step, e, a) /\ LossOK(step.r)
    <3>1. Voiced(q, e, a) /\ q.r = kept
      BY <1>2, <2>1, <2>4, QuietIs
    <3>2. LossOK(q.r) /\ q.r.halt.stage = "none" /\ (q.r.connected => Said(q.r))
      BY <1>1, <1>2, <3>1
    <3> QED BY <2>2, <3>1, <3>2, PublishStateVoiced
  <2> QED BY <2>3, <2>4, HeardAnyway
<1>4. CASE ~r.connected
  <2>1. Falls(r, buffered)
    BY <1>1, <1>4 DEF Falls, Fields
  <2>2. Take(e, Quiet(buffered))
    BY <1>4 DEF Notification
  <2>3. ~Said(r)
    BY <1>4 DEF Said
  <2>. HIDE DEF buffered
  <2> QED BY <2>1, <2>2, <2>3, FallHeard
<1> QED BY <1>3, <1>4

LEMMA ConnectionLostHeard ==
    ASSUME EndpointInv, NEW e \in Endpoints, LossOK(runtime[e]), ConnectionLost(e)
    PROVE  Heard(e)
<1>. DEFINE r == runtime[e]
<1>1. PICK q : q = Quiet(r)
  OBVIOUS
<1>2. PICK step : step = Recover(q, e)
  OBVIOUS
<1>3. Take(e, step) /\ ~r.stopped
  BY <1>1, <1>2 DEF ConnectionLost, Current
<1>4. ASSUME NEW a, Matches(a, r, feed.publisher) PROVE Voiced(step, e, a) /\ LossOK(step.r)
  <2>1. SameVoice(r, r)
    BY EndpointShape DEF SameVoice
  <2>2. Voiced(q, e, a) /\ q.r = r
    BY <1>1, <1>4, <2>1, QuietIs
  <2>3. q.r.halt.stage = "none" /\ (Said(q.r) => q.r.nextSource <= MaxSource)
    BY <1>3, <2>2, EndpointShape DEF LossOK
  <2>4. Voiced(step, e, a) /\ (step = q \/ Down(step.r))
    BY <1>2, <2>2, <2>3, RecoverVoiced
  <2> QED BY <2>2, <2>4, DownOK
<1> QED BY <1>3, <1>4, HeardAnyway

LEMMA ReconnectTimerFiresHeard ==
    ASSUME EndpointInv, NEW e \in Endpoints, LossOK(runtime[e]), ReconnectTimerFires(e)
    PROVE  Heard(e)
<1>. DEFINE r == runtime[e]
            off == [r EXCEPT !.timer = FALSE]
<1>1. DOMAIN r = Fields
  BY EndpointShape
<1>2. /\ Falls(r, off) /\ DOMAIN off = Fields /\ off.connected = r.connected
      /\ off.cleanups = r.cleanups /\ off.task = r.task
      /\ off.generation = r.generation /\ off.held = r.held /\ off.halt = r.halt
  BY <1>1 DEF Falls, Fields
<1>3. Take(e, Quiet(StartConnect(off)))
  BY DEF ReconnectTimerFires
<1>. HIDE DEF off
<1>4. Falls(off, StartConnect(off)) /\ (off.connected => StartConnect(off) = off)
  BY <1>2, StartConnectFalls
<1>5. CASE Said(r)
  <2>1. StartConnect(off) = off
    BY <1>2, <1>4, <1>5 DEF Said
  <2>2. SameVoice(r, off) /\ LossOK(off)
    BY <1>2, <1>5 DEF Falls, SameVoice, LossOK, Said, Deaf
  <2> QED BY <1>3, <2>1, <2>2, VoiceHeard
<1>6. CASE ~Said(r)
  <2>1. Falls(r, StartConnect(off))
    BY <1>2, <1>4, FallsOn
  <2> QED BY <1>3, <1>6, <2>1, FallHeard
<1> QED BY <1>5, <1>6

(* Whoever has asked for a cleanup is not connected for the hub.           *)
LEMMA AskedFallen ==
    ASSUME EndpointInv, NEW e \in Endpoints, LossOK(runtime[e]),
           runtime[e].cleanups # <<>> \/ runtime[e].pass # Null
    PROVE  ~Said(runtime[e]) /\ DOMAIN runtime[e] = Fields
<1>1. runtime[e].cleanups # <<>>
  BY DEF EndpointInv, OK, QueueOK, PassOK
<1> QED BY <1>1, EndpointShape DEF LossOK

LEMMA CleanupBeginsHeard ==
    ASSUME EndpointInv, NEW e \in Endpoints, LossOK(runtime[e]), CleanupBegins(e)
    PROVE  Heard(e)
<1>. DEFINE r == runtime[e]
<1>1. ~Said(r) /\ DOMAIN r = Fields
  BY AskedFallen DEF CleanupBegins
<1>2. PICK f : f = FALSE
  OBVIOUS
<1>3. Falls(r, Settled(r, f))
  BY <1>1, SettledFalls
<1>4. PICK b : b = BeginPass(r)
  OBVIOUS
<1>5. Falls(r, b) /\ Falls(b, EndPass(b))
  BY <1>1, <1>4, BeginPassFalls, EndPassFalls DEF Falls
<1>6. Falls(r, EndPass(b))
  BY <1>5, FallsOn
<1>7. Take(e, Quiet(Settled(r, f))) \/ Take(e, Quiet(EndPass(b)))
  BY <1>2, <1>4 DEF CleanupBegins
<1> QED BY <1>1, <1>3, <1>6, <1>7, FallHeard

LEMMA HandleClosesHeard ==
    ASSUME EndpointInv, NEW e \in Endpoints, LossOK(runtime[e]), HandleCloses(e)
    PROVE  Heard(e)
<1>1. ~Said(runtime[e]) /\ DOMAIN runtime[e] = Fields
  BY AskedFallen DEF HandleCloses
<1>2. PICK h : Take(e, Quiet(EndPass(Removed(runtime[e], h))))
  BY DEF HandleCloses
<1>3. Falls(runtime[e], Removed(runtime[e], h))
  BY <1>1, RemovedFalls
<1>4. Falls(Removed(runtime[e], h), EndPass(Removed(runtime[e], h)))
  BY <1>3, EndPassFalls DEF Falls
<1>5. Falls(runtime[e], EndPass(Removed(runtime[e], h)))
  BY <1>3, <1>4, FallsOn
<1> QED BY <1>1, <1>2, <1>5, FallHeard

LEMMA HandleCloseFailsHeard ==
    ASSUME EndpointInv, NEW e \in Endpoints, LossOK(runtime[e]), HandleCloseFails(e)
    PROVE  Heard(e)
<1>1. ~Said(runtime[e]) /\ DOMAIN runtime[e] = Fields
  BY AskedFallen DEF HandleCloseFails
<1>2. PICK h : Take(e, Quiet(EndPass([runtime[e] EXCEPT !.pass.failed = @ \cup {h}])))
  BY DEF HandleCloseFails
<1>. DEFINE n == [runtime[e] EXCEPT !.pass.failed = @ \cup {h}]
<1>3. Falls(runtime[e], n)
  BY <1>1 DEF Falls, Fields
<1>. HIDE DEF n
<1>4. Falls(n, EndPass(n))
  BY <1>3, EndPassFalls DEF Falls
<1>5. Falls(runtime[e], EndPass(n))
  BY <1>3, <1>4, FallsOn
<1>6. Take(e, Quiet(EndPass(n)))
  BY <1>2 DEF n
<1> QED BY <1>1, <1>5, <1>6, FallHeard

(* The stop announces the loss of the session that was live when it began. *)
LEMMA BrowseReleasedHeard ==
    ASSUME EndpointInv, NEW e \in Endpoints, LossOK(runtime[e]), BrowseReleased(e)
    PROVE  Heard(e)
<1>. DEFINE r == runtime[e]
            settling == [r EXCEPT !.halt.stage = "settle"]
<1>1. r.halt.stage = "release" /\ DOMAIN r = Fields /\ DOMAIN r.halt = {"stage", "live", "epoch"}
  BY EndpointShape DEF BrowseReleased, Shape
<1>2. /\ DOMAIN settling = Fields /\ settling.halt.stage = "settle"
      /\ \A f \in Fields \ {"halt"} : settling[f] = r[f]
  BY <1>1 DEF Fields
<1>. HIDE DEF settling
<1>3. /\ settling.connected = r.connected /\ settling.lossPublished = r.lossPublished
      /\ settling.nextSource = r.nextSource /\ settling.held = r.held
      /\ settling.sessionGeneration = r.sessionGeneration /\ settling.generation = r.generation
  BY <1>2 DEF Fields
<1>4. SameVoice(r, settling) /\ (Said(settling) <=> Said(r))
  BY <1>2, <1>3 DEF SameVoice, Said
<1>5. PICK q : q = Quiet(settling)
  OBVIOUS
<1>6. PICK n : n = IF r.halt.live THEN PublishDisconnected(q, e) ELSE q
  OBVIOUS
<1>7. PICK step : step = [n EXCEPT !.r = ClearEarly(@)]
  OBVIOUS
<1>8. Take(e, step)
  BY <1>5, <1>6, <1>7 DEF BrowseReleased, Then, settling
<1>9. ASSUME NEW a, Matches(a, r, feed.publisher) PROVE Voiced(step, e, a) /\ LossOK(step.r)
  <2>1. Voiced(q, e, a) /\ q.r = settling
    BY <1>4, <1>5, <1>9, QuietIs
  <2>2. /\ Voiced(n, e, a) /\ ~Said(n.r) /\ n.r.halt.stage = "settle"
        /\ n.r.connected = r.connected /\ n.r.generation = r.generation /\ n.r.held = r.held
    <3>1. CASE r.halt.live
      <4>1. Said(q.r) => q.r.nextSource <= MaxSource
        BY <1>3, <1>4, <2>1 DEF LossOK
      <4>2. q.r.connected \/ q.r.lossPublished
        BY <1>1, <1>3, <2>1, <3>1 DEF LossOK
      <4>3. /\ Voiced(n, e, a) /\ ~Said(n.r)
            /\ \A f \in Fields \ {"nextSource", "lossPublished"} : n.r[f] = q.r[f]
        BY <1>6, <2>1, <3>1, <4>1, <4>2, LossVoiced
      <4>4. n.r.halt = settling.halt /\ n.r.connected = settling.connected
              /\ n.r.generation = settling.generation /\ n.r.held = settling.held
        BY <2>1, <4>3 DEF Fields
      <4> QED BY <1>2, <1>3, <4>3, <4>4
    <3>2. CASE ~r.halt.live
      <4>1. ~Said(r)
        BY <1>1, <3>2 DEF LossOK
      <4> QED BY <1>2, <1>3, <1>4, <1>6, <2>1, <3>2, <4>1
    <3> QED BY <3>1, <3>2
  <2>3. PICK s : s = ClearEarly(n.r)
    OBVIOUS
  <2>4. Falls(n.r, s)
    BY <2>2, <2>3 DEF Voiced, ClearEarly, Falls, Fields
  <2>5. r.connected => Deaf(r)
    BY <1>1 DEF LossOK
  <2>6. LossOK(n.r)
    BY <2>2, <2>5 DEF LossOK, Deaf
  <2>7. LossOK(s)
    BY <2>2, <2>4, <2>6, FallenOK
  <2>8. step = [n EXCEPT !.r = s]
    BY <1>7, <2>3
  <2> QED BY <2>2, <2>4, <2>7, <2>8, ThenFalls
<1> QED BY <1>8, <1>9, HeardAnyway

LEMMA BrowseNotReleasedHeard ==
    ASSUME EndpointInv, NEW e \in Endpoints, LossOK(runtime[e]), BrowseNotReleased(e)
    PROVE  Heard(e)
<1>. DEFINE r == runtime[e]
            n == [r EXCEPT !.halt = NoHalt]
<1>1. /\ DOMAIN n = Fields /\ n.connected = r.connected /\ n.lossPublished = r.lossPublished
      /\ n.nextSource = r.nextSource /\ n.sessionGeneration = r.sessionGeneration
      /\ n.cleanups = r.cleanups /\ n.task = r.task /\ n.held = r.held
      /\ n.generation = r.generation /\ n.halt.stage = "none"
  BY EndpointShape DEF Fields, NoHalt
<1>2. Take(e, Quiet(n))
  BY DEF BrowseNotReleased
<1>. HIDE DEF n
<1>3. SameVoice(r, n) /\ LossOK(n)
  BY <1>1 DEF SameVoice, LossOK, Said, Deaf
<1> QED BY <1>2, <1>3, VoiceHeard

LEMMA HaltSettlesHeard ==
    ASSUME EndpointInv, NEW e \in Endpoints, LossOK(runtime[e]), HaltSettles(e)
    PROVE  Heard(e)
<1>. DEFINE r == runtime[e]
            over == [r EXCEPT !.halt = NoHalt]
            w == [r EXCEPT !.halt.stage = "cleanup"]
<1>1. r.halt.stage = "settle" /\ DOMAIN r = Fields /\ DOMAIN r.halt = {"stage", "live", "epoch"}
  BY EndpointShape DEF HaltSettles, Shape
<1>2. ~Said(r)
  BY <1>1 DEF LossOK
<1>3. Falls(r, over)
  BY <1>1 DEF Falls, Fields, NoHalt
<1>4. Falls(r, w)
  BY <1>1 DEF Falls, Fields
<1>5. Take(e, Quiet(over)) \/ Take(e, Quiet(Enqueue(w, "stop")))
  BY DEF HaltSettles
<1>. HIDE DEF over, w
<1>6. PICK by : by = "stop"
  OBVIOUS
<1>7. Falls(w, Enqueue(w, by))
  BY <1>4, EnqueueFalls DEF Falls
<1>8. Falls(r, Enqueue(w, by))
  BY <1>4, <1>7, FallsOn
<1>9. Take(e, Quiet(over)) \/ Take(e, Quiet(Enqueue(w, by)))
  BY <1>5, <1>6
<1> QED BY <1>2, <1>3, <1>8, <1>9, FallHeard

(* start() and stop() publish nothing.                                     *)
LEMMA StartedHeard ==
    ASSUME NEW r, LossOK(r), DOMAIN r = Fields
    PROVE  SameVoice(r, Started(r)) /\ LossOK(Started(r))
<1>. DEFINE s == [r EXCEPT !.stopped = FALSE, !.halted = FALSE]
<1>1. /\ DOMAIN s = Fields /\ s.connected = r.connected /\ s.lossPublished = r.lossPublished
      /\ s.nextSource = r.nextSource /\ s.sessionGeneration = r.sessionGeneration
      /\ s.cleanups = r.cleanups /\ s.task = r.task /\ s.held = r.held
      /\ s.generation = r.generation /\ s.halt = r.halt
  BY DEF Fields
<1>. HIDE DEF s
<1>2. SameVoice(r, s) /\ LossOK(s)
  BY <1>1 DEF SameVoice, LossOK, Said, Deaf
<1>3. Falls(s, StartConnect(s)) /\ (s.connected => StartConnect(s) = s)
  BY <1>1, StartConnectFalls
<1>4. SameVoice(s, StartConnect(s)) /\ LossOK(StartConnect(s))
  <2>1. CASE s.connected
    <3>1. SameVoice(s, s)
      BY <1>1 DEF SameVoice
    <3> QED BY <1>2, <1>3, <2>1, <3>1
  <2>2. CASE ~s.connected
    BY <1>2, <1>3, <2>2, FallenOK DEF Said
  <2> QED BY <2>1, <2>2
<1>5. Started(r) = StartConnect(s)
  BY DEF Started, s
<1> QED BY <1>2, <1>4, <1>5 DEF SameVoice

LEMMA HaltingHeard ==
    ASSUME NEW r, LossOK(r), DOMAIN r = Fields, NumbersOK(r)
    PROVE  SameVoice(r, Halting(r)) /\ LossOK(Halting(r))
<1>1. PICK s : s = Halting(r)
  OBVIOUS
<1>2. /\ DOMAIN s = Fields /\ s.connected = r.connected /\ s.lossPublished = r.lossPublished
      /\ s.nextSource = r.nextSource /\ s.sessionGeneration = r.sessionGeneration
      /\ s.cleanups = r.cleanups /\ s.task = r.task /\ s.held = r.held
      /\ s.generation = r.generation + 1
      /\ s.halt.stage = "release" /\ s.halt.live = r.connected
  BY <1>1 DEF Halting, Fields
<1>3. s.connected => Deaf(s)
  BY <1>2 DEF NumbersOK, Deaf
<1>4. SameVoice(r, s) /\ LossOK(s)
  BY <1>2, <1>3 DEF SameVoice, LossOK, Said
<1> QED BY <1>1, <1>4

LEMMA FreshFollows ==
    ASSUME NEW p
    PROVE  /\ Matches(Blank, Fresh, p) /\ Matches(Blank, Started(Fresh), p)
           /\ LossOK(Fresh) /\ LossOK(Started(Fresh)) /\ DOMAIN Fresh = Fields
<1>1. DOMAIN Fresh = Fields /\ Down(Fresh) /\ Fresh.nextSource = 1 /\ ~Said(Fresh)
  BY DEF Fresh, Fields, Down, NoHalt, Said
<1>2. Matches(Blank, Fresh, p)
  BY <1>1, BlankIs DEF Matches
<1>3. LossOK(Fresh)
  BY <1>1, DownOK
<1> QED BY <1>1, <1>2, <1>3, StartedHeard, SameVoiceFollows

-----------------------------------------------------------------------------
(* The hub that hears them.                                                *)

HubFields == {"activation", "admission", "cache", "wire", "socket"}

(* Whom the hub listens to, and what it has admitted, are the same.        *)
SameTerms(h, g) ==
    DOMAIN g = HubFields /\ g.activation = h.activation /\ g.admission = h.admission

LEMMA DistributedTerms ==
    ASSUME NEW h, DOMAIN h = HubFields, NEW m
    PROVE  SameTerms(h, Distributed(h, m))
<1>1. PICK appended, sent, e :
         Distributed(h, m) \in {[h EXCEPT !.socket = appended],
                                ResetWire([h EXCEPT !.socket = appended], e),
                                [h EXCEPT !.socket = sent, !.wire[e] = @ + 1]}
  BY DEF Distributed
<1>2. SameTerms(h, [h EXCEPT !.socket = appended])
  BY DEF SameTerms, HubFields
<1>3. SameTerms(h, ResetWire([h EXCEPT !.socket = appended], e))
  BY DEF SameTerms, HubFields, ResetWire
<1>4. SameTerms(h, [h EXCEPT !.socket = sent, !.wire[e] = @ + 1])
  BY DEF SameTerms, HubFields
<1> QED BY <1>1, <1>2, <1>3, <1>4

(* A message that is admitted changes the admission of its endpoint only.  *)
Takes(h, g, e, m) ==
    /\ DOMAIN g = HubFields /\ g.activation = h.activation /\ DOMAIN g.admission = Endpoints
    /\ View(g.admission[e]) = Heeded(View(h.admission[e]), m)
    /\ \A x \in Endpoints \ {e} : g.admission[x] = h.admission[x]

LEMMA PublishedTerms ==
    ASSUME NEW h, DOMAIN h = HubFields, h.activation # Null,
           DOMAIN h.admission = Endpoints, NEW e \in Endpoints,
           NEW m, Belongs(m, e, h.activation)
    PROVE  Takes(h, Published(h, m), e, m)
<1>1. PICK a : a = h.admission[e]
  OBVIOUS
<1>2. m.endpoint = e
  BY DEF Belongs
<1>3. CASE ~Admits(a, m)
  <2>1. Published(h, m) = h
    BY <1>1, <1>2, <1>3 DEF Published, Accepts
  <2>2. Heeded(View(a), m) = View(a)
    BY <1>3, ViewIs DEF Heeded
  <2> QED BY <1>1, <2>1, <2>2 DEF Takes
<1>4. CASE Admits(a, m)
  <2>1. Accepts(h, m)
    BY <1>1, <1>2, <1>4 DEF Accepts, MatchesActivation, Belongs
  <2>2. PICK b : b = Admitted(a, m)
    OBVIOUS
  <2>3. PICK adm : adm = [h.admission EXCEPT ![e] = b]
    OBVIOUS
  <2>4. PICK cache : cache = [h.cache EXCEPT ![e] = Cached(@, m)]
    OBVIOUS
  <2>5. PICK counted : counted = [h EXCEPT !.admission = adm]
    OBVIOUS
  <2>6. PICK kept : kept = [h EXCEPT !.admission = adm, !.cache = cache]
    OBVIOUS
  <2>7. Published(h, m) \in {counted, Distributed(kept, m)}
    BY <1>1, <1>2, <2>1, <2>2, <2>3, <2>4, <2>5, <2>6 DEF Published
  <2>8. /\ DOMAIN counted = HubFields /\ counted.activation = h.activation
        /\ counted.admission = adm
        /\ DOMAIN kept = HubFields /\ kept.activation = h.activation /\ kept.admission = adm
    BY <2>5, <2>6 DEF HubFields
  <2>9. SameTerms(kept, Distributed(kept, m))
    BY <2>8, DistributedTerms
  <2>10. /\ DOMAIN Published(h, m) = HubFields
         /\ Published(h, m).activation = h.activation
         /\ Published(h, m).admission = adm
    BY <2>7, <2>8, <2>9 DEF SameTerms
  <2>11. View(b) = Heeded(View(a), m)
    BY <1>4, <2>2, ViewIs
  <2>12. DOMAIN adm = Endpoints /\ adm[e] = b /\ \A x \in Endpoints \ {e} : adm[x] = h.admission[x]
    BY <2>3
  <2> QED BY <1>1, <2>10, <2>11, <2>12 DEF Takes
<1> QED BY <1>3, <1>4

(* A run of messages, one after the other.                                 *)
PublishNext(c, h, m) == Published(h, m)
AdmittedTo(c, k, h) ==
    /\ DOMAIN h = HubFields /\ h.activation = c.hub.activation /\ DOMAIN h.admission = Endpoints
    /\ View(h.admission[c.endpoint]) = c.path[k]
    /\ \A x \in Endpoints \ {c.endpoint} : h.admission[x] = c.hub.admission[x]
Hearings == INSTANCE FoldInduction WITH Op <- PublishNext, P <- AdmittedTo

(* Hub g has, after hub h, heard of endpoint e what leads to view b.       *)
HeardTo(h, g, e, v, b) ==
    /\ DOMAIN g = HubFields /\ g.activation = v /\ DOMAIN g.admission = Endpoints
    /\ View(g.admission[e]) = b
    /\ \A x \in Endpoints \ {e} : g.admission[x] = h.admission[x]

LEMMA AllAdmitted ==
    ASSUME NEW h, DOMAIN h = HubFields, NEW v, h.activation = v, v # Null,
           DOMAIN h.admission = Endpoints, NEW e \in Endpoints,
           NEW out, NEW b, Run(out, e, v, View(h.admission[e]), b)
    PROVE  HeardTo(h, FoldLeft(Published, h, out), e, v, b)
<1>1. PICK f : f[0] = View(h.admission[e]) /\ f[Len(out)] = b /\ Steps(f, out, e, v)
  BY DEF Run
<1>2. Len(out) \in Nat /\ DOMAIN out = 1..Len(out)
  BY SequenceLength DEF Run
<1>3. PICK c : c = [hub |-> h, endpoint |-> e, path |-> f]
  OBVIOUS
<1>4. AdmittedTo(c, 0, h)
  BY <1>1, <1>3 DEF AdmittedTo
<1>5. ASSUME NEW k \in 1..Len(out), NEW i, AdmittedTo(c, k - 1, i)
      PROVE  AdmittedTo(c, k, PublishNext(c, i, out[k]))
  <2>1. /\ DOMAIN i = HubFields /\ i.activation = v /\ DOMAIN i.admission = Endpoints
        /\ View(i.admission[e]) = f[k - 1]
        /\ \A x \in Endpoints \ {e} : i.admission[x] = h.admission[x]
    BY <1>3, <1>5 DEF AdmittedTo
  <2>2. PICK m : m = out[k]
    OBVIOUS
  <2>3. Belongs(m, e, v) /\ f[k] = Heeded(f[k - 1], m)
    BY <1>1, <2>2 DEF Steps
  <2>4. PICK j : j = Published(i, m)
    OBVIOUS
  <2>5. Takes(i, j, e, m)
    BY <2>1, <2>3, <2>4, PublishedTerms
  <2>6. AdmittedTo(c, k, j)
    BY <1>3, <2>1, <2>3, <2>5 DEF AdmittedTo, Takes
  <2> QED BY <2>2, <2>4, <2>6 DEF PublishNext
<1>6. AdmittedTo(c, Len(out), Hearings!Fold(c, h, out))
  BY <1>2, <1>4, <1>5, Hearings!FoldLeftInduction
<1>7. Hearings!Fold(c, h, out) = FoldLeft(Published, h, out)
  BY DEF Hearings!Fold, Hearings!Iterates, FoldLeft, MapThenFoldSet, Hearings!Max, Max,
     PublishNext
<1>8. PICK g : g = FoldLeft(Published, h, out)
  OBVIOUS
<1>9. AdmittedTo(c, Len(out), g)
  BY <1>6, <1>7, <1>8
<1> QED BY <1>1, <1>3, <1>8, <1>9 DEF AdmittedTo, HeardTo

(* The same while a candidate's publications are staged, unless they have  *)
(* failed.                                                                 *)
StagingShape(g) ==
    /\ DOMAIN g = {"admission", "timeline", "failed"}
    /\ DOMAIN g.admission = Endpoints /\ DOMAIN g.timeline = Endpoints

(* Staging g has heard of endpoint e what leads to view a.                 *)
StagedView(g, e, a) ==
    /\ ~g.failed /\ StagingShape(g)
    /\ View(g.admission[e]) = a /\ IsAdmission(a)
    /\ Agrees(g.timeline[e], e, Activation, a)

Elsewhere(g, n, e) ==
    \A x \in Endpoints \ {e} : n.timeline[x] = g.timeline[x] /\ n.admission[x] = g.admission[x]

LEMMA StagedOnce ==
    ASSUME NEW g, NEW e \in Endpoints, NEW a, StagedView(g, e, a), feed.publisher \in Nat,
           NEW m, Belongs(m, e, Activation)
    PROVE  LET n == StagedPublication(g, m)
           IN n.failed \/ (StagedView(n, e, Heeded(a, m)) /\ Elsewhere(g, n, e))
<1>1. PICK n : n = StagedPublication(g, m)
  OBVIOUS
<1>2. PICK d : d = Heeded(a, m)
  OBVIOUS
<1>3. PICK c : c = g.admission[e]
  OBVIOUS
<1>4. m.endpoint = e /\ m.seq \in Nat /\ Activation.publisher \in Nat
  BY DEF Belongs, Activation
<1>5. IsAdmission(d) /\ ~g.failed /\ StagingShape(g) /\ View(c) = a /\ IsAdmission(a)
  BY <1>2, <1>3, <1>4, HeededIs DEF StagedView
<1>6. Admits(a, m) <=> Admits(c, m)
  BY <1>5, ViewIs
<1>7. CASE ~Admits(c, m)
  <2>1. n = g
    BY <1>1, <1>3, <1>4, <1>5, <1>7 DEF StagedPublication
  <2>2. d = a
    BY <1>2, <1>6, <1>7 DEF Heeded
  <2> QED BY <1>1, <1>2, <2>1, <2>2 DEF Elsewhere
<1>8. CASE Admits(c, m)
  <2>1. PICK b : b = Admitted(c, m)
    OBVIOUS
  <2>2. View(b) = d
    BY <1>2, <1>5, <1>8, <2>1, ViewIs
  <2>3. PICK t : t = Extended(g.timeline[e], m)
    OBVIOUS
  <2>4. PICK timeline : timeline = [g.timeline EXCEPT ![e] = t]
    OBVIOUS
  <2>5. n = IF ~InOrder(c, m) THEN [g EXCEPT !.admission[e] = b]
            ELSE IF ~WithinBounds(timeline) THEN [g EXCEPT !.failed = TRUE]
            ELSE [g EXCEPT !.timeline = timeline, !.admission[e] = b]
    BY <1>1, <1>3, <1>4, <1>5, <1>8, <2>1, <2>3, <2>4 DEF StagedPublication, StagingShape
  <2>6. CASE ~InOrder(c, m)
    <3>1. n = [g EXCEPT !.admission[e] = b]
      BY <2>5, <2>6
    <3>2. /\ ~n.failed /\ StagingShape(n) /\ n.admission[e] = b /\ n.timeline = g.timeline
          /\ Elsewhere(g, n, e)
      BY <1>5, <3>1 DEF StagingShape, Elsewhere
    <3>3. Agrees(g.timeline[e], e, Activation, d)
      <4>1. m.kind = "state"
        BY <2>6 DEF InOrder
      <4>2. Agrees(g.timeline[e], e, Activation, a)
        BY DEF StagedView
      <4> QED BY <1>2, <1>4, <1>5, <4>1, <4>2, CountedAgrees
    <3>4. StagedView(n, e, d)
      BY <1>5, <2>2, <3>2, <3>3 DEF StagedView
    <3> QED BY <1>1, <1>2, <3>2, <3>4
  <2>7. CASE InOrder(c, m) /\ ~WithinBounds(timeline)
    <3>1. n.failed
      BY <1>5, <2>5, <2>7 DEF StagingShape
    <3> QED BY <1>1, <3>1
  <2>8. CASE InOrder(c, m) /\ WithinBounds(timeline)
    <3>1. n = [g EXCEPT !.timeline = timeline, !.admission[e] = b]
      BY <2>5, <2>8
    <3>2. /\ ~n.failed /\ StagingShape(n) /\ n.admission[e] = b /\ n.timeline[e] = t
          /\ Elsewhere(g, n, e)
      BY <1>5, <2>4, <3>1 DEF StagingShape, Elsewhere
    <3>3. Agrees(t, e, Activation, d)
      <4>1. Agrees(g.timeline[e], e, Activation, a)
        BY DEF StagedView
      <4> QED BY <1>2, <1>4, <1>5, <1>6, <1>8, <2>3, <4>1, ExtendedAgrees
    <3>4. StagedView(n, e, d)
      BY <1>5, <2>2, <3>2, <3>3 DEF StagedView
    <3> QED BY <1>1, <1>2, <3>2, <3>4
  <2> QED BY <2>6, <2>7, <2>8
<1> QED BY <1>7, <1>8

StageNext(c, g, m) == StagedPublication(g, m)
StagedTo(c, k, g) ==
    g.failed \/ /\ ~c.staging.failed /\ StagedView(g, c.endpoint, c.path[k])
                /\ Elsewhere(c.staging, g, c.endpoint)
Rehearsal == INSTANCE FoldInduction WITH Op <- StageNext, P <- StagedTo

LEMMA AllStaged ==
    ASSUME NEW g, feed.publisher \in Nat, NEW e \in Endpoints, NEW a,
           ~g.failed => StagedView(g, e, a),
           NEW out, NEW b, ~g.failed => Run(out, e, Activation, a, b), IsSequence(out)
    PROVE  LET n == FoldLeft(StagedPublication, g, out)
           IN n.failed \/ (~g.failed /\ StagedView(n, e, b) /\ Elsewhere(g, n, e))
<1>1. PICK f : ~g.failed => f[0] = a /\ f[Len(out)] = b /\ Steps(f, out, e, Activation)
  <2>1. CASE g.failed
    BY <2>1
  <2>2. CASE ~g.failed
    BY <2>2 DEF Run
  <2> QED BY <2>1, <2>2
<1>2. Len(out) \in Nat /\ DOMAIN out = 1..Len(out)
  BY SequenceLength
<1>3. PICK c : c = [staging |-> g, endpoint |-> e, path |-> f]
  OBVIOUS
<1>4. StagedTo(c, 0, g)
  BY <1>1, <1>3 DEF StagedTo, Elsewhere
<1>5. ASSUME NEW k \in 1..Len(out), NEW i, StagedTo(c, k - 1, i)
      PROVE  StagedTo(c, k, StageNext(c, i, out[k]))
  <2>1. PICK m : m = out[k]
    OBVIOUS
  <2>2. PICK j : j = StagedPublication(i, m)
    OBVIOUS
  <2>3. CASE i.failed
    <3>1. j = i
      BY <2>2, <2>3 DEF StagedPublication
    <3> QED BY <2>1, <2>2, <2>3, <3>1 DEF StagedTo, StageNext
  <2>4. CASE ~i.failed
    <3>1. ~g.failed /\ StagedView(i, e, f[k - 1]) /\ Elsewhere(g, i, e)
      BY <1>3, <1>5, <2>4 DEF StagedTo
    <3>2. Belongs(m, e, Activation) /\ f[k] = Heeded(f[k - 1], m)
      BY <1>1, <2>1, <3>1 DEF Steps
    <3>3. PICK x : x = f[k - 1]
      OBVIOUS
    <3>4. j.failed \/ (StagedView(j, e, Heeded(x, m)) /\ Elsewhere(i, j, e))
      BY <2>2, <3>1, <3>2, <3>3, StagedOnce
    <3>5. Elsewhere(i, j, e) => Elsewhere(g, j, e)
      BY <3>1 DEF Elsewhere
    <3>6. StagedTo(c, k, j)
      BY <1>3, <3>1, <3>2, <3>3, <3>4, <3>5 DEF StagedTo
    <3> QED BY <2>1, <2>2, <3>6 DEF StageNext
  <2> QED BY <2>3, <2>4
<1>6. StagedTo(c, Len(out), Rehearsal!Fold(c, g, out))
  BY <1>2, <1>4, <1>5, Rehearsal!FoldLeftInduction
<1>7. Rehearsal!Fold(c, g, out) = FoldLeft(StagedPublication, g, out)
  BY DEF Rehearsal!Fold, Rehearsal!Iterates, FoldLeft, MapThenFoldSet, Rehearsal!Max, Max,
     StageNext
<1>8. PICK n : n = FoldLeft(StagedPublication, g, out)
  OBVIOUS
<1>9. StagedTo(c, Len(out), n)
  BY <1>6, <1>7, <1>8
<1>10. n.failed \/ (~g.failed /\ StagedView(n, e, b) /\ Elsewhere(g, n, e))
  BY <1>1, <1>3, <1>9 DEF StagedTo
<1> QED BY <1>8, <1>10

-----------------------------------------------------------------------------
(* An activation: what the timelines hand over, endpoint after endpoint,   *)
(* is admitted afresh and leads to the views of the staging, or to views   *)
(* that are behind them in states.                                         *)

(* F goes from one map of views to the next with each message.             *)
Moves(F, ms, v) ==
    \A i \in 1..Len(ms) :
        LET x == ms[i].endpoint
        IN /\ x \in Endpoints /\ Belongs(ms[i], x, v)
           /\ F[i] = [F[i - 1] EXCEPT ![x] = Heeded(F[i - 1][x], ms[i])]

Parade(ms, v, A, B) ==
    IsSequence(ms) /\ \E F : F[0] = A /\ F[Len(ms)] = B /\ Moves(F, ms, v)

LEMMA ParadeOn ==
    ASSUME NEW s, NEW t, NEW v, NEW A, NEW B, NEW C, Parade(s, v, A, B), Parade(t, v, B, C)
    PROVE  Parade(s \o t, v, A, C)
<1>1. PICK f : f[0] = A /\ f[Len(s)] = B /\ Moves(f, s, v)
  BY DEF Parade
<1>2. PICK h : h[0] = B /\ h[Len(t)] = C /\ Moves(h, t, v)
  BY DEF Parade
<1>3. Len(s) \in Nat /\ Len(t) \in Nat /\ IsSequence(s) /\ IsSequence(t)
  BY SequenceLength DEF Parade
<1>. DEFINE k == Len(s)
            n == Len(t)
            g == [i \in 0..(k + n) |-> IF i <= k THEN f[i] ELSE h[i - k]]
            ns == s \o t
<1>4. /\ Len(ns) = k + n
      /\ \A i \in 1..k : ns[i] = s[i]
      /\ \A i \in 1..n : ns[k + i] = t[i]
  <2>1. s \in Seq(Range(s) \cup Range(t)) /\ t \in Seq(Range(s) \cup Range(t))
    BY <1>3 DEF IsSequence
  <2> QED BY <1>3, <2>1
<1>5. IsSequence(ns)
  BY <1>3, JoinedIsSequence
<1>. HIDE DEF ns
<1>6. ASSUME NEW i \in 1..(k + n)
      PROVE  LET x == ns[i].endpoint
             IN /\ x \in Endpoints /\ Belongs(ns[i], x, v)
                /\ g[i] = [g[i - 1] EXCEPT ![x] = Heeded(g[i - 1][x], ns[i])]
  <2>1. CASE i <= k
    <3>1. i \in 1..k /\ g[i] = f[i] /\ g[i - 1] = f[i - 1]
      BY <1>3, <2>1
    <3> QED BY <1>1, <1>4, <3>1 DEF Moves
  <2>2. CASE ~(i <= k)
    <3>1. i - k \in 1..n /\ k + (i - k) = i /\ g[i] = h[i - k]
      BY <1>3, <2>2
    <3>2. g[i - 1] = h[(i - k) - 1]
      <4>1. CASE i = k + 1
        <5>1. (i - k) - 1 = 0 /\ i - 1 = k /\ g[k] = f[k]
          BY <1>3, <4>1
        <5> QED BY <1>1, <1>2, <5>1
      <4>2. CASE i # k + 1
        BY <1>3, <2>2, <4>2
      <4> QED BY <4>1, <4>2
    <3>3. ns[i] = t[i - k]
      BY <1>4, <3>1
    <3> QED BY <1>2, <3>1, <3>2, <3>3 DEF Moves
  <2> QED BY <2>1, <2>2
<1>7. g[0] = A
  BY <1>1, <1>3
<1>8. g[k + n] = C
  <2>1. CASE n = 0
    BY <1>1, <1>2, <1>3, <2>1
  <2>2. CASE n # 0
    BY <1>2, <1>3, <2>2
  <2> QED BY <2>1, <2>2
<1>. HIDE DEF g
<1> QED BY <1>4, <1>5, <1>6, <1>7, <1>8 DEF Parade, Moves, ns

LEMMA RunParades ==
    ASSUME NEW ms, NEW e \in Endpoints, NEW v, NEW b, NEW A, A = [x \in Endpoints |-> A[x]],
           Run(ms, e, v, A[e], b)
    PROVE  Parade(ms, v, A, [A EXCEPT ![e] = b])
<1>1. PICK f : f[0] = A[e] /\ f[Len(ms)] = b /\ Steps(f, ms, e, v)
  BY DEF Run
<1>2. Len(ms) \in Nat /\ IsSequence(ms)
  BY SequenceLength DEF Run
<1>. DEFINE n == Len(ms)
            F == [i \in 0..n |-> [A EXCEPT ![e] = f[i]]]
<1>3. F[0] = A /\ F[n] = [A EXCEPT ![e] = b]
  <2>1. [A EXCEPT ![e] = A[e]] = A
    OBVIOUS
  <2>2. 0 \in 0..n /\ n \in 0..n
    BY <1>2
  <2>3. F[0] = [A EXCEPT ![e] = f[0]] /\ F[n] = [A EXCEPT ![e] = f[n]]
    BY <2>2
  <2>. HIDE DEF F
  <2> QED BY <1>1, <2>1, <2>3
<1>4. ASSUME NEW i \in 1..n
      PROVE  LET x == ms[i].endpoint
             IN /\ x \in Endpoints /\ Belongs(ms[i], x, v)
                /\ F[i] = [F[i - 1] EXCEPT ![x] = Heeded(F[i - 1][x], ms[i])]
  <2>1. ms[i].endpoint = e /\ Belongs(ms[i], e, v) /\ f[i] = Heeded(f[i - 1], ms[i])
    BY <1>1 DEF Steps, Belongs
  <2>2. F[i - 1] = [A EXCEPT ![e] = f[i - 1]] /\ F[i] = [A EXCEPT ![e] = f[i]]
    BY <1>2
  <2>3. F[i - 1][e] = f[i - 1]
    BY <2>2
  <2>4. F[i] = [F[i - 1] EXCEPT ![e] = f[i]]
    BY <2>2
  <2>. HIDE DEF F
  <2> QED BY <2>1, <2>3, <2>4
<1>. HIDE DEF F
<1> QED BY <1>2, <1>3, <1>4 DEF Parade, Moves

(* The messages of all endpoints.                                          *)
Handed(timeline, ms, e) == ms \o MessagesOf(timeline[e])

(* The views once the first k endpoints have been handed over.             *)
Gathered(views, k) ==
    [x \in Endpoints |-> IF \E i \in 1..k : SetToSeq(Endpoints)[i] = x
                         THEN views[x] ELSE Blank]
ParadedTo(timeline, k, ms) ==
    \A views :
        (\A e \in Endpoints : Run(MessagesOf(timeline[e]), e, Activation, Blank, views[e]))
            => Parade(ms, Activation, Gathered(views, 0), Gathered(views, k))
Handover == INSTANCE FoldInduction WITH Op <- Handed, P <- ParadedTo

LEMMA StagedMessagesParade ==
    ASSUME NEW views, views = [e \in Endpoints |-> views[e]],
           \A e \in Endpoints :
              Run(MessagesOf(staging.timeline[e]), e, Activation, Blank, views[e])
    PROVE  Parade(StagedMessages, Activation, [e \in Endpoints |-> Blank], views)
<1>. DEFINE T == SetToSeq(Endpoints)
            n == Cardinality(Endpoints)
            timeline == staging.timeline
<1>1. /\ n \in Nat /\ T \in [1..n -> Endpoints]
      /\ \A x \in Endpoints : \E i \in 1..n : T[i] = x
      /\ \A i, j \in 1..n : T[i] = T[j] => i = j
  BY HubAssumption, SetToSeqIs
<1>. HIDE DEF T, n
<1>2. DOMAIN T = 1..n
  BY <1>1
<1>3. ParadedTo(timeline, 0, <<>>)
  <2>1. ASSUME NEW A PROVE Parade(<<>>, Activation, A, A)
    <3>. DEFINE F == [i \in 0..0 |-> A]
    <3>1. F[0] = A /\ F[Len(<<>>)] = A /\ Moves(F, <<>>, Activation)
      BY DEF Moves
    <3>. HIDE DEF F
    <3> QED BY <3>1, NothingIsSequence DEF Parade
  <2> QED BY <2>1 DEF ParadedTo
<1>4. ASSUME NEW k \in 1..n, NEW ms, ParadedTo(timeline, k - 1, ms)
      PROVE  ParadedTo(timeline, k, Handed(timeline, ms, T[k]))
  <2>. SUFFICES ASSUME NEW led,
                       \A e \in Endpoints :
                          Run(MessagesOf(timeline[e]), e, Activation, Blank, led[e])
                PROVE  Parade(Handed(timeline, ms, T[k]), Activation, Gathered(led, 0),
                              Gathered(led, k))
    BY DEF ParadedTo
  <2>1. PICK e \in Endpoints : e = T[k]
    BY <1>1
  <2>2. Parade(ms, Activation, Gathered(led, 0), Gathered(led, k - 1))
    BY <1>4 DEF ParadedTo
  <2>3. Run(MessagesOf(timeline[e]), e, Activation, Blank, led[e])
    OBVIOUS
  <2>4. PICK A : A = Gathered(led, k - 1)
    OBVIOUS
  <2>5. A[e] = Blank
    <3>1. \A i \in 1..(k - 1) : i \in 1..n /\ i # k
      BY <1>1
    <3>2. ~(\E i \in 1..(k - 1) : T[i] = e)
      BY <1>1, <2>1, <3>1
    <3> QED BY <2>4, <3>2 DEF Gathered, T
  <2>6. A = [x \in Endpoints |-> A[x]]
    BY <2>4 DEF Gathered
  <2>7. Parade(MessagesOf(timeline[e]), Activation, A, [A EXCEPT ![e] = led[e]])
    BY <2>3, <2>5, <2>6, RunParades
  <2>8. [A EXCEPT ![e] = led[e]] = Gathered(led, k)
    <3>1. ASSUME NEW x \in Endpoints
          PROVE  [A EXCEPT ![e] = led[e]][x] = Gathered(led, k)[x]
      <4>1. A[x] = IF \E i \in 1..(k - 1) : T[i] = x THEN led[x] ELSE Blank
        BY <2>4 DEF Gathered, T
      <4>2. Gathered(led, k)[x] = IF \E i \in 1..k : T[i] = x THEN led[x] ELSE Blank
        BY DEF Gathered, T
      <4>3. k \in 1..k /\ \A i \in 1..k : i = k \/ i \in 1..(k - 1)
        BY <1>1
      <4>4. \A i \in 1..(k - 1) : i \in 1..k
        BY <1>1
      <4>5. CASE x = e
        BY <2>1, <2>6, <4>2, <4>3, <4>5
      <4>6. CASE x # e
        <5>1. (\E i \in 1..k : T[i] = x) <=> (\E i \in 1..(k - 1) : T[i] = x)
          BY <2>1, <4>3, <4>4, <4>6
        <5> QED BY <2>6, <4>1, <4>2, <4>6, <5>1
      <4> QED BY <4>5, <4>6
    <3>2. [A EXCEPT ![e] = led[e]] = [x \in Endpoints |-> [A EXCEPT ![e] = led[e]][x]]
      BY <2>6
    <3>3. Gathered(led, k) = [x \in Endpoints |-> Gathered(led, k)[x]]
      BY DEF Gathered
    <3> QED BY <3>1, <3>2, <3>3
  <2>9. Parade(ms \o MessagesOf(timeline[e]), Activation, Gathered(led, 0), Gathered(led, k))
    BY <2>2, <2>4, <2>7, <2>8, ParadeOn
  <2> QED BY <2>1, <2>9 DEF Handed
<1>5. ParadedTo(timeline, n, Handover!Fold(timeline, <<>>, T))
  BY <1>1, <1>2, <1>3, <1>4, Handover!FoldLeftInduction
<1>6. Handover!Fold(timeline, <<>>, T) = StagedMessages
  BY DEF Handover!Fold, Handover!Iterates, FoldLeft, MapThenFoldSet, Handover!Max, Max,
     StagedMessages, Handed, T
<1>7. Parade(StagedMessages, Activation, Gathered(views, 0), Gathered(views, n))
  BY <1>5, <1>6 DEF ParadedTo
<1>8. Gathered(views, 0) = [e \in Endpoints |-> Blank]
  BY DEF Gathered
<1>9. Gathered(views, n) = views
  <2>1. ASSUME NEW x \in Endpoints PROVE Gathered(views, n)[x] = views[x]
    BY <1>1 DEF Gathered, T
  <2>2. Gathered(views, n) = [x \in Endpoints |-> Gathered(views, n)[x]]
    BY DEF Gathered
  <2> QED BY <2>1, <2>2
<1> QED BY <1>7, <1>8, <1>9

(* The staging of an activation admits such messages one after the other.  *)
StageFor(c, acc, m) ==
    LET counted == [acc EXCEPT !.admission[m.endpoint] = Admitted(@, m)]
    IN IF ~MatchesActivation(c.activation, m) \/ ~Admits(acc.admission[m.endpoint], m) THEN acc
       ELSE IF ~InOrder(acc.admission[m.endpoint], m) THEN counted
       ELSE [counted EXCEPT !.cache[m.endpoint] = Cached(@, m),
                            !.timeline[m.endpoint] = Extended(@, m)]

Views(A) == [x \in Endpoints |-> View(A[x])]

StageTo(c, k, acc) ==
    /\ DOMAIN acc = {"admission", "cache", "timeline"} /\ DOMAIN acc.admission = Endpoints
    /\ Views(acc.admission) = c.path[k]
Marching == INSTANCE FoldInduction WITH Op <- StageFor, P <- StageTo

(* One message: whether it is kept, only counted or refused, the views     *)
(* change as it says.                                                      *)
LEMMA StagedForOne ==
    ASSUME NEW c, NEW acc, DOMAIN acc = {"admission", "cache", "timeline"},
           DOMAIN acc.admission = Endpoints, NEW e \in Endpoints, c.activation # Null,
           NEW m, Belongs(m, e, c.activation)
    PROVE  LET n == StageFor(c, acc, m)
           IN /\ DOMAIN n = {"admission", "cache", "timeline"} /\ DOMAIN n.admission = Endpoints
              /\ View(n.admission[e]) = Heeded(View(acc.admission[e]), m)
              /\ \A x \in Endpoints \ {e} : n.admission[x] = acc.admission[x]
<1>1. PICK n : n = StageFor(c, acc, m)
  OBVIOUS
<1>2. PICK a : a = acc.admission[e]
  OBVIOUS
<1>3. m.endpoint = e /\ MatchesActivation(c.activation, m)
  BY DEF Belongs, MatchesActivation
<1>4. CASE ~Admits(a, m)
  <2>1. n = acc
    BY <1>1, <1>2, <1>3, <1>4 DEF StageFor
  <2>2. Heeded(View(a), m) = View(a)
    BY <1>4, ViewIs DEF Heeded
  <2> QED BY <1>1, <1>2, <2>1, <2>2
<1>5. CASE Admits(a, m)
  <2>1. PICK b : b = Admitted(a, m)
    OBVIOUS
  <2>2. PICK adm : adm = [acc.admission EXCEPT ![e] = b]
    OBVIOUS
  <2>3. PICK counted : counted = [acc EXCEPT !.admission = adm]
    OBVIOUS
  <2>4. PICK kept : kept = [counted EXCEPT !.cache[e] = Cached(@, m),
                                           !.timeline[e] = Extended(@, m)]
    OBVIOUS
  <2>5. n \in {counted, kept}
    BY <1>1, <1>2, <1>3, <1>5, <2>1, <2>2, <2>3, <2>4 DEF StageFor
  <2>6. /\ DOMAIN counted = {"admission", "cache", "timeline"} /\ counted.admission = adm
    BY <2>3
  <2>7. /\ DOMAIN kept = {"admission", "cache", "timeline"} /\ kept.admission = adm
    BY <2>4, <2>6
  <2>8. DOMAIN adm = Endpoints /\ adm[e] = b /\ \A x \in Endpoints \ {e} : adm[x] = acc.admission[x]
    BY <2>2
  <2>9. View(b) = Heeded(View(a), m)
    BY <1>5, <2>1, ViewIs
  <2> QED BY <1>1, <1>2, <2>5, <2>6, <2>7, <2>8, <2>9
<1> QED BY <1>4, <1>5

LEMMA StagedAdmits ==
    ASSUME NEW c, NEW cache, NEW ms, c.activation # Null,
           Parade(ms, c.activation, [e \in Endpoints |-> Blank], c.views)
    PROVE  /\ DOMAIN Staged(c.activation, cache, ms).admission = Endpoints
           /\ Views(Staged(c.activation, cache, ms).admission) = c.views
<1>. DEFINE A == [e \in Endpoints |-> Blank]
            base == [admission |-> NewHub.admission, cache |-> cache, timeline |-> EmptyTimelines]
<1>1. PICK F : F[0] = A /\ F[Len(ms)] = c.views /\ Moves(F, ms, c.activation)
  BY DEF Parade
<1>2. Len(ms) \in Nat /\ DOMAIN ms = 1..Len(ms)
  BY SequenceLength DEF Parade
<1>3. PICK d : d = [activation |-> c.activation, path |-> F]
  OBVIOUS
<1>4. StageTo(d, 0, base)
  <2>1. base.admission = [e \in Endpoints |-> NoAdmission]
    BY DEF NewHub
  <2>2. Views(base.admission) = A
    BY <2>1 DEF Views, Blank
  <2> QED BY <1>1, <1>3, <2>1, <2>2 DEF StageTo
<1>. HIDE DEF base
<1>5. ASSUME NEW k \in 1..Len(ms), NEW acc, StageTo(d, k - 1, acc)
      PROVE  StageTo(d, k, StageFor(d, acc, ms[k]))
  <2>1. PICK m : m = ms[k]
    OBVIOUS
  <2>2. PICK x : x = m.endpoint
    OBVIOUS
  <2>3. /\ x \in Endpoints /\ Belongs(m, x, c.activation)
        /\ F[k] = [F[k - 1] EXCEPT ![x] = Heeded(F[k - 1][x], m)]
    BY <1>1, <2>1, <2>2 DEF Moves
  <2>4. /\ DOMAIN acc = {"admission", "cache", "timeline"} /\ DOMAIN acc.admission = Endpoints
        /\ Views(acc.admission) = F[k - 1]
    BY <1>3, <1>5 DEF StageTo
  <2>5. PICK n : n = StageFor(d, acc, m)
    OBVIOUS
  <2>6. /\ DOMAIN n = {"admission", "cache", "timeline"} /\ DOMAIN n.admission = Endpoints
        /\ View(n.admission[x]) = Heeded(View(acc.admission[x]), m)
        /\ \A y \in Endpoints \ {x} : n.admission[y] = acc.admission[y]
    <3>1. d.activation = c.activation
      BY <1>3
    <3> QED BY <2>3, <2>4, <2>5, <3>1, StagedForOne
  <2>7. Views(n.admission) = F[k]
    <3>1. DOMAIN F[k] = Endpoints /\ F[k] = [y \in Endpoints |-> F[k][y]]
      BY <2>3, <2>4 DEF Views
    <3>2. ASSUME NEW y \in Endpoints PROVE View(n.admission[y]) = F[k][y]
      <4>1. F[k - 1][y] = View(acc.admission[y])
        BY <2>4 DEF Views
      <4>2. DOMAIN F[k - 1] = Endpoints
        BY <2>4 DEF Views
      <4>3. CASE y = x
        BY <2>3, <2>6, <4>1, <4>2, <4>3
      <4>4. CASE y # x
        BY <2>3, <2>6, <4>1, <4>2, <4>4
      <4> QED BY <4>3, <4>4
    <3> QED BY <3>1, <3>2 DEF Views
  <2>8. StageTo(d, k, n)
    BY <1>3, <2>6, <2>7 DEF StageTo
  <2> QED BY <2>1, <2>5, <2>8
<1>6. StageTo(d, Len(ms), Marching!Fold(d, base, ms))
  BY <1>2, <1>4, <1>5, Marching!FoldLeftInduction
<1>7. Marching!Fold(d, base, ms) = Staged(d.activation, cache, ms)
  BY DEF Marching!Fold, Marching!Iterates, FoldLeft, MapThenFoldSet, Marching!Max, Max,
     Staged, StageFor, base
<1> QED BY <1>1, <1>3, <1>6, <1>7 DEF StageTo

(* After the activation the hub listens to the runtime and has admitted    *)
(* what the staging had, or is behind it in states.                        *)
LEMMA ActivatedTerms ==
    ASSUME NEW views, Activation # Null,
           \A e \in Endpoints : Agrees(staging.timeline[e], e, Activation, views[e]),
           NEW g, g = Activated(hub, Activation, StagedMessages)
    PROVE  /\ DOMAIN g = HubFields /\ g.activation = Activation
           /\ DOMAIN g.admission = Endpoints
           /\ \A e \in Endpoints : Near(View(g.admission[e]), views[e])
<1>. DEFINE Led(e, b) == /\ Run(MessagesOf(staging.timeline[e]), e, Activation, Blank, b)
                        /\ Near(b, views[e])
<1>1. \A e \in Endpoints : \E b : Led(e, b)
  BY MessagesRun
<1>. HIDE DEF Led
<1>2. PICK B : B = [e \in Endpoints |-> CHOOSE b : Led(e, b)]
  OBVIOUS
<1>3. B = [e \in Endpoints |-> B[e]] /\ \A e \in Endpoints : Led(e, B[e])
  BY <1>1, <1>2
<1>4. PICK c : c = [activation |-> Activation, views |-> B]
  OBVIOUS
<1>5. PICK ms : ms = StagedMessages
  OBVIOUS
<1>6. Parade(ms, Activation, [e \in Endpoints |-> Blank], B)
  BY <1>3, <1>5, StagedMessagesParade DEF Led
<1>7. Parade(ms, c.activation, [e \in Endpoints |-> Blank], c.views) /\ c.activation # Null
  BY <1>4, <1>6
<1>8. ASSUME NEW cache
      PROVE  /\ DOMAIN Staged(c.activation, cache, ms).admission = Endpoints
             /\ Views(Staged(c.activation, cache, ms).admission) = B
  BY <1>4, <1>7, StagedAdmits
<1>9. PICK v : v = Activation
  OBVIOUS
<1>10. c.activation = v
  BY <1>4, <1>9
<1>11. \E cache : /\ DOMAIN g = HubFields /\ g.activation = v
                  /\ g.admission = Staged(v, cache, ms).admission
  <2>1. CASE SameRevision(hub, v)
    <3>1. g = Renewed(hub, v, ms)
      BY <1>5, <1>9, <2>1 DEF Activated
    <3>2. PICK cuts : cuts = SharedCuts(hub, v, ms)
      OBVIOUS
    <3>3. cuts.staged.admission = Staged(v, hub.cache, ms).admission
      BY <3>2 DEF SharedCuts
    <3>4. DOMAIN g = HubFields /\ g.activation = v /\ g.admission = cuts.staged.admission
      BY <3>1, <3>2 DEF Renewed, HubFields
    <3> QED BY <3>3, <3>4
  <2>2. CASE ~SameRevision(hub, v)
    <3>1. g = Replaced(hub, v, ms)
      BY <1>5, <1>9, <2>2 DEF Activated
    <3>2. PICK staged : staged = Staged(v, NewHub.cache, ms)
      OBVIOUS
    <3>3. DOMAIN g = HubFields /\ g.activation = v /\ g.admission = staged.admission
      BY <3>1, <3>2 DEF Replaced, HubFields, NewHub
    <3> QED BY <3>2, <3>3
  <2> QED BY <2>1, <2>2
<1>12. DOMAIN g.admission = Endpoints /\ Views(g.admission) = B
  BY <1>8, <1>10, <1>11
<1>13. \A e \in Endpoints : View(g.admission[e]) = B[e]
  BY <1>12 DEF Views
<1> QED BY <1>3, <1>9, <1>11, <1>12, <1>13 DEF Led

-----------------------------------------------------------------------------
(* What the sockets and the pages do changes neither.                      *)

LEMMA ResetTerms ==
    ASSUME NEW h, DOMAIN h = HubFields, NEW e
    PROVE  SameTerms(h, ResetWire(h, e))
  BY DEF SameTerms, HubFields, ResetWire

LEMMA CalledTerms ==
    ASSUME NEW h, DOMAIN h = HubFields, NEW s
    PROVE  SameTerms(h, Called(h, s))
<1>1. PICK k : k = [h.socket[s] EXCEPT !.out = Tail(@)]
  OBVIOUS
<1>. DEFINE catchup == Cuts("catchup", PendingMessages(k), h.wire)
            more == [h EXCEPT !.socket[s] = [k EXCEPT !.net = Append(@, Head(k.out))]]
            frozen == [k EXCEPT !.pending = EmptyTimelines]
            cut == [h EXCEPT !.wire = catchup.wire, !.socket[s] = Loaded(frozen, catchup.frames)]
<1>2. Called(h, s) = IF k.out # <<>> THEN more
                     ELSE IF catchup.exhausted # Null THEN ResetWire(h, catchup.exhausted)
                     ELSE cut
  BY <1>1 DEF Called
<1>3. SameTerms(h, more)
  BY DEF SameTerms, HubFields
<1>4. SameTerms(h, cut)
  BY DEF SameTerms, HubFields
<1>. HIDE DEF catchup, more, cut
<1> QED BY <1>2, <1>3, <1>4, ResetTerms

LEMMA AttachedTerms ==
    ASSUME NEW h, DOMAIN h = HubFields, NEW s
    PROVE  SameTerms(h, Attached(h, s))
<1>1. PICK k : k = [DetachedSocket EXCEPT !.attached = TRUE, !.net = <<Opened>>]
  OBVIOUS
<1>2. PICK replay : replay = Cuts("replay", [e \in Endpoints |-> CacheMessages(h.cache[e])], h.wire)
  OBVIOUS
<1>3. PICK joined : joined = [h EXCEPT !.socket[s] = k]
  OBVIOUS
<1>. DEFINE told == [joined EXCEPT !.wire = replay.wire, !.socket[s] = Loaded(k, replay.frames)]
<1>4. Attached(h, s) = IF h.activation = Null THEN joined
                       ELSE IF replay.exhausted # Null THEN ResetWire(joined, replay.exhausted)
                       ELSE told
  BY <1>1, <1>2, <1>3 DEF Attached
<1>5. SameTerms(h, joined)
  BY <1>3 DEF SameTerms, HubFields
<1>6. SameTerms(joined, told)
  BY <1>5 DEF SameTerms, HubFields
<1>7. SameTerms(joined, ResetWire(joined, replay.exhausted))
  BY <1>5, ResetTerms DEF SameTerms
<1>. HIDE DEF told
<1> QED BY <1>4, <1>5, <1>6, <1>7 DEF SameTerms

LEMMA SocketTerms ==
    ASSUME NEW h, DOMAIN h = HubFields, NEW s
    PROVE  /\ SameTerms(h, h) /\ SameTerms(h, Failed(h, s)) /\ SameTerms(h, Detached(h, s))
           /\ SameTerms(h, GivenUp(h, s))
  BY DEF SameTerms, HubFields, Failed, Detached, GivenUp

-----------------------------------------------------------------------------
(* The inductive invariant: while the publications go to the hub, what it  *)
(* has admitted follows from the endpoints' records; while a candidate's   *)
(* are staged, what the staging has, and the timelines lead there.         *)

FeedOK ==
    /\ DOMAIN feed = {"state", "revision", "publisher"} /\ feed.publisher \in Nat
    /\ ToHub \/ feed.state = "staged" => feed.revision \in scenario.revisions

HubShape(h) == DOMAIN h = HubFields /\ DOMAIN h.admission = Endpoints

HubHears(h) ==
    /\ h.activation = Activation
    /\ \A e \in Endpoints : Matches(View(h.admission[e]), runtime[e], feed.publisher)

StagingHears(g) ==
    /\ StagingShape(g)
    /\ \A e \in Endpoints :
          /\ Matches(View(g.admission[e]), runtime[e], feed.publisher)
          /\ Agrees(g.timeline[e], e, Activation, View(g.admission[e]))

Hearing ==
    /\ scenario \in Scenarios /\ FeedOK /\ HubShape(hub)
    /\ \A e \in Endpoints : LossOK(runtime[e])
    /\ ToHub => HubHears(hub)
    /\ feed.state = "staged" /\ ~staging.failed => StagingHears(staging)

LEMMA SomethingActive ==
    ASSUME Hearing, ToHub \/ feed.state = "staged"
    PROVE  Activation # Null
<1>1. Activation \in [revision : scenario.revisions, publisher : Nat]
  BY DEF Hearing, FeedOK, Activation
<1> QED BY <1>1, DataPlaneAssumption DEF Hearing

(* A step of one endpoint.                                                 *)
LEMMA HeardIsHearing ==
    ASSUME EndpointInv, Hearing, NEW e \in Endpoints, Heard(e), UNCHANGED scenario
    PROVE  Hearing'
<1>1. PICK step : Take(e, step) /\ Told(e, step)
  BY DEF Heard
<1>2. runtime' = [runtime EXCEPT ![e] = step.r] /\ feed' = feed /\ Route(step.out)
  BY <1>1 DEF Take
<1>3. PICK r : r = step.r
  OBVIOUS
<1>4. DOMAIN runtime = Endpoints /\ runtime'[e] = r /\ \A x \in Endpoints \ {e} : runtime'[x] = runtime[x]
  BY <1>2, <1>3 DEF EndpointInv
<1>5. \A x \in Endpoints : LossOK(runtime'[x])
  BY <1>1, <1>3, <1>4 DEF Told, Hearing
<1>6. PICK p : p = feed.publisher
  OBVIOUS
<1>7. p \in Nat
  BY <1>6 DEF Hearing, FeedOK
<1>8. PICK v : v = Activation
  OBVIOUS
<1>9. \A a : Matches(a, runtime[e], p)
              => \E b : Run(step.out, e, v, a, b) /\ Matches(b, r, p)
  BY <1>1, <1>3, <1>6, <1>8 DEF Told, Voiced
<1>10. IsSequence(step.out)
  BY <1>6, <1>9, SomeFollows DEF Run
<1>11. FeedOK' /\ ToHub' = ToHub /\ Activation' = v /\ feed'.publisher = p
  BY <1>2, <1>6, <1>8 DEF Hearing, FeedOK, ToHub, Activation
<1>12. CASE ToHub
  <2>0. feed.state # "staged"
    BY <1>12 DEF ToHub
  <2>1. hub' = FoldLeft(Published, hub, step.out)
    BY <1>2, <1>12, <2>0 DEF Route
  <2>2. /\ HubShape(hub) /\ hub.activation = v
        /\ \A x \in Endpoints : Matches(View(hub.admission[x]), runtime[x], p)
    BY <1>6, <1>8, <1>12 DEF Hearing, HubHears
  <2>3. PICK b : Run(step.out, e, v, View(hub.admission[e]), b) /\ Matches(b, r, p)
    BY <1>9, <2>2
  <2>4. v # Null
    BY <1>8, <1>12, SomethingActive
  <2>5. DOMAIN hub = HubFields /\ DOMAIN hub.admission = Endpoints
    BY <2>2 DEF HubShape
  <2>6. /\ DOMAIN hub' = HubFields /\ hub'.activation = v /\ DOMAIN hub'.admission = Endpoints
        /\ View(hub'.admission[e]) = b
        /\ \A x \in Endpoints \ {e} : hub'.admission[x] = hub.admission[x]
    <3>1. PICK h : h = hub
      OBVIOUS
    <3>2. PICK out : out = step.out
      OBVIOUS
    <3>3. PICK g : g = FoldLeft(Published, h, out)
      OBVIOUS
    <3>4. /\ DOMAIN h = HubFields /\ h.activation = v /\ DOMAIN h.admission = Endpoints
          /\ Run(out, e, v, View(h.admission[e]), b)
      BY <2>2, <2>3, <2>5, <3>1, <3>2
    <3>5. HeardTo(h, g, e, v, b)
      BY <2>4, <3>3, <3>4, AllAdmitted
    <3> QED BY <2>1, <3>1, <3>2, <3>3, <3>5 DEF HeardTo
  <2>7. HubShape(hub')
    BY <2>6 DEF HubShape
  <2>8. PICK g : g = hub'
    OBVIOUS
  <2>9. \A x \in Endpoints : Matches(View(g.admission[x]), runtime'[x], p)
    BY <1>4, <2>2, <2>3, <2>6, <2>8
  <2>10. HubHears(hub)'
    BY <1>11, <2>6, <2>8, <2>9 DEF HubHears
  <2>11. feed'.state # "staged"
    BY <1>2, <1>12 DEF ToHub
  <2> QED BY <1>5, <1>11, <2>7, <2>10, <2>11 DEF Hearing
<1>13. CASE ~ToHub /\ feed.state = "staged"
  <2>1. hub' = hub /\ staging' = FoldLeft(StagedPublication, staging, step.out)
    BY <1>2, <1>13 DEF Route
  <2>2. ~staging.failed =>
            /\ StagingShape(staging)
            /\ \A x \in Endpoints :
                  /\ Matches(View(staging.admission[x]), runtime[x], p)
                  /\ Agrees(staging.timeline[x], x, v, View(staging.admission[x]))
    BY <1>6, <1>8, <1>13 DEF Hearing, StagingHears
  <2>3. PICK g : g = staging
    OBVIOUS
  <2>4. PICK a : a = View(g.admission[e])
    OBVIOUS
  <2>5. PICK b : ~g.failed => Run(step.out, e, v, a, b) /\ Matches(b, r, p)
    BY <1>9, <2>2, <2>3, <2>4
  <2>6. PICK out : out = step.out
    OBVIOUS
  <2>7. PICK n : n = FoldLeft(StagedPublication, g, out)
    OBVIOUS
  <2>8. n.failed \/ (~g.failed /\ StagedView(n, e, b) /\ Elsewhere(g, n, e))
    <3>1. ~g.failed => StagedView(g, e, a)
      BY <1>8, <2>2, <2>3, <2>4 DEF StagedView, Matches
    <3>2. ~g.failed => Run(out, e, Activation, a, b)
      BY <1>8, <2>5, <2>6
    <3> QED BY <1>6, <1>7, <1>10, <2>6, <2>7, <3>1, <3>2, AllStaged
  <2>9. ASSUME ~n.failed PROVE StagingHears(staging)'
    <3>1. ~g.failed /\ StagedView(n, e, b) /\ Elsewhere(g, n, e)
      BY <2>8, <2>9
    <3>2. /\ StagingShape(n) /\ View(n.admission[e]) = b
          /\ Agrees(n.timeline[e], e, v, View(n.admission[e]))
      BY <1>8, <3>1 DEF StagedView
    <3>3. \A x \in Endpoints : Matches(View(n.admission[x]), runtime'[x], p)
      BY <1>4, <2>2, <2>3, <2>5, <3>1, <3>2 DEF Elsewhere
    <3>4. \A x \in Endpoints : Agrees(n.timeline[x], x, v, View(n.admission[x]))
      BY <2>2, <2>3, <3>1, <3>2 DEF Elsewhere
    <3>5. staging' = n
      BY <2>1, <2>3, <2>6, <2>7
    <3> QED BY <1>11, <3>2, <3>3, <3>4, <3>5 DEF StagingHears
  <2>10. HubShape(hub')
    BY <2>1 DEF Hearing
  <2>11. staging' = n
    BY <2>1, <2>3, <2>6, <2>7
  <2> QED BY <1>5, <1>11, <1>13, <2>9, <2>10, <2>11 DEF Hearing
<1>14. CASE ~ToHub /\ feed.state # "staged"
  <2>1. hub' = hub
    BY <1>2, <1>14 DEF Route
  <2> QED BY <1>2, <1>5, <1>11, <1>14, <2>1 DEF Hearing
<1> QED BY <1>12, <1>13, <1>14

(* A step that changes nothing the hub listens to, and no voice.           *)
LEMMA NothingNew ==
    ASSUME EndpointInv, Hearing, UNCHANGED <<scenario, staging>>,
           SameTerms(hub, hub'),
           \A e \in Endpoints : SameVoice(runtime[e], runtime'[e]) /\ LossOK(runtime'[e]),
           DOMAIN feed' = DOMAIN feed, feed'.publisher = feed.publisher,
           \/ feed'.state = feed.state /\ feed'.revision = feed.revision
           \/ ToHub /\ ToHub' /\ feed'.revision = feed.revision
           \/ ~ToHub' /\ feed'.state # "staged"
    PROVE  Hearing'
<1>1. HubShape(hub')
  BY DEF Hearing, HubShape, SameTerms
<1>2. FeedOK'
  BY DEF Hearing, FeedOK, ToHub
<1>3. ASSUME ToHub' PROVE HubHears(hub)'
  <2>1. ToHub /\ Activation' = Activation
    BY <1>3 DEF ToHub, Activation
  <2>2. HubHears(hub)
    BY <2>1 DEF Hearing
  <2>3. PICK A : A = hub'.admission
    OBVIOUS
  <2>4. \A e \in Endpoints : Matches(View(A[e]), runtime'[e], feed'.publisher)
    BY <2>2, <2>3, SameVoiceFollows DEF HubHears, SameTerms
  <2> QED BY <2>1, <2>2, <2>3, <2>4 DEF HubHears, SameTerms
<1>4. ASSUME feed'.state = "staged", ~staging'.failed PROVE StagingHears(staging)'
  <2>1. feed.state = "staged" /\ Activation' = Activation
    BY <1>4 DEF ToHub, Activation
  <2>2. StagingHears(staging)
    BY <1>4, <2>1 DEF Hearing
  <2>3. \A e \in Endpoints : Matches(View(staging.admission[e]), runtime'[e], feed'.publisher)
    BY <2>2, SameVoiceFollows DEF StagingHears
  <2>4. staging' = staging
    OBVIOUS
  <2> QED BY <2>1, <2>2, <2>3, <2>4 DEF StagingHears
<1> QED BY <1>1, <1>2, <1>3, <1>4 DEF Hearing

LEMMA VoicesStay ==
    ASSUME EndpointInv, Hearing, NEW e \in Endpoints
    PROVE  SameVoice(runtime[e], runtime[e]) /\ LossOK(runtime[e])
<1>1. DOMAIN runtime[e] = Fields
  BY EndpointShape
<1> QED BY <1>1 DEF Hearing, SameVoice

LEMMA StartEachHeard ==
    ASSUME EndpointInv, Hearing, NEW S, StartEach(S), NEW e \in Endpoints
    PROVE  SameVoice(runtime[e], runtime'[e]) /\ LossOK(runtime'[e])
<1>1. LossOK(runtime[e]) /\ DOMAIN runtime[e] = Fields
  BY EndpointShape DEF Hearing
<1>2. SameVoice(runtime[e], Started(runtime[e])) /\ LossOK(Started(runtime[e]))
  BY <1>1, StartedHeard
<1>3. runtime'[e] = IF e \in S THEN Started(runtime[e]) ELSE runtime[e]
  BY DEF StartEach
<1> QED BY <1>2, <1>3, VoicesStay

LEMMA HaltEachHeard ==
    ASSUME EndpointInv, Hearing, NEW S, HaltEach(S), NEW e \in Endpoints
    PROVE  SameVoice(runtime[e], runtime'[e]) /\ LossOK(runtime'[e])
<1>1. LossOK(runtime[e]) /\ DOMAIN runtime[e] = Fields
  BY EndpointShape DEF Hearing
<1>2. NumbersOK(runtime[e])
  BY DEF EndpointInv, Live, Steady, Core
<1>3. SameVoice(runtime[e], Halting(runtime[e])) /\ LossOK(Halting(runtime[e]))
  BY <1>1, <1>2, HaltingHeard
<1>4. runtime'[e] = IF e \in S THEN Halting(runtime[e]) ELSE runtime[e]
  BY DEF HaltEach
<1> QED BY <1>3, <1>4, VoicesStay

LEMMA HubStaysSame ==
    ASSUME Hearing
    PROVE  SameTerms(hub, hub)
  BY DEF Hearing, HubShape, SameTerms

LEMMA EndpointStepHearing ==
    ASSUME EndpointInv, Hearing, NEW e \in Endpoints, EndpointStep(e)
    PROVE  Hearing'
<1>1. LossOK(runtime[e]) /\ scenario' = scenario
  BY DEF Hearing, EndpointStep
<1>2. CASE EndpointProgress(e)
  <2>1. Heard(e)
    BY <1>1, <1>2, ConnectProceedsHeard, ConnectOvertakenHeard, ReconnectTimerFiresHeard,
       CleanupBeginsHeard, HandleClosesHeard, BrowseReleasedHeard, HaltSettlesHeard
       DEF EndpointProgress
  <2> QED BY <1>1, <2>1, HeardIsHearing
<1>3. CASE EndpointFault(e)
  <2>1. Heard(e)
    BY <1>1, <1>3, ConnectFailsHeard, ConnectionLostHeard, HandleCloseFailsHeard,
       BrowseNotReleasedHeard DEF EndpointFault
  <2> QED BY <1>1, <2>1, HeardIsHearing
<1>4. CASE \E note \in Notes : Notification(e, note)
  <2>1. Heard(e)
    BY <1>1, <1>4, NotificationHeard
  <2> QED BY <1>1, <2>1, HeardIsHearing
<1>5. CASE StopEndpoints({e}) \/ StartEndpoints({e})
  <2>1. UNCHANGED <<hub, feed, staging>>
    BY <1>5 DEF StopEndpoints, StartEndpoints
  <2>2. \A x \in Endpoints : SameVoice(runtime[x], runtime'[x]) /\ LossOK(runtime'[x])
    BY <1>5, StartEachHeard, HaltEachHeard DEF StopEndpoints, StartEndpoints
  <2> QED BY <1>1, <2>1, <2>2, HubStaysSame, NothingNew
<1> QED BY <1>2, <1>3, <1>4, <1>5 DEF EndpointStep

(* A new runtime and its staging start with nothing said and nothing       *)
(* admitted.                                                               *)
LEMMA StartCandidateHearing ==
    ASSUME EndpointInv, Hearing, NEW revision \in scenario.revisions, StartCandidate(revision)
    PROVE  Hearing'
<1>1. PICK p : p = feed.publisher + 1
  OBVIOUS
<1>2. p \in Nat
  BY <1>1 DEF Hearing, FeedOK
<1>3. /\ feed' = [state |-> "staged", revision |-> revision, publisher |-> p]
      /\ staging' = NewStaging /\ hub' = hub /\ scenario' = scenario
  BY <1>1 DEF StartCandidate
<1>4. \A e \in Endpoints : runtime'[e] \in {Started(Fresh), Fresh}
  BY DEF StartCandidate
<1>5. FeedOK' /\ ~ToHub'
  BY <1>2, <1>3 DEF FeedOK, ToHub
<1>6. \A e \in Endpoints : LossOK(runtime'[e]) /\ Matches(Blank, runtime'[e], p)
  BY <1>4, FreshFollows
<1>7. PICK g : g = NewStaging
  OBVIOUS
<1>8. StagingShape(g)
  BY <1>7 DEF NewStaging, StagingShape, EmptyTimelines
<1>9. \A e \in Endpoints : View(g.admission[e]) = Blank /\ g.timeline[e] = EmptyTimeline
  BY <1>7 DEF NewStaging, EmptyTimelines, Blank
<1>10. Activation'.publisher \in Nat
  BY <1>2, <1>3 DEF Activation
<1>11. \A e \in Endpoints : \A v : v.publisher \in Nat => Agrees(EmptyTimeline, e, v, Blank)
  BY EmptyAgrees
<1>12. \A e \in Endpoints : Agrees(EmptyTimeline, e, Activation', Blank)
  BY <1>10, <1>11
<1>13. StagingHears(staging)'
  BY <1>3, <1>6, <1>7, <1>8, <1>9, <1>12 DEF StagingHears
<1> QED BY <1>3, <1>5, <1>6, <1>13 DEF Hearing

(* Activation: the hub's views follow from the records that the staging's  *)
(* did.                                                                    *)
LEMMA ActivateHearing ==
    ASSUME EndpointInv, Hearing, Activate
    PROVE  Hearing'
<1>1. /\ feed.state = "staged" /\ ~staging.failed
      /\ hub' = Activated(hub, Activation, StagedMessages)
      /\ feed' = [feed EXCEPT !.state = "live"]
      /\ UNCHANGED <<runtime, scenario>>
  BY DEF Activate
<1>2. StagingHears(staging)
  BY <1>1 DEF Hearing
<1>3. PICK views : views = [e \in Endpoints |-> View(staging.admission[e])]
  OBVIOUS
<1>4. \A e \in Endpoints : /\ Agrees(staging.timeline[e], e, Activation, views[e])
                          /\ Matches(views[e], runtime[e], feed.publisher)
  BY <1>2, <1>3 DEF StagingHears
<1>5. Activation # Null
  BY <1>1, SomethingActive
<1>6. PICK g : g = Activated(hub, Activation, StagedMessages)
  OBVIOUS
<1>7. /\ DOMAIN g = HubFields /\ g.activation = Activation /\ DOMAIN g.admission = Endpoints
      /\ \A e \in Endpoints : Near(View(g.admission[e]), views[e])
  BY <1>4, <1>5, <1>6, ActivatedTerms
<1>8. FeedOK' /\ feed'.publisher = feed.publisher /\ Activation' = Activation /\ feed'.state = "live"
  BY <1>1 DEF Hearing, FeedOK, ToHub, Activation
<1>9. HubShape(hub')
  BY <1>1, <1>6, <1>7 DEF HubShape
<1>10. \A e \in Endpoints : Matches(View(g.admission[e]), runtime[e], feed.publisher)
  BY <1>4, <1>7, EndpointShape, NearFollows
<1>11. HubHears(hub)'
  BY <1>1, <1>6, <1>7, <1>8, <1>10 DEF HubHears
<1> QED BY <1>1, <1>8, <1>9, <1>11 DEF Hearing

LEMMA DeactivateHearing ==
    ASSUME EndpointInv, Hearing, Deactivate
    PROVE  Hearing'
<1>1. /\ hub' = Deactivated(hub) /\ feed' = [feed EXCEPT !.state = "none", !.revision = Null]
      /\ UNCHANGED <<staging, runtime, scenario>>
  BY DEF Deactivate
<1>2. FeedOK' /\ ~ToHub' /\ feed'.state # "staged"
  BY <1>1 DEF Hearing, FeedOK, ToHub
<1>3. HubShape(hub')
  BY <1>1 DEF Deactivated, NewHub, HubShape, HubFields
<1> QED BY <1>1, <1>2, <1>3 DEF Hearing

LEMMA GatewayStepHearing ==
    ASSUME EndpointInv, Hearing, GatewayStep
    PROVE  Hearing'
<1>1. DOMAIN feed = {"state", "revision", "publisher"}
  BY DEF Hearing, FeedOK
<1>2. CASE StopPrevious \/ RecoveryFails \/ Withdraw
  <2>1. HaltEach(scenario.endpoints) /\ UNCHANGED <<hub, staging, scenario>>
    BY <1>2 DEF StopPrevious, RecoveryFails, Withdraw
  <2>2. \A x \in Endpoints : SameVoice(runtime[x], runtime'[x]) /\ LossOK(runtime'[x])
    BY <2>1, HaltEachHeard
  <2>3. /\ DOMAIN feed' = DOMAIN feed /\ feed'.publisher = feed.publisher
        /\ feed'.revision = feed.revision
        /\ \/ ToHub /\ ToHub'
           \/ ~ToHub' /\ feed'.state # "staged"
    BY <1>1, <1>2 DEF StopPrevious, RecoveryFails, Withdraw, ToHub
  <2> QED BY <2>1, <2>2, <2>3, HubStaysSame, NothingNew
<1>3. CASE RecoverPrevious
  <2>1. StartEach(scenario.endpoints) /\ UNCHANGED <<hub, staging, scenario>>
    BY <1>3 DEF RecoverPrevious
  <2>2. \A x \in Endpoints : SameVoice(runtime[x], runtime'[x]) /\ LossOK(runtime'[x])
    BY <2>1, StartEachHeard
  <2>3. /\ DOMAIN feed' = DOMAIN feed /\ feed'.publisher = feed.publisher
        /\ feed'.revision = feed.revision /\ ToHub /\ ToHub'
    BY <1>1, <1>3 DEF RecoverPrevious, ToHub
  <2> QED BY <2>1, <2>2, <2>3, HubStaysSame, NothingNew
<1>4. CASE RecoveryRequired
  <2>1. UNCHANGED <<hub, staging, scenario, runtime>>
    BY <1>4 DEF RecoveryRequired
  <2>2. \A x \in Endpoints : SameVoice(runtime[x], runtime'[x]) /\ LossOK(runtime'[x])
    BY <2>1, VoicesStay
  <2>3. /\ DOMAIN feed' = DOMAIN feed /\ feed'.publisher = feed.publisher
        /\ feed'.revision = feed.revision /\ ~ToHub' /\ feed'.state # "staged"
    BY <1>1, <1>4 DEF RecoveryRequired, ToHub
  <2> QED BY <2>1, <2>2, <2>3, HubStaysSame, NothingNew
<1> QED BY <1>2, <1>3, <1>4, StartCandidateHearing, ActivateHearing, DeactivateHearing
    DEF GatewayStep

(* Sockets, pages and jobs.                                                *)
LEMMA AtTheHubOnly ==
    ASSUME EndpointInv, Hearing, UNCHANGED <<feed, staging, runtime, scenario>>,
           SameTerms(hub, hub')
    PROVE  Hearing'
<1>1. \A x \in Endpoints : SameVoice(runtime[x], runtime'[x]) /\ LossOK(runtime'[x])
  BY VoicesStay
<1> QED BY <1>1, NothingNew

LEMMA SocketStepHearing ==
    ASSUME EndpointInv, Hearing, NEW s \in Sockets, SocketStep(s)
    PROVE  Hearing'
<1>1. UNCHANGED <<feed, staging, runtime, scenario>>
  BY DEF SocketStep, SendCallback, SendFails, PeerGone
<1>2. DOMAIN hub = HubFields
  BY DEF Hearing, HubShape
<1>3. hub' \in {Called(hub, s), Failed(hub, s), Detached(hub, s)}
  BY DEF SocketStep, SendCallback, SendFails, PeerGone
<1>4. SameTerms(hub, hub')
  BY <1>2, <1>3, CalledTerms, SocketTerms
<1> QED BY <1>1, <1>4, AtTheHubOnly

LEMMA PageStepHearing ==
    ASSUME EndpointInv, Hearing, NEW b \in Browsers, PageStep(b)
    PROVE  Hearing'
<1>1. UNCHANGED <<feed, staging, runtime, scenario>>
  BY DEF PageStep
<1>2. DOMAIN hub = HubFields
  BY DEF Hearing, HubShape
<1>3. PICK s : s = browser[b].candidate
  OBVIOUS
<1>4. hub' \in {hub, Attached(hub, s), GivenUp(hub, s), [hub EXCEPT !.socket[s].net = Tail(@)]}
  BY <1>3 DEF PageStep, PageProgress, PageRefreshes, ConnectionRefused, ConnectionBreaks,
     TimerFires, Upgrade, SocketOpens, SocketCloses, FrameArrives, Read
<1>5. SameTerms(hub, hub')
  <2>1. CASE hub' \in {hub, Attached(hub, s), GivenUp(hub, s)}
    BY <1>2, <2>1, AttachedTerms, SocketTerms
  <2>2. CASE hub' = [hub EXCEPT !.socket[s].net = Tail(@)]
    BY <1>2, <2>2 DEF SameTerms, HubFields
  <2> QED BY <1>4, <2>1, <2>2
<1> QED BY <1>1, <1>5, AtTheHubOnly

LEMMA RuntimeStepHearing ==
    ASSUME EndpointInv, Hearing, RuntimeStep
    PROVE  Hearing'
<1>1. PICK b \in scenario.browsers \cup ({scenario.jobPage} \ {Null}) :
        /\ \/ \E revision \in scenario.revisions : Prepare(b, revision)
           \/ \E g \in Created(project[b]) : \/ ApplyCalled(b, g)
                                             \/ ApplySettles(b, g)
                                             \/ RollbackCandidate(b, g)
                                             \/ CommitCalled(b, g)
           \/ DeactivateCalled(b)
           \/ QuiesceSettles(b)
           \/ Finalize(b)
           \/ RollbackTransition(b)
           \/ StartGatewayStream(b)
           \/ DisposeCalled(b)
           \/ DisposeSettles(b)
        /\ UNCHANGED <<feed, staging, runtime, scenario>>
  BY DEF RuntimeStep
<1>2. \E x : Becomes(b, x)
  <2>1. CASE \E revision \in scenario.revisions : Prepare(b, revision)
    BY <2>1 DEF Prepare
  <2>2. CASE \E g \in Created(project[b]) : ApplyCalled(b, g)
    BY <2>2 DEF ApplyCalled
  <2>3. CASE \E g \in Created(project[b]) : ApplySettles(b, g)
    BY <2>3 DEF ApplySettles
  <2>4. CASE \E g \in Created(project[b]) : RollbackCandidate(b, g)
    BY <2>4 DEF RollbackCandidate
  <2>5. CASE \E g \in Created(project[b]) : CommitCalled(b, g)
    BY <2>5 DEF CommitCalled
  <2>6. CASE DeactivateCalled(b) \/ QuiesceSettles(b) \/ Finalize(b)
    BY <2>6 DEF DeactivateCalled, QuiesceSettles, Finalize
  <2>7. CASE RollbackTransition(b) \/ StartGatewayStream(b) \/ DisposeCalled(b) \/ DisposeSettles(b)
    BY <2>7 DEF RollbackTransition, StartGatewayStream, DisposeCalled, DisposeSettles
  <2> QED BY <1>1, <2>1, <2>2, <2>3, <2>4, <2>5, <2>6, <2>7
<1>3. hub' \in {hub, GivenUp(hub, browser[b].candidate)}
  BY <1>2 DEF Becomes
<1>4. DOMAIN hub = HubFields
  BY DEF Hearing, HubShape
<1>5. SameTerms(hub, hub')
  BY <1>3, <1>4, SocketTerms
<1> QED BY <1>1, <1>5, AtTheHubOnly

-----------------------------------------------------------------------------
(* The theorems.                                                           *)

(* What the hub has admitted of an endpoint, and before the activation     *)
(* what the staging has, follows from the endpoint's own record of what it *)
(* published: the session, whether its loss is published, and the last     *)
(* sequence up to states refused for their stamps; whatever losses, stops, *)
(* activations and sockets there are (publish and                          *)
(* prepareRevisionActivation of state-batch-hub.ts, publishLifecycle,      *)
(* publishState and recover of opcua-client-adapter.ts, and the staging of *)
(* main.ts).                                                               *)
THEOREM HearingInvariant == WorkcellSpec => []Hearing
<1>1. WorkcellInit => Hearing
  <2>. SUFFICES ASSUME WorkcellInit PROVE Hearing
    OBVIOUS
  <2>1. /\ hub = NewHub /\ feed = NoFeed /\ scenario \in Scenarios
        /\ runtime = [e \in Endpoints |-> Fresh]
    BY DEF WorkcellInit, Init
  <2>2. FeedOK /\ ~ToHub /\ feed.state # "staged"
    BY <2>1 DEF NoFeed, FeedOK, ToHub
  <2>3. HubShape(hub)
    BY <2>1 DEF NewHub, HubShape, HubFields
  <2> QED BY <2>1, <2>2, <2>3, FreshFollows DEF Hearing
<1>2. EndpointInv /\ Hearing /\ [WorkcellNext]_<<vars, pageVars>> => Hearing'
  <2>. SUFFICES ASSUME EndpointInv, Hearing, [WorkcellNext]_<<vars, pageVars>> PROVE Hearing'
    OBVIOUS
  <2>1. CASE \E e \in Endpoints : EndpointStep(e)
    BY <2>1, EndpointStepHearing
  <2>2. CASE GatewayStep
    BY <2>2, GatewayStepHearing
  <2>3. CASE \E s \in Sockets : SocketStep(s)
    BY <2>3, SocketStepHearing
  <2>4. CASE \E b \in Browsers : PageStep(b)
    BY <2>4, PageStepHearing
  <2>5. CASE UNCHANGED <<hub, feed, staging, runtime, scenario>>
    BY <2>5, HubStaysSame, AtTheHubOnly
  <2>6. CASE RuntimeStep
    BY <2>6, RuntimeStepHearing
  <2> QED BY <2>1, <2>2, <2>3, <2>4, <2>5, <2>6 DEF WorkcellNext, Next, JobStep, vars
<1> QED BY <1>1, <1>2, EndpointsKept, PTL DEF WorkcellSpec

(* The property HubFollowsEndpoint: while the adapter's publications go to *)
(* the hub, no lifecycle message is refused there, because the hub is in   *)
(* the adapter's session, thinks the endpoint connected exactly while its  *)
(* loss has not been published, and has never seen the sequence that comes *)
(* next; for any number of endpoints, channels, sockets and pages, any     *)
(* stamps of the states, and whatever the limits of the counters           *)
(* (admitMessageV1 of state-batch-hub.ts and publishLifecycle of           *)
(* opcua-client-adapter.ts).                                               *)
THEOREM HubAlwaysFollows == WorkcellSpec => []HubFollowsEndpoint
<1>1. ASSUME Hearing PROVE HubFollowsEndpoint
  <2>. SUFFICES ASSUME ToHub, NEW e \in Endpoints
                PROVE  LET r == runtime[e]
                           a == hub.admission[e]
                       IN /\ a.connected <=> r.connected /\ ~r.lossPublished
                          /\ a.connected => a.session = <<feed.publisher, r.sessionGeneration>>
                          /\ IF a.connected THEN a.last < r.nextSource
                             ELSE a.last = r.nextSource - 1
    BY DEF HubFollowsEndpoint
  <2>1. PICK r : r = runtime[e]
    OBVIOUS
  <2>2. PICK a : a = hub.admission[e]
    OBVIOUS
  <2>3. Matches(View(a), r, feed.publisher)
    BY <1>1, <2>1, <2>2 DEF Hearing, HubHears
  <2>4. View(a).last = a.last /\ View(a).session = a.session /\ View(a).connected = a.connected
    BY ViewIs
  <2> QED BY <2>1, <2>2, <2>3, <2>4 DEF Matches, Said
<1> QED BY <1>1, HearingInvariant, PTL

=============================================================================
