--------------------------- MODULE RobotJobs_proofs ---------------------------
(***************************************************************************)
(* Proofs about the operations of the jobs of a page, for every number of  *)
(* robots and runs and all programs: executor, playback and store keep     *)
(* what they say of one another (JobsOK), and each operation does to every *)
(* run and robot only what Keeps allows.                                   *)
(*                                                                         *)
(* First the primitives, each of which touches one run and what its robot  *)
(* shows; then the operations, made of them.  Workcell_proofs has the      *)
(* steps that call them, and what follows for the system.                  *)
(***************************************************************************)
EXTENDS RobotJobs, FiniteSetTheorems, TLAPS

-----------------------------------------------------------------------------
(* The sequence that SetToSeq makes of a finite set has each of its        *)
(* elements once, and no other.                                            *)
LEMMA SetToSeqIs ==
    ASSUME NEW S, IsFiniteSet(S)
    PROVE  /\ Cardinality(S) \in Nat
           /\ SetToSeq(S) \in [1..Cardinality(S) -> S]
           /\ \A x \in S : \E i \in 1..Cardinality(S) : SetToSeq(S)[i] = x
           /\ \A i, j \in 1..Cardinality(S) : SetToSeq(S)[i] = SetToSeq(S)[j] => i = j
<1>. DEFINE n == Cardinality(S)
            s == SetToSeq(S)
<1>1. n \in Nat /\ ExistsBijection(1..n, S)
  BY FS_CardinalityType
<1>2. \E f \in [1..n -> S] : IsInjective(f)
  BY <1>1 DEF ExistsBijection, Bijection, Injection
<1>3. s \in [1..n -> S] /\ IsInjective(s)
  BY <1>2 DEF SetToSeq
<1>4. IsFiniteSet(1..n) /\ Cardinality(1..n) = n
  <2>1. 0 + 1 = 1 /\ n \in Int /\ 1 \in Int
    BY <1>1
  <2> QED BY <1>1, <2>1, FS_Interval
<1>. HIDE DEF s, n
<1>5. s \in Injection(1..n, S)
  BY <1>3 DEF Injection
<1>6. s \in Surjection(1..n, S)
  BY <1>4, <1>5, FS_Injection DEF n
<1>7. \A i, j \in 1..n : s[i] = s[j] => i = j
  BY <1>3 DEF IsInjective
<1> QED BY <1>1, <1>3, <1>6, <1>7 DEF Surjection, s, n

-----------------------------------------------------------------------------
(* What the jobs are made of.                                              *)

RunFields == {"robot", "program", "cursor", "started", "ready", "moved", "tick", "waiting",
              "last", "end"}
JobFields == {"run", "session", "shown", "pose", "latest", "last", "frame", "slot",
              "settling", "quiesced", "disposed", "refused"}

RunRecord(run) == run = [f \in RunFields |-> run[f]]
ShownRecord(x) == x = [f \in {"state", "run", "step"} |-> x[f]]
AdvanceRecord(x) == x = [f \in {"run", "next"} |-> x[f]]

JobsShape(j) ==
    /\ j = [f \in JobFields |-> j[f]]
    /\ j.run = [i \in Runs |-> j.run[i]]
    /\ j.session = [r \in Robots |-> j.session[r]]
    /\ j.shown = [r \in Robots |-> j.shown[r]]
    /\ j.pose = [r \in Robots |-> j.pose[r]]
    /\ j.slot = [r \in Robots |-> j.slot[r]]
    /\ \A i \in Runs : RunRecord(j.run[i])
    /\ \A r \in Robots :
          /\ ShownRecord(j.shown[r]) /\ AdvanceRecord(j.slot[r])
          /\ j.session[r] \in Runs \cup {Null} /\ j.slot[r].run \in Runs \cup {Null}
    /\ {j.frame, j.quiesced, j.disposed} \subseteq BOOLEAN

(* k differs from j in the record of run i and in what robot r, that run's *)
(* own, shows of it.                                                       *)
Touches(i, r, j, k) ==
    /\ JobsShape(k)
    /\ k.latest = j.latest /\ k.last = j.last /\ k.frame = j.frame /\ k.slot = j.slot
    /\ k.settling = j.settling /\ k.quiesced = j.quiesced /\ k.disposed = j.disposed
    /\ k.run[i].robot = r /\ k.run[i].program = j.run[i].program
    /\ \A h \in Runs : h # i => k.run[h] = j.run[h]
    /\ \A q \in Robots : q # r => /\ k.session[q] = j.session[q]
                                  /\ k.shown[q] = j.shown[q] /\ k.pose[q] = j.pose[q]

(* The run i, after: its place, what it waits for, and how it ended.       *)
RunIs(run, cursor, waiting, tick, end) ==
    run.cursor = cursor /\ run.waiting = waiting /\ run.tick = tick /\ run.end = end

ShownIs(j, r, session, state, i) ==
    j.session[r] = session /\ j.shown[r].state = state /\ j.shown[r].run = i

LEMMA TouchesTwice ==
    ASSUME NEW i, NEW r, NEW j, NEW k, NEW l, Touches(i, r, j, k), Touches(i, r, k, l)
    PROVE  Touches(i, r, j, l)
  BY DEF Touches

(* A record for run i, of robot r.                                         *)
RunOf(j, i, r, run) ==
    RunRecord(run) /\ run.robot = r /\ run.program = j.run[i].program

(* k is j with one run replaced, and what its robot shows.                 *)
IsPut(j, k, i, run, r, session, shown, pose) ==
    /\ k = [f \in JobFields |-> k[f]]
    /\ k.run = [h \in Runs |-> IF h = i THEN run ELSE j.run[h]]
    /\ k.session = [q \in Robots |-> IF q = r THEN session ELSE j.session[q]]
    /\ k.shown = [q \in Robots |-> IF q = r THEN shown ELSE j.shown[q]]
    /\ k.pose = [q \in Robots |-> IF q = r THEN pose ELSE j.pose[q]]
    /\ k.latest = j.latest /\ k.last = j.last /\ k.frame = j.frame /\ k.slot = j.slot
    /\ k.settling = j.settling /\ k.quiesced = j.quiesced /\ k.disposed = j.disposed

LEMMA PutIs ==
    ASSUME NEW j, JobsShape(j), NEW i \in Runs, NEW r \in Robots,
           NEW run, RunOf(j, i, r, run),
           NEW session, session \in Runs \cup {Null},
           NEW shown, ShownRecord(shown), NEW pose,
           NEW k, IsPut(j, k, i, run, r, session, shown, pose)
    PROVE  /\ Touches(i, r, j, k)
           /\ k.run[i] = run /\ k.session[r] = session /\ k.shown[r] = shown /\ k.pose[r] = pose
<1>. USE DEF RunOf, IsPut
<1>3. /\ k.run[i] = run /\ k.session[r] = session /\ k.shown[r] = shown /\ k.pose[r] = pose
      /\ \A h \in Runs : h # i => k.run[h] = j.run[h]
      /\ \A q \in Robots : q # r => /\ k.session[q] = j.session[q]
                                    /\ k.shown[q] = j.shown[q] /\ k.pose[q] = j.pose[q]
  OBVIOUS
<1>4. /\ k.run = [h \in Runs |-> k.run[h]]
      /\ k.session = [q \in Robots |-> k.session[q]]
      /\ k.shown = [q \in Robots |-> k.shown[q]]
      /\ k.pose = [q \in Robots |-> k.pose[q]]
      /\ k.slot = [q \in Robots |-> k.slot[q]]
  BY DEF JobsShape
<1>5. \A h \in Runs : RunRecord(k.run[h])
  BY <1>3 DEF JobsShape
<1>6. \A q \in Robots :
          /\ ShownRecord(k.shown[q]) /\ AdvanceRecord(k.slot[q])
          /\ k.session[q] \in Runs \cup {Null} /\ k.slot[q].run \in Runs \cup {Null}
  <2>. SUFFICES ASSUME NEW q \in Robots
                PROVE  /\ ShownRecord(k.shown[q]) /\ AdvanceRecord(k.slot[q])
                       /\ k.session[q] \in Runs \cup {Null}
                       /\ k.slot[q].run \in Runs \cup {Null}
    OBVIOUS
  <2>1. AdvanceRecord(j.slot[q]) /\ j.slot[q].run \in Runs \cup {Null} /\ k.slot = j.slot
    BY DEF JobsShape
  <2>2. ShownRecord(j.shown[q]) /\ j.session[q] \in Runs \cup {Null}
    BY DEF JobsShape
  <2>3. CASE q = r
    BY <1>3, <2>1, <2>3
  <2>4. CASE q # r
    BY <1>3, <2>1, <2>2, <2>4
  <2> QED BY <2>3, <2>4
<1>7. {k.frame, k.quiesced, k.disposed} \subseteq BOOLEAN
  BY DEF JobsShape
<1>8. JobsShape(k)
  BY <1>4, <1>5, <1>6, <1>7 DEF JobsShape
<1> QED BY <1>3, <1>8 DEF Touches

(* k is j with only the record of run i touched.                           *)
OnlyRun(i, r, j, k) ==
    /\ Touches(i, r, j, k)
    /\ k.session[r] = j.session[r] /\ k.shown[r] = j.shown[r] /\ k.pose[r] = j.pose[r]

WithRun(j, i, run) == [j EXCEPT !.run = [j.run EXCEPT ![i] = run]]

LEMMA WithRunIs ==
    ASSUME NEW j, JobsShape(j), NEW i \in Runs, NEW r \in Robots,
           NEW run, RunOf(j, i, r, run), NEW k, k = WithRun(j, i, run)
    PROVE  OnlyRun(i, r, j, k) /\ k.run[i] = run
<1>1. k = [f \in JobFields |-> IF f = "run" THEN [h \in Runs |-> IF h = i THEN run ELSE j.run[h]]
                               ELSE j[f]]
  BY DEF WithRun, JobsShape, JobFields
<1>2. /\ k = [f \in JobFields |-> k[f]]
      /\ k.run = [h \in Runs |-> IF h = i THEN run ELSE j.run[h]]
      /\ k.session = j.session /\ k.shown = j.shown /\ k.pose = j.pose
      /\ k.latest = j.latest /\ k.last = j.last /\ k.frame = j.frame /\ k.slot = j.slot
      /\ k.settling = j.settling /\ k.quiesced = j.quiesced /\ k.disposed = j.disposed
  BY <1>1 DEF JobFields
<1>3. PICK session : session = j.session[r]
  OBVIOUS
<1>4. PICK shown : shown = j.shown[r]
  OBVIOUS
<1>5. PICK pose : pose = j.pose[r]
  OBVIOUS
<1>6. IsPut(j, k, i, run, r, session, shown, pose)
  BY <1>2, <1>3, <1>4, <1>5 DEF IsPut, JobsShape
<1>7. ShownRecord(shown) /\ session \in Runs \cup {Null}
  BY <1>3, <1>4 DEF JobsShape
<1> QED BY <1>3, <1>4, <1>5, <1>6, <1>7, PutIs DEF OnlyRun

(* The fields of a run that the executor sets by themselves.               *)
TickTo(j, i, v) == [j EXCEPT !.run[i].tick = v]
LastTo(j, i, v) == [j EXCEPT !.run[i].last = v]
MovedTo(j, i, v) == [j EXCEPT !.run[i].moved = v]
WaitingTo(j, i, v) == [j EXCEPT !.run[i].waiting = v]

LEMMA TickSet ==
    ASSUME NEW j, JobsShape(j), NEW i \in Runs, NEW r \in Robots, j.run[i].robot = r,
           NEW v, NEW k, k = TickTo(j, i, v)
    PROVE  /\ OnlyRun(i, r, j, k)
           /\ RunIs(k.run[i], j.run[i].cursor, j.run[i].waiting, v, j.run[i].end)
<1>. DEFINE run == [j.run[i] EXCEPT !.tick = v]
<1>1. RunRecord(j.run[i])
  BY DEF JobsShape
<1>2. run = [f \in RunFields |-> IF f = "tick" THEN v ELSE j.run[i][f]]
  BY <1>1 DEF RunRecord, RunFields
<1>3. RunOf(j, i, r, run) /\ RunIs(run, j.run[i].cursor, j.run[i].waiting, v, j.run[i].end)
  BY <1>2 DEF RunOf, RunRecord, RunFields, RunIs
<1>4. k = WithRun(j, i, run)
  BY DEF TickTo, WithRun
<1>. HIDE DEF run
<1>5. OnlyRun(i, r, j, k) /\ k.run[i] = run
  BY <1>3, <1>4, WithRunIs
<1> QED BY <1>3, <1>5

LEMMA LastSet ==
    ASSUME NEW j, JobsShape(j), NEW i \in Runs, NEW r \in Robots, j.run[i].robot = r,
           NEW v, NEW k, k = LastTo(j, i, v)
    PROVE  /\ OnlyRun(i, r, j, k)
           /\ RunIs(k.run[i], j.run[i].cursor, j.run[i].waiting, j.run[i].tick, j.run[i].end)
<1>. DEFINE run == [j.run[i] EXCEPT !.last = v]
<1>1. RunRecord(j.run[i])
  BY DEF JobsShape
<1>2. run = [f \in RunFields |-> IF f = "last" THEN v ELSE j.run[i][f]]
  BY <1>1 DEF RunRecord, RunFields
<1>3. RunOf(j, i, r, run) /\ RunIs(run, j.run[i].cursor, j.run[i].waiting, j.run[i].tick, j.run[i].end)
  BY <1>2 DEF RunOf, RunRecord, RunFields, RunIs
<1>4. k = WithRun(j, i, run)
  BY DEF LastTo, WithRun
<1>. HIDE DEF run
<1>5. OnlyRun(i, r, j, k) /\ k.run[i] = run
  BY <1>3, <1>4, WithRunIs
<1> QED BY <1>3, <1>5

LEMMA MovedSet ==
    ASSUME NEW j, JobsShape(j), NEW i \in Runs, NEW r \in Robots, j.run[i].robot = r,
           NEW v, NEW k, k = MovedTo(j, i, v)
    PROVE  /\ OnlyRun(i, r, j, k)
           /\ RunIs(k.run[i], j.run[i].cursor, j.run[i].waiting, j.run[i].tick, j.run[i].end)
<1>. DEFINE run == [j.run[i] EXCEPT !.moved = v]
<1>1. RunRecord(j.run[i])
  BY DEF JobsShape
<1>2. run = [f \in RunFields |-> IF f = "moved" THEN v ELSE j.run[i][f]]
  BY <1>1 DEF RunRecord, RunFields
<1>3. RunOf(j, i, r, run) /\ RunIs(run, j.run[i].cursor, j.run[i].waiting, j.run[i].tick, j.run[i].end)
  BY <1>2 DEF RunOf, RunRecord, RunFields, RunIs
<1>4. k = WithRun(j, i, run)
  BY DEF MovedTo, WithRun
<1>. HIDE DEF run
<1>5. OnlyRun(i, r, j, k) /\ k.run[i] = run
  BY <1>3, <1>4, WithRunIs
<1> QED BY <1>3, <1>5

LEMMA WaitingSet ==
    ASSUME NEW j, JobsShape(j), NEW i \in Runs, NEW r \in Robots, j.run[i].robot = r,
           NEW v, NEW k, k = WaitingTo(j, i, v)
    PROVE  /\ OnlyRun(i, r, j, k)
           /\ RunIs(k.run[i], j.run[i].cursor, v, j.run[i].tick, j.run[i].end)
<1>. DEFINE run == [j.run[i] EXCEPT !.waiting = v]
<1>1. RunRecord(j.run[i])
  BY DEF JobsShape
<1>2. run = [f \in RunFields |-> IF f = "waiting" THEN v ELSE j.run[i][f]]
  BY <1>1 DEF RunRecord, RunFields
<1>3. RunOf(j, i, r, run) /\ RunIs(run, j.run[i].cursor, v, j.run[i].tick, j.run[i].end)
  BY <1>2 DEF RunOf, RunRecord, RunFields, RunIs
<1>4. k = WithRun(j, i, run)
  BY DEF WaitingTo, WithRun
<1>. HIDE DEF run
<1>5. OnlyRun(i, r, j, k) /\ k.run[i] = run
  BY <1>3, <1>4, WithRunIs
<1> QED BY <1>3, <1>5

LEMMA PassedIs ==
    ASSUME NEW j, JobsShape(j), NEW i \in Runs, NEW r \in Robots, j.run[i].robot = r,
           NEW at, NEW k, k = Passed(j, i, at)
    PROVE  /\ Touches(i, r, j, k)
           /\ RunIs(k.run[i], j.run[i].cursor + 1, j.run[i].waiting, j.run[i].tick, j.run[i].end)
           /\ ShownIs(k, r, j.session[r], j.shown[r].state, j.shown[r].run)
           /\ k.pose[r] = j.pose[r]
<1>. DEFINE run == [j.run[i] EXCEPT !.cursor = j.run[i].cursor + 1, !.ready = at]
            shown == [j.shown[r] EXCEPT !.step = j.run[i].cursor + 1]
<1>1. RunRecord(j.run[i]) /\ ShownRecord(j.shown[r]) /\ j.session[r] \in Runs \cup {Null}
  BY DEF JobsShape
<1>2. /\ run = [f \in RunFields |-> CASE f = "cursor" -> j.run[i].cursor + 1
                                      [] f = "ready" -> at
                                      [] OTHER -> j.run[i][f]]
      /\ shown = [f \in {"state", "run", "step"} |->
                    IF f = "step" THEN j.run[i].cursor + 1 ELSE j.shown[r][f]]
  BY <1>1 DEF RunRecord, RunFields, ShownRecord
<1>3. /\ RunOf(j, i, r, run)
      /\ RunIs(run, j.run[i].cursor + 1, j.run[i].waiting, j.run[i].tick, j.run[i].end)
      /\ ShownRecord(shown) /\ shown.state = j.shown[r].state /\ shown.run = j.shown[r].run
  BY Zenon, <1>2 DEF RunOf, RunRecord, RunFields, RunIs, ShownRecord
<1>4. k = [j EXCEPT !.run = [j.run EXCEPT ![i] = run], !.shown = [j.shown EXCEPT ![r] = shown]]
  BY Zenon DEF Passed, JobsShape
<1>. HIDE DEF run, shown
<1>5. k = [f \in JobFields |-> CASE f = "run" -> [h \in Runs |-> IF h = i THEN run ELSE j.run[h]]
                                 [] f = "shown" ->
                                      [q \in Robots |-> IF q = r THEN shown ELSE j.shown[q]]
                                 [] OTHER -> j[f]]
  <2>1. /\ j = [f \in JobFields |-> j[f]]
        /\ j.run = [h \in Runs |-> j.run[h]] /\ j.shown = [q \in Robots |-> j.shown[q]]
    BY DEF JobsShape
  <2>2. /\ [j.run EXCEPT ![i] = run] = [h \in Runs |-> IF h = i THEN run ELSE j.run[h]]
        /\ [j.shown EXCEPT ![r] = shown] = [q \in Robots |-> IF q = r THEN shown ELSE j.shown[q]]
    BY <2>1
  <2> QED BY <1>4, <2>1, <2>2 DEF JobFields
<1>6. PICK session : session = j.session[r]
  OBVIOUS
<1>7. PICK pose : pose = j.pose[r]
  OBVIOUS
<1>8. /\ k = [f \in JobFields |-> k[f]]
      /\ k.run = [h \in Runs |-> IF h = i THEN run ELSE j.run[h]]
      /\ k.shown = [q \in Robots |-> IF q = r THEN shown ELSE j.shown[q]]
      /\ k.session = j.session /\ k.pose = j.pose
      /\ k.latest = j.latest /\ k.last = j.last /\ k.frame = j.frame /\ k.slot = j.slot
      /\ k.settling = j.settling /\ k.quiesced = j.quiesced /\ k.disposed = j.disposed
  BY <1>5 DEF JobFields
<1>9. IsPut(j, k, i, run, r, session, shown, pose)
  BY <1>6, <1>7, <1>8 DEF IsPut, JobsShape
<1>10. /\ Touches(i, r, j, k) /\ k.run[i] = run
       /\ k.session[r] = session /\ k.shown[r] = shown /\ k.pose[r] = pose
  BY <1>1, <1>3, <1>6, <1>9, PutIs
<1> QED BY <1>3, <1>6, <1>7, <1>10 DEF ShownIs

LEMMA PoseIs ==
    ASSUME NEW j, JobsShape(j), NEW i \in Runs, NEW r \in Robots, j.run[i].robot = r,
           NEW k, k = Moved(j, i)
    PROVE  /\ Touches(i, r, j, k) /\ k.run[i] = j.run[i]
           /\ k.session[r] = j.session[r] /\ k.shown[r] = j.shown[r]
           /\ k.pose[r][1] = i
<1>1. PICK pose : pose = <<i, j.run[i].cursor>>
  OBVIOUS
<1>2. PICK run : run = j.run[i]
  OBVIOUS
<1>3. PICK session : session = j.session[r]
  OBVIOUS
<1>4. PICK shown : shown = j.shown[r]
  OBVIOUS
<1>5. /\ j = [f \in JobFields |-> j[f]]
      /\ j.pose = [q \in Robots |-> j.pose[q]]
  BY DEF JobsShape
<1>6. k = [f \in JobFields |-> IF f = "pose" THEN [q \in Robots |-> IF q = r THEN pose ELSE j.pose[q]]
                               ELSE j[f]]
  BY <1>1, <1>5 DEF Moved, JobFields
<1>7. /\ k = [f \in JobFields |-> k[f]]
      /\ k.pose = [q \in Robots |-> IF q = r THEN pose ELSE j.pose[q]]
      /\ k.run = j.run /\ k.session = j.session /\ k.shown = j.shown
      /\ k.latest = j.latest /\ k.last = j.last /\ k.frame = j.frame /\ k.slot = j.slot
      /\ k.settling = j.settling /\ k.quiesced = j.quiesced /\ k.disposed = j.disposed
  BY <1>6 DEF JobFields
<1>8. IsPut(j, k, i, run, r, session, shown, pose)
  BY <1>2, <1>3, <1>4, <1>7 DEF IsPut, JobsShape
<1>9. RunOf(j, i, r, run) /\ ShownRecord(shown) /\ session \in Runs \cup {Null}
  BY <1>2, <1>3, <1>4 DEF RunOf, JobsShape
<1>10. /\ Touches(i, r, j, k) /\ k.run[i] = run
       /\ k.session[r] = session /\ k.shown[r] = shown /\ k.pose[r] = pose
  BY <1>8, <1>9, PutIs
<1> QED BY <1>1, <1>2, <1>3, <1>4, <1>10

(* The run i is the one robot r shows and is in force for.                 *)
Drives(j, i, r) ==
    /\ ShownIs(j, r, i, "RUNNING", i)
    /\ j.run[i].robot = r /\ j.run[i].end = Null /\ j.disposed = FALSE

Over(j, i, r) ==
    j.session[r] = Null /\ j.shown[r].state # "RUNNING" /\ j.shown[r].run = i

LEMMA RunEndedIs ==
    ASSUME NEW j, JobsShape(j), NEW i \in Runs, NEW r \in Robots, Drives(j, i, r),
           NEW state, state # "RUNNING", NEW at, NEW k, k = RunEnded(j, i, state, at)
    PROVE  /\ Touches(i, r, j, k) /\ Over(k, i, r) /\ k.pose[r] = j.pose[r]
           /\ k.run[i].cursor = j.run[i].cursor /\ k.run[i].waiting = j.run[i].waiting
           /\ k.run[i].tick = j.run[i].tick
<1>. DEFINE run == [j.run[i] EXCEPT !.end = <<state, at>>]
            shown == [state |-> state, run |-> i, step |-> j.run[i].cursor]
<1>1. /\ RunRecord(j.run[i]) /\ j = [f \in JobFields |-> j[f]]
      /\ j.run = [h \in Runs |-> j.run[h]] /\ j.shown = [q \in Robots |-> j.shown[q]]
      /\ j.session = [q \in Robots |-> j.session[q]]
  BY DEF JobsShape
<1>2. run = [f \in RunFields |-> IF f = "end" THEN <<state, at>> ELSE j.run[i][f]]
  BY <1>1 DEF RunRecord, RunFields
<1>3. /\ RunOf(j, i, r, run) /\ ShownRecord(shown)
      /\ run.cursor = j.run[i].cursor /\ run.waiting = j.run[i].waiting
      /\ run.tick = j.run[i].tick /\ shown.state = state /\ shown.run = i
  BY <1>2 DEF RunOf, RunRecord, RunFields, ShownRecord, Drives
<1>4. k = [j EXCEPT !.session = [j.session EXCEPT ![r] = Null], !.run = [j.run EXCEPT ![i] = run],
                    !.shown = [j.shown EXCEPT ![r] = shown]]
  BY <1>1 DEF RunEnded, Authoritative, Drives, ShownIs, JobFields
<1>. HIDE DEF run, shown
<1>5. k = [f \in JobFields |-> CASE f = "run" -> [h \in Runs |-> IF h = i THEN run ELSE j.run[h]]
                                 [] f = "session" ->
                                      [q \in Robots |-> IF q = r THEN Null ELSE j.session[q]]
                                 [] f = "shown" ->
                                      [q \in Robots |-> IF q = r THEN shown ELSE j.shown[q]]
                                 [] OTHER -> j[f]]
  <2>1. /\ [j.run EXCEPT ![i] = run] = [h \in Runs |-> IF h = i THEN run ELSE j.run[h]]
        /\ [j.shown EXCEPT ![r] = shown] = [q \in Robots |-> IF q = r THEN shown ELSE j.shown[q]]
        /\ [j.session EXCEPT ![r] = Null] = [q \in Robots |-> IF q = r THEN Null ELSE j.session[q]]
    BY <1>1
  <2> QED BY <1>1, <1>4, <2>1 DEF JobFields
<1>6. PICK session : session = Null
  OBVIOUS
<1>7. PICK pose : pose = j.pose[r]
  OBVIOUS
<1>8. /\ k = [f \in JobFields |-> k[f]]
      /\ k.run = [h \in Runs |-> IF h = i THEN run ELSE j.run[h]]
      /\ k.shown = [q \in Robots |-> IF q = r THEN shown ELSE j.shown[q]]
      /\ k.session = [q \in Robots |-> IF q = r THEN session ELSE j.session[q]]
      /\ k.pose = j.pose
      /\ k.latest = j.latest /\ k.last = j.last /\ k.frame = j.frame /\ k.slot = j.slot
      /\ k.settling = j.settling /\ k.quiesced = j.quiesced /\ k.disposed = j.disposed
  BY <1>5, <1>6 DEF JobFields
<1>9. IsPut(j, k, i, run, r, session, shown, pose)
  BY <1>7, <1>8 DEF IsPut, JobsShape
<1>10. /\ Touches(i, r, j, k) /\ k.run[i] = run
       /\ k.session[r] = session /\ k.shown[r] = shown /\ k.pose[r] = pose
  BY <1>3, <1>6, <1>9, PutIs
<1> QED BY <1>3, <1>6, <1>7, <1>10 DEF Over

LEMMA TerminatedIs ==
    ASSUME NEW j, JobsShape(j), NEW i \in Runs, NEW r \in Robots, j.run[i].robot = r,
           NEW k, k = Terminated(j, i)
    PROVE  /\ Touches(i, r, j, k)
           /\ k.run[i].cursor = j.run[i].cursor /\ k.run[i].waiting = j.run[i].waiting
           /\ k.run[i].tick = j.run[i].tick
           /\ j.run[i].end # Null => k.run[i].end = j.run[i].end
           /\ k.session[r] = IF j.session[r] = i THEN Null ELSE j.session[r]
           /\ k.shown[r] = j.shown[r] /\ k.pose[r] = j.pose[r]
<1>1. PICK end : end = IF j.run[i].end = Null THEN <<"CANCELLED", j.run[i].last>> ELSE j.run[i].end
  OBVIOUS
<1>2. PICK session : session = IF j.session[r] = i THEN Null ELSE j.session[r]
  OBVIOUS
<1>. DEFINE run == [j.run[i] EXCEPT !.end = end]
<1>3. /\ RunRecord(j.run[i]) /\ j = [f \in JobFields |-> j[f]]
      /\ j.run = [h \in Runs |-> j.run[h]]
      /\ j.session = [q \in Robots |-> j.session[q]]
  BY DEF JobsShape
<1>4. run = [f \in RunFields |-> IF f = "end" THEN end ELSE j.run[i][f]]
  BY <1>3 DEF RunRecord, RunFields
<1>5. /\ RunOf(j, i, r, run) /\ run.end = end
      /\ run.cursor = j.run[i].cursor /\ run.waiting = j.run[i].waiting
      /\ run.tick = j.run[i].tick
  BY <1>4 DEF RunOf, RunRecord, RunFields
<1>6. k = [j EXCEPT !.session = [j.session EXCEPT ![r] = session], !.run = [j.run EXCEPT ![i] = run]]
  BY <1>1, <1>2, <1>3 DEF Terminated, JobFields
<1>. HIDE DEF run
<1>7. k = [f \in JobFields |-> CASE f = "run" -> [h \in Runs |-> IF h = i THEN run ELSE j.run[h]]
                                 [] f = "session" ->
                                      [q \in Robots |-> IF q = r THEN session ELSE j.session[q]]
                                 [] OTHER -> j[f]]
  <2>1. /\ [j.run EXCEPT ![i] = run] = [h \in Runs |-> IF h = i THEN run ELSE j.run[h]]
        /\ [j.session EXCEPT ![r] = session]
              = [q \in Robots |-> IF q = r THEN session ELSE j.session[q]]
    BY <1>3
  <2> QED BY <1>3, <1>6, <2>1 DEF JobFields
<1>8. PICK shown : shown = j.shown[r]
  OBVIOUS
<1>9. PICK pose : pose = j.pose[r]
  OBVIOUS
<1>10. /\ k = [f \in JobFields |-> k[f]]
      /\ k.run = [h \in Runs |-> IF h = i THEN run ELSE j.run[h]]
      /\ k.session = [q \in Robots |-> IF q = r THEN session ELSE j.session[q]]
      /\ k.shown = j.shown /\ k.pose = j.pose
      /\ k.latest = j.latest /\ k.last = j.last /\ k.frame = j.frame /\ k.slot = j.slot
      /\ k.settling = j.settling /\ k.quiesced = j.quiesced /\ k.disposed = j.disposed
  BY <1>7 DEF JobFields
<1>11. IsPut(j, k, i, run, r, session, shown, pose)
  BY <1>8, <1>9, <1>10 DEF IsPut, JobsShape
<1>12. ShownRecord(shown) /\ session \in Runs \cup {Null}
  BY <1>2, <1>8 DEF JobsShape
<1>13. /\ Touches(i, r, j, k) /\ k.run[i] = run
       /\ k.session[r] = session /\ k.shown[r] = shown /\ k.pose[r] = pose
  BY <1>5, <1>11, <1>12, PutIs
<1> QED BY <1>1, <1>2, <1>5, <1>8, <1>9, <1>13

-----------------------------------------------------------------------------
(* execute: what one call of it does to a run.  From a to b, both places   *)
(* in a program, no instruction of kind "set" is passed: one that is       *)
(* reached suspends the tick.                                              *)

NoSets(p, a, b) == \A n \in a..(b - 1) : p[n].kind # "set"

(* j is j0 with run i, of robot r, that much further.                      *)
Along(j0, j, i, r) ==
    /\ Touches(i, r, j0, j)
    /\ j.run[i].cursor \in 1..(Len(j.run[i].program) + 1)
    /\ j0.run[i].cursor <= j.run[i].cursor
    /\ NoSets(j.run[i].program, j0.run[i].cursor, j.run[i].cursor)
    /\ j.pose[r] = j0.pose[r] \/ j.pose[r][1] = i

Working(j, i, r) == Drives(j, i, r) /\ j.run[i].waiting = FALSE

Pauses(run) ==
    /\ run.waiting = TRUE /\ run.cursor <= Len(run.program)
    /\ run.program[run.cursor].kind \in {"set", "attach"}

Halted(j, i, r) ==
    \/ Drives(j, i, r) /\ Pauses(j.run[i])
    \/ /\ j.run[i].waiting = FALSE /\ j.run[i].tick = Null
       /\ Drives(j, i, r) \/ Over(j, i, r)

HasProgram(j, i) ==
    /\ j.run[i].program \in Seq(Instruction)
    /\ j.run[i].cursor \in 1..(Len(j.run[i].program) + 1)

LEMMA StaysAlong ==
    ASSUME NEW j0, NEW j, NEW i \in Runs, NEW r \in Robots, Along(j0, j, i, r), Working(j, i, r),
           NEW k, OnlyRun(i, r, j, k),
           RunIs(k.run[i], j.run[i].cursor, j.run[i].waiting, j.run[i].tick, j.run[i].end)
    PROVE  Along(j0, k, i, r) /\ Working(k, i, r) /\ k.run[i].cursor = j.run[i].cursor
<1>1. Touches(i, r, j0, k)
  BY TouchesTwice DEF Along, OnlyRun
<1> QED BY <1>1 DEF Along, OnlyRun, RunIs, Working, Drives, ShownIs, Touches

LEMMA MovesAlong ==
    ASSUME NEW j0, NEW j, NEW i \in Runs, NEW r \in Robots, Along(j0, j, i, r), Working(j, i, r),
           NEW k, k = Moved(j, i)
    PROVE  Along(j0, k, i, r) /\ Working(k, i, r) /\ k.run[i].cursor = j.run[i].cursor
<1>1. JobsShape(j) /\ j.run[i].robot = r
  BY DEF Along, Touches
<1>2. /\ Touches(i, r, j, k) /\ k.run[i] = j.run[i]
      /\ k.session[r] = j.session[r] /\ k.shown[r] = j.shown[r]
      /\ k.pose[r][1] = i
  BY <1>1, PoseIs
<1>3. Touches(i, r, j0, k)
  BY <1>2, TouchesTwice DEF Along
<1> QED BY <1>2, <1>3 DEF Along, Working, Drives, ShownIs, Touches

Passable(run) ==
    run.cursor <= Len(run.program) /\ run.program[run.cursor].kind # "set"

LEMMA PassesAlong ==
    ASSUME NEW j0, NEW j, NEW i \in Runs, NEW r \in Robots, Along(j0, j, i, r), Working(j, i, r),
           HasProgram(j0, i), Passable(j.run[i]), NEW at, NEW k, k = Passed(j, i, at)
    PROVE  Along(j0, k, i, r) /\ Working(k, i, r) /\ k.run[i].cursor = j.run[i].cursor + 1
<1>. DEFINE c == j.run[i].cursor
            p == j.run[i].program
<1>0. c <= Len(p) /\ p[c].kind # "set"
  BY DEF Passable
<1>1. JobsShape(j) /\ j.run[i].robot = r
  BY DEF Along, Touches
<1>2. /\ Touches(i, r, j, k)
      /\ RunIs(k.run[i], c + 1, j.run[i].waiting, j.run[i].tick, j.run[i].end)
      /\ ShownIs(k, r, j.session[r], j.shown[r].state, j.shown[r].run)
      /\ k.pose[r] = j.pose[r]
  BY <1>1, PassedIs
<1>3. Touches(i, r, j0, k)
  BY <1>2, TouchesTwice DEF Along
<1>4. k.run[i].program = p /\ k.run[i].cursor = c + 1
  BY <1>2 DEF Touches, RunIs
<1>5. Working(k, i, r)
  BY <1>2 DEF Working, Drives, ShownIs, RunIs, Touches
<1>6. p = j0.run[i].program /\ Len(p) \in Nat /\ c \in 1..(Len(p) + 1)
        /\ j0.run[i].cursor \in 1..(Len(p) + 1) /\ j0.run[i].cursor <= c
  BY DEF Along, Touches, HasProgram
<1>7. c + 1 \in 1..(Len(p) + 1) /\ j0.run[i].cursor <= c + 1
  BY SMTT(30), <1>0, <1>6
<1>8. NoSets(p, j0.run[i].cursor, c + 1)
  <2>1. \A n \in j0.run[i].cursor..(c - 1) : p[n].kind # "set"
    BY DEF Along, NoSets
  <2>2. ASSUME NEW n \in j0.run[i].cursor..((c + 1) - 1) PROVE p[n].kind # "set"
    <3>1. n = c \/ n \in j0.run[i].cursor..(c - 1)
      BY <1>6
    <3> QED BY <1>0, <2>1, <3>1
  <2> QED BY <2>2 DEF NoSets
<1> QED BY <1>2, <1>3, <1>4, <1>5, <1>7, <1>8 DEF Along

LEMMA StopsAlong ==
    ASSUME NEW j0, NEW j, NEW i \in Runs, NEW r \in Robots, Along(j0, j, i, r), Working(j, i, r),
           NEW k, k = TickTo(j, i, Null)
    PROVE  Along(j0, k, i, r) /\ Halted(k, i, r)
<1>1. JobsShape(j) /\ j.run[i].robot = r
  BY DEF Along, Touches
<1>2. /\ OnlyRun(i, r, j, k)
      /\ RunIs(k.run[i], j.run[i].cursor, j.run[i].waiting, Null, j.run[i].end)
  BY <1>1, TickSet
<1>3. Touches(i, r, j0, k)
  BY <1>2, TouchesTwice DEF Along, OnlyRun
<1> QED BY <1>2, <1>3 DEF Along, OnlyRun, RunIs, Working, Drives, ShownIs, Touches, Halted

LEMMA EndsAlong ==
    ASSUME NEW j0, NEW j, NEW i \in Runs, NEW r \in Robots, Along(j0, j, i, r), Working(j, i, r),
           NEW state, state # "RUNNING", NEW at, NEW e, e = RunEnded(j, i, state, at),
           NEW k, k = TickTo(e, i, Null)
    PROVE  Along(j0, k, i, r) /\ Halted(k, i, r)
<1>1. JobsShape(j) /\ j.run[i].robot = r /\ Drives(j, i, r)
  BY DEF Along, Touches, Working
<1>2. /\ Touches(i, r, j, e) /\ Over(e, i, r) /\ e.pose[r] = j.pose[r]
      /\ e.run[i].cursor = j.run[i].cursor /\ e.run[i].waiting = j.run[i].waiting
      /\ e.run[i].tick = j.run[i].tick
  BY <1>1, RunEndedIs
<1>3. JobsShape(e) /\ e.run[i].robot = r
  BY <1>2 DEF Touches
<1>4. /\ OnlyRun(i, r, e, k)
      /\ RunIs(k.run[i], e.run[i].cursor, e.run[i].waiting, Null, e.run[i].end)
  BY <1>3, TickSet
<1>5. Touches(i, r, j, k)
  BY <1>2, <1>4, TouchesTwice DEF OnlyRun
<1>6. Touches(i, r, j0, k)
  BY <1>5, TouchesTwice DEF Along
<1>7. k.run[i].cursor = j.run[i].cursor /\ k.run[i].waiting = FALSE /\ k.run[i].tick = Null
        /\ k.run[i].program = j.run[i].program /\ k.pose[r] = j.pose[r] /\ Over(k, i, r)
  BY <1>2, <1>4, <1>5 DEF OnlyRun, RunIs, Over, Working, Touches
<1> QED BY <1>6, <1>7 DEF Along, Halted

LEMMA SuspendsAlong ==
    ASSUME NEW j0, NEW j, NEW i \in Runs, NEW r \in Robots, Along(j0, j, i, r), Working(j, i, r),
           NEW c, c = j.run[i].cursor, NEW p, p = j.run[i].program,
           c <= Len(p), p[c].kind \in {"set", "attach"},
           NEW t, NEW e, e = TickTo(j, i, t), NEW k, k = WaitingTo(e, i, TRUE)
    PROVE  Along(j0, k, i, r) /\ Halted(k, i, r)
<1>1. JobsShape(j) /\ j.run[i].robot = r /\ Drives(j, i, r)
  BY DEF Along, Touches, Working
<1>2. /\ OnlyRun(i, r, j, e)
      /\ RunIs(e.run[i], c, j.run[i].waiting, t, j.run[i].end)
  BY <1>1, TickSet
<1>3. JobsShape(e) /\ e.run[i].robot = r
  BY <1>2 DEF OnlyRun, Touches
<1>4. PICK true : true = TRUE
  OBVIOUS
<1>5. k = WaitingTo(e, i, true)
  BY <1>4
<1>6. /\ OnlyRun(i, r, e, k)
      /\ RunIs(k.run[i], e.run[i].cursor, true, e.run[i].tick, e.run[i].end)
  BY <1>3, <1>5, WaitingSet
<1>7. Touches(i, r, j, k)
  BY <1>2, <1>6, TouchesTwice DEF OnlyRun
<1>8. Touches(i, r, j0, k)
  BY <1>7, TouchesTwice DEF Along
<1>9. k.run[i].cursor = c /\ k.run[i].waiting = TRUE /\ k.run[i].program = p
        /\ k.pose[r] = j.pose[r] /\ Drives(k, i, r)
  BY <1>1, <1>2, <1>4, <1>6, <1>7 DEF OnlyRun, RunIs, Drives, ShownIs, Touches
<1> QED BY <1>8, <1>9 DEF Along, Halted, Pauses

(* One turn of the loop.                                                   *)
Turned(j0, i, r, acc, b) ==
    /\ b.going \in BOOLEAN /\ Along(j0, b.j, i, r)
    /\ b.going => Working(b.j, i, r) /\ b.j.run[i].cursor = acc.j.run[i].cursor + 1
    /\ ~b.going => Halted(b.j, i, r)

LEMMA KindIs ==
    ASSUME NEW p \in Seq(Instruction), NEW c \in 1..Len(p)
    PROVE  p[c].kind \in {"move", "set", "attach", "wait", "delay"}
<1>1. p[c] \in Instruction
  OBVIOUS
<1> QED BY <1>1 DEF Instruction

LEMMA TurnIs ==
    ASSUME NEW j0, NEW i \in Runs, NEW r \in Robots, HasProgram(j0, i),
           NEW acc, acc.going = TRUE, NEW a, a = acc.j, Along(j0, a, i, r), Working(a, i, r),
           NEW t, NEW met, NEW b, b = Turn(acc, i, t, met)
    PROVE  Turned(j0, i, r, acc, b)
<1>. DEFINE run == a.run[i]
            p == run.program
            c == run.cursor
            kind == p[c].kind
            done == Entered(run) + p[c].ticks
            j == LastTo(a, i, t)
<1>1. p \in Seq(Instruction) /\ c \in 1..(Len(p) + 1) /\ Len(p) \in Nat
  BY DEF HasProgram, Along, Touches
<1>2. JobsShape(a) /\ run.robot = r
  BY DEF Along, Touches
<1>3. /\ OnlyRun(i, r, a, j)
      /\ RunIs(j.run[i], a.run[i].cursor, a.run[i].waiting, a.run[i].tick, a.run[i].end)
  BY <1>2, LastSet
<1>4. a.run[i].waiting = FALSE
  BY DEF Working
<1>. HIDE DEF j, run, p, c, kind, done
<1>5. Along(j0, j, i, r) /\ Working(j, i, r) /\ j.run[i].cursor = c
  BY <1>3, <1>4, StaysAlong DEF c, run
<1>6. j.run[i].program = p
  BY <1>3 DEF OnlyRun, Touches, p, run
<1>7. CASE c > Len(p)
  <2>. DEFINE e == RunEnded(a, i, "SUCCEEDED", IF run.ready = Null THEN t ELSE run.ready)
              k == TickTo(e, i, Null)
  <2>1. b.j = k /\ b.going = FALSE
    BY Zenon, <1>7 DEF Turn, Stop, TickTo, run, p, c
  <2>2. PICK at : at = IF run.ready = Null THEN t ELSE run.ready
    OBVIOUS
  <2>3. e = RunEnded(a, i, "SUCCEEDED", at)
    BY <2>2
  <2>. HIDE DEF e
  <2>4. Along(j0, k, i, r) /\ Halted(k, i, r)
    <3>1. PICK state : state = "SUCCEEDED"
      OBVIOUS
    <3>2. e = RunEnded(a, i, state, at) /\ state # "RUNNING"
      BY <2>3, <3>1
    <3>. HIDE DEF k
    <3>3. k = TickTo(e, i, Null)
      BY DEF k
    <3> QED BY <3>2, <3>3, EndsAlong
  <2> QED BY Zenon, <2>1, <2>4 DEF Turned, c, run
<1>8. CASE c <= Len(p)
  <2>1. kind \in {"move", "set", "attach", "wait", "delay"} /\ ~(c > Len(p))
    BY <1>1, <1>8, KindIs DEF kind
  <2>2. LastTo(a, i, t) = [acc.j EXCEPT !.run[i].last = t]
    BY DEF LastTo
  <2>3. CASE kind = "move"
    <3>1. kind # "set"
      BY <2>3
    <3>2. CASE ~run.moved
      <4>. DEFINE m == Moved(j, i)
                  n == MovedTo(m, i, TRUE)
                  k == Passed(n, i, Entered(run))
      <4>1. b = Go(k)
        BY <2>1, <2>2, <2>3, <3>2 DEF Turn, MovedTo, j, run, p, c, kind, done
      <4>2. b.j = k /\ b.going = TRUE
        BY <4>1 DEF Go
      <4>3. Along(j0, m, i, r) /\ Working(m, i, r) /\ m.run[i].cursor = c
        BY <1>5, MovesAlong
      <4>. HIDE DEF m
      <4>4. Along(j0, n, i, r) /\ Working(n, i, r) /\ n.run[i].cursor = c
        <5>1. PICK true : true = TRUE
          OBVIOUS
        <5>2. n = MovedTo(m, i, true) /\ JobsShape(m) /\ m.run[i].robot = r
                /\ m.run[i].waiting = FALSE
          BY <4>3, <5>1 DEF Along, Touches, Working
        <5>. HIDE DEF n
        <5>3. /\ OnlyRun(i, r, m, n)
              /\ RunIs(n.run[i], m.run[i].cursor, m.run[i].waiting, m.run[i].tick, m.run[i].end)
          BY <5>2, MovedSet
        <5> QED BY <4>3, <5>2, <5>3, StaysAlong
      <4>. HIDE DEF n
      <4>5. n.run[i].program = p
        BY <4>4, <1>5, <1>6 DEF Along, Touches
      <4>7. Passable(n.run[i])
        BY <1>8, <3>1, <4>4, <4>5 DEF Passable, kind
      <4>6. Along(j0, k, i, r) /\ Working(k, i, r) /\ k.run[i].cursor = c + 1
        BY <4>4, <4>7, PassesAlong
      <4>. HIDE DEF k
      <4> QED BY <4>2, <4>6 DEF Turned, c, run
    <3>3. CASE run.moved
      <4>. DEFINE m == Moved(j, i)
      <4>1. Along(j0, m, i, r) /\ Working(m, i, r) /\ m.run[i].cursor = c
        BY <1>5, MovesAlong
      <4>2. CASE t < done
        <5>. DEFINE k == TickTo(m, i, Null)
        <5>1. b = Stop(m, i)
          BY <2>1, <2>2, <2>3, <3>3, <4>2 DEF Turn, j, run, p, c, kind, done
        <5>2. b.j = k /\ b.going = FALSE
          BY <5>1 DEF Stop, TickTo
        <5>. HIDE DEF m
        <5>3. Along(j0, k, i, r) /\ Halted(k, i, r)
          BY SMTT(30), <4>1, StopsAlong
        <5>. HIDE DEF k
        <5> QED BY <5>2, <5>3 DEF Turned, c, run
      <4>3. CASE ~(t < done)
        <5>. DEFINE k == Passed(m, i, done)
        <5>1. b = Go(k)
          BY <2>1, <2>2, <2>3, <3>3, <4>3 DEF Turn, j, run, p, c, kind, done
        <5>2. b.j = k /\ b.going = TRUE
          BY <5>1 DEF Go
        <5>. HIDE DEF m
        <5>3. m.run[i].program = p
          BY <4>1, <1>5, <1>6 DEF Along, Touches
        <5>5. Passable(m.run[i])
          BY <1>8, <3>1, <4>1, <5>3 DEF Passable, kind
        <5>6. PICK at : at = done
          OBVIOUS
        <5>7. k = Passed(m, i, at)
          BY <5>6
        <5>. HIDE DEF k
        <5>4. Along(j0, k, i, r) /\ Working(k, i, r) /\ k.run[i].cursor = c + 1
          BY SMTT(30), <4>1, <5>5, <5>7, PassesAlong
        <5>. HIDE DEF k
        <5> QED BY <5>2, <5>4 DEF Turned, c, run
      <4> QED BY <4>2, <4>3
    <3> QED BY <3>2, <3>3
  <2>4. CASE kind \in {"set", "attach"}
    <3>. DEFINE e == TickTo(j, i, t)
                k == WaitingTo(e, i, TRUE)
    <3>1. b = Suspend(j, i, t)
      BY Zenon, <2>1, <2>2, <2>4 DEF Turn, j, run, p, c, kind, done
    <3>2. b.j = k /\ b.going = FALSE
      BY <3>1 DEF Suspend, TickTo, WaitingTo
    <3>3. Along(j0, k, i, r) /\ Halted(k, i, r)
      BY <1>5, <1>6, <1>8, <2>4, SuspendsAlong DEF kind
    <3>. HIDE DEF k
    <3> QED BY <3>2, <3>3 DEF Turned, c, run
  <2>5. CASE kind = "wait"
    <3>1. kind # "set"
      BY <2>5
    <3>2. CASE met
      <4>. DEFINE k == Passed(j, i, t)
      <4>1. b = Go(k)
        BY <2>1, <2>2, <2>5, <3>2 DEF Turn, j, run, p, c, kind, done
      <4>2. b.j = k /\ b.going = TRUE
        BY <4>1 DEF Go
      <4>4. Passable(j.run[i])
        BY <1>5, <1>6, <1>8, <3>1 DEF Passable, kind
      <4>3. Along(j0, k, i, r) /\ Working(k, i, r) /\ k.run[i].cursor = c + 1
        BY SMTT(30), <1>5, <4>4, PassesAlong
      <4>. HIDE DEF k
      <4> QED BY <4>2, <4>3 DEF Turned, c, run
    <3>3. CASE ~met /\ t >= done
      <4>. DEFINE e == RunEnded(j, i, "FAILED", done)
                  k == TickTo(e, i, Null)
      <4>1. b = Stop(e, i)
        BY <2>1, <2>2, <2>5, <3>3 DEF Turn, j, run, p, c, kind, done
      <4>3. PICK state : state = "FAILED"
        OBVIOUS
      <4>4. e = RunEnded(j, i, state, done) /\ state # "RUNNING"
        BY <4>3
      <4>. HIDE DEF e
      <4>2. b.j = k /\ b.going = FALSE
        BY <4>1 DEF Stop, TickTo
      <4>5. Along(j0, k, i, r) /\ Halted(k, i, r)
        BY SMTT(30), <1>5, <4>4, EndsAlong
      <4>. HIDE DEF k
      <4> QED BY <4>2, <4>5 DEF Turned, c, run
    <3>4. CASE ~met /\ ~(t >= done)
      <4>. DEFINE k == TickTo(j, i, Null)
      <4>1. b = Stop(j, i)
        BY <2>1, <2>2, <2>5, <3>4 DEF Turn, j, run, p, c, kind, done
      <4>2. b.j = k /\ b.going = FALSE
        BY <4>1 DEF Stop, TickTo
      <4>3. Along(j0, k, i, r) /\ Halted(k, i, r)
        BY SMTT(30), <1>5, StopsAlong
      <4>. HIDE DEF k
      <4> QED BY <4>2, <4>3 DEF Turned, c, run
    <3> QED BY <3>2, <3>3, <3>4
  <2>6. CASE kind = "delay"
    <3>1. kind # "set"
      BY <2>6
    <3>2. CASE t < done
      <4>. DEFINE k == TickTo(j, i, Null)
      <4>1. b = Stop(j, i)
        BY SMTT(30), <2>1, <2>2, <2>6, <3>2 DEF Turn, j, run, p, c, kind, done
      <4>2. b.j = k /\ b.going = FALSE
        BY <4>1 DEF Stop, TickTo
      <4>3. Along(j0, k, i, r) /\ Halted(k, i, r)
        BY SMTT(30), <1>5, StopsAlong
      <4>. HIDE DEF k
      <4> QED BY <4>2, <4>3 DEF Turned, c, run
    <3>3. CASE ~(t < done)
      <4>. DEFINE k == Passed(j, i, done)
      <4>1. b = Go(k)
        BY <2>1, <2>2, <2>6, <3>3 DEF Turn, j, run, p, c, kind, done
      <4>2. b.j = k /\ b.going = TRUE
        BY <4>1 DEF Go
      <4>4. Passable(j.run[i])
        BY <1>5, <1>6, <1>8, <3>1 DEF Passable, kind
      <4>6. PICK at : at = done
        OBVIOUS
      <4>7. k = Passed(j, i, at)
        BY <4>6
      <4>. HIDE DEF k
      <4>3. Along(j0, k, i, r) /\ Working(k, i, r) /\ k.run[i].cursor = c + 1
        BY SMTT(30), <1>5, <4>4, <4>7, PassesAlong
      <4>. HIDE DEF k
      <4> QED BY <4>2, <4>3 DEF Turned, c, run
    <3> QED BY <3>2, <3>3
  <2> QED BY <2>1, <2>3, <2>4, <2>5, <2>6
<1> QED BY <1>1, <1>7, <1>8

(* The turns of one call, as an instance of the induction over folds: c    *)
(* has what the call is about.  There are enough of them to come to a      *)
(* halt, since each that goes on has passed an instruction.                *)
TurnNext(c, acc, k) == Turn(acc, c.i, c.t, c.met)

TurnedTo(c, k, acc) ==
    /\ acc.going \in BOOLEAN /\ Along(c.j, acc.j, c.i, c.r)
    /\ acc.going => Working(acc.j, c.i, c.r) /\ acc.j.run[c.i].cursor = c.j.run[c.i].cursor + k
    /\ ~acc.going => Halted(acc.j, c.i, c.r)

Loop == INSTANCE FoldInduction WITH Op <- TurnNext, P <- TurnedTo

LEMMA ExecutedIs ==
    ASSUME NEW j, JobsShape(j), NEW i \in Runs, NEW r \in Robots, HasProgram(j, i),
           Working(j, i, r), NEW t, NEW met, NEW k, k = Executed(j, i, t, met)
    PROVE  Along(j, k, i, r) /\ Halted(k, i, r)
<1>. DEFINE n == Len(j.run[i].program) - j.run[i].cursor + 2
            s == [m \in 1..n |-> m]
            c == [j |-> j, i |-> i, r |-> r, t |-> t, met |-> met]
<1>1. n \in Nat /\ j.run[i].robot = r
  BY DEF HasProgram, Working, Drives
<1>2. c.j = j /\ c.i = i /\ c.r = r /\ c.t = t /\ c.met = met /\ DOMAIN s = 1..n
  OBVIOUS
<1>3. k = Loop!Fold(c, Go(j), s).j
  <2>1. Authoritative(j, i)
    BY <1>1 DEF Authoritative, Working, Drives, ShownIs
  <2>2. k = FoldLeft(LAMBDA acc, m : Turn(acc, i, t, met), Go(j), s).j
    BY <2>1 DEF Executed
  <2> QED BY <1>2, <2>2 DEF Loop!Fold, Loop!Iterates, FoldLeft, MapThenFoldSet, Loop!Max, Max,
             TurnNext
<1>. HIDE DEF c, s
<1>4. TurnedTo(c, 0, Go(j))
  <2>1. Along(j, j, i, r)
    <3>1. Touches(i, r, j, j)
      BY <1>1 DEF Touches
    <3>2. NoSets(j.run[i].program, j.run[i].cursor, j.run[i].cursor)
      BY DEF NoSets, HasProgram
    <3> QED BY <3>1, <3>2 DEF Along, HasProgram
  <2>2. Go(j).going = TRUE /\ Go(j).j = j
    BY DEF Go
  <2>3. j.run[i].cursor = j.run[i].cursor + 0
    BY DEF HasProgram
  <2> QED BY <1>2, <2>1, <2>2, <2>3 DEF TurnedTo
<1>5. ASSUME NEW m \in 1..n, NEW acc, TurnedTo(c, m - 1, acc)
      PROVE  TurnedTo(c, m, TurnNext(c, acc, s[m]))
  <2>1. PICK b : b = Turn(acc, i, t, met)
    OBVIOUS
  <2>2. TurnNext(c, acc, s[m]) = b
    BY <1>2, <2>1 DEF TurnNext
  <2>3. acc.going \in BOOLEAN /\ Along(j, acc.j, i, r)
    BY <1>2, <1>5 DEF TurnedTo
  <2>4. CASE acc.going = TRUE
    <3>1. PICK a : a = acc.j
      OBVIOUS
    <3>2. Working(a, i, r) /\ a.run[i].cursor = j.run[i].cursor + (m - 1)
      BY <1>2, <1>5, <2>4, <3>1 DEF TurnedTo
    <3>3. Along(j, a, i, r)
      BY <2>3, <3>1
    <3>4. Turned(j, i, r, acc, b)
      BY <2>1, <2>4, <3>1, <3>2, <3>3, TurnIs
    <3>5. j.run[i].cursor + (m - 1) + 1 = j.run[i].cursor + m
      BY DEF HasProgram
    <3> QED BY <1>2, <2>2, <3>1, <3>2, <3>4, <3>5 DEF Turned, TurnedTo
  <2>5. CASE acc.going = FALSE
    <3>1. b = acc
      BY Zenon, <2>1, <2>5 DEF Turn
    <3> QED BY SMTT(30), <1>2, <1>5, <2>2, <2>5, <3>1 DEF TurnedTo
  <2> QED BY <2>3, <2>4, <2>5
<1>6. TurnedTo(c, n, Loop!Fold(c, Go(j), s))
  <2>. HIDE DEF TurnedTo, TurnNext, n
  <2> QED BY <1>1, <1>2, <1>4, <1>5, Loop!FoldLeftInduction
<1>7. PICK acc : acc = Loop!Fold(c, Go(j), s)
  OBVIOUS
<1>8. TurnedTo(c, n, acc) /\ k = acc.j
  BY <1>3, <1>6, <1>7
<1>9. Along(j, k, i, r) /\ acc.going \in BOOLEAN
  BY <1>2, <1>8 DEF TurnedTo
<1>10. ~acc.going
  <2>1. SUFFICES ASSUME acc.going PROVE FALSE
    OBVIOUS
  <2>2. k.run[i].cursor = j.run[i].cursor + n
    BY <1>2, <1>8, <2>1 DEF TurnedTo
  <2>3. k.run[i].cursor \in 1..(Len(j.run[i].program) + 1)
    BY <1>9 DEF Along, Touches
  <2> QED BY <2>2, <2>3 DEF HasProgram
<1> QED BY <1>2, <1>8, <1>9, <1>10 DEF TurnedTo

-----------------------------------------------------------------------------
(* What the jobs of a page keep.                                           *)

(* A run that was issued has a place in its program; between two ticks it  *)
(* waits for nothing, or stands at an instruction that suspends a tick.    *)
RunOK(j, i) ==
    \/ j.run[i] = NoRun
    \/ /\ j.run[i].robot \in Robots /\ HasProgram(j, i)
       /\ Pauses(j.run[i]) \/ (j.run[i].waiting = FALSE /\ j.run[i].tick = Null)

(* What a robot shows is what it does.                                     *)
RobotOK(j, r) ==
    \/ j.session[r] = Null /\ j.shown[r].state # "RUNNING"
    \/ j.session[r] \in Runs /\ Drives(j, j.session[r], r)

(* The advance that a suspended run holds, which a quiesce waits for.      *)
SlotOK(j, r) ==
    j.session[r] \in Runs /\ j.run[j.session[r]].waiting =>
        /\ j.slot[r].run = j.session[r]
        /\ j.quiesced => j.session[r] \in j.settling

JobsCore(j) ==
    /\ JobsShape(j)
    /\ \A i \in Runs : RunOK(j, i)
    /\ \A r \in Robots : RobotOK(j, r) /\ SlotOK(j, r)
    /\ j.disposed => j.quiesced

(* A robot that runs has a frame on order.                                 *)
FrameOK(j) == \A r \in Robots : j.shown[r].state = "RUNNING" => j.frame \/ j.quiesced

JobsOK(j) == JobsCore(j) /\ FrameOK(j)

(* What an operation may do to a run: its end and then its place stand; a  *)
(* run that waits stays where it is, and one that does not goes past no    *)
(* instruction of kind "set", and moves only while it is in force.         *)
RunKeeps(j, k, i) ==
    /\ k.run[i].robot = j.run[i].robot /\ k.run[i].program = j.run[i].program
    /\ j.run[i].end # Null => /\ k.run[i].end = j.run[i].end
                              /\ k.run[i].cursor = j.run[i].cursor

RunSteps(j, k, i) ==
    \/ k.run[i].cursor = j.run[i].cursor /\ k.run[i].waiting = j.run[i].waiting
    \/ /\ j.session[j.run[i].robot] = i /\ j.run[i].waiting = FALSE
       /\ j.run[i].cursor <= k.run[i].cursor
       /\ NoSets(j.run[i].program, j.run[i].cursor, k.run[i].cursor)

(* And to a robot, unless it starts a run of it.                           *)
RobotKeeps(j, k, r) ==
    /\ k.session[r] \in {j.session[r], Null}
    /\ \/ k.pose[r] = j.pose[r]
       \/ j.shown[r].state = "RUNNING" /\ j.shown[r].run = k.pose[r][1]
    /\ k.shown[r].state = "RUNNING" =>
          j.shown[r].state = "RUNNING" /\ j.shown[r].run = k.shown[r].run
    /\ j.shown[r].state # "RUNNING" => k.shown[r] = j.shown[r] \/ k.shown[r].state = "IDLE"

(* The runs of S take such steps; the others only keep what is over.       *)
Keeps(j, k, S) ==
    /\ \A i \in Runs : /\ j.run[i] = NoRun => k.run[i] = NoRun
                       /\ j.run[i] # NoRun => k.run[i] # NoRun /\ RunKeeps(j, k, i)
    /\ \A i \in S : j.run[i] # NoRun => RunSteps(j, k, i)
    /\ \A r \in Robots : RobotKeeps(j, k, r)

(* The playback is in force, quiesced or disposed of as before.            *)
Same(j, k) ==
    k.quiesced = j.quiesced /\ k.disposed = j.disposed /\ k.settling \subseteq j.settling

Goes(j, k, S) == JobsCore(k) /\ Keeps(j, k, S) /\ Same(j, k)

LEMMA IssuedHasRobot ==
    ASSUME NEW j, NEW i \in Runs, RunOK(j, i)
    PROVE  j.run[i] # NoRun <=> j.run[i].robot \in Robots
<1>1. NoRun.robot = Null
  BY DEF NoRun, NewRun
<1> QED BY <1>1, RunsAssumption DEF RunOK

LEMMA RunStepsTwice ==
    ASSUME NEW j, NEW k, NEW l, NEW i \in Runs, j.run[i].robot \in Robots,
           HasProgram(j, i), HasProgram(k, i), HasProgram(l, i),
           RunKeeps(j, k, i), RunSteps(j, k, i), RunSteps(k, l, i),
           \A r \in Robots : RobotKeeps(j, k, r)
    PROVE  RunSteps(j, l, i)
<1>1. k.run[i].robot = j.run[i].robot /\ k.run[i].program = j.run[i].program
  BY DEF RunKeeps
<1>2. k.session[j.run[i].robot] = i => j.session[j.run[i].robot] = i
  <2>1. RobotKeeps(j, k, j.run[i].robot) /\ i # Null
    BY RunsAssumption
  <2> QED BY <2>1 DEF RobotKeeps
<1>3. j.run[i].cursor \in Nat /\ k.run[i].cursor \in Nat /\ l.run[i].cursor \in Nat
  BY SMTT(30) DEF HasProgram
<1>4. CASE k.run[i].cursor = j.run[i].cursor /\ k.run[i].waiting = j.run[i].waiting
  BY <1>1, <1>2, <1>4 DEF RunSteps
<1>5. CASE /\ j.session[j.run[i].robot] = i /\ j.run[i].waiting = FALSE
           /\ j.run[i].cursor <= k.run[i].cursor
           /\ NoSets(j.run[i].program, j.run[i].cursor, k.run[i].cursor)
  <2>1. CASE l.run[i].cursor = k.run[i].cursor
    BY <1>5, <2>1 DEF RunSteps
  <2>2. CASE /\ k.run[i].cursor <= l.run[i].cursor
             /\ NoSets(k.run[i].program, k.run[i].cursor, l.run[i].cursor)
    <3>1. NoSets(j.run[i].program, j.run[i].cursor, l.run[i].cursor)
      <4>1. ASSUME NEW n \in j.run[i].cursor..(l.run[i].cursor - 1)
            PROVE  j.run[i].program[n].kind # "set"
        <5>1. n \in j.run[i].cursor..(k.run[i].cursor - 1)
                \/ n \in k.run[i].cursor..(l.run[i].cursor - 1)
          BY <1>3
        <5> QED BY <1>1, <1>5, <2>2, <5>1 DEF NoSets
      <4> QED BY <4>1 DEF NoSets
    <3>2. j.run[i].cursor <= l.run[i].cursor
      BY <1>3, <1>5, <2>2
    <3> QED BY <1>5, <3>1, <3>2 DEF RunSteps
  <2> QED BY <2>1, <2>2 DEF RunSteps
<1> QED BY <1>4, <1>5 DEF RunSteps

LEMMA RobotKeepsTwice ==
    ASSUME NEW j, NEW k, NEW l, NEW r \in Robots, RobotKeeps(j, k, r), RobotKeeps(k, l, r)
    PROVE  RobotKeeps(j, l, r)
  BY DEF RobotKeeps

LEMMA GoesTwice ==
    ASSUME NEW j, JobsCore(j), NEW k, NEW l, NEW S \in SUBSET Runs, Goes(j, k, S), Goes(k, l, S)
    PROVE  Goes(j, l, S)
<1>1. \A r \in Robots : RobotKeeps(j, k, r) /\ RobotKeeps(k, l, r)
  BY DEF Goes, Keeps
<1>2. \A r \in Robots : RobotKeeps(j, l, r)
  BY <1>1, RobotKeepsTwice
<1>3. ASSUME NEW i \in Runs
      PROVE  /\ j.run[i] = NoRun => l.run[i] = NoRun
             /\ j.run[i] # NoRun => l.run[i] # NoRun /\ RunKeeps(j, l, i)
  BY DEF Goes, Keeps, RunKeeps
<1>4. ASSUME NEW i \in S, j.run[i] # NoRun PROVE RunSteps(j, l, i)
  <2>1. i \in Runs /\ k.run[i] # NoRun /\ l.run[i] # NoRun
    BY <1>4 DEF Goes, Keeps
  <2>2. RunOK(j, i) /\ RunOK(k, i) /\ RunOK(l, i)
    BY <2>1 DEF Goes, JobsCore
  <2>3. j.run[i].robot \in Robots /\ HasProgram(j, i) /\ HasProgram(k, i) /\ HasProgram(l, i)
    BY <1>4, <2>1, <2>2 DEF RunOK
  <2>4. RunKeeps(j, k, i) /\ RunSteps(j, k, i) /\ RunSteps(k, l, i)
    BY <1>4, <2>1 DEF Goes, Keeps
  <2> QED BY <1>1, <2>1, <2>3, <2>4, RunStepsTwice
<1>5. JobsCore(l) /\ Same(j, l)
  BY DEF Goes, Same
<1> QED BY <1>2, <1>3, <1>4, <1>5 DEF Goes, Keeps

(* Nothing happens.                                                        *)
LEMMA GoesNowhere ==
    ASSUME NEW j, JobsCore(j), NEW S \in SUBSET Runs
    PROVE  Goes(j, j, S)
<1>1. \A i \in Runs : RunKeeps(j, j, i) /\ RunSteps(j, j, i)
  BY DEF RunKeeps, RunSteps
<1>2. \A r \in Robots : RobotKeeps(j, j, r)
  BY DEF RobotKeeps
<1> QED BY <1>1, <1>2 DEF Goes, Keeps, Same

(* One run is touched, and its robot.                                      *)
LEMMA TouchedGoes ==
    ASSUME NEW j, JobsCore(j), NEW i \in Runs, NEW r \in Robots, j.run[i].robot = r,
           NEW k, Touches(i, r, j, k), RunOK(k, i), RobotOK(k, r), SlotOK(k, r),
           RunKeeps(j, k, i), RobotKeeps(j, k, r),
           NEW S \in SUBSET Runs, i \in S => RunSteps(j, k, i)
    PROVE  Goes(j, k, S)
<1>1. \A h \in Runs : h # i => k.run[h] = j.run[h]
  BY DEF Touches
<1>2. \A q \in Robots : q # r => /\ k.session[q] = j.session[q]
                                 /\ k.shown[q] = j.shown[q] /\ k.pose[q] = j.pose[q]
  BY DEF Touches
<1>3. k.slot = j.slot /\ k.settling = j.settling /\ k.quiesced = j.quiesced
        /\ k.disposed = j.disposed /\ k.run[i].robot = r
  BY DEF Touches
<1>4. \A h \in Runs : RunOK(k, h)
  <2>1. ASSUME NEW h \in Runs, h # i PROVE RunOK(k, h)
    <3>1. RunOK(j, h) /\ k.run[h] = j.run[h]
      BY <1>1, <2>1 DEF JobsCore
    <3> QED BY <3>1 DEF RunOK, HasProgram
  <2> QED BY <2>1
<1>5. ASSUME NEW q \in Robots PROVE RobotOK(k, q) /\ SlotOK(k, q) /\ RobotKeeps(j, k, q)
  <2>1. CASE q = r
    BY <2>1
  <2>2. CASE q # r
    <3>1. RobotOK(j, q) /\ SlotOK(j, q)
      BY DEF JobsCore
    <3>2. k.session[q] = j.session[q] /\ k.shown[q] = j.shown[q] /\ k.pose[q] = j.pose[q]
      BY <1>2, <2>2
    <3>3. RobotKeeps(j, k, q)
      BY <3>2 DEF RobotKeeps
    <3>4. CASE j.session[q] = Null /\ j.shown[q].state # "RUNNING"
      BY <3>2, <3>3, <3>4, RunsAssumption DEF RobotOK, SlotOK
    <3>5. CASE j.session[q] \in Runs /\ Drives(j, j.session[q], q)
      <4>1. PICK h \in Runs : h = j.session[q]
        BY <3>5
      <4>2. h # i
        BY <2>2, <3>5, <4>1 DEF Drives
      <4>3. k.run[h] = j.run[h]
        BY <1>1, <4>2
      <4> QED BY <1>3, <3>1, <3>2, <3>3, <3>5, <4>1, <4>3 DEF RobotOK, SlotOK, Drives, ShownIs
    <3> QED BY <3>1, <3>4, <3>5 DEF RobotOK
  <2> QED BY <2>1, <2>2
<1>6. JobsCore(k)
  <2>1. JobsShape(k)
    BY DEF Touches
  <2>2. k.disposed => k.quiesced
    BY <1>3 DEF JobsCore
  <2> QED BY <1>4, <1>5, <2>1, <2>2 DEF JobsCore
<1>7. ASSUME NEW h \in Runs
      PROVE  /\ j.run[h] = NoRun => k.run[h] = NoRun
             /\ j.run[h] # NoRun => k.run[h] # NoRun /\ RunKeeps(j, k, h)
             /\ h \in S => RunSteps(j, k, h)
  <2>1. CASE h # i
    BY <1>1, <2>1 DEF RunKeeps, RunSteps
  <2>2. CASE h = i
    <3>1. j.run[i] # NoRun /\ k.run[i] # NoRun
      <4>1. RunOK(j, i)
        BY DEF JobsCore
      <4> QED BY <1>3, <4>1, IssuedHasRobot
    <3> QED BY <2>2, <3>1
  <2> QED BY <2>1, <2>2
<1>8. Same(j, k)
  BY <1>3 DEF Same
<1> QED BY <1>5, <1>6, <1>7, <1>8 DEF Goes, Keeps

(* Only the playback changes: its frame, its times and its advances.       *)
Playback(j, k) ==
    /\ JobsShape(k)
    /\ k.run = j.run /\ k.session = j.session /\ k.shown = j.shown /\ k.pose = j.pose
    /\ Same(j, k)

LEMMA PlaybackGoes ==
    ASSUME NEW j, JobsCore(j), NEW k, Playback(j, k), \A r \in Robots : SlotOK(k, r),
           NEW S \in SUBSET Runs
    PROVE  Goes(j, k, S)
<1>1. \A i \in Runs : RunOK(k, i) /\ RunKeeps(j, k, i) /\ RunSteps(j, k, i)
  BY DEF Playback, JobsCore, RunOK, HasProgram, RunKeeps, RunSteps
<1>2. \A r \in Robots : RobotOK(k, r) /\ RobotKeeps(j, k, r)
  BY DEF Playback, Same, JobsCore, RobotOK, RobotKeeps, Drives, ShownIs
<1>3. k.disposed => k.quiesced
  BY DEF Playback, Same, JobsCore
<1> QED BY <1>1, <1>2, <1>3 DEF Playback, JobsCore, Goes, Keeps

(* A frame on order, or no less than before.                               *)
LEMMA FrameGoes ==
    ASSUME NEW j, FrameOK(j), NEW k, NEW S, Goes(j, k, S), k.frame = j.frame
    PROVE  FrameOK(k)
  BY DEF FrameOK, Goes, Keeps, RobotKeeps, Same

LEMMA EnsureRunningGoes ==
    ASSUME NEW j, JobsCore(j), NEW S \in SUBSET Runs
    PROVE  /\ Goes(j, EnsureRunning(j), S) /\ FrameOK(EnsureRunning(j))
           /\ Playback(j, EnsureRunning(j))
<1>1. CASE j.disposed \/ j.quiesced \/ Running(j) = {}
  <2>1. EnsureRunning(j) = j
    BY <1>1 DEF EnsureRunning
  <2>2. FrameOK(j)
    BY <1>1 DEF FrameOK, Running, JobsCore
  <2>3. Playback(j, j)
    BY DEF Playback, Same, JobsCore
  <2> QED BY <2>1, <2>2, <2>3, GoesNowhere
<1>2. CASE ~(j.disposed \/ j.quiesced \/ Running(j) = {})
  <2>1. PICK k : k = [j EXCEPT !.frame = TRUE]
    OBVIOUS
  <2>2. EnsureRunning(j) = k
    BY <1>2, <2>1 DEF EnsureRunning
  <2>3. k = [f \in JobFields |-> IF f = "frame" THEN TRUE ELSE j[f]]
    BY <2>1 DEF JobsCore, JobsShape, JobFields
  <2>4. /\ k = [f \in JobFields |-> k[f]] /\ k.frame = TRUE
        /\ k.run = j.run /\ k.session = j.session /\ k.shown = j.shown /\ k.pose = j.pose
        /\ k.slot = j.slot /\ k.settling = j.settling
        /\ k.quiesced = j.quiesced /\ k.disposed = j.disposed
    BY <2>3 DEF JobFields
  <2>5. Playback(j, k)
    BY ZenonT(30), <2>4 DEF Playback, Same, JobsCore, JobsShape
  <2>6. \A r \in Robots : SlotOK(k, r)
    BY <2>4 DEF JobsCore, SlotOK
  <2>7. FrameOK(k)
    BY <2>4 DEF FrameOK
  <2> QED BY <2>2, <2>5, <2>6, <2>7, PlaybackGoes
<1> QED BY <1>1, <1>2

(* The advance of robot r becomes a, and the times are what they may be.   *)
AdvanceIs(j, k, r, a) ==
    /\ k = [f \in JobFields |-> k[f]]
    /\ k.slot = [q \in Robots |-> IF q = r THEN a ELSE j.slot[q]]
    /\ k.run = j.run /\ k.session = j.session /\ k.shown = j.shown /\ k.pose = j.pose
    /\ k.frame = j.frame /\ k.quiesced = j.quiesced /\ k.disposed = j.disposed
    /\ k.settling = j.settling

LEMMA AdvanceSet ==
    ASSUME NEW j, JobsShape(j), NEW r \in Robots,
           NEW a, AdvanceRecord(a), a.run \in Runs \cup {Null}, NEW k, AdvanceIs(j, k, r, a)
    PROVE  /\ Playback(j, k) /\ k.slot[r] = a
           /\ \A q \in Robots : q # r => k.slot[q] = j.slot[q]
<1>. USE DEF AdvanceIs
<1>1. /\ k.slot[r] = a /\ k.slot = [q \in Robots |-> k.slot[q]]
      /\ \A q \in Robots : q # r => k.slot[q] = j.slot[q]
  OBVIOUS
<1>2. \A q \in Robots : AdvanceRecord(k.slot[q]) /\ k.slot[q].run \in Runs \cup {Null}
  <2>. SUFFICES ASSUME NEW q \in Robots
                PROVE  AdvanceRecord(k.slot[q]) /\ k.slot[q].run \in Runs \cup {Null}
    OBVIOUS
  <2>1. AdvanceRecord(j.slot[q]) /\ j.slot[q].run \in Runs \cup {Null}
    BY DEF JobsShape
  <2> QED BY <1>1, <2>1
<1>3. JobsShape(k)
  BY <1>1, <1>2 DEF JobsShape
<1> QED BY <1>1, <1>3 DEF Playback, Same

LEMMA NoAdvanceIs ==
    AdvanceRecord(NoAdvance) /\ NoAdvance.run = Null /\ NoAdvance.next = Null
  BY DEF AdvanceRecord, NoAdvance

(* No advance: what it held was of a run that is not in the middle of one. *)
LEMMA AdvanceFreed ==
    ASSUME NEW j, JobsCore(j), NEW r \in Robots,
           j.session[r] \in Runs => j.run[j.session[r]].waiting = FALSE,
           NEW a, a = NoAdvance, NEW k, AdvanceIs(j, k, r, a), NEW S \in SUBSET Runs
    PROVE  Goes(j, k, S)
<1>1. JobsShape(j) /\ AdvanceRecord(a) /\ a.run \in Runs \cup {Null}
  BY NoAdvanceIs DEF JobsCore
<1>2. Playback(j, k) /\ \A q \in Robots : q # r => k.slot[q] = j.slot[q]
  BY <1>1, AdvanceSet
<1>3. ASSUME NEW q \in Robots PROVE SlotOK(k, q)
  <2>1. CASE q = r
    BY <2>1 DEF AdvanceIs, SlotOK
  <2>2. CASE q # r
    <3>1. SlotOK(j, q)
      BY DEF JobsCore
    <3> QED BY <1>2, <2>2, <3>1 DEF SlotOK, AdvanceIs
  <2> QED BY <2>1, <2>2
<1> QED BY <1>2, <1>3, PlaybackGoes

(* The run i of robot r after a tick.                                      *)
Ticked(k, i, r) == k.run[i].waiting \in BOOLEAN /\ k.session[r] \in {Null, i}

(* The tick that holds the advance: the run that is in force goes on until *)
(* it has to wait.                                                         *)
LEMMA ExecutedGoes ==
    ASSUME NEW j, JobsCore(j), NEW i \in Runs, NEW r \in Robots, Working(j, i, r),
           j.slot[r].run = i, j.quiesced = FALSE,
           NEW t, NEW met, NEW k, k = Executed(j, i, t, met), NEW S \in SUBSET Runs
    PROVE  Goes(j, k, S) /\ Ticked(k, i, r)
<1>1. RunOK(j, i) /\ j.run[i].robot = r /\ JobsShape(j)
  BY DEF JobsCore, Working, Drives
<1>2. j.run[i] # NoRun
  BY <1>1, IssuedHasRobot
<1>3. HasProgram(j, i)
  BY <1>1, <1>2 DEF RunOK
<1>4. Along(j, k, i, r) /\ Halted(k, i, r)
  BY <1>1, <1>3, ExecutedIs
<1>5. Touches(i, r, j, k) /\ k.run[i].program = j.run[i].program /\ k.run[i].robot = r
        /\ k.slot = j.slot /\ k.frame = j.frame /\ k.quiesced = FALSE
  BY <1>4 DEF Along, Touches
<1>6. RunOK(k, i)
  <2>1. HasProgram(k, i)
    BY <1>3, <1>4, <1>5 DEF HasProgram, Along
  <2> QED BY <1>4, <1>5, <2>1 DEF RunOK, Halted
<1>7. RobotOK(k, r) /\ (k.session[r] = Null \/ k.session[r] = i)
  BY <1>4 DEF Halted, RobotOK, Over, Drives, ShownIs
<1>8. SlotOK(k, r)
  BY <1>5, <1>7, RunsAssumption DEF SlotOK
<1>9. RunKeeps(j, k, i) /\ RunSteps(j, k, i)
  BY <1>1, <1>4, <1>5 DEF RunKeeps, RunSteps, Along, Working, Drives, ShownIs
<1>10. RobotKeeps(j, k, r)
  BY <1>4 DEF RobotKeeps, Along, Halted, Over, Working, Drives, ShownIs
<1>11. k.run[i].waiting \in BOOLEAN
  BY <1>4 DEF Halted, Pauses
<1>12. Goes(j, k, S)
  BY <1>1, <1>5, <1>6, <1>7, <1>8, <1>9, <1>10, TouchedGoes
<1> QED BY <1>7, <1>11, <1>12 DEF Ticked

(* A slot that has no advance holds no run in the middle of one.           *)
LEMMA FreeSlotIdle ==
    ASSUME NEW j, JobsCore(j), NEW r \in Robots, j.slot[r].run = Null, j.session[r] \in Runs
    PROVE  j.run[j.session[r]].waiting = FALSE
<1>1. SlotOK(j, r) /\ RobotOK(j, r) /\ RunOK(j, j.session[r]) /\ j.session[r] # Null
  BY RunsAssumption DEF JobsCore
<1>2. j.run[j.session[r]].robot = r
  BY <1>1 DEF RobotOK, Drives
<1>3. j.run[j.session[r]] # NoRun
  BY <1>1, <1>2, IssuedHasRobot
<1> QED BY <1>1, <1>3 DEF RunOK, Pauses, SlotOK

SlotTo(j, r, a) == [j EXCEPT !.slot[r] = a]

LEMMA SlotToIs ==
    ASSUME NEW j, JobsShape(j), NEW r \in Robots, NEW a, NEW k, k = SlotTo(j, r, a)
    PROVE  AdvanceIs(j, k, r, a)
<1>1. /\ j = [f \in JobFields |-> j[f]] /\ j.slot = [q \in Robots |-> j.slot[q]]
  BY DEF JobsShape
<1>2. k = [f \in JobFields |-> IF f = "slot" THEN [q \in Robots |-> IF q = r THEN a ELSE j.slot[q]]
                               ELSE j[f]]
  BY <1>1 DEF SlotTo, JobFields
<1> QED BY <1>2 DEF AdvanceIs, JobFields

LEMMA LaunchedGoes ==
    ASSUME NEW j, JobsCore(j), NEW r \in Robots, NEW t, NEW met, NEW k, k = Launched(j, r, t, met),
           NEW S \in SUBSET Runs
    PROVE  Goes(j, k, S)
<1>0. JobsShape(j) /\ SlotOK(j, r) /\ RobotOK(j, r)
  BY DEF JobsCore
<1>1. PICK i : i = j.session[r]
  OBVIOUS
<1>2. j = [f \in JobFields |-> j[f]] /\ j.slot = [q \in Robots |-> j.slot[q]]
        /\ j.quiesced \in BOOLEAN /\ AdvanceRecord(j.slot[r]) /\ j.slot[r].run \in Runs \cup {Null}
        /\ i \in Runs \cup {Null}
  BY <1>0, <1>1 DEF JobsShape
<1>3. CASE j.disposed \/ j.quiesced
  BY <1>3, GoesNowhere DEF Launched
<1>4. CASE ~(j.disposed \/ j.quiesced) /\ j.slot[r] # NoAdvance
  <2>1. PICK next : next = AtLeast(j.slot[r].next, t)
    OBVIOUS
  <2>2. PICK a : a = [j.slot[r] EXCEPT !.next = next]
    OBVIOUS
  <2>3. AdvanceRecord(a) /\ a.run = j.slot[r].run
    <3>1. a = [f \in {"run", "next"} |-> IF f = "next" THEN next ELSE j.slot[r][f]]
      BY <1>2, <2>2 DEF AdvanceRecord
    <3> QED BY <3>1 DEF AdvanceRecord
  <2>4. k = SlotTo(j, r, a)
    BY <1>2, <1>4, <2>1, <2>2 DEF Launched, SlotTo, JobFields
  <2>5. AdvanceIs(j, k, r, a)
    BY <1>0, <2>4, SlotToIs
  <2>6. /\ Playback(j, k) /\ k.slot[r] = a
        /\ \A q \in Robots : q # r => k.slot[q] = j.slot[q]
    BY <1>0, <1>2, <2>3, <2>5, AdvanceSet
  <2>7. ASSUME NEW q \in Robots PROVE SlotOK(k, q)
    <3>1. SlotOK(j, q) /\ k.slot[q].run = j.slot[q].run
      BY <2>3, <2>6 DEF JobsCore
    <3> QED BY <2>5, <3>1 DEF SlotOK, AdvanceIs
  <2> QED BY <2>6, <2>7, PlaybackGoes
<1>5. ASSUME j.slot[r] = NoAdvance, i \in Runs PROVE j.run[i].waiting = FALSE
  BY <1>1, <1>5, FreeSlotIdle, NoAdvanceIs
<1>6. PICK none : none = NoAdvance
  OBVIOUS
<1>7. CASE ~(j.disposed \/ j.quiesced) /\ j.slot[r] = NoAdvance /\ (t < j.latest \/ i = Null)
  <2>1. PICK e : e = IF t < j.latest THEN [j EXCEPT !.slot[r] = none, !.refused = TRUE]
                     ELSE [j EXCEPT !.slot[r] = none, !.latest = t]
    OBVIOUS
  <2>2. k = EnsureRunning(e)
    BY <1>1, <1>2, <1>6, <1>7, <2>1 DEF Launched, JobFields
  <2>3. e = [f \in JobFields |->
               CASE f = "slot" -> [q \in Robots |-> IF q = r THEN none ELSE j.slot[q]]
                 [] f = "refused" -> IF t < j.latest THEN TRUE ELSE j.refused
                 [] f = "latest" -> IF t < j.latest THEN j.latest ELSE t
                 [] OTHER -> j[f]]
    <3>1. CASE t < j.latest
      BY <1>2, <2>1, <3>1 DEF JobFields
    <3>2. CASE ~(t < j.latest)
      BY <1>2, <2>1, <3>2 DEF JobFields
    <3> QED BY <3>1, <3>2
  <2>4. AdvanceIs(j, e, r, none)
    BY <2>3 DEF AdvanceIs, JobFields
  <2>5. Goes(j, e, S)
    BY <1>1, <1>5, <1>6, <1>7, <2>4, AdvanceFreed
  <2>6. Goes(e, k, S)
    BY <2>2, <2>5, EnsureRunningGoes DEF Goes
  <2> QED BY <2>5, <2>6, GoesTwice
<1>8. CASE ~(j.disposed \/ j.quiesced) /\ j.slot[r] = NoAdvance /\ ~(t < j.latest) /\ i # Null
  <2>1. PICK a : a = [run |-> i, next |-> Null]
    OBVIOUS
  <2>2. PICK e : e = [j EXCEPT !.latest = t, !.slot[r] = a]
    OBVIOUS
  <2>3. PICK l : l = Executed(e, i, t, met)
    OBVIOUS
  <2>4. k = IF l.run[i].waiting THEN l ELSE EnsureRunning(SlotTo(l, r, none))
    BY <1>1, <1>2, <1>6, <1>8, <2>1, <2>2, <2>3 DEF Launched, JobFields, SlotTo
  <2>5. i \in Runs /\ Drives(j, i, r) /\ j.run[i].waiting = FALSE
    BY <1>0, <1>1, <1>2, <1>5, <1>8 DEF RobotOK
  <2>6. e = [f \in JobFields |->
               CASE f = "slot" -> [q \in Robots |-> IF q = r THEN a ELSE j.slot[q]]
                 [] f = "latest" -> t
                 [] OTHER -> j[f]]
    BY <1>2, <2>2 DEF JobFields
  <2>7. AdvanceIs(j, e, r, a)
    BY <2>6 DEF AdvanceIs, JobFields
  <2>8. AdvanceRecord(a) /\ a.run = i
    BY <2>1 DEF AdvanceRecord
  <2>9. /\ Playback(j, e) /\ e.slot[r] = a
        /\ \A q \in Robots : q # r => e.slot[q] = j.slot[q]
    BY <1>0, <2>5, <2>7, <2>8, AdvanceSet
  <2>10. ASSUME NEW q \in Robots PROVE SlotOK(e, q)
    <3>1. SlotOK(j, q)
      BY DEF JobsCore
    <3>2. CASE q = r
      BY <1>1, <2>5, <2>7, <3>2 DEF SlotOK, AdvanceIs
    <3>3. CASE q # r
      BY <2>7, <2>9, <3>1, <3>3 DEF SlotOK, AdvanceIs
    <3> QED BY <3>2, <3>3
  <2>11. Goes(j, e, S)
    BY <2>9, <2>10, PlaybackGoes
  <2>12. Working(e, i, r) /\ e.slot[r].run = i /\ e.quiesced = FALSE
    BY <1>2, <1>8, <2>5, <2>7, <2>8, <2>9 DEF Working, Drives, ShownIs, AdvanceIs
  <2>13. Goes(e, l, S) /\ Ticked(l, i, r)
    <3>1. JobsCore(e)
      BY <2>11 DEF Goes
    <3> QED BY <2>3, <2>5, <2>12, <3>1, ExecutedGoes
  <2>14. Goes(j, l, S)
    BY <2>11, <2>13, GoesTwice
  <2>15. CASE l.run[i].waiting
    BY <2>4, <2>14, <2>15
  <2>16. CASE ~l.run[i].waiting
    <3>1. PICK m : m = SlotTo(l, r, none)
      OBVIOUS
    <3>2. JobsCore(l) /\ JobsShape(l)
      BY <2>14 DEF Goes, JobsCore
    <3>3. AdvanceIs(l, m, r, none)
      BY <3>1, <3>2, SlotToIs
    <3>4. l.session[r] \in Runs => l.run[l.session[r]].waiting = FALSE
      BY <2>13, <2>16, RunsAssumption DEF Ticked
    <3>5. Goes(l, m, S)
      BY <1>6, <3>2, <3>3, <3>4, AdvanceFreed
    <3>6. Goes(m, k, S)
      BY <2>4, <2>16, <3>1, <3>5, EnsureRunningGoes DEF Goes
    <3>7. Goes(j, m, S)
      BY <2>14, <3>5, GoesTwice
    <3> QED BY <3>6, <3>7, GoesTwice
  <2> QED BY <2>15, <2>16
<1> QED BY <1>3, <1>4, <1>7, <1>8

(* A frame launches an advance of every robot that runs: another instance  *)
(* of the induction over folds.                                            *)
LaunchNext(c, k, r) == Launched(k, r, c.t, c.met)

LaunchedTo(c, n, k) == Goes(c.j, k, c.S)

Frames == INSTANCE FoldInduction WITH Op <- LaunchNext, P <- LaunchedTo

LEMMA FrameFiredGoes ==
    ASSUME NEW j, JobsCore(j), NEW time, NEW met, NEW k, k = FrameFired(j, time, met),
           NEW S \in SUBSET Runs
    PROVE  Goes(j, k, S) /\ FrameOK(k)
<1>. DEFINE t == AtLeast(j.last, time)
            e == [j EXCEPT !.frame = FALSE, !.last = t]
            Q == Running(j)
            n == Cardinality(Q)
            s == SetToSeq(Q)
            c == [j |-> e, t |-> t, met |-> met, S |-> S]
            l == FoldLeft(LAMBDA h, r : Launched(h, r, t, met), e, s)
<1>3. k = EnsureRunning(l)
  BY DEF FrameFired
<1>4. IsFiniteSet(Q) /\ Q \subseteq Robots
  <2>1. Q \in SUBSET Robots
    BY DEF Running
  <2> QED BY <2>1, RunsAssumption, FS_Subset
<1>5. n \in Nat /\ s \in [1..n -> Q]
  <2>. HIDE DEF Q
  <2> QED BY <1>4, SetToSeqIs
<1>6. Goes(j, e, S)
  <2>1. e = [f \in JobFields |-> CASE f = "frame" -> FALSE [] f = "last" -> t [] OTHER -> j[f]]
    BY DEF JobsCore, JobsShape, JobFields
  <2>. HIDE DEF e
  <2>2. /\ e = [f \in JobFields |-> e[f]] /\ e.frame = FALSE
        /\ e.run = j.run /\ e.session = j.session /\ e.shown = j.shown /\ e.pose = j.pose
        /\ e.slot = j.slot /\ e.settling = j.settling
        /\ e.quiesced = j.quiesced /\ e.disposed = j.disposed
    BY <2>1 DEF JobFields
  <2>3. Playback(j, e)
    BY <2>2 DEF Playback, Same, JobsCore, JobsShape
  <2>4. \A r \in Robots : SlotOK(e, r)
    BY <2>2 DEF JobsCore, SlotOK
  <2> QED BY <2>3, <2>4, PlaybackGoes
<1>7. JobsCore(e)
  BY <1>6 DEF Goes
<1>8. c.j = e /\ c.t = t /\ c.met = met /\ c.S = S /\ DOMAIN s = 1..n
  BY <1>5
<1>. HIDE DEF c, s, n, Q, t, e
<1>9. l = Frames!Fold(c, e, s)
  BY <1>8 DEF Frames!Fold, Frames!Iterates, FoldLeft, MapThenFoldSet, Frames!Max, Max, LaunchNext
<1>. HIDE DEF l
<1>10. LaunchedTo(c, 0, e)
  BY <1>7, <1>8, GoesNowhere DEF LaunchedTo
<1>11. ASSUME NEW m \in 1..n, NEW a, LaunchedTo(c, m - 1, a)
       PROVE  LaunchedTo(c, m, LaunchNext(c, a, s[m]))
  <2>1. PICK r \in Robots : r = s[m]
    BY <1>4, <1>5
  <2>2. PICK b : b = Launched(a, r, t, met)
    OBVIOUS
  <2>3. Goes(e, a, S) /\ LaunchNext(c, a, s[m]) = b
    BY <1>8, <1>11, <2>1, <2>2 DEF LaunchedTo, LaunchNext
  <2>4. JobsCore(a)
    BY <2>3 DEF Goes
  <2>5. Goes(a, b, S)
    BY <2>2, <2>4, LaunchedGoes
  <2>6. Goes(e, b, S)
    BY <1>7, <2>3, <2>5, GoesTwice
  <2> QED BY <1>8, <2>3, <2>6 DEF LaunchedTo
<1>12. LaunchedTo(c, n, Frames!Fold(c, e, s))
  <2>. HIDE DEF LaunchedTo, LaunchNext
  <2> QED BY <1>5, <1>8, <1>10, <1>11, Frames!FoldLeftInduction
<1>13. Goes(e, l, S)
  BY <1>8, <1>9, <1>12 DEF LaunchedTo
<1>14. JobsCore(l)
  BY <1>13 DEF Goes
<1>15. Goes(l, k, S) /\ FrameOK(k)
  BY <1>3, <1>14, EnsureRunningGoes
<1>16. Goes(j, l, S)
  BY <1>6, <1>13, GoesTwice
<1> QED BY <1>15, <1>16, GoesTwice

LEMMA AdvanceOverGoes ==
    ASSUME NEW j, JobsCore(j), FrameOK(j), NEW i \in Runs, NEW r \in Robots, j.run[i].robot = r,
           NEW met, NEW k, k = AdvanceOver(j, i, met), NEW S \in SUBSET Runs
    PROVE  Goes(j, k, S) /\ FrameOK(k)
<1>1. CASE j.run[i].waiting
  <2>1. k = j
    BY <1>1 DEF AdvanceOver
  <2> QED BY <2>1, GoesNowhere
<1>2. CASE ~j.run[i].waiting
  <2>1. PICK e : e = [j EXCEPT !.settling = j.settling \ {i}]
    OBVIOUS
  <2>2. PICK none : none = NoAdvance
    OBVIOUS
  <2>3. PICK f : f = SlotTo(e, r, none)
    OBVIOUS
  <2>4. PICK next : next = j.slot[r].next
    OBVIOUS
  <2>5. PICK l : l = IF next # Null /\ ~j.disposed /\ ~j.quiesced /\ r \in Running(j)
                     THEN Launched(f, r, next, met) ELSE f
    OBVIOUS
  <2>6. k = IF j.slot[r].run # i THEN e ELSE EnsureRunning(l)
    BY <1>2, <2>1, <2>2, <2>3, <2>4, <2>5 DEF AdvanceOver, SlotTo
  <2>7. e = [g \in JobFields |-> IF g = "settling" THEN j.settling \ {i} ELSE j[g]]
    BY <2>1 DEF JobsCore, JobsShape, JobFields
  <2>8. /\ e = [g \in JobFields |-> e[g]] /\ e.settling = j.settling \ {i}
        /\ e.run = j.run /\ e.session = j.session /\ e.shown = j.shown /\ e.pose = j.pose
        /\ e.slot = j.slot /\ e.frame = j.frame
        /\ e.quiesced = j.quiesced /\ e.disposed = j.disposed
    BY <2>7 DEF JobFields
  <2>9. Playback(j, e)
    <3>1. JobsShape(e)
      <4>1. JobsShape(j)
        BY DEF JobsCore
      <4>2. \A h \in Runs : RunRecord(e.run[h])
        BY <2>8, <4>1 DEF JobsShape
      <4>3. \A q \in Robots :
                /\ ShownRecord(e.shown[q]) /\ AdvanceRecord(e.slot[q])
                /\ e.session[q] \in Runs \cup {Null} /\ e.slot[q].run \in Runs \cup {Null}
        BY <2>8, <4>1 DEF JobsShape
      <4> QED BY <2>8, <4>1, <4>2, <4>3 DEF JobsShape
    <3>2. e.settling \subseteq j.settling
      BY <2>8
    <3> QED BY <2>8, <3>1, <3>2 DEF Playback, Same
  <2>10. ASSUME NEW q \in Robots PROVE SlotOK(e, q)
    <3>1. SlotOK(j, q)
      BY DEF JobsCore
    <3> QED BY <1>2, <2>8, <3>1 DEF SlotOK
  <2>11. Goes(j, e, S)
    BY <2>9, <2>10, PlaybackGoes
  <2>12. FrameOK(e)
    BY <2>8, <2>11, FrameGoes
  <2>13. CASE j.slot[r].run # i
    BY <2>6, <2>11, <2>12, <2>13
  <2>14. CASE j.slot[r].run = i
    <3>1. JobsCore(e) /\ JobsShape(e)
      BY <2>11 DEF Goes, JobsCore
    <3>2. AdvanceIs(e, f, r, none)
      BY SMTT(30), <2>3, <3>1, SlotToIs
    <3>3. e.session[r] \in Runs => e.run[e.session[r]].waiting = FALSE
      <4>1. SUFFICES ASSUME e.session[r] \in Runs PROVE e.run[e.session[r]].waiting = FALSE
        OBVIOUS
      <4>2. PICK h \in Runs : h = e.session[r]
        BY <4>1
      <4>3. RobotOK(e, r) /\ SlotOK(e, r) /\ RunOK(e, h)
        BY <3>1 DEF JobsCore
      <4>4. e.run[h].robot = r
        BY <4>2, <4>3, RunsAssumption DEF RobotOK, Drives
      <4>5. e.run[h] # NoRun
        BY <4>3, <4>4, IssuedHasRobot
      <4>6. ~e.run[h].waiting
        BY <1>2, <2>8, <2>14, <4>2, <4>3 DEF SlotOK
      <4> QED BY <4>2, <4>3, <4>5, <4>6 DEF RunOK, Pauses
    <3>4. Goes(e, f, S)
      BY <2>2, <3>1, <3>2, <3>3, AdvanceFreed
    <3>5. JobsCore(f)
      BY <3>4 DEF Goes
    <3>6. Goes(f, l, S)
      <4>1. CASE next # Null /\ ~j.disposed /\ ~j.quiesced /\ r \in Running(j)
        <5>1. l = Launched(f, r, next, met)
          BY <2>5, <4>1
        <5> QED BY <3>5, <5>1, LaunchedGoes
      <4>2. CASE ~(next # Null /\ ~j.disposed /\ ~j.quiesced /\ r \in Running(j))
        <5>1. l = f
          BY <2>5, <4>2
        <5> QED BY <3>5, <5>1, GoesNowhere
      <4> QED BY <4>1, <4>2
    <3>7. JobsCore(l)
      BY <3>6 DEF Goes
    <3>8. k = EnsureRunning(l)
      BY <2>6, <2>14
    <3>9. Goes(l, k, S) /\ FrameOK(k)
      BY <3>7, <3>8, EnsureRunningGoes
    <3>10. Goes(j, f, S)
      BY <2>11, <3>4, GoesTwice
    <3>11. Goes(j, l, S)
      BY <3>6, <3>10, GoesTwice
    <3> QED BY <3>9, <3>11, GoesTwice
  <2> QED BY <2>13, <2>14
<1> QED BY <1>1, <1>2

(* The answer that run i waits for has come: what becomes of the run, until *)
(* its advance is over.                                                     *)
Answer(j, i, ok, met) ==
    LET resumed == WaitingTo(j, i, FALSE)
        at == Entered(j.run[i])
    IN IF ~Authoritative(j, i) THEN TickTo(resumed, i, Null)
       ELSE IF ok THEN Executed(Passed(resumed, i, at), i, j.run[i].tick, met)
       ELSE TickTo(RunEnded(resumed, i, "FAILED", at), i, Null)

LEMMA AnsweredIs ==
    ASSUME NEW j, NEW i, NEW ok, NEW met
    PROVE  Answered(j, i, ok, met) = AdvanceOver(Answer(j, i, ok, met), i, met)
  BY DEF Answered, Answer, WaitingTo, TickTo

(* It is over, or at least out of force; or it has passed the instruction  *)
(* that was answered, and after it no other of kind "set".                 *)
OutOfIt(j, k, i) ==
    /\ k.run[i].cursor = j.run[i].cursor /\ k.run[i].waiting = FALSE
    /\ k.session[j.run[i].robot] # i

WentOn(j, k, i, ok) ==
    /\ ok /\ j.run[i].cursor + 1 <= k.run[i].cursor
    /\ NoSets(j.run[i].program, j.run[i].cursor + 1, k.run[i].cursor)

AnswerMoves(j, k, i, ok) == OutOfIt(j, k, i) \/ WentOn(j, k, i, ok)

Waits(j, i) == j.run[i].waiting = TRUE /\ j.run[i] # NoRun

LEMMA AnswerGoes ==
    ASSUME NEW j, JobsCore(j), NEW i \in Runs, Waits(j, i),
           NEW r \in Robots, j.run[i].robot = r,
           NEW ok, NEW met, NEW k, k = Answer(j, i, ok, met), NEW S \in SUBSET Runs, i \notin S
    PROVE  Goes(j, k, S) /\ k.frame = j.frame /\ AnswerMoves(j, k, i, ok)
<1>1. JobsShape(j) /\ RunOK(j, i) /\ RobotOK(j, r) /\ SlotOK(j, r)
  BY DEF JobsCore
<1>2. HasProgram(j, i) /\ Pauses(j.run[i])
  BY <1>1 DEF RunOK, Waits
<1>3. PICK false : false = FALSE
  OBVIOUS
<1>4. PICK e : e = WaitingTo(j, i, false)
  OBVIOUS
<1>5. PICK at : at = Entered(j.run[i])
  OBVIOUS
<1>6. /\ OnlyRun(i, r, j, e)
      /\ RunIs(e.run[i], j.run[i].cursor, false, j.run[i].tick, j.run[i].end)
  BY <1>1, <1>4, WaitingSet
<1>7. JobsShape(e) /\ Touches(i, r, j, e) /\ e.run[i].robot = r /\ HasProgram(e, i)
        /\ e.run[i].program = j.run[i].program
        /\ e.run[i].cursor = j.run[i].cursor /\ e.run[i].waiting = FALSE
        /\ e.run[i].end = j.run[i].end /\ e.run[i].tick = j.run[i].tick
        /\ e.session[r] = j.session[r] /\ e.shown[r] = j.shown[r] /\ e.pose[r] = j.pose[r]
        /\ e.disposed = j.disposed
  BY <1>2, <1>3, <1>6 DEF OnlyRun, Touches, RunIs, HasProgram
<1>9. Authoritative(j, i) <=> j.session[r] = i
  BY <1>1, RunsAssumption DEF RobotOK, Authoritative, Drives, ShownIs
<1>10. CASE ~Authoritative(j, i)
  <2>1. PICK none : none = Null
    OBVIOUS
  <2>2. k = TickTo(e, i, none)
    BY <1>3, <1>4, <1>10, <2>1 DEF Answer
  <2>3. /\ OnlyRun(i, r, e, k)
        /\ RunIs(k.run[i], e.run[i].cursor, e.run[i].waiting, none, e.run[i].end)
    BY <1>7, <2>2, TickSet
  <2>4. Touches(i, r, j, k)
    BY <1>7, <2>3, TouchesTwice DEF OnlyRun
  <2>5. /\ k.run[i].cursor = j.run[i].cursor /\ k.run[i].waiting = FALSE /\ k.run[i].tick = Null
        /\ k.run[i].end = j.run[i].end /\ k.run[i].program = j.run[i].program
        /\ k.run[i].robot = r
        /\ k.session[r] = j.session[r] /\ k.shown[r] = j.shown[r] /\ k.pose[r] = j.pose[r]
        /\ k.slot = j.slot /\ k.frame = j.frame /\ k.quiesced = j.quiesced
        /\ k.settling = j.settling /\ k.disposed = j.disposed
    BY <1>7, <2>1, <2>3, <2>4 DEF OnlyRun, RunIs, Touches
  <2>6. RunOK(k, i)
    BY <1>2, <2>5 DEF RunOK, HasProgram
  <2>7. RobotOK(k, r) /\ SlotOK(k, r)
    <3>1. CASE j.session[r] = Null
      BY <1>1, <2>5, <3>1, RunsAssumption DEF RobotOK, SlotOK
    <3>2. CASE j.session[r] # Null
      <4>1. j.session[r] \in Runs /\ Drives(j, j.session[r], r)
        BY <1>1, <3>2 DEF RobotOK
      <4>2. PICK h \in Runs : h = j.session[r]
        BY <4>1
      <4>3. h # i
        BY <1>9, <1>10, <4>2
      <4>4. k.run[h] = j.run[h]
        BY <2>4, <4>3 DEF Touches
      <4> QED BY <1>1, <2>5, <4>1, <4>2, <4>4 DEF RobotOK, SlotOK, Drives, ShownIs
    <3> QED BY <3>1, <3>2
  <2>8. RunKeeps(j, k, i) /\ RobotKeeps(j, k, r)
    BY <2>5 DEF RunKeeps, RobotKeeps
  <2>9. Goes(j, k, S)
    BY <2>4, <2>6, <2>7, <2>8, TouchedGoes
  <2> QED BY <1>9, <1>10, <2>5, <2>9 DEF AnswerMoves, OutOfIt
<1>11. CASE Authoritative(j, i) /\ ~ok
  <2>1. PICK state : state = "FAILED"
    OBVIOUS
  <2>2. PICK f : f = RunEnded(e, i, state, at)
    OBVIOUS
  <2>3. PICK none : none = Null
    OBVIOUS
  <2>4. k = TickTo(f, i, none)
    BY <1>3, <1>4, <1>5, <1>11, <2>1, <2>2, <2>3 DEF Answer
  <2>5. Drives(j, i, r)
    BY <1>1, <1>9, <1>11, RunsAssumption DEF RobotOK
  <2>6. Drives(e, i, r)
    BY <1>7, <2>5 DEF Drives, ShownIs
  <2>7. /\ Touches(i, r, e, f) /\ Over(f, i, r) /\ f.pose[r] = e.pose[r]
        /\ f.run[i].cursor = e.run[i].cursor /\ f.run[i].waiting = e.run[i].waiting
        /\ f.run[i].tick = e.run[i].tick
    BY <1>7, <2>1, <2>2, <2>6, RunEndedIs
  <2>8. JobsShape(f) /\ f.run[i].robot = r
    BY <2>7 DEF Touches
  <2>9. /\ OnlyRun(i, r, f, k)
        /\ RunIs(k.run[i], f.run[i].cursor, f.run[i].waiting, none, f.run[i].end)
    BY <2>4, <2>8, TickSet
  <2>10. Touches(i, r, j, f)
    BY <1>7, <2>7, TouchesTwice
  <2>11. Touches(i, r, j, k)
    BY <2>9, <2>10, TouchesTwice DEF OnlyRun
  <2>12. /\ k.run[i].cursor = j.run[i].cursor /\ k.run[i].waiting = FALSE /\ k.run[i].tick = Null
         /\ k.run[i].program = j.run[i].program /\ k.run[i].robot = r
         /\ k.session[r] = Null /\ k.shown[r].state # "RUNNING" /\ k.pose[r] = j.pose[r]
         /\ k.frame = j.frame
    BY <1>7, <2>3, <2>7, <2>9, <2>11 DEF OnlyRun, RunIs, Touches, Over
  <2>13. RunOK(k, i)
    BY <1>2, <2>12 DEF RunOK, HasProgram
  <2>14. RobotOK(k, r) /\ SlotOK(k, r)
    BY <2>12, RunsAssumption DEF RobotOK, SlotOK
  <2>15. RunKeeps(j, k, i)
    BY <2>5, <2>12 DEF RunKeeps, Drives
  <2>16. RobotKeeps(j, k, r)
    BY <2>5, <2>12 DEF RobotKeeps, Drives, ShownIs
  <2>17. Goes(j, k, S)
    BY <2>11, <2>13, <2>14, <2>15, <2>16, TouchedGoes
  <2>18. OutOfIt(j, k, i)
    BY <2>12, RunsAssumption DEF OutOfIt
  <2> QED BY <2>12, <2>17, <2>18 DEF AnswerMoves
<1>12. CASE Authoritative(j, i) /\ ok
  <2>1. PICK f : f = Passed(e, i, at)
    OBVIOUS
  <2>2. PICK t : t = j.run[i].tick
    OBVIOUS
  <2>3. k = Executed(f, i, t, met)
    BY <1>3, <1>4, <1>5, <1>12, <2>1, <2>2 DEF Answer
  <2>4. Drives(j, i, r) /\ j.session[r] = i
    BY <1>1, <1>9, <1>12, RunsAssumption DEF RobotOK
  <2>5. Drives(e, i, r)
    BY <1>7, <2>4 DEF Drives, ShownIs
  <2>6. /\ Touches(i, r, e, f)
        /\ RunIs(f.run[i], e.run[i].cursor + 1, e.run[i].waiting, e.run[i].tick, e.run[i].end)
        /\ ShownIs(f, r, e.session[r], e.shown[r].state, e.shown[r].run)
        /\ f.pose[r] = e.pose[r]
    BY <1>7, <2>1, PassedIs
  <2>7. JobsShape(f) /\ f.run[i].cursor = j.run[i].cursor + 1 /\ f.run[i].robot = r
          /\ f.run[i].program = j.run[i].program
    BY <1>7, <2>6 DEF Touches, RunIs
  <2>8. Working(f, i, r)
    BY <1>7, <2>5, <2>6 DEF Working, Drives, ShownIs, RunIs, Touches
  <2>9. HasProgram(f, i)
    BY <1>2, <2>7 DEF HasProgram, Pauses
  <2>10. Along(f, k, i, r) /\ Halted(k, i, r)
    BY <2>3, <2>7, <2>8, <2>9, ExecutedIs
  <2>11. Touches(i, r, j, f)
    BY <1>7, <2>6, TouchesTwice
  <2>12. Touches(i, r, f, k)
    BY <2>10 DEF Along
  <2>13. Touches(i, r, j, k)
    BY <2>11, <2>12, TouchesTwice
  <2>14. /\ k.run[i].program = j.run[i].program /\ k.run[i].robot = r
         /\ k.slot = j.slot /\ k.frame = j.frame /\ k.quiesced = j.quiesced
         /\ k.settling = j.settling
    BY <2>13 DEF Touches
  <2>15. RunOK(k, i)
    <3>1. HasProgram(k, i)
      BY <1>2, <2>10, <2>14 DEF HasProgram, Along
    <3> QED BY <2>10, <2>14, <3>1 DEF RunOK, Halted
  <2>16. RobotOK(k, r) /\ (k.session[r] = Null \/ k.session[r] = i)
    BY <2>10 DEF Halted, RobotOK, Over, Drives, ShownIs
  <2>17. SlotOK(k, r)
    BY <1>1, <2>4, <2>14, <2>16, RunsAssumption DEF SlotOK, Waits
  <2>18. RunKeeps(j, k, i)
    BY <2>4, <2>14 DEF RunKeeps, Drives
  <2>19. RobotKeeps(j, k, r)
    <3>1. k.session[r] = Null \/ k.session[r] = i
      BY <2>16
    <3>2. k.pose[r] = j.pose[r] \/ k.pose[r][1] = i
      BY <1>7, <2>6, <2>10 DEF Along
    <3>3. k.shown[r].state = "RUNNING" => k.shown[r].run = i
      BY <2>10 DEF Halted, Over, Drives, ShownIs
    <3> QED BY <2>4, <3>1, <3>2, <3>3 DEF RobotKeeps, Drives, ShownIs
  <2>20. Goes(j, k, S)
    BY <2>13, <2>15, <2>16, <2>17, <2>18, <2>19, TouchedGoes
  <2>21. WentOn(j, k, i, ok)
    BY <1>12, <2>7, <2>10, <2>14 DEF WentOn, Along
  <2> QED BY <2>14, <2>20, <2>21 DEF AnswerMoves
<1> QED BY <1>10, <1>11, <1>12

LEMMA AnsweredGoes ==
    ASSUME NEW j, JobsOK(j), NEW i \in Runs, Waits(j, i),
           NEW ok, NEW met, NEW k, k = Answered(j, i, ok, met),
           NEW S \in SUBSET Runs, i \notin S
    PROVE  Goes(j, k, S) /\ FrameOK(k) /\ AnswerMoves(j, k, i, ok)
<1>1. PICK m : m = Answer(j, i, ok, met)
  OBVIOUS
<1>2. k = AdvanceOver(m, i, met)
  BY <1>1, AnsweredIs
<1>3. JobsCore(j) /\ FrameOK(j)
  BY DEF JobsOK
<1>4. PICK r \in Robots : r = j.run[i].robot
  BY <1>3 DEF JobsCore, RunOK, Waits
<1>5. Goes(j, m, S) /\ m.frame = j.frame /\ AnswerMoves(j, m, i, ok)
  BY <1>1, <1>3, <1>4, AnswerGoes
<1>6. FrameOK(m)
  BY <1>3, <1>5, FrameGoes
<1>7. JobsCore(m) /\ m.run[i] # NoRun /\ m.run[i].robot = r
        /\ m.run[i].program = j.run[i].program
  BY <1>4, <1>5 DEF Goes, Keeps, RunKeeps, Waits
<1>8. Goes(m, k, S) /\ FrameOK(k)
  BY <1>2, <1>3, <1>6, <1>7, AdvanceOverGoes
<1>9. PICK T \in SUBSET Runs : T = Runs
  OBVIOUS
<1>10. Goes(m, k, T)
  BY <1>2, <1>6, <1>7, AdvanceOverGoes
<1>11. RunSteps(m, k, i) /\ RobotKeeps(m, k, r)
  BY <1>7, <1>9, <1>10 DEF Goes, Keeps
<1>12. AnswerMoves(j, k, i, ok)
  <2>1. CASE OutOfIt(j, m, i)
    <3>1. k.run[i].cursor = m.run[i].cursor /\ k.run[i].waiting = m.run[i].waiting
      BY <1>4, <1>7, <1>11, <2>1 DEF OutOfIt, RunSteps
    <3>2. k.session[r] # i
      BY <1>4, <1>11, <2>1, RunsAssumption DEF OutOfIt, RobotKeeps
    <3> QED BY <1>4, <2>1, <3>1, <3>2 DEF OutOfIt, AnswerMoves
  <2>2. CASE WentOn(j, m, i, ok)
    <3>1. CASE k.run[i].cursor = m.run[i].cursor
      BY <2>2, <3>1 DEF WentOn, AnswerMoves
    <3>2. CASE /\ m.run[i].cursor <= k.run[i].cursor
               /\ NoSets(m.run[i].program, m.run[i].cursor, k.run[i].cursor)
      <4>1. RunOK(j, i) /\ RunOK(m, i) /\ RunOK(k, i) /\ k.run[i] # NoRun
        BY <1>3, <1>7, <1>10 DEF JobsCore, Goes, Keeps
      <4>2. j.run[i].cursor \in Nat /\ m.run[i].cursor \in Nat /\ k.run[i].cursor \in Nat
        BY <1>7, <4>1 DEF RunOK, HasProgram, Waits
      <4>3. ASSUME NEW n \in (j.run[i].cursor + 1)..(k.run[i].cursor - 1)
            PROVE  j.run[i].program[n].kind # "set"
        <5>1. n \in (j.run[i].cursor + 1)..(m.run[i].cursor - 1)
                \/ n \in m.run[i].cursor..(k.run[i].cursor - 1)
          BY <4>2
        <5> QED BY <1>7, <2>2, <3>2, <5>1 DEF WentOn, NoSets
      <4>4. j.run[i].cursor + 1 <= k.run[i].cursor
        <5>1. j.run[i].cursor + 1 <= m.run[i].cursor
          BY <2>2 DEF WentOn
        <5>2. m.run[i].cursor <= k.run[i].cursor
          BY <3>2
        <5> QED BY <4>2, <5>1, <5>2
      <4> QED BY <2>2, <4>3, <4>4 DEF WentOn, NoSets, AnswerMoves
    <3> QED BY <1>11, <3>1, <3>2 DEF RunSteps
  <2> QED BY <1>5, <2>1, <2>2 DEF AnswerMoves
<1>13. Goes(j, k, S)
  BY <1>3, <1>5, <1>8, GoesTwice
<1> QED BY <1>8, <1>12, <1>13

LEMMA JobCancelledGoes ==
    ASSUME NEW j, JobsOK(j), NEW r \in Robots, NEW k, k = JobCancelled(j, r),
           NEW S \in SUBSET Runs
    PROVE  Goes(j, k, S) /\ FrameOK(k)
<1>0. JobsCore(j) /\ FrameOK(j) /\ JobsShape(j) /\ RobotOK(j, r)
  BY DEF JobsOK, JobsCore
<1>1. PICK i : i = j.session[r]
  OBVIOUS
<1>2. PICK state : state = "CANCELLED"
  OBVIOUS
<1>3. PICK at : at = j.run[i].last
  OBVIOUS
<1>4. PICK e : e = IF i = Null THEN j ELSE RunEnded(j, i, state, at)
  OBVIOUS
<1>5. PICK none : none = NoAdvance
  OBVIOUS
<1>6. PICK f : f = SlotTo(e, r, none)
  OBVIOUS
<1>7. i # Null => i \in Runs /\ Drives(j, i, r) /\ Authoritative(j, i)
  BY SMTT(30), <1>0, <1>1 DEF RobotOK, Authoritative, Drives, ShownIs
<1>8. k = [f EXCEPT !.frame = f.frame /\ Running(f) # {}]
  BY Zenon, <1>1, <1>2, <1>3, <1>4, <1>5, <1>6, <1>7 DEF JobCancelled, SlotTo
<1>9. Goes(j, e, S) /\ e.frame = j.frame /\ e.session[r] = Null
  <2>1. CASE i = Null
    BY <1>0, <1>1, <1>4, <2>1, GoesNowhere
  <2>2. CASE i # Null
    <3>1. i \in Runs /\ Drives(j, i, r) /\ j.run[i].robot = r /\ RunOK(j, i)
      BY <1>0, <1>7, <2>2 DEF Drives, JobsCore
    <3>2. e = RunEnded(j, i, state, at) /\ state # "RUNNING"
      BY <1>2, <1>4, <2>2
    <3>3. /\ Touches(i, r, j, e) /\ Over(e, i, r) /\ e.pose[r] = j.pose[r]
          /\ e.run[i].cursor = j.run[i].cursor /\ e.run[i].waiting = j.run[i].waiting
          /\ e.run[i].tick = j.run[i].tick
      BY <1>0, <3>1, <3>2, RunEndedIs
    <3>4. e.run[i].program = j.run[i].program /\ e.run[i].robot = r /\ e.frame = j.frame
            /\ e.session[r] = Null /\ e.shown[r].state # "RUNNING"
      BY <3>3 DEF Touches, Over
    <3>5. j.run[i] # NoRun
      BY <3>1, IssuedHasRobot
    <3>6. RunOK(e, i)
      BY <3>1, <3>3, <3>4, <3>5 DEF RunOK, HasProgram, Pauses
    <3>7. RobotOK(e, r) /\ SlotOK(e, r)
      BY <3>4, RunsAssumption DEF RobotOK, SlotOK
    <3>8. RunKeeps(j, e, i) /\ RunSteps(j, e, i)
      BY <3>1, <3>3, <3>4 DEF RunKeeps, RunSteps, Drives
    <3>9. RobotKeeps(j, e, r)
      BY <3>1, <3>3, <3>4 DEF RobotKeeps, Drives, ShownIs
    <3>10. Goes(j, e, S)
      BY <1>0, <3>1, <3>3, <3>6, <3>7, <3>8, <3>9, TouchedGoes
    <3> QED BY <3>4, <3>10
  <2> QED BY <2>1, <2>2
<1>10. JobsCore(e) /\ JobsShape(e)
  BY <1>9 DEF Goes, JobsCore
<1>11. AdvanceIs(e, f, r, none)
  BY <1>6, <1>10, SlotToIs
<1>12. Goes(e, f, S) /\ f.frame = e.frame
  <2>1. e.session[r] \notin Runs
    BY <1>9, RunsAssumption
  <2>2. Goes(e, f, S)
    BY <1>5, <1>10, <1>11, <2>1, AdvanceFreed
  <2> QED BY <1>11, <2>2 DEF AdvanceIs
<1>13. Goes(j, f, S)
  BY <1>0, <1>9, <1>12, GoesTwice
<1>14. JobsCore(f) /\ JobsShape(f) /\ FrameOK(f)
  <2>1. FrameOK(f)
    BY <1>0, <1>9, <1>12, <1>13, FrameGoes
  <2> QED BY <1>12, <2>1 DEF Goes, JobsCore
<1>15. PICK v : v = (f.frame /\ Running(f) # {})
  OBVIOUS
<1>16. k = [g \in JobFields |-> IF g = "frame" THEN v ELSE f[g]]
  BY <1>8, <1>14, <1>15 DEF JobsShape, JobFields
<1>17. /\ k = [g \in JobFields |-> k[g]] /\ k.frame = v
       /\ k.run = f.run /\ k.session = f.session /\ k.shown = f.shown /\ k.pose = f.pose
       /\ k.slot = f.slot /\ k.settling = f.settling
       /\ k.quiesced = f.quiesced /\ k.disposed = f.disposed
  BY <1>16 DEF JobFields
<1>18. Playback(f, k)
  <2>1. v \in BOOLEAN
    BY <1>15
  <2>2. JobsShape(k)
    BY <1>14, <1>17, <2>1 DEF JobsShape
  <2> QED BY <1>17, <2>2 DEF Playback, Same
<1>19. \A q \in Robots : SlotOK(k, q)
  BY <1>14, <1>17 DEF JobsCore, SlotOK
<1>20. Goes(f, k, S)
  BY <1>14, <1>18, <1>19, PlaybackGoes
<1>21. FrameOK(k)
  BY <1>14, <1>15, <1>17 DEF FrameOK, Running
<1>22. Goes(j, k, S)
  BY <1>0, <1>13, <1>20, GoesTwice
<1> QED BY <1>21, <1>22

(* A start: run i is issued for robot r, whose run before it, if there is  *)
(* one, ends where it stands.                                              *)
OtherKept(j, k, h) ==
    /\ j.run[h] = NoRun => k.run[h] = NoRun
    /\ j.run[h] # NoRun => /\ k.run[h] # NoRun /\ RunKeeps(j, k, h)
                           /\ k.run[h].cursor = j.run[h].cursor
                           /\ k.run[h].waiting = j.run[h].waiting

RobotKept(j, k, q) ==
    k.session[q] = j.session[q] /\ k.shown[q] = j.shown[q] /\ k.pose[q] = j.pose[q]

IsNew(run, r, program) ==
    run.robot = r /\ run.program = program /\ run.cursor = 1 /\ run.waiting = FALSE /\ run.end = Null

RunStarted(j, k, i, r, program) ==
    /\ j.run[i] = NoRun /\ k.run[i] # NoRun /\ IsNew(k.run[i], r, program)
    /\ \A h \in Runs : h # i => OtherKept(j, k, h)
    /\ \A q \in Robots : q # r => RobotKept(j, k, q)
    /\ k.session[r] = i /\ k.pose[r] = j.pose[r]
    /\ k.shown[r].state = "RUNNING" /\ k.shown[r].run = i

(* What a start does first.                                                *)
RunBegun(j, i, r, program, t) ==
    [j EXCEPT !.run[i] = NewRun(r, program, t), !.session[r] = i,
              !.shown[r] = [state |-> "RUNNING", run |-> i, step |-> 1],
              !.latest = t, !.last = t, !.slot[r] = NoAdvance]

LEMMA BegunIs ==
    ASSUME NEW j, JobsCore(j), j.quiesced = FALSE, NEW i \in Runs, j.run[i] = NoRun,
           NEW r \in Robots, NEW program \in Seq(Instruction), NEW t,
           NEW k, k = RunBegun(j, i, r, program, t)
    PROVE  JobsCore(k) /\ RunStarted(j, k, i, r, program) /\ Same(j, k)
<1>1. PICK run : run = NewRun(r, program, t)
  OBVIOUS
<1>2. PICK shown : shown = [state |-> "RUNNING", run |-> i, step |-> 1]
  OBVIOUS
<1>3. PICK a : a = NoAdvance
  OBVIOUS
<1>4. RunRecord(run) /\ IsNew(run, r, program) /\ run.tick = Null
  BY <1>1 DEF NewRun, RunRecord, RunFields, IsNew
<1>5. ShownRecord(shown) /\ shown.state = "RUNNING" /\ shown.run = i
  BY <1>2 DEF ShownRecord
<1>6. AdvanceRecord(a) /\ a.run = Null
  BY <1>3, NoAdvanceIs
<1>7. JobsShape(j)
  BY DEF JobsCore
<1>8. k = [f \in JobFields |->
             CASE f = "run" -> [h \in Runs |-> IF h = i THEN run ELSE j.run[h]]
               [] f = "session" -> [q \in Robots |-> IF q = r THEN i ELSE j.session[q]]
               [] f = "shown" -> [q \in Robots |-> IF q = r THEN shown ELSE j.shown[q]]
               [] f = "slot" -> [q \in Robots |-> IF q = r THEN a ELSE j.slot[q]]
               [] f \in {"latest", "last"} -> t
               [] OTHER -> j[f]]
  <2>1. j = [f \in JobFields |-> j[f]] /\ j.run = [h \in Runs |-> j.run[h]]
          /\ j.session = [q \in Robots |-> j.session[q]]
          /\ j.shown = [q \in Robots |-> j.shown[q]] /\ j.slot = [q \in Robots |-> j.slot[q]]
    BY <1>7 DEF JobsShape
  <2>2. /\ [j.run EXCEPT ![i] = run] = [h \in Runs |-> IF h = i THEN run ELSE j.run[h]]
        /\ [j.session EXCEPT ![r] = i] = [q \in Robots |-> IF q = r THEN i ELSE j.session[q]]
        /\ [j.shown EXCEPT ![r] = shown] = [q \in Robots |-> IF q = r THEN shown ELSE j.shown[q]]
        /\ [j.slot EXCEPT ![r] = a] = [q \in Robots |-> IF q = r THEN a ELSE j.slot[q]]
    BY <2>1
  <2>3. k = [j EXCEPT !.run = [j.run EXCEPT ![i] = run], !.session = [j.session EXCEPT ![r] = i],
                      !.shown = [j.shown EXCEPT ![r] = shown], !.latest = t, !.last = t,
                      !.slot = [j.slot EXCEPT ![r] = a]]
    BY <1>1, <1>2, <1>3 DEF RunBegun
  <2> QED BY <2>1, <2>2, <2>3 DEF JobFields
<1>9. /\ k = [f \in JobFields |-> k[f]]
      /\ k.run = [h \in Runs |-> IF h = i THEN run ELSE j.run[h]]
      /\ k.session = [q \in Robots |-> IF q = r THEN i ELSE j.session[q]]
      /\ k.shown = [q \in Robots |-> IF q = r THEN shown ELSE j.shown[q]]
      /\ k.slot = [q \in Robots |-> IF q = r THEN a ELSE j.slot[q]]
      /\ k.pose = j.pose /\ k.frame = j.frame /\ k.settling = j.settling
      /\ k.quiesced = j.quiesced /\ k.disposed = j.disposed
  BY <1>8 DEF JobFields
<1>10. /\ k.run[i] = run /\ k.session[r] = i /\ k.shown[r] = shown /\ k.slot[r] = a
       /\ \A h \in Runs : h # i => k.run[h] = j.run[h]
       /\ \A q \in Robots : q # r => /\ RobotKept(j, k, q) /\ k.slot[q] = j.slot[q]
       /\ k.pose[r] = j.pose[r]
  BY <1>9 DEF RobotKept
<1>11. k.run[i] # NoRun
  BY <1>4, <1>10, RunsAssumption DEF IsNew, NoRun, NewRun
<1>12. JobsShape(k)
  <2>1. /\ k.run = [h \in Runs |-> k.run[h]]
        /\ k.session = [q \in Robots |-> k.session[q]]
        /\ k.shown = [q \in Robots |-> k.shown[q]]
        /\ k.pose = [q \in Robots |-> k.pose[q]]
        /\ k.slot = [q \in Robots |-> k.slot[q]]
    BY <1>7, <1>9 DEF JobsShape
  <2>2. \A h \in Runs : RunRecord(k.run[h])
    BY <1>4, <1>7, <1>10 DEF JobsShape
  <2>3. \A q \in Robots :
          /\ ShownRecord(k.shown[q]) /\ AdvanceRecord(k.slot[q])
          /\ k.session[q] \in Runs \cup {Null} /\ k.slot[q].run \in Runs \cup {Null}
    <3>1. ASSUME NEW q \in Robots
          PROVE  /\ ShownRecord(k.shown[q]) /\ AdvanceRecord(k.slot[q])
                 /\ k.session[q] \in Runs \cup {Null} /\ k.slot[q].run \in Runs \cup {Null}
      <4>1. CASE q = r
        BY <1>5, <1>6, <1>10, <4>1
      <4>2. CASE q # r
        <5>1. /\ ShownRecord(j.shown[q]) /\ AdvanceRecord(j.slot[q])
              /\ j.session[q] \in Runs \cup {Null} /\ j.slot[q].run \in Runs \cup {Null}
          BY <1>7 DEF JobsShape
        <5> QED BY <1>10, <4>2, <5>1 DEF RobotKept
      <4> QED BY <4>1, <4>2
    <3> QED BY <3>1
  <2>4. {k.frame, k.quiesced, k.disposed} \subseteq BOOLEAN
    BY <1>7, <1>9 DEF JobsShape
  <2> QED BY <1>9, <2>1, <2>2, <2>3, <2>4 DEF JobsShape
<1>13. ASSUME NEW h \in Runs PROVE RunOK(k, h)
  <2>1. CASE h = i
    <3>1. k.run[i].robot = r /\ k.run[i].program = program /\ k.run[i].cursor = 1
            /\ k.run[i].waiting = FALSE /\ k.run[i].tick = Null
      BY <1>4, <1>10 DEF IsNew
    <3>2. 1 \in 1..(Len(program) + 1)
      OBVIOUS
    <3> QED BY <2>1, <3>1, <3>2 DEF RunOK, HasProgram
  <2>2. CASE h # i
    <3>1. RunOK(j, h) /\ k.run[h] = j.run[h]
      BY <1>10, <2>2 DEF JobsCore
    <3> QED BY <3>1 DEF RunOK, HasProgram
  <2> QED BY <2>1, <2>2
<1>14. j.disposed = FALSE
  BY <1>7 DEF JobsCore, JobsShape
<1>15. ASSUME NEW q \in Robots PROVE RobotOK(k, q) /\ SlotOK(k, q)
  <2>1. CASE q = r
    BY SMTT(30), <1>4, <1>5, <1>9, <1>10, <1>14, <2>1 DEF RobotOK, SlotOK, Drives, ShownIs, IsNew
  <2>2. CASE q # r
    <3>1. RobotOK(j, q) /\ SlotOK(j, q)
      BY DEF JobsCore
    <3>2. k.session[q] = j.session[q] /\ k.shown[q] = j.shown[q] /\ k.slot[q] = j.slot[q]
      BY <1>10, <2>2 DEF RobotKept
    <3>3. CASE j.session[q] = Null
      BY SMTT(30), <3>1, <3>2, <3>3, RunsAssumption DEF RobotOK, SlotOK
    <3>4. CASE j.session[q] # Null
      <4>1. PICK h \in Runs : h = j.session[q] /\ Drives(j, h, q)
        BY <3>1, <3>4 DEF RobotOK
      <4>2. h # i
        BY <4>1, RunsAssumption DEF Drives, NoRun, NewRun
      <4>3. k.run[h] = j.run[h]
        BY <1>10, <4>2
      <4> QED BY ZenonT(30), <1>9, <3>1, <3>2, <4>1, <4>3 DEF RobotOK, SlotOK, Drives, ShownIs
    <3> QED BY <3>3, <3>4
  <2> QED BY SMTT(30), <2>1, <2>2
<1>16. JobsCore(k)
  BY <1>9, <1>12, <1>13, <1>14, <1>15 DEF JobsCore
<1>17. \A h \in Runs : h # i => OtherKept(j, k, h)
  BY <1>10 DEF OtherKept, RunKeeps
<1>18. RunStarted(j, k, i, r, program)
  BY <1>4, <1>5, <1>10, <1>11, <1>17 DEF RunStarted
<1> QED BY <1>9, <1>16, <1>18 DEF Same

LEMMA NextRun ==
    ASSUME NEW j, Unused(j) # {}
    PROVE  Min(Unused(j)) \in Unused(j)
<1>1. Cardinality(Runs) \in Nat
  BY RunsAssumption, FS_CardinalityType
<1>2. Unused(j) \in SUBSET Nat
  BY <1>1, RunsAssumption DEF Unused
<1> QED BY <1>2, Loop!MinIsLeast DEF Min, Loop!Min

LEMMA JobStartedGoes ==
    ASSUME NEW j, JobsCore(j), j.quiesced = FALSE, Unused(j) # {},
           NEW r \in Robots, NEW program \in Seq(Instruction), NEW time,
           NEW k, k = JobStarted(j, r, program, time)
    PROVE  /\ JobsCore(k) /\ FrameOK(k) /\ Same(j, k)
           /\ \E i \in Runs : RunStarted(j, k, i, r, program)
<1>1. PICK i : i = Min(Unused(j))
  OBVIOUS
<1>2. i \in Runs /\ j.run[i] = NoRun
  BY <1>1, NextRun DEF Unused, Issued
<1>3. PICK t : t = AtLeast(j.last, time)
  OBVIOUS
<1>4. PICK prior : prior = j.session[r]
  OBVIOUS
<1>5. PICK e : e = RunBegun(j, i, r, program, t)
  OBVIOUS
<1>6. PICK f : f = IF prior = Null THEN e ELSE Terminated(e, prior)
  OBVIOUS
<1>7. k = EnsureRunning(f)
  BY <1>1, <1>3, <1>4, <1>5, <1>6 DEF JobStarted, RunBegun
<1>8. JobsCore(e) /\ RunStarted(j, e, i, r, program) /\ Same(j, e)
  BY <1>2, <1>5, BegunIs
<1>9. PICK T \in SUBSET Runs : T = Runs
  OBVIOUS
<1>10. Goes(e, f, T) /\ RunStarted(j, f, i, r, program)
  <2>1. CASE prior = Null
    BY <1>6, <1>8, <2>1, GoesNowhere
  <2>2. CASE prior # Null
    <3>1. RobotOK(j, r)
      BY DEF JobsCore
    <3>2. prior \in Runs /\ j.run[prior].robot = r
      BY <1>4, <2>2, <3>1 DEF RobotOK, Drives
    <3>3. RunOK(j, prior)
      BY <3>2 DEF JobsCore
    <3>4. j.run[prior] # NoRun /\ prior # i
      BY <1>2, <3>2, <3>3, IssuedHasRobot
    <3>5. OtherKept(j, e, prior)
      BY <1>8, <3>2, <3>4 DEF RunStarted
    <3>6. e.run[prior].robot = r /\ JobsShape(e) /\ f = Terminated(e, prior)
            /\ e.run[prior] # NoRun /\ RunOK(e, prior)
      BY <1>6, <1>8, <2>2, <3>2, <3>4, <3>5 DEF OtherKept, RunKeeps, JobsCore
    <3>7. /\ Touches(prior, r, e, f)
          /\ f.run[prior].cursor = e.run[prior].cursor
          /\ f.run[prior].waiting = e.run[prior].waiting
          /\ f.run[prior].tick = e.run[prior].tick
          /\ e.run[prior].end # Null => f.run[prior].end = e.run[prior].end
          /\ f.session[r] = IF e.session[r] = prior THEN Null ELSE e.session[r]
          /\ f.shown[r] = e.shown[r] /\ f.pose[r] = e.pose[r]
      BY <3>2, <3>6, TerminatedIs
    <3>8. e.session[r] = i
      BY <1>8 DEF RunStarted
    <3>9. f.session[r] = i /\ f.run[prior].program = e.run[prior].program
            /\ f.run[prior].robot = r /\ f.run[i] = e.run[i]
            /\ f.slot = e.slot /\ f.disposed = e.disposed
      BY <1>2, <3>4, <3>7, <3>8 DEF Touches
    <3>10. RunOK(f, prior)
      BY <3>6, <3>7, <3>9 DEF RunOK, HasProgram, Pauses
    <3>11. RobotOK(e, r) /\ e.run[i].waiting = FALSE
      BY <1>8 DEF JobsCore, RunStarted, IsNew
    <3>12. RobotOK(f, r) /\ SlotOK(f, r)
      BY <1>2, <3>7, <3>8, <3>9, <3>11, RunsAssumption DEF RobotOK, SlotOK, Drives, ShownIs
    <3>13. RunKeeps(e, f, prior) /\ RunSteps(e, f, prior)
      BY <3>6, <3>7, <3>9 DEF RunKeeps, RunSteps
    <3>14. RobotKeeps(e, f, r)
      BY <3>7, <3>8, <3>9 DEF RobotKeeps
    <3>15. Goes(e, f, T)
      BY <1>8, <3>2, <3>6, <3>7, <3>10, <3>12, <3>13, <3>14, TouchedGoes
    <3>16. ASSUME NEW h \in Runs, h # i PROVE OtherKept(j, f, h)
      <4>1. OtherKept(j, e, h)
        BY <1>8, <3>16 DEF RunStarted
      <4>2. CASE h = prior
        <5>1. f.run[prior] # NoRun
          BY <3>2, <3>6, <3>15 DEF Goes, Keeps
        <5> QED BY <3>4, <3>7, <3>13, <4>1, <4>2, <5>1 DEF OtherKept, RunKeeps
      <4>3. CASE h # prior
        <5>1. f.run[h] = e.run[h]
          BY <3>7, <4>3 DEF Touches
        <5> QED BY <4>1, <5>1 DEF OtherKept, RunKeeps
      <4> QED BY <4>2, <4>3
    <3>17. ASSUME NEW q \in Robots, q # r PROVE RobotKept(j, f, q)
      <4>1. RobotKept(j, e, q)
        BY <1>8, <3>17 DEF RunStarted
      <4> QED BY <3>7, <3>17, <4>1 DEF RobotKept, Touches
    <3>18. RunStarted(j, f, i, r, program)
      BY <1>8, <3>7, <3>9, <3>16, <3>17 DEF RunStarted
    <3> QED BY <3>15, <3>18
  <2> QED BY <2>1, <2>2
<1>11. JobsCore(f)
  BY <1>10 DEF Goes
<1>12. Goes(f, k, T) /\ FrameOK(k) /\ Playback(f, k)
  BY <1>7, <1>11, EnsureRunningGoes
<1>13. RunStarted(j, k, i, r, program)
  BY <1>10, <1>12 DEF RunStarted, Playback, OtherKept, RunKeeps, RobotKept
<1>14. Same(j, k)
  BY <1>8, <1>10, <1>12 DEF Goes, Same
<1> QED BY <1>2, <1>12, <1>13, <1>14 DEF Goes

(* The graph is suspended, resumed, or disposed of.                        *)
Carries(j, k) == JobsOK(k) /\ Keeps(j, k, Runs)

LEMMA CarriesTwice ==
    ASSUME NEW j, JobsOK(j), NEW k, NEW l, Carries(j, k), Carries(k, l)
    PROVE  Carries(j, l)
<1>1. \A r \in Robots : RobotKeeps(j, k, r) /\ RobotKeeps(k, l, r)
  BY DEF Carries, Keeps
<1>2. \A r \in Robots : RobotKeeps(j, l, r)
  BY <1>1, RobotKeepsTwice
<1>3. ASSUME NEW i \in Runs
      PROVE  /\ j.run[i] = NoRun => l.run[i] = NoRun
             /\ j.run[i] # NoRun => l.run[i] # NoRun /\ RunKeeps(j, l, i)
  BY DEF Carries, Keeps, RunKeeps
<1>4. ASSUME NEW i \in Runs, j.run[i] # NoRun PROVE RunSteps(j, l, i)
  <2>1. k.run[i] # NoRun /\ l.run[i] # NoRun
    BY <1>4 DEF Carries, Keeps
  <2>2. RunOK(j, i) /\ RunOK(k, i) /\ RunOK(l, i)
    BY <2>1 DEF Carries, JobsOK, JobsCore
  <2>3. j.run[i].robot \in Robots /\ HasProgram(j, i) /\ HasProgram(k, i) /\ HasProgram(l, i)
    BY <1>4, <2>1, <2>2 DEF RunOK
  <2>4. RunKeeps(j, k, i) /\ RunSteps(j, k, i) /\ RunSteps(k, l, i)
    BY <1>4, <2>1 DEF Carries, Keeps
  <2> QED BY <1>1, <2>3, <2>4, RunStepsTwice
<1> QED BY <1>2, <1>3, <1>4 DEF Carries, Keeps

(* Nothing but the playback changes, which may be quiesced or resumed.     *)
LEMMA PlaybackCarries ==
    ASSUME NEW j, JobsOK(j), NEW k, JobsShape(k), k.disposed = j.disposed,
           k.run = j.run, k.session = j.session, k.shown = j.shown, k.pose = j.pose,
           \A r \in Robots : SlotOK(k, r), k.disposed => k.quiesced
    PROVE  JobsCore(k) /\ Keeps(j, k, Runs)
<1>1. \A i \in Runs : RunOK(k, i) /\ RunKeeps(j, k, i) /\ RunSteps(j, k, i)
  BY DEF JobsOK, JobsCore, RunOK, HasProgram, RunKeeps, RunSteps
<1>2. \A r \in Robots : RobotOK(k, r) /\ RobotKeeps(j, k, r)
  BY DEF JobsOK, JobsCore, RobotOK, RobotKeeps, Drives, ShownIs
<1> QED BY <1>1, <1>2 DEF JobsCore, Keeps

LEMMA QuiescedIs ==
    ASSUME NEW j, JobsOK(j), NEW k, k = Quiesced(j)
    PROVE  Carries(j, k) /\ k.quiesced = TRUE /\ k.disposed = j.disposed
<1>1. PICK active : active = {r \in Robots : j.slot[r] # NoAdvance}
  OBVIOUS
<1>2. PICK slot : slot = [r \in Robots |-> IF r \in active THEN [j.slot[r] EXCEPT !.next = Null]
                                           ELSE NoAdvance]
  OBVIOUS
<1>3. PICK settling : settling = {j.slot[r].run : r \in active}
  OBVIOUS
<1>4. k = [f \in JobFields |-> CASE f = "quiesced" -> TRUE
                                 [] f = "frame" -> FALSE
                                 [] f = "slot" -> slot
                                 [] f = "settling" -> settling
                                 [] OTHER -> j[f]]
  <2>1. j = [f \in JobFields |-> j[f]]
    BY DEF JobsOK, JobsCore, JobsShape
  <2>2. k = [j EXCEPT !.quiesced = TRUE, !.frame = FALSE, !.slot = slot, !.settling = settling]
    BY <1>1, <1>2, <1>3 DEF Quiesced
  <2> QED BY <2>1, <2>2 DEF JobFields
<1>5. /\ k = [f \in JobFields |-> k[f]] /\ k.quiesced = TRUE /\ k.frame = FALSE
      /\ k.slot = slot /\ k.settling = settling
      /\ k.run = j.run /\ k.session = j.session /\ k.shown = j.shown /\ k.pose = j.pose
      /\ k.disposed = j.disposed
  BY <1>4 DEF JobFields
<1>6. JobsShape(j) /\ \A r \in Robots : SlotOK(j, r)
  BY DEF JobsOK, JobsCore
<1>7. ASSUME NEW r \in Robots
      PROVE  /\ AdvanceRecord(k.slot[r]) /\ k.slot[r].run \in Runs \cup {Null}
             /\ r \in active => k.slot[r].run = j.slot[r].run
  <2>1. AdvanceRecord(j.slot[r]) /\ j.slot[r].run \in Runs \cup {Null}
    BY <1>6 DEF JobsShape
  <2>2. CASE r \in active
    <3>1. k.slot[r] = [j.slot[r] EXCEPT !.next = Null]
      BY <1>2, <1>5, <2>2
    <3>2. k.slot[r] = [f \in {"run", "next"} |-> IF f = "next" THEN Null ELSE j.slot[r][f]]
      BY <2>1, <3>1 DEF AdvanceRecord
    <3> QED BY <2>1, <3>2 DEF AdvanceRecord
  <2>3. CASE r \notin active
    <3>1. k.slot[r] = NoAdvance
      BY SMTT(30), <1>2, <1>5, <2>3
    <3> QED BY <2>3, <3>1, NoAdvanceIs
  <2> QED BY <2>2, <2>3
<1>8. JobsShape(k)
  <2>1. k.slot = [r \in Robots |-> k.slot[r]]
    BY <1>2, <1>5
  <2>2. \A i \in Runs : RunRecord(k.run[i])
    BY <1>5, <1>6 DEF JobsShape
  <2>3. \A r \in Robots :
          /\ ShownRecord(k.shown[r]) /\ AdvanceRecord(k.slot[r])
          /\ k.session[r] \in Runs \cup {Null} /\ k.slot[r].run \in Runs \cup {Null}
    BY <1>5, <1>6, <1>7 DEF JobsShape
  <2>4. {k.frame, k.quiesced, k.disposed} \subseteq BOOLEAN
    BY <1>5, <1>6 DEF JobsShape
  <2> QED BY ZenonT(30), <1>5, <1>6, <2>1, <2>2, <2>3, <2>4 DEF JobsShape
<1>9. ASSUME NEW r \in Robots PROVE SlotOK(k, r)
  <2>1. SUFFICES ASSUME j.session[r] \in Runs, j.run[j.session[r]].waiting
                 PROVE  k.slot[r].run = j.session[r] /\ j.session[r] \in settling
    BY <1>5 DEF SlotOK
  <2>2. j.slot[r].run = j.session[r]
    BY <1>6, <2>1 DEF SlotOK
  <2>3. r \in active
    BY <1>1, <2>1, <2>2, NoAdvanceIs, RunsAssumption
  <2> QED BY <1>3, <1>7, <2>2, <2>3
<1>10. JobsCore(k) /\ Keeps(j, k, Runs)
  BY <1>5, <1>8, <1>9, PlaybackCarries
<1>11. FrameOK(k)
  BY <1>5 DEF FrameOK
<1> QED BY <1>5, <1>10, <1>11 DEF Carries, JobsOK

LEMMA ResumedJobs ==
    ASSUME NEW j, JobsOK(j), j.disposed = FALSE, NEW k, k = Resumed(j)
    PROVE  Carries(j, k) /\ k.quiesced = FALSE /\ k.disposed = FALSE /\ k.settling = {}
<1>1. PICK e : e = [j EXCEPT !.quiesced = FALSE, !.settling = {}]
  OBVIOUS
<1>2. k = EnsureRunning(e)
  BY <1>1 DEF Resumed
<1>3. e = [f \in JobFields |-> CASE f = "quiesced" -> FALSE
                                 [] f = "settling" -> {}
                                 [] OTHER -> j[f]]
  BY <1>1 DEF JobsOK, JobsCore, JobsShape, JobFields
<1>4. /\ e = [f \in JobFields |-> e[f]] /\ e.quiesced = FALSE /\ e.settling = {}
      /\ e.run = j.run /\ e.session = j.session /\ e.shown = j.shown /\ e.pose = j.pose
      /\ e.frame = j.frame /\ e.slot = j.slot /\ e.disposed = FALSE
  BY <1>3 DEF JobFields
<1>5. JobsShape(j) /\ \A r \in Robots : SlotOK(j, r)
  BY DEF JobsOK, JobsCore
<1>6. JobsShape(e)
  <2>2. \A i \in Runs : RunRecord(e.run[i])
    BY <1>4, <1>5 DEF JobsShape
  <2>3. \A r \in Robots :
          /\ ShownRecord(e.shown[r]) /\ AdvanceRecord(e.slot[r])
          /\ e.session[r] \in Runs \cup {Null} /\ e.slot[r].run \in Runs \cup {Null}
    BY <1>4, <1>5 DEF JobsShape
  <2> QED BY <1>4, <1>5, <2>2, <2>3 DEF JobsShape
<1>7. \A r \in Robots : SlotOK(e, r)
  BY <1>4, <1>5 DEF SlotOK
<1>8. JobsCore(e) /\ Keeps(j, e, Runs)
  BY <1>4, <1>6, <1>7, PlaybackCarries
<1>9. PICK T \in SUBSET Runs : T = Runs
  OBVIOUS
<1>10. Goes(e, k, T) /\ FrameOK(k) /\ Playback(e, k)
  BY <1>2, <1>8, EnsureRunningGoes
<1>11. k.run = e.run /\ k.session = e.session /\ k.shown = e.shown /\ k.pose = e.pose
         /\ k.quiesced = FALSE /\ k.disposed = FALSE /\ k.settling = {}
  BY <1>4, <1>10 DEF Playback, Same
<1>12. Keeps(j, k, Runs)
  BY <1>8, <1>11 DEF Keeps, RunKeeps, RunSteps, RobotKeeps
<1> QED BY <1>10, <1>11, <1>12 DEF Carries, JobsOK, Goes

(* Disposing ends every session in turn: an instance for that fold.        *)
SettleNext(c, k, i) == IF k.session[k.run[i].robot] = i THEN Terminated(k, i) ELSE k

RunLike(j, k, i) ==
    /\ j.run[i] = NoRun => k.run[i] = NoRun
    /\ k.run[i].robot = j.run[i].robot /\ k.run[i].program = j.run[i].program
    /\ k.run[i].cursor = j.run[i].cursor /\ k.run[i].waiting = j.run[i].waiting
    /\ k.run[i].tick = j.run[i].tick
    /\ j.run[i].end # Null => k.run[i].end = j.run[i].end

RobotLike(j, k, r) ==
    k.session[r] \in {j.session[r], Null} /\ k.shown[r] = j.shown[r] /\ k.pose[r] = j.pose[r]

SettledTo(c, n, k) ==
    /\ JobsShape(k) /\ k.slot = c.j.slot /\ k.settling = c.j.settling
    /\ \A i \in Runs : RunLike(c.j, k, i)
    /\ \A r \in Robots : /\ RobotLike(c.j, k, r)
                         /\ \A m \in 1..n : k.session[r] # c.s[m]

Ends == INSTANCE FoldInduction WITH Op <- SettleNext, P <- SettledTo

SessionsEnded(j) ==
    FoldLeft(LAMBDA k, i : IF k.session[k.run[i].robot] = i THEN Terminated(k, i) ELSE k,
             j, SetToSeq(Issued(j)))

LEMMA SessionsEndedIs ==
    ASSUME NEW j, JobsCore(j), NEW k, k = SessionsEnded(j)
    PROVE  /\ JobsShape(k) /\ k.slot = j.slot /\ k.settling = j.settling
           /\ \A i \in Runs : RunLike(j, k, i)
           /\ \A r \in Robots : RobotLike(j, k, r) /\ k.session[r] = Null
<1>. DEFINE Q == Issued(j)
            n == Cardinality(Q)
            s == SetToSeq(Q)
            c == [j |-> j, s |-> s]
<1>1. IsFiniteSet(Q) /\ Q \subseteq Runs
  <2>1. Q \in SUBSET Runs
    BY DEF Issued
  <2> QED BY <2>1, RunsAssumption, FS_Subset
<1>2. n \in Nat /\ s \in [1..n -> Q] /\ \A i \in Q : \E m \in 1..n : s[m] = i
  <2>. HIDE DEF Q
  <2> QED BY <1>1, SetToSeqIs
<1>3. c.j = j /\ c.s = s /\ DOMAIN s = 1..n
  BY <1>2
<1>4. \A i \in Q : j.run[i].robot \in Robots
  BY DEF Issued, JobsCore, RunOK
<1>5. ASSUME NEW i \in Q, NEW q \in Robots, j.session[q] = i PROVE j.run[i].robot = q
  BY <1>1, <1>5, RunsAssumption DEF JobsCore, RobotOK, Drives
<1>6. \A i \in Q : i # Null /\ j.run[i] # NoRun
  BY RunsAssumption DEF Issued
<1>. HIDE DEF c, s, n, Q
<1>7. SettledTo(c, 0, j)
  BY <1>3 DEF SettledTo, RunLike, RobotLike, JobsCore
<1>8. ASSUME NEW m \in 1..n, NEW a, SettledTo(c, m - 1, a)
      PROVE  SettledTo(c, m, SettleNext(c, a, s[m]))
  <2>1. PICK i \in Runs : i = s[m] /\ i \in Q
    BY <1>1, <1>2
  <2>2. PICK r \in Robots : r = j.run[i].robot
    BY <1>4, <2>1
  <2>3. PICK b : b = SettleNext(c, a, i)
    OBVIOUS
  <2>4. /\ JobsShape(a) /\ a.slot = j.slot /\ a.settling = j.settling
        /\ \A h \in Runs : RunLike(j, a, h)
        /\ \A q \in Robots : /\ RobotLike(j, a, q)
                             /\ \A l \in 1..(m - 1) : a.session[q] # s[l]
    BY <1>3, <1>8 DEF SettledTo
  <2>5. a.run[i].robot = r
    BY <2>2, <2>4 DEF RunLike
  <2>6. /\ JobsShape(b) /\ b.slot = j.slot /\ b.settling = j.settling
        /\ \A h \in Runs : RunLike(a, b, h)
        /\ \A q \in Robots : RobotLike(a, b, q)
        /\ b.session[r] # i
    <3>1. CASE a.session[r] = i
      <4>1. b = Terminated(a, i)
        BY <2>3, <2>5, <3>1 DEF SettleNext
      <4>2. /\ Touches(i, r, a, b)
            /\ b.run[i].cursor = a.run[i].cursor /\ b.run[i].waiting = a.run[i].waiting
            /\ b.run[i].tick = a.run[i].tick
            /\ a.run[i].end # Null => b.run[i].end = a.run[i].end
            /\ b.session[r] = IF a.session[r] = i THEN Null ELSE a.session[r]
            /\ b.shown[r] = a.shown[r] /\ b.pose[r] = a.pose[r]
        BY <2>4, <2>5, <4>1, TerminatedIs
      <4>3. ASSUME NEW h \in Runs PROVE RunLike(a, b, h)
        <5>1. CASE h = i
          <6>1. a.run[i] # NoRun
            BY <2>2, <2>5, RunsAssumption DEF NoRun, NewRun
          <6> QED BY <2>5, <4>2, <5>1, <6>1 DEF RunLike, Touches
        <5>2. CASE h # i
          <6>1. b.run[h] = a.run[h]
            BY <4>2, <5>2 DEF Touches
          <6> QED BY <6>1 DEF RunLike
        <5> QED BY <5>1, <5>2
      <4>4. ASSUME NEW q \in Robots PROVE RobotLike(a, b, q)
        <5>1. CASE q = r
          BY <3>1, <4>2, <5>1 DEF RobotLike
        <5>2. CASE q # r
          BY <4>2, <5>2 DEF RobotLike, Touches
        <5> QED BY <5>1, <5>2
      <4>5. b.session[r] # i
        BY <1>6, <2>1, <3>1, <4>2
      <4>6. JobsShape(b) /\ b.slot = j.slot /\ b.settling = j.settling
        BY <2>4, <4>2 DEF Touches
      <4> QED BY <4>3, <4>4, <4>5, <4>6
    <3>2. CASE a.session[r] # i
      <4>1. b = a
        BY <2>3, <2>5, <3>2 DEF SettleNext
      <4> QED BY <2>4, <3>2, <4>1 DEF RunLike, RobotLike
    <3> QED BY <3>1, <3>2
  <2>7. \A h \in Runs : RunLike(j, b, h)
    BY <2>4, <2>6 DEF RunLike
  <2>8. ASSUME NEW q \in Robots
        PROVE  RobotLike(j, b, q) /\ \A l \in 1..m : b.session[q] # s[l]
    <3>1. RobotLike(j, b, q)
      BY <2>4, <2>6 DEF RobotLike
    <3>2. ASSUME NEW l \in 1..m PROVE b.session[q] # s[l]
      <4>1. s[l] # Null
        BY <1>2, <1>6
      <4>2. CASE l = m
        <5>1. CASE q = r
          BY <2>1, <2>6, <4>2, <5>1
        <5>2. CASE q # r
          BY <1>5, <2>1, <2>2, <3>1, <4>1, <4>2, <5>2 DEF RobotLike
        <5> QED BY <5>1, <5>2
      <4>3. CASE l # m
        <5>1. l \in 1..(m - 1)
          BY <1>2, <4>3
        <5>2. a.session[q] # s[l] /\ b.session[q] \in {a.session[q], Null}
          BY <2>4, <2>6, <5>1 DEF RobotLike
        <5> QED BY <4>1, <5>2
      <4> QED BY <4>2, <4>3
    <3> QED BY <3>1, <3>2
  <2>9. SettledTo(c, m, b)
    BY <1>3, <2>6, <2>7, <2>8 DEF SettledTo
  <2> QED BY <2>1, <2>3, <2>9
<1>9. SettledTo(c, n, Ends!Fold(c, j, s))
  <2>. HIDE DEF SettledTo, SettleNext
  <2> QED BY SMTT(30), <1>2, <1>3, <1>7, <1>8, Ends!FoldLeftInduction
<1>10. Ends!Fold(c, j, s) = k
  BY Zenon, <1>3 DEF Ends!Fold, Ends!Iterates, FoldLeft, MapThenFoldSet, Ends!Max, Max,
     SettleNext, SessionsEnded, s, Q
<1>11. SettledTo(c, n, k)
  BY <1>9, <1>10
<1>12. ASSUME NEW r \in Robots PROVE k.session[r] = Null
  <2>1. k.session[r] \in {j.session[r], Null} /\ \A m \in 1..n : k.session[r] # s[m]
    BY <1>3, <1>11 DEF SettledTo, RobotLike
  <2>2. SUFFICES ASSUME j.session[r] # Null PROVE j.session[r] \in Q
    BY <1>2, <2>1
  <2>3. RobotOK(j, r)
    BY DEF JobsCore
  <2>4. PICK h \in Runs : h = j.session[r] /\ j.run[h].robot = r
    BY <2>2, <2>3 DEF RobotOK, Drives
  <2>5. j.run[h] # NoRun
    BY <2>4, RunsAssumption DEF NoRun, NewRun
  <2> QED BY <2>4, <2>5 DEF Issued, Q
<1> QED BY <1>3, <1>11, <1>12 DEF SettledTo

LEMMA JobsDisposedIs ==
    ASSUME NEW j, JobsOK(j), NEW k, k = JobsDisposed(j)
    PROVE  Carries(j, k) /\ k.quiesced = TRUE /\ k.disposed = TRUE
<1>1. PICK e : e = SessionsEnded(j)
  OBVIOUS
<1>2. k = [e EXCEPT !.disposed = TRUE, !.quiesced = TRUE, !.frame = FALSE,
                    !.shown = [r \in Robots |-> Idle]]
  BY <1>1 DEF JobsDisposed, SessionsEnded
<1>3. JobsCore(j)
  BY DEF JobsOK
<1>4. /\ JobsShape(e) /\ e.slot = j.slot /\ e.settling = j.settling
      /\ \A i \in Runs : RunLike(j, e, i)
      /\ \A r \in Robots : RobotLike(j, e, r) /\ e.session[r] = Null
  BY <1>1, <1>3, SessionsEndedIs
<1>5. k = [f \in JobFields |-> CASE f \in {"disposed", "quiesced"} -> TRUE
                                 [] f = "frame" -> FALSE
                                 [] f = "shown" -> [r \in Robots |-> Idle]
                                 [] OTHER -> e[f]]
  BY <1>2, <1>4 DEF JobsShape, JobFields
<1>6. /\ k = [f \in JobFields |-> k[f]]
      /\ k.disposed = TRUE /\ k.quiesced = TRUE /\ k.frame = FALSE
      /\ k.shown = [r \in Robots |-> Idle]
      /\ k.run = e.run /\ k.session = e.session /\ k.pose = e.pose /\ k.slot = e.slot
  BY <1>5 DEF JobFields
<1>7. JobsShape(k)
  <2>1. ShownRecord(Idle)
    BY DEF ShownRecord, Idle
  <2>2. \A i \in Runs : RunRecord(k.run[i])
    BY <1>4, <1>6 DEF JobsShape
  <2>3. \A r \in Robots :
          /\ ShownRecord(k.shown[r]) /\ AdvanceRecord(k.slot[r])
          /\ k.session[r] \in Runs \cup {Null} /\ k.slot[r].run \in Runs \cup {Null}
    BY <1>4, <1>6, <2>1 DEF JobsShape
  <2>4. k.shown = [r \in Robots |-> k.shown[r]]
    BY <1>6
  <2>5. k.run = e.run /\ k.session = e.session /\ k.pose = e.pose /\ k.slot = e.slot
    BY <1>6
  <2>6. /\ e.run = [i \in Runs |-> e.run[i]] /\ e.session = [r \in Robots |-> e.session[r]]
        /\ e.pose = [r \in Robots |-> e.pose[r]] /\ e.slot = [r \in Robots |-> e.slot[r]]
    BY <1>4 DEF JobsShape
  <2>7. /\ k.run = [i \in Runs |-> k.run[i]] /\ k.session = [r \in Robots |-> k.session[r]]
        /\ k.pose = [r \in Robots |-> k.pose[r]] /\ k.slot = [r \in Robots |-> k.slot[r]]
    BY Zenon, <2>5, <2>6
  <2>8. {k.frame, k.quiesced, k.disposed} \subseteq BOOLEAN
    BY <1>6
  <2>9. k = [f \in JobFields |-> k[f]]
    BY <1>6
  <2> QED BY Zenon, <2>2, <2>3, <2>4, <2>7, <2>8, <2>9 DEF JobsShape
<1>8. ASSUME NEW i \in Runs
      PROVE  /\ RunOK(k, i) /\ RunKeeps(j, k, i) /\ RunSteps(j, k, i)
             /\ j.run[i] = NoRun => k.run[i] = NoRun
             /\ j.run[i] # NoRun => k.run[i] # NoRun
  <2>1. RunOK(j, i) /\ RunLike(j, e, i) /\ k.run[i] = e.run[i]
    BY <1>3, <1>4, <1>6 DEF JobsCore
  <2>2. RunOK(k, i)
    BY <2>1 DEF RunOK, RunLike, HasProgram, Pauses
  <2>3. j.run[i] # NoRun => k.run[i] # NoRun
    <3>1. e.run[i].robot = j.run[i].robot /\ (j.run[i] # NoRun <=> j.run[i].robot \in Robots)
      BY <2>1, IssuedHasRobot DEF RunLike
    <3> QED BY <2>1, <2>2, <3>1, IssuedHasRobot
  <2> QED BY <2>1, <2>2, <2>3 DEF RunLike, RunKeeps, RunSteps
<1>9. ASSUME NEW r \in Robots PROVE RobotOK(k, r) /\ SlotOK(k, r) /\ RobotKeeps(j, k, r)
  <2>1. k.session[r] = Null /\ k.shown[r].state = "IDLE" /\ k.pose[r] = j.pose[r]
    BY <1>4, <1>6 DEF RobotLike, Idle
  <2> QED BY <2>1, RunsAssumption DEF RobotOK, SlotOK, RobotKeeps
<1>10. FrameOK(k)
  BY <1>6 DEF FrameOK
<1>11. JobsCore(k)
  BY <1>6, <1>7, <1>8, <1>9 DEF JobsCore
<1>12. Keeps(j, k, Runs)
  BY <1>8, <1>9 DEF Keeps
<1> QED BY <1>6, <1>10, <1>11, <1>12 DEF Carries, JobsOK

=============================================================================
