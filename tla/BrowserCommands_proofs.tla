------------------------ MODULE BrowserCommands_proofs ------------------------
(***************************************************************************)
(* Theorems about BrowserCommands, for every set of connections, requests  *)
(* and variants and every bound.                                           *)
(***************************************************************************)
EXTENDS BrowserCommands, TLAPS

(* What ties the lease, the registry and the results together: a lease is  *)
(* the latest one issued, a record is unique, and a result whose record is *)
(* gone belongs to a lease that cannot come back.                          *)
Bookkeeping ==
    /\ lease.generation \in {0, generation}
    /\ \A r, x \in records : Same(r, x) => r = x
    /\ \A r \in records : r.generation <= generation
    /\ \A c \in completing : c.generation <= generation
    /\ \A c \in completing :
          \/ c.generation < generation
          \/ \E r \in records : Same(c, r) /\ r.outcome = "running"

CommandsInv == CommandsTypeOK /\ LeaseHasKeeper /\ InFlightOnce /\ Bookkeeping

(* A final result and the record it came from say the same; a server that  *)
(* is down has no results.                                                 *)
ResultsRecorded ==
    /\ \A q \in Requests, r \in records :
          (Final(published[q]) /\ r.request = q /\ r.generation = published[q].generation)
             => r.outcome = published[q].state
    /\ phase = "down" => \A q \in Requests : published[q] = NoResult

-----------------------------------------------------------------------------
(* Helpers have the types they should.                                     *)

(* What a look at the clock leaves of the lease is a lease.                *)
LEMMA TickedType ==
    ASSUME MaxGeneration \in Nat,
           lease \in [generation : 0..MaxGeneration, due : BOOLEAN]
    PROVE  Ticked \in [generation : 0..MaxGeneration, due : BOOLEAN]
  BY DEF Ticked, NoLease

(* A fenced result is a final one.                                         *)
LEMMA FencedType ==
    ASSUME NEW c
    PROVE  Fenced(c) \in {"succeeded", "failed"}
  BY DEF Fenced

(* Settling moves pending commands to the results still to be continued.   *)
LEMMA SettleType ==
    ASSUME NEW S \in SUBSET pending, pending \subseteq Batch,
           completing \subseteq Completion, SettlePending(S)
    PROVE  pending' \subseteq Batch /\ completing' \subseteq Completion
  <1>1. Failed(S) \subseteq Completion
    BY DEF Failed, Batch, Completion
  <1> QED
    BY <1>1 DEF SettlePending

(* Publishing writes a result, or nothing while the server is down.        *)
LEMMA PublishType ==
    ASSUME published \in [Requests -> Result], NEW q \in Requests,
           NEW st \in {"none", "running", "rejected", "succeeded", "failed"},
           NEW g \in 0..MaxGeneration, Publish(q, st, g)
    PROVE  published' \in [Requests -> Result]
  <1>1. [state |-> st, generation |-> g] \in Result
    BY DEF Result
  <1> QED
    BY <1>1 DEF Publish

(* The record of a new command has its type, and so have those it leaves.  *)
LEMMA AdmitType ==
    ASSUME records \subseteq Record, NEW q \in Requests, NEW v \in Variants,
           NEW o \in {"running", "rejected"}, lease.generation \in Generations,
           Admit(q, v, o)
    PROVE  records' \subseteq Record
  <1>1. [generation |-> lease.generation, request |-> q, variant |-> v, outcome |-> o] \in Record
    BY DEF Record
  <1> QED
    BY <1>1 DEF Admit

(* What giving up a lease leaves behind has its type.                      *)
LEMMA GiveUpType ==
    ASSUME CommandsAssumption, CommandsTypeOK, NEW s \in Sockets, GiveUpLease(s)
    PROVE  /\ lease' \in [generation : 0..MaxGeneration, due : BOOLEAN]
           /\ leaseTimer' \in 0..MaxGeneration
           /\ pending' \subseteq Batch /\ completing' \subseteq Completion
  <1>1. Ticked \in [generation : 0..MaxGeneration, due : BOOLEAN]
    BY TickedType DEF CommandsAssumption, CommandsTypeOK
  <1>2. PendingOf(socketLease[s]) \in SUBSET pending
    BY DEF PendingOf
  <1>3. pending' \subseteq Batch /\ completing' \subseteq Completion
    BY <1>2, SettleType DEF GiveUpLease, CommandsTypeOK
  <1> QED
    BY <1>1, <1>3 DEF GiveUpLease, NoLease, CommandsAssumption

(* Execute keeps the types.                                                *)
LEMMA ExecuteType ==
    ASSUME CommandsAssumption, CommandsTypeOK, LeaseHasKeeper, NEW q \in Requests,
           \/ ExecuteUnavailable(q) \/ ExecuteRefused(q)
           \/ \E v \in Variants : Execute(q, v)
    PROVE  CommandsTypeOK'
  <1> USE DEF ExecuteOnly, CommandsTypeOK, wireVars
  <1>1. NoLease \in [generation : 0..MaxGeneration, due : BOOLEAN]
    BY DEF NoLease, CommandsAssumption
  <1>2. ASSUME Reject(q) PROVE published' \in [Requests -> Result]
    BY <1>2, PublishType DEF Reject, CommandsAssumption
  <1>3. LeaseAlive => lease.generation \in Generations
    BY DEF LeaseAlive, Generations, CommandsAssumption
  <1>4. CASE ExecuteUnavailable(q)
    BY <1>1, <1>2, <1>4 DEF ExecuteUnavailable
  <1>5. CASE ExecuteRefused(q)
    BY <1>2, <1>5 DEF ExecuteRefused
  <1>6. ASSUME NEW v \in Variants, Execute(q, v) PROVE CommandsTypeOK'
    <2> DEFINE new == [generation |-> lease.generation, request |-> q, outcome |-> "unsent"]
               b == [socket |-> publisher, generation |-> lease.generation, request |-> q]
    <2>1. CASE ExecuteAgain(q, v)
      <3>1. PICK r \in Retained(q) : r.outcome # "running" /\ Publish(q, r.outcome, r.generation)
        BY <2>1 DEF ExecuteAgain
      <3>2. r \in Record
        BY <3>1 DEF Retained
      <3>3. /\ r.outcome \in {"none", "running", "rejected", "succeeded", "failed"}
            /\ r.generation \in 0..MaxGeneration
        BY <3>2 DEF Record, Generations
      <3>4. published' \in [Requests -> Result]
        BY <3>1, <3>3, PublishType
      <3> QED
        BY <2>1, <3>4 DEF ExecuteAgain
    <2>2. CASE ExecuteConflict(q, v)
      BY <2>2 DEF ExecuteConflict, PublishConflict
    <2>3. CASE ExecuteLapsed(q, v)
      <3>1. records' \subseteq Record
        BY <2>3, <1>3, AdmitType DEF ExecuteLapsed
      <3> QED
        BY <1>1, <1>2, <2>3, <3>1 DEF ExecuteLapsed
    <2>4. CASE ExecuteUnsent(q, v)
      <3>1. records' \subseteq Record
        BY <2>4, <1>3, AdmitType DEF ExecuteUnsent
      <3>2. published' \in [Requests -> Result]
        BY <2>4, PublishType DEF ExecuteUnsent
      <3>3. new \in Completion
        BY <2>4, <1>3 DEF ExecuteUnsent, Completion
      <3> QED
        BY <1>1, <2>4, <3>1, <3>2, <3>3 DEF ExecuteUnsent
    <2>5. CASE ExecuteSend(q, v)
      <3>1. records' \subseteq Record
        BY <2>5, <1>3, AdmitType DEF ExecuteSend
      <3>2. published' \in [Requests -> Result]
        BY <2>5, PublishType DEF ExecuteSend
      <3>3. publisher \in Sockets
        BY <2>5 DEF ExecuteSend, LeaseAlive, LeaseHasKeeper
      <3>4. b \in Batch
        BY <2>5, <1>3, <3>3 DEF ExecuteSend, Batch
      <3> QED
        BY <2>5, <3>1, <3>2, <3>4 DEF ExecuteSend
    <2> QED
      BY <1>6, <2>1, <2>2, <2>3, <2>4, <2>5 DEF Execute
  <1> QED
    BY <1>4, <1>5, <1>6

(* Messages and ends of connections keep the types.                        *)
LEMMA BrowserType ==
    ASSUME CommandsAssumption, CommandsTypeOK, BrowserStep
    PROVE  CommandsTypeOK'
  <1> USE DEF leaseVars, wireVars
  <1>1. Ticked \in [generation : 0..MaxGeneration, due : BOOLEAN]
    BY TickedType DEF CommandsAssumption, CommandsTypeOK
  <1>2. ASSUME NEW s \in Sockets, AcquireLease(s) PROVE CommandsTypeOK'
    <2> DEFINE S == IF lease.generation = 0 THEN {} ELSE PendingOf(lease.generation)
    <2>1. S \in SUBSET pending
      BY DEF PendingOf
    <2>2. SettlePending(S)
      BY <1>2 DEF AcquireLease
    <2>3. pending' \subseteq Batch /\ completing' \subseteq Completion
      BY <2>1, <2>2, SettleType DEF CommandsTypeOK
    <2>4. generation + 1 \in 0..MaxGeneration
      BY <1>2 DEF AcquireLease, CommandsTypeOK, CommandsAssumption
    <2> QED
      BY <1>2, <2>3, <2>4 DEF AcquireLease, CommandsTypeOK, CommandsAssumption
  <1>3. ASSUME NEW s \in Sockets, RenewLease(s) PROVE CommandsTypeOK'
    BY <1>1, <1>3 DEF RenewLease, CommandsTypeOK
  <1>4. ASSUME NEW s \in Sockets, ReleaseLease(s) PROVE CommandsTypeOK'
    BY <1>4, GiveUpType DEF ReleaseLease, ForgetSocket, CommandsTypeOK, CommandsAssumption
  <1>5. ASSUME NEW s \in Sockets, Connect(s) \/ StartClosing(s) PROVE CommandsTypeOK'
    BY <1>5 DEF Connect, StartClosing, CommandsTypeOK
  <1>6. ASSUME NEW s \in Sockets, SocketClosed(s) PROVE CommandsTypeOK'
    <2>1. /\ lease' \in [generation : 0..MaxGeneration, due : BOOLEAN]
          /\ leaseTimer' \in 0..MaxGeneration
          /\ pending' \subseteq Batch /\ completing' \subseteq Completion
      <3>1. CASE socketLease[s] # 0
        BY <1>6, <3>1, GiveUpType DEF SocketClosed
      <3>2. CASE socketLease[s] = 0
        BY <1>6, <3>2 DEF SocketClosed, CommandsTypeOK
      <3> QED
        BY <3>1, <3>2
    <2>2. sends' \subseteq Batch
      BY <1>6 DEF SocketClosed, CommandsTypeOK
    <2> QED
      BY <1>6, <2>1, <2>2 DEF SocketClosed, ForgetSocket, CommandsTypeOK, CommandsAssumption
  <1>7. ASSUME NEW b \in sends, NEW o \in {"succeeded", "failed"}, BrowserResult(b, o)
        PROVE  CommandsTypeOK'
    <2>1. PICK p \in pending :
             /\ pending' = pending \ {p}
             /\ completing' = completing \cup
                   {[generation |-> p.generation, request |-> p.request, outcome |-> o]}
      BY <1>7 DEF BrowserResult
    <2>2. [generation |-> p.generation, request |-> p.request, outcome |-> o] \in Completion
      BY DEF CommandsTypeOK, Batch, Completion
    <2> QED
      BY <1>7, <2>1, <2>2 DEF BrowserResult, Answered, ResultOnly, CommandsTypeOK
  <1>8. ASSUME NEW b \in sends, StrayResult(b) PROVE CommandsTypeOK'
    <2>1. pending' \subseteq Batch /\ completing' \subseteq Completion
      <3>1. CASE UNCHANGED <<pending, completing>>
        BY <3>1 DEF CommandsTypeOK
      <3>2. CASE \E p \in pending : SettlePending({p})
        BY <3>2, SettleType DEF CommandsTypeOK
      <3> QED
        BY <1>8, <3>1, <3>2 DEF StrayResult
    <2> QED
      BY <1>8, <2>1 DEF StrayResult, Answered, ResultOnly, CommandsTypeOK
  <1>9. ASSUME NEW b \in sends, IgnoredResult(b) PROVE CommandsTypeOK'
    BY <1>9 DEF IgnoredResult, Answered, ResultOnly, CommandsTypeOK
  <1> QED
    BY <1>2, <1>3, <1>4, <1>5, <1>6, <1>7, <1>8, <1>9 DEF BrowserStep

(* Timers, continuations and transitions keep the types.                   *)
LEMMA GatewayType ==
    ASSUME CommandsAssumption, CommandsTypeOK, GatewayStep
    PROVE  CommandsTypeOK'
  <1> USE DEF leaseVars, wireVars
  <1>1. Ticked \in [generation : 0..MaxGeneration, due : BOOLEAN]
    BY TickedType DEF CommandsAssumption, CommandsTypeOK
  <1>2. NoLease \in [generation : 0..MaxGeneration, due : BOOLEAN]
    BY DEF NoLease, CommandsAssumption
  <1>3. [q \in Requests |-> NoResult] \in [Requests -> Result]
    BY DEF NoResult, Result, CommandsAssumption
  <1>4. ASSUME NEW c \in completing, Complete(c) PROVE CommandsTypeOK'
    <2>1. c \in Completion
      BY DEF CommandsTypeOK
    <2>2. /\ c.request \in Requests
          /\ c.generation \in 0..MaxGeneration
      BY <2>1 DEF Completion, Generations
    <2>3. Publish(c.request, Fenced(c), c.generation)
      BY <1>4 DEF Complete
    <2>4. Fenced(c) \in {"none", "running", "rejected", "succeeded", "failed"}
      BY FencedType
    <2>5. published' \in [Requests -> Result]
      BY <2>2, <2>3, <2>4, PublishType DEF CommandsTypeOK
    <2>6. ASSUME NEW r \in Record PROVE [r EXCEPT !.outcome = Fenced(c)] \in Record
      BY FencedType DEF Record
    <2>7. records' \subseteq Record
      BY <1>4, <2>6 DEF Complete, CommandsTypeOK
    <2> QED
      BY <1>1, <1>4, <2>5, <2>7 DEF Complete, CommandsTypeOK
  <1>5. ASSUME NEW p \in pending, CommandTimeout(p) PROVE CommandsTypeOK'
    <2>1. pending' \subseteq Batch /\ completing' \subseteq Completion
      BY <1>5, SettleType DEF CommandTimeout, CommandsTypeOK
    <2> QED
      BY <1>5, <2>1 DEF CommandTimeout, CommandsTypeOK
  <1>6. ASSUME NEW b \in sends, SendFailed(b) PROVE CommandsTypeOK'
    <2> DEFINE S == {p \in pending : Same(p, b)}
    <2>1. S \in SUBSET pending /\ SettlePending(S)
      BY <1>6 DEF SendFailed
    <2>2. pending' \subseteq Batch /\ completing' \subseteq Completion
      BY <2>1, SettleType DEF CommandsTypeOK
    <2> QED
      BY <1>6, <2>2 DEF SendFailed, CommandsTypeOK
  <1>7. CASE LeaseDue
    BY <1>7 DEF LeaseDue, CommandsTypeOK
  <1>8. CASE LeaseTimerFires
    <2>1. pending' \subseteq Batch /\ completing' \subseteq Completion
      <3>1. PendingOf(leaseTimer) \in SUBSET pending
        BY DEF PendingOf
      <3>2. CASE lease.due
        BY <1>8, <3>1, <3>2, SettleType DEF LeaseTimerFires, CommandsTypeOK
      <3>3. CASE ~lease.due
        BY <1>8, <3>3 DEF LeaseTimerFires, CommandsTypeOK
      <3> QED
        BY <3>2, <3>3
    <2> QED
      BY <1>2, <1>8, <2>1 DEF LeaseTimerFires, ForgetSocket, CommandsTypeOK, CommandsAssumption
  <1>9. CASE BeginTransition \/ Recover
    BY <1>3, <1>9 DEF BeginTransition, Recover, Phases, CommandsTypeOK
  <1>10. CASE Install \/ Withdraw
    BY <1>2, <1>3, <1>10 DEF Install, Withdraw, ForgetPublishers, NewRuntimeState, Phases,
       CommandsTypeOK, CommandsAssumption
  <1>11. CASE LoseAuthority
    <2>1. pending' \subseteq Batch /\ completing' \subseteq Completion
      BY <1>11, SettleType DEF LoseAuthority, CommandsTypeOK
    <2>2. generation' \in 0..MaxGeneration
      BY <1>11 DEF LoseAuthority, CommandsTypeOK, CommandsAssumption
    <2> QED
      BY <1>2, <1>11, <2>1, <2>2 DEF LoseAuthority, ForgetPublishers, CommandsTypeOK,
         CommandsAssumption
  <1> QED
    BY <1>4, <1>5, <1>6, <1>7, <1>8, <1>9, <1>10, <1>11 DEF GatewayStep

-----------------------------------------------------------------------------
(* The lease and its keepers.                                              *)

(* Execute can only end a lease.                                           *)
LEMMA ExecuteKeeps ==
    ASSUME CommandsAssumption, LeaseHasKeeper, ClientStep
    PROVE  LeaseHasKeeper'
  <1>1. /\ UNCHANGED <<leaseTimer, publisher, socketLease, socketState>>
        /\ lease' \in {lease, NoLease}
    BY DEF ClientStep, ExecuteUnavailable, ExecuteRefused, Execute, ExecuteAgain,
       ExecuteConflict, ExecuteLapsed, ExecuteUnsent, ExecuteSend, ExecuteOnly
  <1> QED
    BY <1>1 DEF LeaseHasKeeper, NoLease

(* A connection becomes the holder, stays it, or leaves no lease behind.   *)
LEMMA BrowserKeeps ==
    ASSUME CommandsAssumption, CommandsTypeOK, LeaseHasKeeper, BrowserStep
    PROVE  LeaseHasKeeper'
  <1> USE DEF leaseVars, wireVars
  <1>1. Ticked \in {lease, NoLease}
    BY DEF Ticked
  <1>2. ASSUME NEW s \in Sockets, AcquireLease(s) PROVE LeaseHasKeeper'
    <2>1. /\ lease' = [generation |-> generation + 1, due |-> FALSE]
          /\ leaseTimer' = generation + 1 /\ publisher' = s
          /\ UNCHANGED socketState /\ socketState[s] # "closed"
      BY <1>2 DEF AcquireLease, Talking
    <2>2. socketLease' = [x \in Sockets |-> IF x = s THEN generation + 1
                                            ELSE IF x = publisher THEN 0 ELSE socketLease[x]]
      BY <1>2 DEF AcquireLease
    <2>3. socketLease'[s] = generation + 1
      BY <2>2
    <2>4. ASSUME NEW x \in Sockets, x # s PROVE socketLease'[x] = 0
      BY <2>2, <2>4 DEF LeaseHasKeeper
    <2>5. s # Null
      BY DEF CommandsAssumption
    <2> QED
      BY <2>1, <2>3, <2>4, <2>5 DEF LeaseHasKeeper
  <1>3. ASSUME NEW s \in Sockets, RenewLease(s) PROVE LeaseHasKeeper'
    BY <1>1, <1>3 DEF RenewLease, LeaseHasKeeper, NoLease
  <1>4. ASSUME NEW s \in Sockets, socketLease[s] # 0, GiveUpLease(s) PROVE lease'.generation = 0
    BY <1>1, <1>4 DEF GiveUpLease, LeaseHasKeeper, NoLease
  <1>5. ASSUME NEW s \in Sockets, ForgetSocket(s), socketLease[s] # 0
        PROVE  \A x \in Sockets : socketLease'[x] = 0
    BY <1>5 DEF ForgetSocket, LeaseHasKeeper, CommandsTypeOK
  <1>6. ASSUME NEW s \in Sockets, ReleaseLease(s) PROVE LeaseHasKeeper'
    <2>1. lease'.generation = 0 /\ \A x \in Sockets : socketLease'[x] = 0
      BY <1>4, <1>5, <1>6 DEF ReleaseLease
    <2> QED
      BY <2>1 DEF LeaseHasKeeper
  <1>7. ASSUME NEW s \in Sockets, Connect(s) \/ StartClosing(s) PROVE LeaseHasKeeper'
    BY <1>7 DEF Connect, StartClosing, LeaseHasKeeper, CommandsTypeOK
  <1>8. ASSUME NEW s \in Sockets, SocketClosed(s) PROVE LeaseHasKeeper'
    <2>1. CASE socketLease[s] # 0
      <3>1. lease'.generation = 0 /\ \A x \in Sockets : socketLease'[x] = 0
        BY <1>4, <1>5, <1>8, <2>1 DEF SocketClosed
      <3> QED
        BY <3>1 DEF LeaseHasKeeper
    <2>2. CASE socketLease[s] = 0
      <3>1. UNCHANGED <<lease, leaseTimer>> /\ socketLease' = socketLease
        BY <1>8, <2>2 DEF SocketClosed, ForgetSocket, CommandsTypeOK
      <3>2. \A x \in Sockets : x # s => socketState'[x] = socketState[x]
        BY <1>8 DEF SocketClosed, CommandsTypeOK
      <3>3. publisher # s => publisher' = publisher
        BY <1>8 DEF SocketClosed, ForgetSocket
      <3> QED
        BY <2>2, <3>1, <3>2, <3>3 DEF LeaseHasKeeper
    <2> QED
      BY <2>1, <2>2
  <1>9. ASSUME NEW b \in sends, NEW o \in {"succeeded", "failed"},
               BrowserResult(b, o) \/ StrayResult(b) \/ IgnoredResult(b)
        PROVE  LeaseHasKeeper'
    BY <1>9 DEF BrowserResult, StrayResult, IgnoredResult, ResultOnly, LeaseHasKeeper
  <1> QED
    BY <1>2, <1>3, <1>6, <1>7, <1>8, <1>9 DEF BrowserStep

(* Whoever takes the keepers away takes the lease with them.               *)
LEMMA GatewayKeeps ==
    ASSUME CommandsAssumption, CommandsTypeOK, LeaseHasKeeper, GatewayStep
    PROVE  LeaseHasKeeper'
  <1> USE DEF leaseVars, wireVars
  <1>1. ASSUME NEW c \in completing, Complete(c) PROVE LeaseHasKeeper'
    BY <1>1 DEF Complete, Ticked, LeaseHasKeeper, NoLease
  <1>2. ASSUME NEW p \in pending, CommandTimeout(p) PROVE LeaseHasKeeper'
    BY <1>2 DEF CommandTimeout, LeaseHasKeeper
  <1>3. ASSUME NEW b \in sends, SendFailed(b) PROVE LeaseHasKeeper'
    BY <1>3 DEF SendFailed, LeaseHasKeeper
  <1>4. CASE LeaseDue
    BY <1>4 DEF LeaseDue, LeaseHasKeeper, CommandsTypeOK
  <1>5. CASE LeaseTimerFires
    <2>1. CASE ~lease.due
      BY <1>5, <2>1 DEF LeaseTimerFires, LeaseHasKeeper
    <2>2. CASE lease.due /\ publisher # Null /\ socketLease[publisher] = leaseTimer
      <3>1. lease'.generation = 0 /\ \A x \in Sockets : socketLease'[x] = 0
        BY <1>5, <2>2 DEF LeaseTimerFires, ForgetSocket, LeaseHasKeeper, CommandsTypeOK, NoLease
      <3> QED
        BY <3>1 DEF LeaseHasKeeper
    <2>3. CASE lease.due /\ ~(publisher # Null /\ socketLease[publisher] = leaseTimer)
      BY <1>5, <2>3 DEF LeaseTimerFires, LeaseHasKeeper, NoLease
    <2> QED
      BY <2>1, <2>2, <2>3
  <1>6. CASE BeginTransition \/ Recover
    BY <1>6 DEF BeginTransition, Recover, LeaseHasKeeper
  <1>7. CASE Install \/ LoseAuthority \/ Withdraw
    <2>1. ForgetPublishers
      BY <1>7 DEF Install, LoseAuthority, Withdraw
    <2> QED
      BY <2>1 DEF ForgetPublishers, LeaseHasKeeper, NoLease
  <1> QED
    BY <1>1, <1>2, <1>3, <1>4, <1>5, <1>6, <1>7 DEF GatewayStep

-----------------------------------------------------------------------------
(* The registry, the table of pending commands and the results agree.      *)

(* Pending commands that become results keep the two tables in step.       *)
LEMMA MoveAgrees ==
    ASSUME CommandsAssumption, CommandsTypeOK, CommandsTypeOK', InFlightOnce, Bookkeeping,
           NEW S \in SUBSET pending, NEW N,
           pending' = pending \ S, completing' = completing \cup N,
           \A n \in N : \E p \in S : Same(n, p),
           \A p \in S : \E n \in N : Same(n, p),
           \A x, y \in N : Same(x, y) => x = y,
           records' = records,
           generation <= generation', lease'.generation \in {0, generation'}
    PROVE  InFlightOnce' /\ Bookkeeping'
  <1> USE DEF Same
  <1>1. ASSUME NEW n \in N PROVE \E r \in records : Same(n, r) /\ r.outcome = "running"
    BY <1>1 DEF InFlightOnce
  <1>2. \A p \in pending' : \E r \in records' : Same(p, r) /\ r.outcome = "running"
    BY DEF InFlightOnce
  <1>3. ASSUME NEW r \in records', r.outcome = "running"
        PROVE  \E x \in pending' \cup completing' : Same(x, r)
    BY <1>3 DEF InFlightOnce
  <1>4. \A p \in pending', c \in completing' : ~Same(p, c)
    BY DEF InFlightOnce
  <1>5. \A x, y \in completing' : Same(x, y) => x = y
    BY DEF InFlightOnce
  <1>6. InFlightOnce'
    BY <1>2, <1>3, <1>4, <1>5 DEF InFlightOnce
  <1>7. /\ generation \in Nat /\ generation' \in Nat
        /\ \A r \in records : r.generation \in Nat
        /\ \A c \in completing : c.generation \in Nat
    BY DEF CommandsTypeOK, Record, Completion, Generations, CommandsAssumption
  <1>8. \A r \in records' : r.generation <= generation'
    BY <1>7 DEF Bookkeeping
  <1>9. \A c \in completing' : c.generation <= generation'
    BY <1>1, <1>7, <1>8 DEF Bookkeeping
  <1>10. \A c \in completing' :
            \/ c.generation < generation'
            \/ \E r \in records' : Same(c, r) /\ r.outcome = "running"
    BY <1>1, <1>7 DEF Bookkeeping
  <1> QED
    BY <1>6, <1>8, <1>9, <1>10 DEF Bookkeeping

(* Settling does.                                                          *)
LEMMA SettleAgrees ==
    ASSUME CommandsAssumption, CommandsTypeOK, CommandsTypeOK', InFlightOnce, Bookkeeping,
           NEW S \in SUBSET pending, SettlePending(S),
           records' = records,
           generation <= generation', lease'.generation \in {0, generation'}
    PROVE  InFlightOnce' /\ Bookkeeping'
  <1>1. \A n \in Failed(S) : \E p \in S : Same(n, p)
    BY DEF Failed, Same
  <1>2. ASSUME NEW p \in S PROVE \E n \in Failed(S) : Same(n, p)
    <2> DEFINE n == [generation |-> p.generation, request |-> p.request, outcome |-> "failed"]
    <2>1. n \in Failed(S)
      BY DEF Failed
    <2>2. Same(n, p)
      BY DEF Same
    <2> QED
      BY <2>1, <2>2
  <1>3. \A x, y \in Failed(S) : Same(x, y) => x = y
    BY DEF Failed, Same
  <1> QED
    BY <1>1, <1>2, <1>3, MoveAgrees DEF SettlePending

(* A step that leaves both tables alone does.                              *)
LEMMA IdleAgrees ==
    ASSUME InFlightOnce, Bookkeeping, UNCHANGED <<records, pending, completing, generation>>,
           lease'.generation \in {0, generation}
    PROVE  InFlightOnce' /\ Bookkeeping'
  BY DEF InFlightOnce, Bookkeeping, Same

(* What a new record leaves: everything in flight, and nothing of its key. *)
LEMMA AdmitKeeps ==
    ASSUME CommandsAssumption, CommandsTypeOK, InFlightOnce, Bookkeeping,
           NEW q \in Requests, NEW v \in Variants, NEW o \in {"running", "rejected"},
           LeaseAlive, Retained(q) = {}, Admit(q, v, o),
           NEW new,
           new = [generation |-> lease.generation, request |-> q, variant |-> v, outcome |-> o]
    PROVE  /\ new \in records' /\ \A r \in records' : r \in records \/ r = new
           /\ \A r \in records : r.outcome = "running" => r \in records'
           /\ \A r \in records : ~Same(r, new)
           /\ \A p \in pending : ~Same(p, new)
           /\ \A c \in completing : ~Same(c, new)
           /\ lease.generation = generation
           /\ \A r, x \in records' : Same(r, x) => r = x
           /\ \A r \in records' : r.generation <= generation
  <1>1. PICK E \in Evictions : records' = (records \ E) \cup {new}
    BY DEF Admit
  <1>2. \A r \in E : r \in records /\ r.outcome # "running"
    BY DEF Evictions
  <1>3. \A r \in records : ~Same(r, new)
    BY DEF Retained, Same
  <1>4. \A p \in pending : ~Same(p, new)
    BY <1>3 DEF InFlightOnce, Same
  <1>5. lease.generation = generation /\ generation \in Nat
    BY DEF LeaseAlive, Bookkeeping, CommandsTypeOK, CommandsAssumption
  <1>6. \A c \in completing : ~Same(c, new)
    BY <1>3, <1>5 DEF Bookkeeping, Same, CommandsTypeOK, Completion, Generations
  <1>7. \A r, x \in records' : Same(r, x) => r = x
    BY <1>1, <1>3 DEF Bookkeeping, Same
  <1>8. \A r \in records' : r.generation <= generation
    BY <1>1, <1>5 DEF Bookkeeping
  <1> QED
    BY <1>1, <1>2, <1>3, <1>4, <1>5, <1>6, <1>7, <1>8

(* Execute adds a record together with its flight, or neither.             *)
LEMMA ExecuteAgrees ==
    ASSUME CommandsAssumption, CommandsTypeOK, InFlightOnce, Bookkeeping, ClientStep
    PROVE  InFlightOnce' /\ Bookkeeping'
  <1> USE DEF ExecuteOnly, wireVars
  <1>0. UNCHANGED generation /\ lease' \in {lease, NoLease}
    BY DEF ClientStep, ExecuteUnavailable, ExecuteRefused, Execute, ExecuteAgain,
       ExecuteConflict, ExecuteLapsed, ExecuteUnsent, ExecuteSend
  <1>1. UNCHANGED generation /\ lease'.generation \in {0, generation}
    BY <1>0 DEF NoLease, Bookkeeping
  <1>2. CASE UNCHANGED <<records, pending, completing>>
    BY <1>1, <1>2, IdleAgrees
  <1>3. ASSUME NEW q \in Requests, ExecuteUnavailable(q) \/ ExecuteRefused(q)
        PROVE  UNCHANGED <<records, pending, completing>>
    BY <1>3 DEF ExecuteUnavailable, ExecuteRefused
  <1>4. ASSUME NEW q \in Requests, NEW v \in Variants, ExecuteAgain(q, v) \/ ExecuteConflict(q, v)
        PROVE  UNCHANGED <<records, pending, completing>>
    BY <1>4 DEF ExecuteAgain, ExecuteConflict
  <1>5. ASSUME NEW q \in Requests, NEW v \in Variants, ExecuteLapsed(q, v),
               Admit(q, v, "rejected")
        PROVE  InFlightOnce' /\ Bookkeeping'
    <2> DEFINE new == [generation |-> lease.generation, request |-> q, variant |-> v,
                       outcome |-> "rejected"]
    <2>1. /\ LeaseAlive /\ Retained(q) = {} /\ Admit(q, v, "rejected")
          /\ UNCHANGED <<pending, completing>>
      BY <1>5 DEF ExecuteLapsed
    <2>2. /\ new \in records' /\ \A r \in records' : r \in records \/ r = new
          /\ \A r \in records : r.outcome = "running" => r \in records'
          /\ \A r, x \in records' : Same(r, x) => r = x
          /\ \A r \in records' : r.generation <= generation
      BY <2>1, AdmitKeeps
    <2>3. new.outcome # "running"
      OBVIOUS
    <2> HIDE DEF new
    <2>4. InFlightOnce'
      BY <2>1, <2>2, <2>3 DEF InFlightOnce, Same
    <2> QED
      BY <1>1, <2>1, <2>2, <2>4 DEF Bookkeeping, Same
  <1>6. ASSUME NEW q \in Requests, NEW v \in Variants, ExecuteUnsent(q, v)
        PROVE  InFlightOnce' /\ Bookkeeping'
    <2> DEFINE new == [generation |-> lease.generation, request |-> q, variant |-> v,
                       outcome |-> "running"]
               c == [generation |-> lease.generation, request |-> q, outcome |-> "unsent"]
    <2>1. LeaseAlive /\ Retained(q) = {} /\ Admit(q, v, "running")
      BY <1>6 DEF ExecuteUnsent
    <2>2. pending' = pending /\ completing' = completing \cup {c}
      BY <1>6 DEF ExecuteUnsent
    <2>3. /\ new \in records' /\ \A r \in records' : r \in records \/ r = new
          /\ \A r \in records : r.outcome = "running" => r \in records'
          /\ \A p \in pending : ~Same(p, new)
          /\ \A x \in completing : ~Same(x, new)
          /\ lease.generation = generation
          /\ \A r, x \in records' : Same(r, x) => r = x
          /\ \A r \in records' : r.generation <= generation
      BY <2>1, AdmitKeeps
    <2>4. new.outcome = "running" /\ Same(c, new) /\ c.generation = new.generation
      BY DEF Same
    <2> HIDE DEF new, c
    <2>5. InFlightOnce'
      BY <2>2, <2>3, <2>4 DEF InFlightOnce, Same
    <2>6. \A x \in completing' :
             \/ x.generation < generation
             \/ \E r \in records' : Same(x, r) /\ r.outcome = "running"
      BY <2>2, <2>3, <2>4 DEF Bookkeeping, Same
    <2>7. \A x \in completing' : x.generation <= generation
      BY <2>2, <2>3, <2>4 DEF Bookkeeping
    <2> QED
      BY <1>1, <2>3, <2>5, <2>6, <2>7 DEF Bookkeeping, Same
  <1>7. ASSUME NEW q \in Requests, NEW v \in Variants, ExecuteSend(q, v)
        PROVE  InFlightOnce' /\ Bookkeeping'
    <2> DEFINE new == [generation |-> lease.generation, request |-> q, variant |-> v,
                       outcome |-> "running"]
               b == [socket |-> publisher, generation |-> lease.generation, request |-> q]
    <2>1. LeaseAlive /\ Retained(q) = {} /\ Admit(q, v, "running")
      BY <1>7 DEF ExecuteSend
    <2>2. pending' = {p \in pending : ~Same(p, b)} \cup {b} /\ completing' = completing
      BY <1>7 DEF ExecuteSend
    <2>3. /\ new \in records' /\ \A r \in records' : r \in records \/ r = new
          /\ \A r \in records : r.outcome = "running" => r \in records'
          /\ \A p \in pending : ~Same(p, new)
          /\ \A x \in completing : ~Same(x, new)
          /\ \A r, x \in records' : Same(r, x) => r = x
          /\ \A r \in records' : r.generation <= generation
      BY <2>1, AdmitKeeps
    <2>4. new.outcome = "running" /\ Same(b, new)
      BY DEF Same
    <2> HIDE DEF new, b
    <2>5. pending' = pending \cup {b}
      BY <2>2, <2>3, <2>4 DEF Same
    <2>6. InFlightOnce'
      BY <2>2, <2>3, <2>4, <2>5 DEF InFlightOnce, Same
    <2> QED
      BY <1>1, <2>2, <2>3, <2>6 DEF Bookkeeping, Same
  <1>8. ASSUME NEW q \in Requests, NEW v \in Variants, ExecuteLapsed(q, v)
        PROVE  InFlightOnce' /\ Bookkeeping'
    BY <1>2, <1>5, <1>8 DEF ExecuteLapsed
  <1> QED
    BY <1>2, <1>3, <1>4, <1>6, <1>7, <1>8 DEF ClientStep, Execute

(* A connection settles what it leaves, or answers one command.            *)
LEMMA BrowserAgrees ==
    ASSUME CommandsAssumption, CommandsTypeOK, CommandsTypeOK', InFlightOnce, Bookkeeping,
           BrowserStep
    PROVE  InFlightOnce' /\ Bookkeeping'
  <1> USE DEF leaseVars, wireVars
  <1>1. generation \in Nat
    BY DEF CommandsTypeOK, CommandsAssumption
  <1>2. ASSUME NEW s \in Sockets, AcquireLease(s) PROVE InFlightOnce' /\ Bookkeeping'
    <2> DEFINE S == IF lease.generation = 0 THEN {} ELSE PendingOf(lease.generation)
    <2>1. S \in SUBSET pending /\ SettlePending(S)
      BY <1>2 DEF AcquireLease, PendingOf
    <2>2. /\ records' = records /\ generation <= generation'
          /\ lease'.generation \in {0, generation'}
      BY <1>1, <1>2 DEF AcquireLease
    <2> QED
      BY <2>1, <2>2, SettleAgrees
  <1>3. Ticked.generation \in {0, generation}
    BY DEF Ticked, NoLease, Bookkeeping
  <1>4. ASSUME NEW s \in Sockets, RenewLease(s) PROVE InFlightOnce' /\ Bookkeeping'
    BY <1>3, <1>4, IdleAgrees DEF RenewLease
  <1>5. ASSUME NEW s \in Sockets, GiveUpLease(s), UNCHANGED <<generation, records>>
        PROVE  InFlightOnce' /\ Bookkeeping'
    <2>1. PendingOf(socketLease[s]) \in SUBSET pending
      BY DEF PendingOf
    <2>2. lease'.generation \in {0, generation'}
      BY <1>3, <1>5 DEF GiveUpLease, NoLease
    <2> QED
      BY <1>1, <1>5, <2>1, <2>2, SettleAgrees DEF GiveUpLease
  <1>6. ASSUME NEW s \in Sockets, ReleaseLease(s) PROVE InFlightOnce' /\ Bookkeeping'
    BY <1>5, <1>6 DEF ReleaseLease
  <1>7. ASSUME NEW s \in Sockets, Connect(s) \/ StartClosing(s)
        PROVE  InFlightOnce' /\ Bookkeeping'
    <2>1. UNCHANGED <<records, pending, completing, generation, lease>>
      BY <1>7 DEF Connect, StartClosing
    <2> QED
      BY <2>1, IdleAgrees DEF Bookkeeping
  <1>8. ASSUME NEW s \in Sockets, SocketClosed(s) PROVE InFlightOnce' /\ Bookkeeping'
    <2>1. UNCHANGED <<generation, records>>
      BY <1>8 DEF SocketClosed
    <2>2. CASE socketLease[s] # 0
      BY <1>5, <1>8, <2>1, <2>2 DEF SocketClosed
    <2>3. CASE socketLease[s] = 0
      <3>1. UNCHANGED <<pending, completing, lease>>
        BY <1>8, <2>3 DEF SocketClosed
      <3> QED
        BY <2>1, <3>1, IdleAgrees DEF Bookkeeping
    <2> QED
      BY <2>2, <2>3
  <1>9. ASSUME NEW b \in sends, NEW o \in {"succeeded", "failed"}, BrowserResult(b, o)
        PROVE  InFlightOnce' /\ Bookkeeping'
    <2>1. PICK p \in pending :
             /\ pending' = pending \ {p}
             /\ completing' = completing \cup
                   {[generation |-> p.generation, request |-> p.request, outcome |-> o]}
      BY <1>9 DEF BrowserResult
    <2> DEFINE c == [generation |-> p.generation, request |-> p.request, outcome |-> o]
    <2>2. Same(c, p)
      BY DEF Same
    <2>3. /\ records' = records /\ generation <= generation'
          /\ lease'.generation \in {0, generation'}
      BY <1>1, <1>9 DEF BrowserResult, ResultOnly, Bookkeeping
    <2> DEFINE S == {p}
               N == {c}
    <2>4. /\ S \in SUBSET pending
          /\ \A n \in N : \E x \in S : Same(n, x)
          /\ \A x \in S : \E n \in N : Same(n, x)
          /\ \A x, y \in N : Same(x, y) => x = y
      BY <2>2
    <2>5. pending' = pending \ S /\ completing' = completing \cup N
      BY <2>1
    <2> HIDE DEF S, N
    <2> QED
      BY SMTT(30), <2>3, <2>4, <2>5, MoveAgrees
  <1>10. ASSUME NEW b \in sends, StrayResult(b) PROVE InFlightOnce' /\ Bookkeeping'
    <2>1. /\ records' = records /\ generation' = generation
          /\ lease'.generation \in {0, generation'}
      BY <1>10 DEF StrayResult, ResultOnly, Bookkeeping
    <2>2. CASE UNCHANGED <<pending, completing>>
      BY <2>1, <2>2, IdleAgrees
    <2>3. ASSUME NEW p \in pending, SettlePending({p}) PROVE InFlightOnce' /\ Bookkeeping'
      <3>1. {p} \in SUBSET pending /\ generation <= generation'
        BY <1>1, <2>1
      <3> QED
        BY <2>1, <2>3, <3>1, SettleAgrees
    <2> QED
      BY <1>10, <2>2, <2>3 DEF StrayResult
  <1>11. ASSUME NEW b \in sends, IgnoredResult(b) PROVE InFlightOnce' /\ Bookkeeping'
    <2>1. UNCHANGED <<records, pending, completing, generation, lease>>
      BY <1>11 DEF IgnoredResult, ResultOnly
    <2> QED
      BY <2>1, IdleAgrees DEF Bookkeeping
  <1> QED
    BY <1>2, <1>4, <1>6, <1>7, <1>8, <1>9, <1>10, <1>11 DEF BrowserStep

(* A continuation ends its record; timers and transitions settle or forget.*)
LEMMA GatewayAgrees ==
    ASSUME CommandsAssumption, CommandsTypeOK, CommandsTypeOK', InFlightOnce, Bookkeeping,
           GatewayStep
    PROVE  InFlightOnce' /\ Bookkeeping'
  <1> USE DEF leaseVars, wireVars
  <1>1. generation \in Nat
    BY DEF CommandsTypeOK, CommandsAssumption
  <1>2. Ticked.generation \in {0, generation}
    BY DEF Ticked, NoLease, Bookkeeping
  <1>3. ASSUME NEW c \in completing, Complete(c) PROVE InFlightOnce' /\ Bookkeeping'
    <2> DEFINE done(r) == [r EXCEPT !.outcome = Fenced(c)]
    <2>1. /\ completing' = completing \ {c} /\ pending' = pending
          /\ generation' = generation /\ lease'.generation \in {0, generation}
          /\ records' = {IF Same(r, c) THEN done(r) ELSE r : r \in records}
      BY <1>2, <1>3 DEF Complete, Bookkeeping
    <2>2. ASSUME NEW r \in records
          PROVE  Same(done(r), r) /\ done(r).outcome # "running"
      <3>1. r \in Record
        BY DEF CommandsTypeOK
      <3> QED
        BY <3>1, FencedType DEF Record, Same
    <2>3. ASSUME NEW x \in records' PROVE \E r \in records : x = r \/ (x = done(r) /\ Same(r, c))
      BY <2>1
    <2>4. ASSUME NEW r \in records, ~Same(r, c) PROVE r \in records'
      BY <2>1, <2>4
    <2> HIDE DEF done
    <2>5. ASSUME NEW x \in records', x.outcome = "running" PROVE x \in records /\ ~Same(x, c)
      <3>1. PICK r \in records : x = (IF Same(r, c) THEN done(r) ELSE r)
        BY <2>1
      <3> QED
        BY <2>2, <2>5, <3>1
    <2>6. ASSUME NEW p \in pending PROVE \E r \in records' : Same(p, r) /\ r.outcome = "running"
      BY <2>4 DEF InFlightOnce, Same
    <2>7. ASSUME NEW r \in records', r.outcome = "running"
          PROVE  \E x \in pending \cup completing' : Same(x, r)
      BY <2>1, <2>5, <2>7 DEF InFlightOnce, Same
    <2>8. InFlightOnce'
      BY <2>1, <2>6, <2>7 DEF InFlightOnce
    <2>9. \A r, x \in records' : Same(r, x) => r = x
      <3> SUFFICES ASSUME NEW r \in records', NEW x \in records', Same(r, x) PROVE r = x
        OBVIOUS
      <3>1. PICK r0 \in records : r = (IF Same(r0, c) THEN done(r0) ELSE r0)
        BY <2>1
      <3>2. PICK x0 \in records : x = (IF Same(x0, c) THEN done(x0) ELSE x0)
        BY <2>1
      <3>3. Same(r0, x0)
        BY <2>2, <3>1, <3>2 DEF Same
      <3>4. r0 = x0
        BY <3>3 DEF Bookkeeping
      <3> QED
        BY <3>1, <3>2, <3>4
    <2>10. \A r \in records' : r.generation <= generation
      BY <2>2, <2>3 DEF Bookkeeping, Same
    <2>11. ASSUME NEW x \in completing'
           PROVE  \/ x.generation < generation
                  \/ \E r \in records' : Same(x, r) /\ r.outcome = "running"
      <3>1. x \in completing /\ ~Same(x, c)
        BY <2>1 DEF InFlightOnce
      <3> QED
        BY <2>4, <3>1 DEF Bookkeeping, Same
    <2> QED
      BY <2>1, <2>8, <2>9, <2>10, <2>11 DEF Bookkeeping
  <1>4. ASSUME NEW p \in pending, CommandTimeout(p) PROVE InFlightOnce' /\ Bookkeeping'
    <2>1. /\ {p} \in SUBSET pending /\ SettlePending({p}) /\ records' = records
          /\ generation <= generation' /\ lease'.generation \in {0, generation'}
      BY <1>1, <1>4 DEF CommandTimeout, Bookkeeping
    <2> QED
      BY <2>1, SettleAgrees
  <1>5. ASSUME NEW b \in sends, SendFailed(b) PROVE InFlightOnce' /\ Bookkeeping'
    <2> DEFINE S == {p \in pending : Same(p, b)}
    <2>1. /\ S \in SUBSET pending /\ SettlePending(S) /\ records' = records
          /\ generation <= generation' /\ lease'.generation \in {0, generation'}
      BY <1>1, <1>5 DEF SendFailed, Bookkeeping
    <2> HIDE DEF S
    <2> QED
      BY <2>1, SettleAgrees
  <1>6. CASE LeaseDue
    <2>1. UNCHANGED <<records, pending, completing, generation>>
      BY <1>6 DEF LeaseDue
    <2>2. lease'.generation = lease.generation
      BY <1>6 DEF LeaseDue, CommandsTypeOK
    <2> QED
      BY <2>1, <2>2, IdleAgrees DEF Bookkeeping
  <1>7. CASE LeaseTimerFires
    <2>1. records' = records /\ generation' = generation
      BY <1>7 DEF LeaseTimerFires
    <2>2. CASE lease.due
      <3>1. /\ PendingOf(leaseTimer) \in SUBSET pending /\ SettlePending(PendingOf(leaseTimer))
            /\ lease'.generation \in {0, generation'} /\ generation <= generation'
        BY <1>1, <1>7, <2>1, <2>2 DEF LeaseTimerFires, PendingOf, NoLease
      <3> QED
        BY <2>1, <3>1, SettleAgrees
    <2>3. CASE ~lease.due
      <3>1. UNCHANGED <<pending, completing, lease>>
        BY <1>7, <2>3 DEF LeaseTimerFires
      <3> QED
        BY <2>1, <3>1, IdleAgrees DEF Bookkeeping
    <2> QED
      BY <2>2, <2>3
  <1>8. CASE BeginTransition \/ Recover
    <2>1. UNCHANGED <<records, pending, completing, generation, lease>>
      BY <1>8 DEF BeginTransition, Recover
    <2> QED
      BY <2>1, IdleAgrees DEF Bookkeeping
  <1>9. CASE Install \/ Withdraw
    <2>1. /\ records' = {} /\ pending' = {} /\ completing' = {}
          /\ lease'.generation = 0
      BY <1>9 DEF Install, Withdraw, ForgetPublishers, NewRuntimeState, NoLease
    <2> QED
      BY <2>1 DEF InFlightOnce, Bookkeeping
  <1>10. CASE LoseAuthority
    <2>1. /\ records' = {} /\ pending' = {} /\ completing' = completing \cup Failed(pending)
          /\ lease'.generation = 0 /\ generation' = generation + 1
      BY <1>10 DEF LoseAuthority, ForgetPublishers, NoLease, SettlePending
    <2>2. ASSUME NEW x \in Failed(pending) PROVE \E p \in pending : Same(x, p)
      BY DEF Failed, Same
    <2>3. \A x \in completing' : x.generation < generation'
      <3>1. \A p \in pending : p.generation <= generation
        BY DEF InFlightOnce, Bookkeeping, Same
      <3>2. \A x \in completing' : x.generation <= generation
        BY <2>1, <2>2, <3>1 DEF Bookkeeping, Same
      <3>3. \A x \in completing' : x.generation \in Nat
        BY DEF CommandsTypeOK, Completion, Generations, CommandsAssumption
      <3> QED
        BY <1>1, <2>1, <3>2, <3>3
    <2>4. \A x, y \in Failed(pending) : Same(x, y) => x = y
      BY DEF Failed, Same
    <2>5. \A x, y \in completing' : Same(x, y) => x = y
      BY <2>1, <2>2, <2>4 DEF InFlightOnce, Same
    <2>6. InFlightOnce'
      BY <2>1, <2>5 DEF InFlightOnce
    <2>7. \A x \in completing' : x.generation <= generation'
      <3>1. \A x \in completing' : x.generation \in Nat /\ generation' \in Nat
        BY DEF CommandsTypeOK, Completion, Generations, CommandsAssumption
      <3> QED
        BY <2>3, <3>1
    <2> QED
      BY <2>1, <2>3, <2>6, <2>7 DEF Bookkeeping
  <1> QED
    BY <1>3, <1>4, <1>5, <1>6, <1>7, <1>8, <1>9, <1>10 DEF GatewayStep

-----------------------------------------------------------------------------
(* The inductive invariant: types, the keepers of the lease, the agreement *)
(* of registry and pending commands, and the bookkeeping between them hold *)
(* in every reachable state.                                               *)
THEOREM CommandsInvariant == Spec => []CommandsInv
  <1> USE CommandsAssumption
  <1>1. Init => CommandsInv
    <2> SUFFICES ASSUME Init PROVE CommandsInv
      OBVIOUS
    <2>1. CommandsTypeOK
      BY DEF Init, CommandsTypeOK, CommandsAssumption, Phases, NoLease, NoResult, Result
    <2>2. LeaseHasKeeper
      BY DEF Init, LeaseHasKeeper, NoLease
    <2>3. InFlightOnce /\ Bookkeeping
      BY DEF Init, InFlightOnce, Bookkeeping, NoLease
    <2> QED
      BY <2>1, <2>2, <2>3 DEF CommandsInv
  <1>2. CommandsInv /\ [Next]_vars => CommandsInv'
    <2> SUFFICES ASSUME CommandsInv, [Next]_vars PROVE CommandsInv'
      OBVIOUS
    <2> USE DEF CommandsInv
    <2>1. CASE ClientStep
      <3>1. CommandsTypeOK'
        BY <2>1, ExecuteType DEF ClientStep
      <3> QED
        BY <2>1, <3>1, ExecuteKeeps, ExecuteAgrees
    <2>2. CASE BrowserStep
      <3>1. CommandsTypeOK'
        BY <2>2, BrowserType
      <3> QED
        BY <2>2, <3>1, BrowserKeeps, BrowserAgrees
    <2>3. CASE GatewayStep
      <3>1. CommandsTypeOK'
        BY <2>3, GatewayType
      <3> QED
        BY <2>3, <3>1, GatewayKeeps, GatewayAgrees
    <2>4. CASE UNCHANGED vars
      BY <2>4 DEF vars, leaseVars, wireVars, CommandsTypeOK, LeaseHasKeeper, InFlightOnce,
         Bookkeeping, Same
    <2> QED
      BY <2>1, <2>2, <2>3, <2>4 DEF Next
  <1> QED
    BY <1>1, <1>2, PTL DEF Spec

(* Every variable keeps its type (main.ts, browser-command-dispatch.ts).   *)
THEOREM CommandsTypeCorrect == Spec => []CommandsTypeOK
  <1>1. CommandsInv => CommandsTypeOK
    BY DEF CommandsInv
  <1> QED
    BY <1>1, CommandsInvariant, PTL

(* A lease never outlives its timer, its publisher's connection or its     *)
(* runtime (main.ts:440-458, 1361-1413, 1661-1672).                        *)
THEOREM LeaseAlwaysKept == Spec => []LeaseHasKeeper
  <1>1. CommandsInv => LeaseHasKeeper
    BY DEF CommandsInv
  <1> QED
    BY <1>1, CommandsInvariant, PTL

(* A command in flight is retained as running and in flight exactly once,  *)
(* however small the registry (runtime-command-dedupe-registry.ts:59-107). *)
THEOREM InFlightExactlyOnce == Spec => []InFlightOnce
  <1>1. CommandsInv => InFlightOnce
    BY DEF CommandsInv
  <1> QED
    BY <1>1, CommandsInvariant, PTL

-----------------------------------------------------------------------------
(* A step that publishes writes one request's result.                      *)
LEMMA PublishOne ==
    ASSUME published \in [Requests -> Result], NEW q \in Requests, NEW st, NEW g,
           Publish(q, st, g), NEW x \in Requests, published'[x] # published[x]
    PROVE  x = q /\ published'[x] = [state |-> st, generation |-> g]
  BY DEF Publish

(* Only these steps give a request another result.                         *)
LEMMA Publishers ==
    ASSUME CommandsAssumption, CommandsTypeOK, Next, NEW q \in Requests,
           published'[q] # published[q]
    PROVE  \/ /\ published'[q] = [state |-> "rejected", generation |-> 0]
              /\ lease' = NoLease \/ (lease' = lease /\ Retained(q) = {})
           \/ /\ published'[q] = [state |-> "running", generation |-> lease.generation]
              /\ lease' \in {lease, NoLease} /\ Retained(q) = {}
           \/ \E r \in Retained(q) :
                 /\ published'[q] = [state |-> r.outcome, generation |-> r.generation]
                 /\ r.outcome # "running" /\ LeaseAlive /\ lease' = lease
           \/ \E c \in completing :
                 /\ published'[q] = [state |-> Fenced(c), generation |-> c.generation]
                 /\ c.request = q /\ Complete(c)
           \/ /\ published'[q] = NoResult
              /\ phase # "active" \/ phase' # "active"
  <1> USE DEF leaseVars, wireVars, CommandsTypeOK
  <1>1. ASSUME NEW x \in Requests, Reject(x)
        PROVE  x = q /\ published'[q] = [state |-> "rejected", generation |-> 0]
    BY <1>1, PublishOne DEF Reject
  <1>2. ASSUME NEW x \in Requests, ExecuteUnavailable(x) \/ ExecuteRefused(x)
        PROVE  /\ published'[q] = [state |-> "rejected", generation |-> 0]
               /\ lease' = NoLease \/ (lease' = lease /\ Retained(q) = {})
    BY <1>1, <1>2 DEF ExecuteUnavailable, ExecuteRefused
  <1>3. ASSUME NEW x \in Requests, NEW v \in Variants, ExecuteLapsed(x, v)
        PROVE  published'[q] = [state |-> "rejected", generation |-> 0] /\ lease' = NoLease
    BY <1>1, <1>3 DEF ExecuteLapsed
  <1>4. ASSUME NEW x \in Requests, NEW v \in Variants, ExecuteUnsent(x, v) \/ ExecuteSend(x, v)
        PROVE  /\ published'[q] = [state |-> "running", generation |-> lease.generation]
               /\ lease' \in {lease, NoLease} /\ Retained(q) = {}
    <2>1. /\ Publish(x, "running", lease.generation) /\ Retained(x) = {}
          /\ lease' \in {lease, NoLease}
      BY <1>4 DEF ExecuteUnsent, ExecuteSend
    <2> QED
      BY <2>1, PublishOne
  <1>5. ASSUME NEW x \in Requests, NEW v \in Variants, ExecuteAgain(x, v)
        PROVE  \E r \in Retained(q) :
                 /\ published'[q] = [state |-> r.outcome, generation |-> r.generation]
                 /\ r.outcome # "running" /\ LeaseAlive /\ lease' = lease
    <2>1. LeaseAlive /\ lease' = lease
      BY <1>5 DEF ExecuteAgain
    <2>2. PICK r \in Retained(x) : r.outcome # "running" /\ Publish(x, r.outcome, r.generation)
      BY <1>5 DEF ExecuteAgain
    <2>3. x = q /\ published'[q] = [state |-> r.outcome, generation |-> r.generation]
      BY <2>2, PublishOne
    <2> QED
      BY <2>1, <2>2, <2>3
  <1>6. ASSUME NEW x \in Requests, NEW v \in Variants, ExecuteConflict(x, v) PROVE FALSE
    BY <1>6 DEF ExecuteConflict, PublishConflict
  <1>7. CASE BrowserStep
    BY <1>7 DEF BrowserStep, AcquireLease, RenewLease, ReleaseLease, Connect, StartClosing,
       SocketClosed, BrowserResult, StrayResult, IgnoredResult, ResultOnly
  <1>8. ASSUME NEW c \in completing, Complete(c)
        PROVE  /\ published'[q] = [state |-> Fenced(c), generation |-> c.generation]
               /\ c.request = q
    <2>1. c.request \in Requests /\ Publish(c.request, Fenced(c), c.generation)
      BY <1>8 DEF Complete, Completion
    <2> QED
      BY <2>1, PublishOne
  <1>9. CASE BeginTransition \/ Install \/ Withdraw
    BY <1>9 DEF BeginTransition, Install, Withdraw, NewRuntimeState, Serving
  <1>10. CASE \/ \E p \in pending : CommandTimeout(p)
              \/ \E b \in sends : SendFailed(b)
              \/ LeaseDue \/ LeaseTimerFires \/ Recover \/ LoseAuthority
    BY <1>10 DEF CommandTimeout, SendFailed, LeaseDue, LeaseTimerFires, Recover, LoseAuthority
  <1>11. CASE ClientStep
    BY <1>2, <1>3, <1>4, <1>5, <1>6, <1>11 DEF ClientStep, Execute
  <1>12. CASE GatewayStep
    BY <1>8, <1>9, <1>10, <1>12 DEF GatewayStep
  <1> QED
    BY <1>7, <1>11, <1>12 DEF Next

(* A success is published under the lease its command was sent under, and  *)
(* that lease is the one alive (browser-command-dispatch.ts:133-137).      *)
THEOREM SuccessAlwaysCurrent == Spec => SuccessIsCurrent
  <1> USE CommandsAssumption
  <1>1. CommandsInv /\ [Next]_vars =>
          [\A q \in Requests :
             (published'[q].state = "succeeded" /\ published'[q] # published[q])
                => published'[q].generation = lease'.generation]_vars
    <2> SUFFICES ASSUME CommandsInv, Next, NEW q \in Requests,
                        published'[q].state = "succeeded", published'[q] # published[q]
                 PROVE  published'[q].generation = lease'.generation
      OBVIOUS
    <2>1. CASE \E r \in Retained(q) :
                 /\ published'[q] = [state |-> r.outcome, generation |-> r.generation]
                 /\ r.outcome # "running" /\ LeaseAlive /\ lease' = lease
      BY <2>1 DEF Retained
    <2>2. ASSUME NEW c \in completing,
                 published'[q] = [state |-> Fenced(c), generation |-> c.generation], Complete(c)
          PROVE  published'[q].generation = lease'.generation
      <3>1. Fenced(c) = "succeeded"
        BY <2>2
      <3>2. c.outcome = "succeeded" /\ Ticked.generation = c.generation
        BY <3>1 DEF Fenced
      <3>3. lease' = Ticked
        BY <2>2, <3>2 DEF Complete
      <3> QED
        BY <2>2, <3>2, <3>3
    <2>3. published'[q] # [state |-> "rejected", generation |-> 0] /\ published'[q] # NoResult
      BY DEF NoResult
    <2>4. published'[q] # [state |-> "running", generation |-> lease.generation]
      OBVIOUS
    <2>5. CommandsTypeOK
      BY DEF CommandsInv
    <2> QED
      BY <2>1, <2>2, <2>3, <2>4, <2>5, Publishers
  <1> QED
    BY <1>1, CommandsInvariant, PTL DEF Spec, SuccessIsCurrent

-----------------------------------------------------------------------------
(* Results stand.                                                          *)

(* A new record is of a request whose result is not final any more.        *)
LEMMA ClientRecords ==
    ASSUME CommandsAssumption, CommandsTypeOK, Bookkeeping, ResultsRecorded, ClientStep
    PROVE  ResultsRecorded'
  <1> USE DEF ExecuteOnly, wireVars
  <1>1. ASSUME NEW q \in Requests, NEW st \in {"running", "rejected"}, NEW g, Publish(q, st, g),
               phase = "active", phase' = phase,
               \A r \in records' : r \in records \/ r.request = q
        PROVE  ResultsRecorded'
    <2>1. published' = [published EXCEPT ![q] = [state |-> st, generation |-> g]]
      BY <1>1 DEF Publish
    <2>2. ~Final(published'[q])
      BY <1>1, <2>1 DEF Final, CommandsTypeOK
    <2>3. \A x \in Requests : x # q => published'[x] = published[x]
      BY <2>1 DEF CommandsTypeOK
    <2> QED
      BY <1>1, <2>2, <2>3 DEF ResultsRecorded
  <1>2. ASSUME NEW q \in Requests, NEW v \in Variants, NEW o, Admit(q, v, o)
        PROVE  \A r \in records' : r \in records \/ r.request = q
    BY <1>2 DEF Admit
  <1>3. ASSUME NEW q \in Requests, ExecuteUnavailable(q) \/ ExecuteRefused(q)
        PROVE  ResultsRecorded'
    BY <1>1, <1>3 DEF ExecuteUnavailable, ExecuteRefused, Reject, Serving
  <1>4. ASSUME NEW q \in Requests, NEW v \in Variants, ExecuteConflict(q, v)
        PROVE  ResultsRecorded'
    BY <1>4 DEF ExecuteConflict, PublishConflict, ResultsRecorded
  <1>5. ASSUME NEW q \in Requests, NEW v \in Variants, ExecuteLapsed(q, v)
        PROVE  ResultsRecorded'
    <2>1. \A r \in records' : r \in records \/ r.request = q
      BY <1>2, <1>5 DEF ExecuteLapsed
    <2>2. Publish(q, "rejected", 0) /\ phase = "active" /\ phase' = phase
      BY <1>5 DEF ExecuteLapsed, Reject, Serving
    <2> QED
      BY <1>1, <2>1, <2>2
  <1>6. ASSUME NEW q \in Requests, NEW v \in Variants, ExecuteUnsent(q, v) \/ ExecuteSend(q, v)
        PROVE  ResultsRecorded'
    <2>1. /\ Admit(q, v, "running") /\ Publish(q, "running", lease.generation)
          /\ phase = "active" /\ phase' = phase
      BY <1>6 DEF ExecuteUnsent, ExecuteSend, Serving
    <2>2. \A r \in records' : r \in records \/ r.request = q
      BY <1>2, <2>1
    <2> QED
      BY <1>1, <2>1, <2>2
  <1>7. ASSUME NEW q \in Requests, NEW v \in Variants, ExecuteAgain(q, v)
        PROVE  ResultsRecorded'
    <2>1. PICK r \in Retained(q) : Publish(q, r.outcome, r.generation)
      BY <1>7 DEF ExecuteAgain
    <2>2. phase = "active" /\ phase' = phase /\ records' = records
      BY <1>7 DEF ExecuteAgain, Serving
    <2>3. published' = [published EXCEPT ![q] = [state |-> r.outcome, generation |-> r.generation]]
      BY <2>1, <2>2 DEF Publish
    <2>4. \A x \in Requests : x # q => published'[x] = published[x]
      BY <2>3 DEF CommandsTypeOK
    <2>5. published'[q].state = r.outcome /\ published'[q].generation = r.generation
      BY <2>3 DEF CommandsTypeOK
    <2>6. ASSUME NEW x \in records, x.request = q, x.generation = r.generation PROVE x = r
      BY <2>6 DEF Retained, Bookkeeping, Same
    <2> QED
      BY <2>2, <2>4, <2>5, <2>6 DEF ResultsRecorded
  <1> QED
    BY <1>3, <1>4, <1>5, <1>6, <1>7 DEF ClientStep, Execute

(* A final result and its record change together.                          *)
LEMMA RecordsStep ==
    ASSUME CommandsAssumption, CommandsTypeOK, Bookkeeping, ResultsRecorded, [Next]_vars
    PROVE  ResultsRecorded'
  <1> USE DEF leaseVars, wireVars
  <1>1. ASSUME NEW c \in completing, Complete(c) PROVE ResultsRecorded'
    <2>1. /\ records' = {IF Same(r, c) THEN [r EXCEPT !.outcome = Fenced(c)] ELSE r : r \in records}
          /\ phase' = phase
      BY <1>1 DEF Complete
    <2>2. ASSUME NEW x \in records'
          PROVE  \/ x \in records /\ ~Same(x, c)
                 \/ Same(x, c) /\ x.outcome = Fenced(c)
      <3>1. PICK r \in records : x = (IF Same(r, c) THEN [r EXCEPT !.outcome = Fenced(c)] ELSE r)
        BY <2>1
      <3>2. r \in Record
        BY DEF CommandsTypeOK
      <3> QED
        BY <3>1, <3>2, FencedType DEF Record, Same
    <2>3. CASE phase = "down"
      BY <1>1, <2>1, <2>3 DEF Complete, Publish, ResultsRecorded, NoResult, Final
    <2>4. CASE phase # "down"
      <3>1. published' = [published EXCEPT ![c.request] =
                             [state |-> Fenced(c), generation |-> c.generation]]
        BY <1>1, <2>4 DEF Complete, Publish
      <3>2. c.request \in Requests
        BY DEF CommandsTypeOK, Completion
      <3>3. \A q \in Requests : q # c.request => published'[q] = published[q]
        BY <3>1 DEF CommandsTypeOK
      <3>4. /\ published'[c.request].state = Fenced(c)
            /\ published'[c.request].generation = c.generation
        BY <3>1, <3>2 DEF CommandsTypeOK
      <3> QED
        BY <2>1, <2>2, <2>4, <3>3, <3>4 DEF ResultsRecorded, Same
    <2> QED
      BY <2>3, <2>4
  <1>2. CASE BeginTransition \/ Install \/ Withdraw
    <2>1. \A q \in Requests : published'[q] = NoResult
      BY <1>2 DEF BeginTransition, Install, Withdraw, NewRuntimeState
    <2> QED
      BY <2>1 DEF ResultsRecorded, NoResult, Final
  <1>3. CASE LoseAuthority
    BY <1>3 DEF LoseAuthority, ForgetPublishers, ResultsRecorded
  <1>4. CASE Recover
    BY <1>4 DEF Recover, ResultsRecorded
  <1>5. CASE \/ \E p \in pending : CommandTimeout(p)
             \/ \E b \in sends : SendFailed(b)
             \/ LeaseDue \/ LeaseTimerFires
    BY ZenonT(30), <1>5 DEF CommandTimeout, SendFailed, LeaseDue, LeaseTimerFires, ResultsRecorded
  <1>6. CASE BrowserStep
    <2>1. UNCHANGED <<phase, records, published>>
      BY <1>6 DEF BrowserStep, AcquireLease, RenewLease, ReleaseLease, Connect, StartClosing,
         SocketClosed, BrowserResult, StrayResult, IgnoredResult, ResultOnly
    <2> QED
      BY <2>1 DEF ResultsRecorded
  <1>7. CASE ClientStep
    BY <1>7, ClientRecords
  <1>8. CASE UNCHANGED vars
    BY <1>8 DEF vars, ResultsRecorded
  <1> QED
    BY <1>1, <1>2, <1>3, <1>4, <1>5, <1>6, <1>7, <1>8 DEF Next, GatewayStep

(* While a record is retained its result is neither run again nor          *)
(* overwritten under the same lease (browser-command-dispatch.ts:145-165). *)
THEOREM ResultsAlwaysStand == Spec => ResultStands
  <1> USE CommandsAssumption
  <1>1. Spec => []ResultsRecorded
    <2>1. Init => ResultsRecorded
      BY DEF Init, ResultsRecorded
    <2>2. CommandsInv /\ ResultsRecorded /\ [Next]_vars => ResultsRecorded'
      BY RecordsStep DEF CommandsInv
    <2> QED
      BY <2>1, <2>2, CommandsInvariant, PTL DEF Spec
  <1>2. CommandsInv /\ ResultsRecorded /\ [Next]_vars =>
          [\A q \in Requests :
             (/\ phase = "active" /\ phase' = "active"
              /\ Final(published[q])
              /\ lease'.generation = published[q].generation
              /\ \E r \in records : r.request = q /\ r.generation = published[q].generation)
                => \/ published'[q] = published[q]
                   \/ published'[q].generation \in 1..(published[q].generation - 1)]_vars
    <2> SUFFICES ASSUME CommandsInv, ResultsRecorded, Next, NEW q \in Requests,
                        phase = "active", phase' = "active",
                        Final(published[q]),
                        lease'.generation = published[q].generation,
                        NEW r \in records,
                        r.request = q, r.generation = published[q].generation,
                        published'[q] # published[q]
                 PROVE  published'[q].generation \in 1..(published[q].generation - 1)
      OBVIOUS
    <2> USE DEF CommandsInv
    <2> DEFINE g == published[q].generation
    <2>1. g \in Generations /\ g \in Nat /\ g >= 1
      BY DEF CommandsTypeOK, Record, Generations, CommandsAssumption
    <2>2. lease' # NoLease
      BY <2>1 DEF NoLease
    <2>3. r.outcome = published[q].state
      BY DEF ResultsRecorded
    <2>4. lease' = lease => r \in Retained(q)
      BY DEF Retained
    <2>5. ASSUME NEW x \in Retained(q), lease' = lease,
                 published'[q] = [state |-> x.outcome, generation |-> x.generation]
          PROVE  FALSE
      <3>1. x = r
        BY <2>5 DEF Retained, Bookkeeping, Same
      <3>2. published[q] \in Result
        BY DEF CommandsTypeOK
      <3>3. published[q] = [state |-> r.outcome, generation |-> r.generation]
        BY <2>3, <3>2 DEF Result
      <3> QED
        BY <2>5, <3>1, <3>3
    <2>6. ASSUME NEW c \in completing, c.request = q, Complete(c),
                 published'[q] = [state |-> Fenced(c), generation |-> c.generation]
          PROVE  c.generation \in 1..(g - 1)
      <3>1. c.generation \in Nat /\ c.generation >= 1 /\ generation \in Nat
        BY DEF CommandsTypeOK, Completion, Generations, CommandsAssumption
      <3>2. lease' \in {lease, NoLease}
        BY <2>6 DEF Complete, Ticked
      <3>3. g = generation
        BY <2>1, <2>2, <3>2 DEF Bookkeeping
      <3>4. c.generation # g
        <4> SUFFICES ASSUME c.generation = g PROVE FALSE
          OBVIOUS
        <4>1. PICK x \in records : Same(c, x) /\ x.outcome = "running"
          BY <3>1, <3>3 DEF Bookkeeping
        <4>2. x = r
          BY <2>6, <4>1 DEF Bookkeeping, Same
        <4> QED
          BY <2>3, <4>1, <4>2 DEF Final
      <3>5. c.generation <= generation
        BY DEF Bookkeeping
      <3> QED
        BY <3>1, <3>3, <3>4, <3>5
    <2>7. \/ \E x \in Retained(q) :
                /\ published'[q] = [state |-> x.outcome, generation |-> x.generation]
                /\ x.outcome # "running" /\ LeaseAlive /\ lease' = lease
          \/ \E c \in completing :
                /\ published'[q] = [state |-> Fenced(c), generation |-> c.generation]
                /\ c.request = q /\ Complete(c)
      BY <2>2, <2>4, Publishers
    <2>8. PICK c \in completing :
             /\ published'[q] = [state |-> Fenced(c), generation |-> c.generation]
             /\ c.request = q /\ Complete(c)
      BY <2>5, <2>7
    <2>9. c.generation \in 1..(g - 1)
      BY <2>6, <2>8
    <2>10. published'[q].generation = c.generation
      BY <2>8
    <2> QED
      BY <2>9, <2>10
  <1> QED
    BY <1>1, <1>2, CommandsInvariant, PTL DEF Spec, ResultStands
=============================================================================
