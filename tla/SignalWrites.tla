----------------------------- MODULE SignalWrites -----------------------------
(***************************************************************************)
(* How a job's set-do reaches an OPC UA server: the page's command client  *)
(* (runtime-gateway-command-client.ts) gets a lease and posts a command,   *)
(* the Gateway's command service (runtime-command-service.ts) checks it,   *)
(* and the write service (opcua-client-write-service.ts) performs it on    *)
(* the session the endpoint has, before and after reading its namespaces.  *)
(* The client gives up after five seconds or when its job is over; the     *)
(* command goes on without it.                                             *)
(*                                                                         *)
(* A command is named by the run that waits for it.  The deduplication of  *)
(* commands is that of module BrowserCommands: the client never sends the  *)
(* same identity twice under one lease.                                    *)
(***************************************************************************)
EXTENDS ClientEndpoint, RobotJobs

VARIABLES jobs,      \* the page's jobs
          write,     \* of every run its set-do on the way
          lease      \* the client's cached lease: a publisher generation or Null

writeVars == <<jobs, write, lease>>

(* client: what the page waits for; gateway: how far the command got;      *)
(* under: the session it was checked on; landed: what the server wrote of  *)
(* this run.                                                               *)
NoWrite == [client |-> "idle", lease |-> Null, retried |-> FALSE,
            gateway |-> "none", under |-> Null, landed |-> 0]

WritesInit == jobs = NoJobs /\ write = [i \in Runs |-> NoWrite] /\ lease = Null

-----------------------------------------------------------------------------
(* The client.                                                             *)

Posted(w, generation) ==
    [w EXCEPT !.client = "posted", !.lease = generation, !.gateway = "queued"]

(* writeBoolean: a cached lease is used as it is.                          *)
Submitted(w, cached) ==
    LET new == [NoWrite EXCEPT !.client = "lease", !.landed = w.landed]
    IN IF cached = Null THEN new ELSE Posted(new, cached)

Awaits(j, i, kind) ==
    i \in Issued(j) /\ j.run[i].waiting /\ j.run[i].program[j.run[i].cursor].kind = kind

(* clearLease: an answer still on its way is used but not kept.            *)
Cleared(writes) ==
    [i \in Runs |-> IF writes[i].client = "lease" THEN [writes[i] EXCEPT !.client = "oldLease"]
                    ELSE writes[i]]

(* What an operation on the jobs does to their writes: an instruction that *)
(* is reached begins one, a run that is over aborts its own.               *)
Follow(next, writes, cached) ==
    /\ jobs' = next
    /\ write' = [i \in Runs |->
          IF Awaits(next, i, "set")
               /\ (~Awaits(jobs, i, "set") \/ jobs.run[i].cursor # next.run[i].cursor)
          THEN Submitted(writes[i], cached)
          ELSE IF next.run[i].end # Null
          THEN [writes[i] EXCEPT !.client = "idle"] ELSE writes[i]]

(* The promise of writeBoolean settles.                                    *)
Answers(i, ok, w, met, cached) ==
    /\ lease' = cached
    /\ Follow(Answered(jobs, i, ok, met), [write EXCEPT ![i] = [w EXCEPT !.client = "idle"]], cached)

(* The same, if the client still waits for it.                             *)
Reports(i, ok, w, met) ==
    IF w.client = "idle"
    THEN write' = [write EXCEPT ![i] = w] /\ UNCHANGED <<jobs, lease>>
    ELSE Answers(i, ok, w, met, lease)

(* An abort, a timeout, a lost answer: the command itself goes on.         *)
Aborted(i, met) ==
    /\ Awaits(jobs, i, "set") /\ write[i].client = "idle"
    /\ Answers(i, FALSE, write[i], met, lease)

GivesUp(i, met) ==
    /\ write[i].client # "idle"
    /\ Answers(i, FALSE, write[i], met, lease)

LeaseExpires ==
    /\ lease # Null
    /\ lease' = Null
    /\ UNCHANGED <<jobs, write>>

-----------------------------------------------------------------------------
(* The Gateway.  Requests queue behind a transition, and are refused when  *)
(* there is no runtime or it needs a recovery.                             *)

GatewayFree == feed.state \in {"none", "live", "failed"} /\ Unhalted

LeaseAnswered(i, revision, met) ==
    /\ write[i].client \in {"lease", "oldLease"} /\ GatewayFree
    /\ IF feed.state = "live" /\ feed.revision = revision
       THEN /\ lease' = IF write[i].client = "lease" THEN feed.publisher ELSE lease
            /\ write' = [write EXCEPT ![i] = Posted(@, feed.publisher)]
            /\ UNCHANGED jobs
       ELSE Answers(i, FALSE, write[i], met, lease)

(* preflight, and the retry of a client whose lease was stale.             *)
CommandTaken(i, e, revision, met) ==
    LET w == write[i]
        taken == [w EXCEPT !.gateway = "none"]
        stale == feed.state = "live" /\ feed.revision = revision /\ w.lease # feed.publisher
        admitted == feed.state = "live" /\ feed.revision = revision /\ runtime[e].connected
                      /\ ~runtime[e].stopped
    IN /\ w.gateway = "queued" /\ GatewayFree
       /\ IF stale /\ w.client = "posted" /\ ~w.retried
          THEN /\ write' = [write EXCEPT ![i] = [taken EXCEPT !.client = "lease", !.retried = TRUE]]
               /\ lease' = IF lease = w.lease THEN Null ELSE lease
               /\ UNCHANGED jobs
          ELSE IF stale \/ ~admitted THEN Reports(i, FALSE, taken, met)
          ELSE /\ write' = [write EXCEPT ![i].gateway = "namespaces",
                                         ![i].under = <<feed.publisher, runtime[e].generation>>]
               /\ UNCHANGED <<jobs, lease>>

(* currentSession: of the adapter that the command was given to.           *)
CurrentSession(e, under) ==
    /\ feed.publisher = under[1]
    /\ runtime[e].connected /\ ~runtime[e].stopped /\ runtime[e].generation = under[2]

NamespacesRead(i, e, met) ==
    /\ write[i].gateway = "namespaces"
    /\ IF CurrentSession(e, write[i].under)
       THEN write' = [write EXCEPT ![i].gateway = "writing"] /\ UNCHANGED <<jobs, lease>>
       ELSE Reports(i, FALSE, [write[i] EXCEPT !.gateway = "none"], met)

NamespacesFail(i, met) ==
    /\ write[i].gateway = "namespaces"
    /\ Reports(i, FALSE, [write[i] EXCEPT !.gateway = "none"], met)

(* Mutant: a write of unknown outcome is tried again.                      *)
WriteFailsRetrying(i, met) ==
    /\ write[i].gateway = "writing"
    /\ \E landed \in {0, 1} :
          write' = [write EXCEPT ![i].gateway = "queued", ![i].landed = @ + landed]
    /\ UNCHANGED <<jobs, lease>>

(* The server writes and says so; or it is not known whether it did.       *)
WriteDone(i, met) ==
    /\ write[i].gateway = "writing"
    /\ Reports(i, TRUE, [write[i] EXCEPT !.gateway = "none", !.landed = @ + 1], met)

WriteFails(i, met) ==
    /\ write[i].gateway = "writing"
    /\ \E landed \in {0, 1} :
          Reports(i, FALSE, [write[i] EXCEPT !.gateway = "none", !.landed = @ + landed], met)

(* The service closes with the runtime: what it has under way is failed.   *)
ServiceCloses(i, met) ==
    /\ write[i].gateway \in {"namespaces", "writing"} /\ write[i].client = "posted"
    /\ \/ feed.state = "live" /\ feed.publisher # write[i].under[1]
       \/ feed.state \in {"none", "failed"}
    /\ Answers(i, FALSE, write[i], met, lease)
=============================================================================
