--------------------------- MODULE Workcell_proofs ---------------------------
(***************************************************************************)
(* Proofs about the pages of Workcell, for every number of pages, graphs,  *)
(* robots, runs, endpoints, channels and sockets and every scenario.       *)
(*                                                                         *)
(* First the runtime graphs of a page (GraphsAccountedFor).  What one      *)
(* graph is depends on all the others: a commit that waits, a transition   *)
(* that can go back, a page that is being left.  ProjectOK says how.       *)
(* Then what the graphs do to the jobs of the page (Linked, Fit, Still);   *)
(* the writes of the set-dos, each at the place its run is at (Placed);    *)
(* and the steps of the jobs themselves.  WorkInv is all of it, and has    *)
(* JobsFollowGraph, SetDoWritesOnce and FinishedRunsRest as consequences.  *)
(***************************************************************************)
EXTENDS Workcell, RobotJobs_proofs

-----------------------------------------------------------------------------
(* The inductive invariant of one page's graphs.                           *)

GraphFields == {"revision", "state", "base", "generation", "rolling", "suspended", "disposed"}
CandidateStates == {"prepared", "applying", "applied", "failed", "committing"}

(* A candidate runs, but is not in force; a consumed graph is disposed of; *)
(* a graph that was committed and not disposed of is in reserve, and is    *)
(* suspended unless it is in force.                                        *)
GraphOK(p, g) ==
    LET r == p.graph[g]
    IN /\ r = [f \in GraphFields |-> r[f]]
       /\ r.state \in CandidateStates \cup {"none", "committed", "consumed"}
       /\ {r.suspended, r.disposed} \subseteq BOOLEAN
       /\ r.state \in CandidateStates => ~r.suspended
       /\ r.state = "consumed" => r.disposed
       /\ r.disposed => r.suspended /\ r.state \in {"committed", "consumed"}
       /\ r.state = "committed" => r.disposed \/ g \in Reserve(p)
       /\ p.owner = "active" /\ r.state = "committed" => (r.suspended <=> ~InForce(p, g))
       /\ p.owner = "disposed" => r.state = "none" \/ r.disposed

(* The graph in force, and the one a transition can go back to.            *)
Kept(p, g) ==
    g # Null => /\ p.graph[g].state = "committed"
                /\ p.owner # "disposed" => ~p.graph[g].disposed

ProjectFields ==
    {"owner", "requested", "graph", "active", "generation", "waiting", "transition", "doomed"}

ProjectShape(p) ==
    /\ p = [f \in ProjectFields |-> p[f]]
    /\ DOMAIN p.transition = {"under", "to", "from", "signals"}
    /\ {p.requested, p.transition.under} \subseteq BOOLEAN
    /\ p.owner \in {"active", "disposing", "disposed"}
    /\ p.graph = [g \in Graphs |-> p.graph[g]]
    /\ {p.active, p.doomed, p.transition.from, p.transition.to} \subseteq Graphs \cup {Null}
    /\ p.waiting \in Seq(Graphs \cup {Null})

(* A transition leads to the graph in force from another one, of a page    *)
(* that is not being left.  While a commit or a deactivation waits, a      *)
(* graph is in force and no transition is under way; what waits is         *)
(* committing.                                                             *)
ProjectOK(p) ==
    /\ ProjectShape(p)
    /\ \A g \in Graphs : GraphOK(p, g)
    /\ Kept(p, p.active) /\ Kept(p, p.transition.from) /\ Kept(p, p.doomed)
    /\ IF p.transition.under
       THEN p.transition.to = p.active /\ p.transition.from # p.active
       ELSE p.transition.from = Null
    /\ p.owner # "active" => ~p.transition.under
    /\ p.owner = "active" => p.doomed = Null
    /\ p.owner = "active" /\ p.waiting # <<>> => ~p.transition.under /\ p.active # Null
    /\ \A i \in DOMAIN p.waiting :
          p.waiting[i] # Null => p.graph[p.waiting[i]].state = "committing"

GraphsInv ==
    /\ project = [b \in Browsers |-> project[b]]
    /\ \A b \in Browsers : ProjectOK(project[b])

-----------------------------------------------------------------------------
(* What the operations on a page do to its Project and to its stream.      *)

PageShape(x) == DOMAIN x = {"project", "page", "jobs", "write", "lease"}

(* The Project p with r for graph g.                                       *)
With(p, g, r) == [p EXCEPT !.graph = [p.graph EXCEPT ![g] = r]]

(* y is x but for the record of graph g, which becomes r.                  *)
OnlyGraph(x, y, g, r) ==
    /\ PageShape(y)
    /\ y.page = x.page
    /\ y.project = With(x.project, g, r)

LEMMA WithJobsIs ==
    ASSUME NEW b, NEW x, PageShape(x), NEW g, NEW next
    PROVE  LET y == WithJobs(b, x, g, next)
           IN PageShape(y) /\ y.page = x.page /\ y.project = x.project
  BY DEF WithJobs, PageShape

(* The graphs of a page are the records that ProjectOK says.               *)
GraphsShape(p) ==
    /\ p = [f \in ProjectFields |-> p[f]]
    /\ p.graph = [g \in Graphs |-> p.graph[g]]
    /\ \A g \in Graphs :
          /\ p.graph[g] = [f \in GraphFields |-> p.graph[g][f]]
          /\ {p.graph[g].suspended, p.graph[g].disposed} \subseteq BOOLEAN
          /\ p.graph[g].disposed => p.graph[g].suspended

GraphRecord(r) ==
    /\ r = [f \in GraphFields |-> r[f]]
    /\ {r.suspended, r.disposed} \subseteq BOOLEAN
    /\ r.disposed => r.suspended

LEMMA ShapeOf ==
    ASSUME NEW p, GraphsShape(p), NEW q, q = [f \in ProjectFields |-> q[f]],
           q.graph = p.graph
    PROVE  GraphsShape(q)
<1>1. p.graph = [g \in Graphs |-> p.graph[g]]
  BY DEF GraphsShape
<1>2. \A g \in Graphs : GraphRecord(p.graph[g])
  BY DEF GraphsShape, GraphRecord
<1> QED BY SMTT(30), <1>1, <1>2 DEF GraphsShape, GraphRecord

LEMMA ProjectOKShape ==
    ASSUME NEW p, ProjectOK(p)
    PROVE  GraphsShape(p)
  BY DEF ProjectOK, ProjectShape, GraphOK, GraphsShape

LEMMA SuspendedIs ==
    ASSUME NEW b, NEW x, PageShape(x), GraphsShape(x.project), NEW g \in Graphs
    PROVE  OnlyGraph(x, GraphSuspended(b, x, g), g, [x.project.graph[g] EXCEPT !.suspended = TRUE])
<1>. DEFINE y == [x EXCEPT !.project.graph[g].suspended = TRUE]
<1>1. OnlyGraph(x, y, g, [x.project.graph[g] EXCEPT !.suspended = TRUE])
  BY DEF OnlyGraph, With, PageShape, GraphsShape, ProjectFields, GraphFields
<1> HIDE DEF y
<1>2. GraphSuspended(b, x, g) = WithJobs(b, y, g, Quiesced(x.jobs))
  BY DEF GraphSuspended, y
<1> QED BY <1>1, <1>2, WithJobsIs DEF OnlyGraph

LEMMA ResumedIs ==
    ASSUME NEW b, NEW x, PageShape(x), GraphsShape(x.project), NEW g \in Graphs
    PROVE  OnlyGraph(x, GraphResumed(b, x, g), g, [x.project.graph[g] EXCEPT !.suspended = FALSE])
<1>. DEFINE y == [x EXCEPT !.project.graph[g].suspended = FALSE]
<1>1. OnlyGraph(x, y, g, [x.project.graph[g] EXCEPT !.suspended = FALSE])
  BY DEF OnlyGraph, With, PageShape, GraphsShape, ProjectFields, GraphFields
<1> HIDE DEF y
<1>2. CASE x.project.graph[g].suspended
  <2>1. GraphResumed(b, x, g) = WithJobs(b, y, g, Resumed(x.jobs))
    BY <1>2 DEF GraphResumed, y
  <2> QED BY <1>1, <2>1, WithJobsIs DEF OnlyGraph
<1>3. CASE ~x.project.graph[g].suspended
  <2>1. GraphResumed(b, x, g) = x
    BY <1>3 DEF GraphResumed
  <2>2. x.project.graph[g] = [x.project.graph[g] EXCEPT !.suspended = FALSE]
    <3>1. x.project.graph[g] = [f \in GraphFields |-> x.project.graph[g][f]]
      BY DEF GraphsShape
    <3>2. x.project.graph[g].suspended = FALSE
      BY <1>3 DEF GraphsShape
    <3> QED BY <3>1, <3>2 DEF GraphFields
  <2>3. x.project.graph = [x.project.graph EXCEPT ![g] = x.project.graph[g]]
    BY DEF GraphsShape
  <2>4. x.project = [x.project EXCEPT !.graph = x.project.graph]
    BY DEF GraphsShape, ProjectFields
  <2> QED BY <2>1, <2>2, <2>3, <2>4 DEF OnlyGraph, With
<1> QED BY <1>2, <1>3

(* What becomes of a graph that is disposed of.                            *)
Gone(r) == [r EXCEPT !.suspended = TRUE, !.disposed = TRUE]

(* q differs from p in no more than its graphs.                            *)
SameBut(p, q) ==
    /\ q.owner = p.owner /\ q.requested = p.requested /\ q.active = p.active
    /\ q.generation = p.generation /\ q.waiting = p.waiting
    /\ q.transition = p.transition /\ q.doomed = p.doomed

LEMMA WithShape ==
    ASSUME NEW p, GraphsShape(p), NEW g \in Graphs, NEW r, GraphRecord(r),
           NEW q, q = With(p, g, r)
    PROVE  /\ GraphsShape(q) /\ SameBut(p, q)
           /\ q.graph[g] = r
           /\ \A h \in Graphs : h # g => q.graph[h] = p.graph[h]
<1>1. q = [f \in ProjectFields |-> IF f = "graph" THEN [p.graph EXCEPT ![g] = r] ELSE p[f]]
  BY DEF With, GraphsShape, ProjectFields
<1>2. q.graph = [h \in Graphs |-> IF h = g THEN r ELSE p.graph[h]]
  BY <1>1 DEF GraphsShape, ProjectFields
<1>3. q.graph[g] = r /\ \A h \in Graphs : h # g => q.graph[h] = p.graph[h]
  BY <1>2
<1>4. q = [f \in ProjectFields |-> q[f]] /\ q.graph = [h \in Graphs |-> q.graph[h]]
  BY <1>1, <1>2
<1>5. ASSUME NEW h \in Graphs PROVE GraphRecord(q.graph[h])
  <2>1. GraphRecord(p.graph[h])
    BY DEF GraphsShape, GraphRecord
  <2> QED BY <1>3, <2>1
<1>6. GraphsShape(q)
  BY <1>4, <1>5 DEF GraphsShape, GraphRecord
<1>7. SameBut(p, q)
  BY <1>1 DEF SameBut, ProjectFields
<1> QED BY <1>3, <1>6, <1>7

LEMMA DisposedIs ==
    ASSUME NEW b, NEW x, PageShape(x), GraphsShape(x.project), NEW g \in Graphs
    PROVE  OnlyGraph(x, GraphDisposed(b, x, g), g, Gone(x.project.graph[g]))
<1>. DEFINE y == [x EXCEPT !.project.graph[g].suspended = TRUE,
                           !.project.graph[g].disposed = TRUE]
            r == x.project.graph[g]
<1>1. OnlyGraph(x, y, g, Gone(r))
  <2>1. PageShape(y) /\ y.page = x.page
    BY DEF PageShape
  <2>2. y.project = [x.project EXCEPT !.graph = y.project.graph]
    BY DEF PageShape, GraphsShape, ProjectFields
  <2>3. y.project.graph = [x.project.graph EXCEPT ![g] = Gone(r)]
    BY DEF PageShape, GraphsShape, ProjectFields, Gone, GraphFields
  <2> QED BY <2>1, <2>2, <2>3 DEF OnlyGraph, With
<1> HIDE DEF y, r
<1>2. g # Null
  BY GraphsAssumption
<1>3. CASE ~r.disposed
  <2>1. GraphDisposed(b, x, g) = WithJobs(b, y, g, JobsDisposed(x.jobs))
    BY <1>2, <1>3 DEF GraphDisposed, y, r
  <2> QED BY <1>1, <2>1, WithJobsIs DEF OnlyGraph, r
<1>4. CASE r.disposed
  <2>1. GraphDisposed(b, x, g) = x
    BY <1>4 DEF GraphDisposed, r
  <2>2. r = Gone(r)
    <3>1. r = [f \in GraphFields |-> r[f]] /\ r.disposed = TRUE /\ r.suspended = TRUE
      BY <1>4 DEF GraphsShape, r
    <3> QED BY <3>1 DEF GraphFields, Gone
  <2>3. x.project.graph = [x.project.graph EXCEPT ![g] = r]
    BY DEF GraphsShape, r
  <2>4. x.project = [x.project EXCEPT !.graph = x.project.graph]
    BY DEF GraphsShape, ProjectFields
  <2> QED BY <2>1, <2>2, <2>3, <2>4 DEF OnlyGraph, With, r
<1> QED BY <1>3, <1>4 DEF r

LEMMA ConsumedIs ==
    ASSUME NEW b, NEW x, PageShape(x), GraphsShape(x.project), NEW g \in Graphs
    PROVE  OnlyGraph(x, Consumed(b, x, g), g, Gone([x.project.graph[g] EXCEPT !.state = "consumed"]))
<1>. DEFINE r == [x.project.graph[g] EXCEPT !.state = "consumed"]
            y == [x EXCEPT !.project.graph[g].state = "consumed"]
<1>1. PageShape(y) /\ y.page = x.page
        /\ y.project = [x.project EXCEPT !.graph = [x.project.graph EXCEPT ![g] = r]]
  BY DEF PageShape, GraphsShape, ProjectFields, GraphFields
<1>2. GraphsShape(y.project) /\ y.project.graph[g] = r
  <2>1. GraphRecord(r)
    BY DEF GraphsShape, GraphRecord, GraphFields
  <2>2. y.project = With(x.project, g, r)
    BY <1>1 DEF With
  <2>. HIDE DEF y, r
  <2> QED BY SMTT(30), <2>1, <2>2, WithShape
<1>3. Consumed(b, x, g) = GraphDisposed(b, y, g)
  BY DEF Consumed
<1> HIDE DEF y, r
<1>4. OnlyGraph(y, GraphDisposed(b, y, g), g, Gone(r))
  BY <1>1, <1>2, DisposedIs
<1>5. [y.project EXCEPT !.graph = [y.project.graph EXCEPT ![g] = Gone(r)]]
        = [x.project EXCEPT !.graph = [x.project.graph EXCEPT ![g] = Gone(r)]]
  BY ZenonT(30), <1>1 DEF GraphsShape, ProjectFields
<1> QED BY <1>1, <1>3, <1>4, <1>5 DEF OnlyGraph, With, r

-----------------------------------------------------------------------------
(* DisposeSettles consumes the candidates of a page one after the other.   *)
(* What is known when the first k of c.seq are: the instance of            *)
(* FoldInduction for that fold.                                            *)

ConsumeNext(c, x, g) == Consumed(c.b, x, g)

ConsumedUpTo(c, k, x) ==
    /\ PageShape(x) /\ x.page = c.page
    /\ GraphsShape(x.project) /\ SameBut(c.project, x.project)
    /\ \A g \in Graphs :
          IF \E i \in 1..k : c.seq[i] = g
          THEN /\ x.project.graph[g].state = "consumed"
               /\ x.project.graph[g].suspended = TRUE
               /\ x.project.graph[g].disposed = TRUE
          ELSE x.project.graph[g] = c.project.graph[g]

Disposal == INSTANCE FoldInduction WITH Op <- ConsumeNext, P <- ConsumedUpTo

-----------------------------------------------------------------------------
(* The operations keep the invariant of the page's graphs.                 *)

LEMMA WaitingIs ==
    ASSUME NEW p, ProjectOK(p), NEW i \in DOMAIN p.waiting
    PROVE  p.waiting[i] \in Graphs \cup {Null}
<1>1. p.waiting \in Seq(Graphs \cup {Null})
  BY DEF ProjectOK, ProjectShape
<1> QED BY <1>1

LEMMA ShapeKept ==
    ASSUME NEW p, ProjectShape(p), NEW q, GraphsShape(q), SameBut(p, q)
    PROVE  ProjectShape(q)
<1>1. q = [f \in ProjectFields |-> q[f]] /\ q.graph = [g \in Graphs |-> q.graph[g]]
  BY DEF GraphsShape
<1>2. /\ DOMAIN q.transition = {"under", "to", "from", "signals"}
      /\ {q.requested, q.transition.under} \subseteq BOOLEAN
      /\ q.owner \in {"active", "disposing", "disposed"}
  BY DEF ProjectShape, SameBut
<1>3. /\ {q.active, q.doomed, q.transition.from, q.transition.to} \subseteq Graphs \cup {Null}
      /\ q.waiting \in Seq(Graphs \cup {Null})
  BY DEF ProjectShape, SameBut
<1> QED BY <1>1, <1>2, <1>3 DEF ProjectShape

(* A candidate that goes on, or is new.                                    *)
LEMMA CandidateKept ==
    ASSUME NEW p, ProjectOK(p), p.owner # "disposed", NEW g \in Graphs,
           p.graph[g].state \in CandidateStates \cup {"none"},
           NEW r, GraphRecord(r), r.state \in CandidateStates, r.suspended = FALSE,
           p.graph[g].state = "committing" => r.state = "committing",
           NEW q, q = With(p, g, r)
    PROVE  ProjectOK(q)
<1>1. /\ GraphsShape(q)
      /\ SameBut(p, q)
      /\ q.graph[g] = r
      /\ \A h \in Graphs : h # g => q.graph[h] = p.graph[h]
  <2>1. GraphsShape(p)
    BY ProjectOKShape
  <2> QED BY <2>1, WithShape
<1>2. ProjectShape(q)
  BY <1>1, ShapeKept DEF ProjectOK
<1>3. ASSUME NEW h \in Graphs PROVE GraphOK(q, h)
  <2>1. CASE h = g
    <3>1. r.suspended = FALSE /\ r.disposed = FALSE /\ r = [f \in GraphFields |-> r[f]]
      BY DEF GraphRecord
    <3>2. q.graph[h] = r
      BY <1>1, <2>1
    <3>3. r.state \notin {"committed", "consumed"}
      BY DEF CandidateStates
    <3>4. q.owner # "disposed"
      BY <1>1 DEF SameBut
    <3> QED BY <3>1, <3>2, <3>3, <3>4 DEF GraphOK
  <2>2. CASE h # g
    BY <1>1, <2>2 DEF ProjectOK, GraphOK, Reserve, InForce, SameBut
  <2> QED BY <2>1, <2>2
<1>4. Kept(q, q.active) /\ Kept(q, q.transition.from) /\ Kept(q, q.doomed)
  <2>1. {p.active, p.transition.from, p.doomed} \subseteq Graphs \cup {Null}
    BY DEF ProjectOK, ProjectShape
  <2>2. \A h \in {p.active, p.transition.from, p.doomed} : Kept(p, h)
    BY DEF ProjectOK
  <2>3. \A h \in {p.active, p.transition.from, p.doomed} : h # g
    BY <2>2, GraphsAssumption DEF Kept, CandidateStates
  <2> QED BY <1>1, <2>1, <2>2, <2>3 DEF Kept, SameBut
<1>5. \A i \in DOMAIN q.waiting : q.waiting[i] # Null => q.graph[q.waiting[i]].state = "committing"
  BY SMTT(30), <1>1, WaitingIs DEF ProjectOK, SameBut
<1> QED BY <1>1, <1>2, <1>3, <1>4, <1>5 DEF ProjectOK, SameBut

(* A candidate that is consumed, or a graph that a transition has left.    *)
LEMMA ConsumedKept ==
    ASSUME NEW p, ProjectOK(p), NEW g \in Graphs, g # p.active, g # p.transition.from, g # p.doomed,
           p.graph[g].state # "committing",
           NEW r, r = Gone([p.graph[g] EXCEPT !.state = "consumed"]),
           NEW q, q = With(p, g, r)
    PROVE  ProjectOK(q)
<1>1. r = [f \in GraphFields |-> r[f]]
        /\ r.state = "consumed" /\ r.suspended = TRUE /\ r.disposed = TRUE
  <2>1. p.graph[g] = [f \in GraphFields |-> p.graph[g][f]]
    BY DEF ProjectOK, GraphOK
  <2> QED BY <2>1 DEF Gone, GraphFields
<1>2. /\ GraphsShape(q)
      /\ SameBut(p, q)
      /\ q.graph[g] = r
      /\ \A h \in Graphs : h # g => q.graph[h] = p.graph[h]
  <2>1. GraphRecord(r)
    BY <1>1 DEF GraphRecord
  <2>2. GraphsShape(p)
    BY ProjectOKShape
  <2> QED BY <2>1, <2>2, WithShape
<1>3. ProjectShape(q)
  BY <1>2, ShapeKept DEF ProjectOK
<1>4. ASSUME NEW h \in Graphs PROVE GraphOK(q, h)
  <2>1. CASE h = g
    BY <1>1, <1>2, <2>1 DEF GraphOK, CandidateStates
  <2>2. CASE h # g
    BY SMTT(30), <1>2, <2>2 DEF ProjectOK, GraphOK, Reserve, InForce, SameBut
  <2> QED BY <2>1, <2>2
<1>5. Kept(q, q.active) /\ Kept(q, q.transition.from) /\ Kept(q, q.doomed)
  <2>1. {p.active, p.transition.from, p.doomed} \subseteq Graphs \cup {Null}
    BY DEF ProjectOK, ProjectShape
  <2>2. \A h \in {p.active, p.transition.from, p.doomed} : Kept(p, h) /\ h # g
    BY DEF ProjectOK
  <2> QED BY <1>2, <2>1, <2>2 DEF Kept, SameBut
<1>6. \A i \in DOMAIN q.waiting : q.waiting[i] # Null => q.graph[q.waiting[i]].state = "committing"
  BY SMTT(30), <1>2, WaitingIs DEF ProjectOK, SameBut
<1> QED BY ZenonT(30), <1>2, <1>3, <1>4, <1>5, <1>6 DEF ProjectOK, SameBut

(* What the invariant says of a graph depends on no more of it than this.  *)
SameState(r, s) == r.state = s.state /\ r.suspended = s.suspended /\ r.disposed = s.disposed

(* A graph that no step of the page concerns.                              *)
LEMMA OthersKept ==
    ASSUME NEW p, NEW q, NEW g \in Graphs, GraphOK(p, g), GraphsShape(q),
           SameState(p.graph[g], q.graph[g]),
           q.owner = "active" => p.owner = "active",
           q.owner = "disposed" => p.owner = "disposed",
           p.graph[g].state = "committed" /\ ~p.graph[g].disposed
             => /\ g \in Reserve(p) => g \in Reserve(q)
                /\ q.owner = "active" => (InForce(p, g) <=> InForce(q, g)),
           p.graph[g].disposed /\ q.owner = "active" /\ q.graph[g].state = "committed"
             => ~InForce(q, g)
    PROVE  GraphOK(q, g)
<1>1. q.graph[g] = [f \in GraphFields |-> q.graph[g][f]]
        /\ {q.graph[g].suspended, q.graph[g].disposed} \subseteq BOOLEAN
  BY DEF GraphsShape
<1> QED BY <1>1 DEF GraphOK, SameState

(* A commit or a deactivation suspends the graph in force and waits.       *)
LEMMA WaitsKept ==
    ASSUME NEW p, ProjectOK(p), p.owner = "active", p.transition.under = FALSE, p.active # Null,
           NEW g \in Graphs \cup {Null}, g # Null => p.graph[g].state = "applied",
           NEW q, ProjectShape(q), GraphsShape(q),
           q.owner = p.owner, q.active = p.active, q.transition = p.transition,
           q.doomed = p.doomed, q.waiting = Append(p.waiting, g),
           q.graph[p.active].state = p.graph[p.active].state,
           q.graph[p.active].suspended = TRUE,
           q.graph[p.active].disposed = p.graph[p.active].disposed,
           g # Null => /\ q.graph[g].state = "committing"
                       /\ q.graph[g].suspended = p.graph[g].suspended
                       /\ q.graph[g].disposed = p.graph[g].disposed,
           \A h \in Graphs : h # p.active /\ h # g => q.graph[h] = p.graph[h]
    PROVE  ProjectOK(q)
<1>1. p.active \in Graphs /\ p.graph[p.active].state = "committed" /\ p.active # g
  BY ZenonT(30) DEF ProjectOK, ProjectShape, Kept
<1>2. p.waiting \in Seq(Graphs \cup {Null})
  BY Zenon DEF ProjectOK, ProjectShape
<1>3. q.waiting # <<>> /\ Reserve(q) = Reserve(p)
  BY <1>2 DEF Reserve
<1>4. ASSUME NEW h \in Graphs PROVE GraphOK(q, h)
  <2>1. GraphOK(p, h)
    BY DEF ProjectOK
  <2>2. q.graph[h] = [f \in GraphFields |-> q.graph[h][f]]
          /\ {q.graph[h].suspended, q.graph[h].disposed} \subseteq BOOLEAN
    BY Zenon DEF GraphsShape
  <2>3. CASE h = p.active
    BY ZenonT(30), <1>1, <1>3, <2>1, <2>2, <2>3 DEF GraphOK, Reserve, InForce, CandidateStates
  <2>4. CASE h # p.active /\ h = g
    <3>1. h # Null
      BY GraphsAssumption
    <3>2. /\ p.graph[h].state = "applied" /\ q.graph[h].state = "committing"
          /\ q.graph[h].suspended = p.graph[h].suspended
          /\ q.graph[h].disposed = p.graph[h].disposed
      BY <2>4, <3>1
    <3> QED BY <2>1, <2>2, <3>2 DEF GraphOK, CandidateStates
  <2>5. CASE h # p.active /\ h # g
    BY <1>3, <2>1, <2>5 DEF GraphOK, InForce
  <2> QED BY <2>3, <2>4, <2>5
<1>5. Kept(q, q.active)
  BY <1>1 DEF ProjectOK, Kept
<1>6. p.transition.from = Null
  BY DEF ProjectOK
<1>7. ASSUME NEW i \in DOMAIN q.waiting, q.waiting[i] # Null
      PROVE  q.graph[q.waiting[i]].state = "committing"
  <2>1. CASE i \in DOMAIN p.waiting
    <3>1. q.waiting[i] = p.waiting[i] /\ p.waiting[i] \in Graphs
      BY <1>2, <1>7, <2>1
    <3>2. p.graph[p.waiting[i]].state = "committing"
      BY <1>7, <2>1, <3>1 DEF ProjectOK
    <3>3. CASE q.waiting[i] = g
      BY <1>7, <3>3
    <3>4. CASE q.waiting[i] # g
      <4>1. p.waiting[i] # p.active
        BY <1>1, <3>2
      <4> QED BY <3>1, <3>2, <3>4, <4>1
    <3> QED BY <3>3, <3>4
  <2>2. CASE i \notin DOMAIN p.waiting
    <3>1. q.waiting[i] = g
      BY <1>2, <2>2
    <3> QED BY <1>7, <3>1
  <2> QED BY <2>1, <2>2
<1>8. Kept(q, q.transition.from)
  BY <1>6 DEF Kept
<1> QED BY SMTT(30), <1>1, <1>4, <1>5, <1>6, <1>7, <1>8 DEF ProjectOK

(* A graph that waited, and was not the first to, is applied again.        *)
AsBefore(p, q, h) ==
    \/ q.graph[h] = p.graph[h]
    \/ /\ p.graph[h].state = "committing" /\ q.graph[h].state = "applied"
       /\ q.graph[h].suspended = p.graph[h].suspended
       /\ q.graph[h].disposed = p.graph[h].disposed

(* A commit or a deactivation goes on: g is in force, or nothing is.       *)
LEMMA InstalledKept ==
    ASSUME NEW p, ProjectOK(p), p.owner = "active", p.transition.under = FALSE,
           NEW g \in Graphs \cup {Null}, g # p.active,
           IF p.waiting = <<>> THEN p.active = Null /\ g # Null ELSE p.active # Null,
           g # Null => p.graph[g].state \in CandidateStates,
           NEW q, ProjectShape(q), GraphsShape(q),
           q.owner = p.owner, q.active = g, q.doomed = p.doomed, q.waiting = <<>>,
           q.transition.under = TRUE, q.transition.to = g, q.transition.from = p.active,
           g # Null => /\ q.graph[g].state = "committed"
                       /\ q.graph[g].suspended = p.graph[g].suspended
                       /\ q.graph[g].disposed = p.graph[g].disposed,
           \A h \in Graphs : h # g => AsBefore(p, q, h)
    PROVE  ProjectOK(q)
<1>1. p.transition.from = Null /\ p.doomed = Null
  BY DEF ProjectOK
<1>2. Reserve(q) = {g, Null, p.active} /\ Reserve(p) = {p.active, Null}
  BY SMTT(30), <1>1 DEF Reserve
<1>3. p.active # Null => p.active \in Graphs /\ p.graph[p.active].state = "committed"
                           /\ ~p.graph[p.active].disposed
  BY DEF ProjectOK, ProjectShape, Kept
<1>4. ASSUME NEW h \in Graphs PROVE GraphOK(q, h)
  <2>1. GraphOK(p, h) /\ h # Null
    BY GraphsAssumption DEF ProjectOK
  <2>2. q.graph[h] = [f \in GraphFields |-> q.graph[h][f]]
          /\ {q.graph[h].suspended, q.graph[h].disposed} \subseteq BOOLEAN
    BY DEF GraphsShape
  <2>3. CASE h = g
    BY <1>2, <2>1, <2>2, <2>3 DEF GraphOK, InForce, CandidateStates
  <2>4. CASE h # g /\ q.graph[h] = p.graph[h]
    BY <1>2, <2>1, <2>4 DEF GraphOK, InForce
  <2>5. CASE h # g /\ q.graph[h].state = "applied" /\ p.graph[h].state = "committing"
               /\ q.graph[h].suspended = p.graph[h].suspended
               /\ q.graph[h].disposed = p.graph[h].disposed
    BY <2>1, <2>2, <2>5 DEF GraphOK, CandidateStates
  <2>6. AsBefore(p, q, h) \/ h = g
    OBVIOUS
  <2> QED BY <2>3, <2>4, <2>5, <2>6 DEF AsBefore
<1>5. Kept(q, g)
  <2>1. g # Null => GraphOK(p, g)
    BY DEF ProjectOK
  <2> QED BY <2>1 DEF Kept, GraphOK, CandidateStates
<1>6. Kept(q, p.active) /\ Kept(q, q.doomed)
  <2>1. p.active # Null => q.graph[p.active] = p.graph[p.active]
    BY <1>3 DEF AsBefore
  <2> QED BY <1>1, <1>3, <2>1 DEF Kept
<1>7. DOMAIN q.waiting = {}
  OBVIOUS
<1> QED BY <1>1, <1>4, <1>5, <1>6, <1>7 DEF ProjectOK

(* What waited gives up, when the page is being left.                      *)
LEMMA GivenUpKept ==
    ASSUME NEW p, ProjectOK(p), p.owner # "active",
           NEW q, ProjectShape(q), GraphsShape(q),
           q.owner = p.owner, q.active = p.active, q.transition = p.transition,
           q.doomed = p.doomed, q.waiting = <<>>,
           \A h \in Graphs : AsBefore(p, q, h)
    PROVE  ProjectOK(q)
<1>1. Reserve(q) = Reserve(p)
  BY DEF Reserve
<1>2. ASSUME NEW h \in Graphs PROVE GraphOK(q, h)
  <2>1. GraphOK(p, h)
    BY DEF ProjectOK
  <2>2. q.graph[h] = [f \in GraphFields |-> q.graph[h][f]]
          /\ {q.graph[h].suspended, q.graph[h].disposed} \subseteq BOOLEAN
    BY DEF GraphsShape
  <2>3. CASE q.graph[h] = p.graph[h]
    BY <1>1, <2>1, <2>3 DEF GraphOK
  <2>4. CASE q.graph[h] # p.graph[h]
    BY <2>1, <2>2, <2>4 DEF GraphOK, CandidateStates, AsBefore
  <2> QED BY <2>3, <2>4
<1>3. ASSUME NEW h \in Graphs, Kept(p, h) PROVE Kept(q, h)
  <2>1. q.graph[h] = p.graph[h]
    BY <1>3, GraphsAssumption DEF Kept, AsBefore
  <2> QED BY <1>3, <2>1 DEF Kept
<1>4. Kept(q, q.active) /\ Kept(q, q.transition.from) /\ Kept(q, q.doomed)
  <2>1. /\ p.active \in Graphs \cup {Null} /\ p.transition.from \in Graphs \cup {Null}
        /\ p.doomed \in Graphs \cup {Null}
    BY DEF ProjectOK, ProjectShape
  <2>2. Kept(p, p.active) /\ Kept(p, p.transition.from) /\ Kept(p, p.doomed)
    BY DEF ProjectOK
  <2>3. Kept(q, Null)
    BY DEF Kept
  <2> QED BY <1>3, <2>1, <2>2, <2>3
<1>5. DOMAIN q.waiting = {}
  OBVIOUS
<1> QED BY <1>2, <1>4, <1>5 DEF ProjectOK

(* A transition that is final: the graph it came from is disposed of.      *)
LEMMA FinalizedKept ==
    ASSUME NEW p, ProjectOK(p), p.transition.under = TRUE,
           NEW q, ProjectShape(q), GraphsShape(q),
           q.owner = p.owner, q.active = p.active, q.doomed = p.doomed, q.waiting = p.waiting,
           q.transition.under = FALSE, q.transition.from = Null,
           p.transition.from # Null
             => /\ q.graph[p.transition.from].state = p.graph[p.transition.from].state
                /\ q.graph[p.transition.from].suspended = TRUE
                /\ q.graph[p.transition.from].disposed = TRUE,
           \A h \in Graphs : h # p.transition.from => q.graph[h] = p.graph[h]
    PROVE  ProjectOK(q)
<1>1. /\ p.owner = "active" /\ p.doomed = Null /\ p.waiting = <<>>
      /\ p.transition.from # p.active
  BY DEF ProjectOK
<1>2. Reserve(q) = {p.active, Null} /\ Reserve(p) = {p.active, Null, p.transition.from}
  BY <1>1 DEF Reserve
<1>3. ASSUME NEW h \in Graphs PROVE GraphOK(q, h)
  <2>1. GraphOK(p, h) /\ h # Null
    BY GraphsAssumption DEF ProjectOK
  <2>2. q.graph[h] = [f \in GraphFields |-> q.graph[h][f]]
          /\ {q.graph[h].suspended, q.graph[h].disposed} \subseteq BOOLEAN
    BY SMTT(30) DEF GraphsShape
  <2>3. CASE h = p.transition.from
    <3>1. p.graph[h].state = "committed"
      BY <2>1, <2>3 DEF ProjectOK, Kept
    <3>2. q.graph[h].state = "committed" /\ q.graph[h].suspended /\ q.graph[h].disposed
      BY <2>1, <2>3, <3>1
    <3> QED BY Zenon, <1>1, <2>2, <2>3, <3>2 DEF GraphOK, InForce, CandidateStates
  <2>4. CASE h # p.transition.from
    <3>1. q.graph[h] = p.graph[h] /\ (h \in Reserve(p) => h \in Reserve(q))
      BY <1>2, <2>4
    <3>2. InForce(q, h) <=> InForce(p, h)
      BY DEF InForce
    <3> QED BY <2>1, <3>1, <3>2 DEF GraphOK
  <2> QED BY <2>3, <2>4
<1>4. Kept(q, q.active)
  <2>1. Kept(p, p.active) /\ p.active \in Graphs \cup {Null}
    BY DEF ProjectOK, ProjectShape
  <2>2. p.active \in Graphs => q.graph[p.active] = p.graph[p.active]
    BY <1>1
  <2> QED BY SMTT(30), <2>1, <2>2 DEF Kept
<1>5. Kept(q, q.transition.from)
  BY DEF Kept
<1>6. DOMAIN q.waiting = {}
  BY <1>1
<1> QED BY <1>1, <1>3, <1>4, <1>5, <1>6 DEF ProjectOK

(* A transition that is rolled back: the graph it came from is in force    *)
(* again, and the one it led to is consumed.                               *)
LEMMA RestoredKept ==
    ASSUME NEW p, ProjectOK(p), p.transition.under = TRUE,
           NEW q, ProjectShape(q), GraphsShape(q),
           q.owner = p.owner, q.active = p.transition.from, q.doomed = p.doomed,
           q.waiting = p.waiting, q.transition.under = FALSE, q.transition.from = Null,
           p.transition.from # Null
             => /\ q.graph[p.transition.from].state = p.graph[p.transition.from].state
                /\ q.graph[p.transition.from].suspended = FALSE
                /\ q.graph[p.transition.from].disposed = p.graph[p.transition.from].disposed,
           p.active # Null => /\ q.graph[p.active].state = "consumed"
                              /\ q.graph[p.active].suspended = TRUE
                              /\ q.graph[p.active].disposed = TRUE,
           \A h \in Graphs : h # p.transition.from /\ h # p.active => q.graph[h] = p.graph[h]
    PROVE  ProjectOK(q)
<1>1. /\ p.owner = "active" /\ p.doomed = Null /\ p.waiting = <<>>
      /\ p.transition.from # p.active
  BY DEF ProjectOK
<1>2. Reserve(q) = {p.transition.from, Null} /\ Reserve(p) = {p.active, Null, p.transition.from}
  BY <1>1 DEF Reserve
<1>3. ASSUME NEW h \in Graphs PROVE GraphOK(q, h)
  <2>1. GraphOK(p, h) /\ h # Null
    BY GraphsAssumption DEF ProjectOK
  <2>2. q.graph[h] = [f \in GraphFields |-> q.graph[h][f]]
          /\ {q.graph[h].suspended, q.graph[h].disposed} \subseteq BOOLEAN
    BY Zenon DEF GraphsShape
  <2>3. CASE h = p.transition.from
    <3>1. p.graph[h].state = "committed" /\ ~p.graph[h].disposed
      BY <1>1, <2>1, <2>3 DEF ProjectOK, Kept
    <3>2. q.graph[h].state = "committed" /\ ~q.graph[h].suspended /\ ~q.graph[h].disposed
      BY <2>1, <2>3, <3>1
    <3> QED BY Zenon, <1>1, <1>2, <2>2, <2>3, <3>2 DEF GraphOK, InForce, CandidateStates
  <2>4. CASE h # p.transition.from /\ h = p.active
    <3>1. q.graph[h].state = "consumed" /\ q.graph[h].suspended /\ q.graph[h].disposed
      BY <2>1, <2>4
    <3> QED BY <2>2, <3>1 DEF GraphOK, CandidateStates
  <2>5. CASE h # p.transition.from /\ h # p.active
    <3>1. q.graph[h] = p.graph[h] /\ h \notin Reserve(p)
      BY <1>2, <2>1, <2>5
    <3>2. ~InForce(q, h) /\ ~InForce(p, h)
      BY SMTT(30), <2>5 DEF InForce
    <3> QED BY <2>1, <3>1, <3>2 DEF GraphOK
  <2> QED BY <2>3, <2>4, <2>5
<1>4. Kept(q, q.active)
  BY Zenon, <1>1 DEF ProjectOK, ProjectShape, Kept
<1>5. Kept(q, q.transition.from)
  BY DEF Kept
<1>6. DOMAIN q.waiting = {}
  BY <1>1
<1> QED BY <1>1, <1>3, <1>4, <1>5, <1>6 DEF ProjectOK

(* A page that begins to be left keeps what its transition came from.      *)
LEMMA LeavingKept ==
    ASSUME NEW p, ProjectOK(p), p.owner = "active",
           NEW q, ProjectShape(q),
           q.owner = "disposing", q.active = p.active, q.doomed = p.transition.from,
           q.waiting = p.waiting, q.transition.under = FALSE, q.transition.from = Null,
           q.graph = p.graph
    PROVE  ProjectOK(q)
<1>1. Reserve(q) = Reserve(p)
  BY DEF ProjectOK, Reserve
<1>2. ASSUME NEW h \in Graphs PROVE GraphOK(q, h)
  BY <1>1 DEF ProjectOK, GraphOK
<1>3. Kept(q, q.active) /\ Kept(q, q.transition.from) /\ Kept(q, q.doomed)
  BY DEF ProjectOK, Kept
<1>4. \A i \in DOMAIN q.waiting : q.waiting[i] # Null => q.graph[q.waiting[i]].state = "committing"
  BY DEF ProjectOK
<1> QED BY <1>2, <1>3, <1>4 DEF ProjectOK

(* A page that has been left: no graph of it remains.                      *)
LEMMA LeftKept ==
    ASSUME NEW p, ProjectOK(p), p.owner = "disposing",
           \A h \in Graphs : p.graph[h].state # "committing",
           NEW q, ProjectShape(q), GraphsShape(q),
           q.owner = "disposed", q.active = p.active, q.waiting = p.waiting,
           q.transition = p.transition, q.doomed = p.doomed,
           \A h \in Graphs :
               /\ q.graph[h].state = p.graph[h].state \/ q.graph[h].state = "consumed"
               /\ q.graph[h].disposed => q.graph[h].suspended
               /\ p.graph[h].disposed => q.graph[h].disposed
               /\ p.graph[h].state \in CandidateStates \/ h \in {p.active, p.doomed}
                    => q.graph[h].disposed
               /\ q.graph[h].disposed => q.graph[h].state \in {"committed", "consumed"}
               /\ q.graph[h].state = "consumed" => q.graph[h].disposed,
           p.active # Null => q.graph[p.active].state = "committed",
           p.doomed # Null => q.graph[p.doomed].state = "committed"
    PROVE  ProjectOK(q)
<1>1. p.transition.from = Null /\ p.transition.under = FALSE
  BY DEF ProjectOK, ProjectShape
<1>2. ASSUME NEW h \in Graphs PROVE GraphOK(q, h)
  <2>1. GraphOK(p, h) /\ h # Null
    BY GraphsAssumption DEF ProjectOK
  <2>2. q.graph[h] = [f \in GraphFields |-> q.graph[h][f]]
          /\ {q.graph[h].suspended, q.graph[h].disposed} \subseteq BOOLEAN
    BY DEF GraphsShape
  <2>3. p.graph[h].state # "none" => q.graph[h].disposed
    BY <1>1, <2>1 DEF GraphOK, Reserve
  <2>4. p.graph[h].state = "none" => q.graph[h].state = "none" \/ q.graph[h].disposed
    OBVIOUS
  <2> QED BY <2>1, <2>2, <2>3, <2>4 DEF GraphOK, CandidateStates
<1>3. Kept(q, q.active) /\ Kept(q, q.transition.from) /\ Kept(q, q.doomed)
  BY <1>1 DEF Kept
<1>4. ASSUME NEW i \in DOMAIN q.waiting, q.waiting[i] # Null PROVE FALSE
  <2>1. p.waiting[i] \in Graphs
    BY <1>4, WaitingIs
  <2>2. p.graph[p.waiting[i]].state = "committing"
    BY <1>4 DEF ProjectOK
  <2> QED BY <2>1, <2>2
<1> QED BY SMTT(30), <1>1, <1>2, <1>3, <1>4 DEF ProjectOK

-----------------------------------------------------------------------------
(* The steps of the runtime of a page.                                     *)

LEMMA PageOfShape ==
    ASSUME NEW b
    PROVE  PageShape(PageOf(b)) /\ PageOf(b).project = project[b]
  BY SMTT(30) DEF PageOf, PageShape

LEMMA BecomesKeeps ==
    ASSUME GraphsInv, NEW b \in Browsers, NEW x, ProjectOK(x.project), Becomes(b, x)
    PROVE  GraphsInv'
<1>1. project' = [c \in Browsers |-> IF c = b THEN x.project ELSE project[c]]
  BY DEF GraphsInv, Becomes
<1>2. \A c \in Browsers : project'[c] = IF c = b THEN x.project ELSE project[c]
  BY <1>1
<1>3. project' = [c \in Browsers |-> project'[c]]
  BY <1>1, <1>2
<1>4. ASSUME NEW c \in Browsers PROVE ProjectOK(project'[c])
  BY <1>2 DEF GraphsInv
<1> QED BY Zenon, <1>3, <1>4 DEF GraphsInv, ProjectOK, ProjectShape, GraphOK, Kept, Reserve, InForce

(* An operation on one graph of a page, of which no other is touched.      *)
LEMMA OneGraph ==
    ASSUME NEW b, NEW g \in Graphs, GraphsShape(project[b]), NEW r
    PROVE  LET y == [PageOf(b) EXCEPT !.project.graph[g] = r]
           IN PageShape(y) /\ y.page = browser[b] /\ y.project = With(project[b], g, r)
  BY DEF PageOf, PageShape, With, GraphsShape, ProjectFields

LEMMA GraphsAreNumbers == Graphs \subseteq Nat /\ Null \notin Graphs
<1>1. Cardinality(Graphs) \in Nat
  BY GraphsAssumption, FS_CardinalityType
<1> QED BY <1>1, GraphsAssumption

LEMMA NextGraph ==
    ASSUME NEW p, ProjectOK(p), Created(p) # Graphs
    PROVE  Min(Graphs \ Created(p)) \in Graphs \ Created(p)
<1>1. Graphs \ Created(p) \in SUBSET Nat /\ Graphs \ Created(p) # {}
  BY GraphsAreNumbers DEF Created
<1> QED BY <1>1, Disposal!MinIsLeast DEF Min, Disposal!Min

LEMMA PrepareKeeps ==
    ASSUME GraphsInv, NEW b \in Browsers, NEW revision, Prepare(b, revision)
    PROVE  GraphsInv'
<1>. DEFINE p == project[b]
            g == Min(Graphs \ Created(p))
            r == NewGraph(revision, "prepared", p.active, p.generation)
            y == [PageOf(b) EXCEPT !.project.graph[g] = r]
<1>1. ProjectOK(p) /\ GraphsShape(p)
  BY ProjectOKShape DEF GraphsInv
<1>2. p.owner = "active" /\ Created(p) # Graphs /\ Becomes(b, y)
  BY DEF Prepare
<1>3. g \in Graphs /\ p.graph[g].state = "none"
  BY <1>1, <1>2, NextGraph DEF Created
<1>4. GraphRecord(r) /\ r.state = "prepared" /\ r.suspended = FALSE
  BY DEF NewGraph, GraphRecord, GraphFields
<1>. HIDE DEF r
<1>5. y.project = With(p, g, r)
  BY <1>1, <1>3, OneGraph
<1>. HIDE DEF g, y, p
<1>6. ProjectOK(y.project)
  BY <1>1, <1>2, <1>3, <1>4, <1>5, CandidateKept DEF CandidateStates
<1> QED BY <1>2, <1>6, BecomesKeeps

(* One graph of a page moves on, and stays a candidate.                    *)
LEMMA MovesOn ==
    ASSUME GraphsInv, NEW b \in Browsers, NEW g \in Graphs,
           project[b].owner # "disposed",
           project[b].graph[g].state \in CandidateStates \ {"committing"},
           NEW r, r = [f \in GraphFields |-> r[f]], r.state \in CandidateStates,
           r.suspended = project[b].graph[g].suspended,
           r.disposed = project[b].graph[g].disposed,
           Becomes(b, [PageOf(b) EXCEPT !.project.graph[g] = r])
    PROVE  GraphsInv'
<1>. DEFINE y == [PageOf(b) EXCEPT !.project.graph[g] = r]
<1>1. ProjectOK(project[b]) /\ GraphsShape(project[b]) /\ GraphOK(project[b], g)
  BY SMTT(30), ProjectOKShape DEF GraphsInv, ProjectOK
<1>2. project[b].graph[g].suspended = FALSE /\ project[b].graph[g].disposed = FALSE
  BY <1>1 DEF GraphOK, CandidateStates
<1>3. GraphRecord(r) /\ r.suspended = FALSE
  BY <1>2 DEF GraphRecord
<1>4. y.project = With(project[b], g, r)
  BY <1>1 DEF PageOf, PageShape, With, GraphsShape, ProjectFields
<1>5. Becomes(b, y)
  OBVIOUS
<1>. HIDE DEF y
<1>6. ProjectOK(y.project)
  BY <1>1, <1>3, <1>4, CandidateKept
<1> QED BY <1>5, <1>6, BecomesKeeps

(* One graph of a page is consumed.                                        *)
LEMMA IsConsumed ==
    ASSUME GraphsInv, NEW b \in Browsers, NEW g \in Graphs,
           project[b].graph[g].state \in CandidateStates \ {"committing"},
           Becomes(b, Consumed(b, PageOf(b), g))
    PROVE  GraphsInv'
<1>. DEFINE p == project[b]
            r == Gone([p.graph[g] EXCEPT !.state = "consumed"])
            y == Consumed(b, PageOf(b), g)
<1>1. ProjectOK(p) /\ GraphsShape(p)
  BY ProjectOKShape DEF GraphsInv
<1>2. y.project = With(p, g, r)
  BY <1>1, PageOfShape, ConsumedIs DEF OnlyGraph
<1>3. g # p.active /\ g # p.transition.from /\ g # p.doomed
  BY <1>1, GraphsAssumption DEF ProjectOK, Kept, CandidateStates
<1>. HIDE DEF r, y
<1>4. r = Gone([p.graph[g] EXCEPT !.state = "consumed"])
  BY DEF r
<1>. HIDE DEF p
<1>5. p.graph[g].state # "committing"
  BY DEF p
<1>6. ProjectOK(y.project)
  BY <1>1, <1>2, <1>3, <1>4, <1>5, ConsumedKept
<1> QED BY <1>6, BecomesKeeps DEF y

LEMMA CandidateStepKeeps ==
    ASSUME GraphsInv, NEW b \in Browsers, NEW g \in Created(project[b]),
           ApplyCalled(b, g) \/ ApplySettles(b, g) \/ RollbackCandidate(b, g)
    PROVE  GraphsInv'
<1>. DEFINE p == project[b]
            CandidateMoved(state) == [p.graph[g] EXCEPT !.state = state]
            Rolling == [p.graph[g] EXCEPT !.rolling = TRUE]
<1>1. g \in Graphs /\ GraphOK(p, g) /\ p.owner \in {"active", "disposing", "disposed"}
  BY DEF Created, GraphsInv, ProjectOK, ProjectShape
<1>2. p.graph[g] = [f \in GraphFields |-> p.graph[g][f]]
        /\ (p.graph[g].state \in CandidateStates => p.owner # "disposed")
  BY <1>1 DEF GraphOK, CandidateStates
<1>3. ASSUME NEW state
      PROVE  /\ CandidateMoved(state) = [f \in GraphFields |-> CandidateMoved(state)[f]]
             /\ CandidateMoved(state).state = state
             /\ CandidateMoved(state).suspended = p.graph[g].suspended
             /\ CandidateMoved(state).disposed = p.graph[g].disposed
             /\ [PageOf(b) EXCEPT !.project.graph[g].state = state]
                  = [PageOf(b) EXCEPT !.project.graph[g] = CandidateMoved(state)]
  BY <1>2 DEF GraphFields, PageOf
<1>4. /\ Rolling = [f \in GraphFields |-> Rolling[f]]
      /\ Rolling.state = p.graph[g].state
      /\ Rolling.suspended = p.graph[g].suspended
      /\ Rolling.disposed = p.graph[g].disposed
      /\ [PageOf(b) EXCEPT !.project.graph[g].rolling = TRUE]
           = [PageOf(b) EXCEPT !.project.graph[g] = Rolling]
  BY <1>2 DEF GraphFields, PageOf
<1>5. ASSUME NEW state, state \in CandidateStates,
             p.graph[g].state \in CandidateStates \ {"committing"},
             Becomes(b, [PageOf(b) EXCEPT !.project.graph[g].state = state])
      PROVE  GraphsInv'
  <2>1. Becomes(b, [PageOf(b) EXCEPT !.project.graph[g] = CandidateMoved(state)])
    BY <1>3, <1>5
  <2>2. /\ CandidateMoved(state) = [f \in GraphFields |-> CandidateMoved(state)[f]]
        /\ CandidateMoved(state).state = state
        /\ CandidateMoved(state).suspended = p.graph[g].suspended
        /\ CandidateMoved(state).disposed = p.graph[g].disposed
    BY <1>3
  <2>. HIDE DEF CandidateMoved
  <2> QED BY <1>1, <1>2, <1>5, <2>1, <2>2, MovesOn
<1>6. CASE ApplyCalled(b, g)
  BY <1>5, <1>6 DEF ApplyCalled, CandidateStates
<1>7. CASE ApplySettles(b, g)
  <2>1. p.graph[g].state = "applying"
    BY <1>7 DEF ApplySettles
  <2>2. CASE p.graph[g].rolling
    <3>1. Becomes(b, Consumed(b, PageOf(b), g))
      BY <1>7, <2>2 DEF ApplySettles
    <3> QED BY <1>1, <2>1, <3>1, IsConsumed DEF CandidateStates
  <2>3. CASE ~p.graph[g].rolling
    <3>1. PICK state \in {"applied", "failed"} :
             Becomes(b, [PageOf(b) EXCEPT !.project.graph[g].state = state])
      BY <1>7, <2>3 DEF ApplySettles
    <3> QED BY <1>5, <2>1, <3>1 DEF CandidateStates
  <2> QED BY <2>2, <2>3
<1>8. CASE RollbackCandidate(b, g)
  <2>1. p.graph[g].state \in {"prepared", "applying", "applied", "failed"}
    BY <1>8 DEF RollbackCandidate
  <2>2. CASE p.graph[g].state = "applying"
    <3>1. Becomes(b, [PageOf(b) EXCEPT !.project.graph[g].rolling = TRUE])
      BY <1>8, <2>2 DEF RollbackCandidate
    <3>2. Becomes(b, [PageOf(b) EXCEPT !.project.graph[g] = Rolling])
      BY <1>4, <3>1
    <3>3. p.graph[g].state \in CandidateStates \ {"committing"}
      BY <2>2 DEF CandidateStates
    <3>4. /\ Rolling = [f \in GraphFields |-> Rolling[f]]
          /\ Rolling.state \in CandidateStates
          /\ Rolling.suspended = p.graph[g].suspended
          /\ Rolling.disposed = p.graph[g].disposed
      BY <1>4, <3>3
    <3>. HIDE DEF Rolling
    <3> QED BY <1>1, <1>2, <3>2, <3>3, <3>4, MovesOn
  <2>3. CASE p.graph[g].state # "applying"
    <3>1. Becomes(b, Consumed(b, PageOf(b), g))
      BY <1>8, <2>3 DEF RollbackCandidate
    <3> QED BY <1>1, <2>1, <3>1, IsConsumed DEF CandidateStates
  <2> QED BY <2>2, <2>3
<1> QED BY <1>6, <1>7, <1>8

(* The stream is no business of the Project.                               *)
LEMMA StreamIs ==
    ASSUME NEW x, PageShape(x)
    PROVE  /\ PageShape(StreamOff(x)) /\ StreamOff(x).project = x.project
           /\ PageShape(StreamOn(x)) /\ StreamOn(x).project = x.project
  BY DEF StreamOff, StreamOn, PageShape

LEMMA BundledIs ==
    ASSUME NEW x, PageShape(x), GraphsShape(x.project), NEW g, NEW signals
    PROVE  LET y == Bundled(x, g, signals)
           IN /\ PageShape(y)
              /\ y.project = [x.project EXCEPT !.active = g,
                                               !.generation = x.project.generation + 1]
<1>. DEFINE page == Retargeted(x.page, IF g = Null THEN NoTarget
                      ELSE [graph |-> g, revision |-> x.project.graph[g].revision], signals)
            y == [x EXCEPT !.project.active = g, !.project.generation = @ + 1,
                           !.page = page]
<1>1. Bundled(x, g, signals) = y
  BY DEF Bundled, PageShape
<1>. HIDE DEF page
<1>2. PageShape(y) /\ y.project = [x.project EXCEPT !.active = g,
                                       !.generation = x.project.generation + 1]
  BY SMTT(30) DEF PageShape, GraphsShape, ProjectFields
<1> QED BY <1>1, <1>2

(* q is p with its graph in force suspended and with g waiting.            *)
Awaiting(p, q, g) ==
    /\ GraphsShape(q)
    /\ q.owner = p.owner /\ q.requested = p.requested /\ q.active = p.active
    /\ q.generation = p.generation /\ q.transition = p.transition
    /\ q.doomed = p.doomed /\ q.waiting = Append(p.waiting, g)
    /\ q.graph[p.active].state = p.graph[p.active].state
    /\ q.graph[p.active].suspended = TRUE
    /\ q.graph[p.active].disposed = p.graph[p.active].disposed
    /\ \A h \in Graphs : h # p.active => q.graph[h] = p.graph[h]

(* The page when the graph in force is suspended and g waits.              *)
LEMMA SuspendingIs ==
    ASSUME NEW b, NEW p, p = project[b], ProjectOK(p), p.active # Null, NEW g,
           NEW y, y = Suspending(b, g), NEW q, q = y.project
    PROVE  PageShape(y) /\ Awaiting(p, q, g)
<1>. DEFINE r == [p.graph[p.active] EXCEPT !.suspended = TRUE]
            x == GraphSuspended(b, PageOf(b), p.active)
            off == IF x.project.requested THEN StreamOff(x) ELSE x
<1>1. p.active \in Graphs /\ GraphsShape(p)
  BY ProjectOKShape DEF ProjectOK, ProjectShape
<1>2. PageShape(x) /\ x.project = With(p, p.active, r)
  BY <1>1, PageOfShape, SuspendedIs DEF OnlyGraph
<1>3. /\ GraphRecord(r) /\ r.state = p.graph[p.active].state
      /\ r.suspended = TRUE /\ r.disposed = p.graph[p.active].disposed
  <2>. DEFINE s == p.graph[p.active]
  <2>1. s = [f \in GraphFields |-> s[f]] /\ s.disposed \in BOOLEAN
    BY <1>1 DEF GraphsShape
  <2>2. r = [s EXCEPT !.suspended = TRUE]
    OBVIOUS
  <2>. HIDE DEF s, r
  <2>3. r = [f \in GraphFields |-> IF f = "suspended" THEN TRUE ELSE s[f]]
    BY <2>1, <2>2 DEF GraphFields
  <2>4. /\ r = [f \in GraphFields |-> r[f]] /\ r.state = s.state
        /\ r.suspended = TRUE /\ r.disposed = s.disposed
    BY <2>3 DEF GraphFields
  <2> QED BY <2>1, <2>4 DEF GraphRecord, s
<1>. HIDE DEF r, x
<1>4. /\ GraphsShape(x.project) /\ SameBut(p, x.project)
      /\ x.project.graph[p.active] = r
      /\ \A h \in Graphs : h # p.active => x.project.graph[h] = p.graph[h]
  BY <1>1, <1>2, <1>3, WithShape
<1>5. PageShape(off) /\ off.project = x.project
  BY SMTT(30), <1>2, StreamIs
<1>6. y = [off EXCEPT !.project.waiting = Append(@, g)]
  BY DEF Suspending, x
<1>. HIDE DEF off
<1>7. PageShape(y) /\ q = [off.project EXCEPT !.waiting = Append(off.project.waiting, g)]
  BY <1>5, <1>6 DEF PageShape, GraphsShape, ProjectFields
<1>8. q = [f \in ProjectFields |-> IF f = "waiting" THEN Append(p.waiting, g)
                                   ELSE x.project[f]]
  <2>. DEFINE w == [off.project EXCEPT !.waiting = Append(off.project.waiting, g)]
  <2>1. w = [f \in ProjectFields |-> IF f = "waiting" THEN Append(p.waiting, g)
                                     ELSE x.project[f]]
    BY ZenonT(30), <1>4, <1>5 DEF GraphsShape, ProjectFields, SameBut
  <2> QED BY <1>7, <2>1
<1>9. /\ q = [f \in ProjectFields |-> q[f]] /\ q.graph = x.project.graph
      /\ q.waiting = Append(p.waiting, g)
      /\ q.owner = p.owner /\ q.requested = p.requested /\ q.active = p.active
      /\ q.generation = p.generation /\ q.transition = p.transition /\ q.doomed = p.doomed
  BY <1>4, <1>8 DEF ProjectFields, SameBut
<1>10. GraphsShape(q)
  BY <1>4, <1>9, ShapeOf
<1> QED BY SMTT(30), <1>3, <1>4, <1>7, <1>9, <1>10 DEF Awaiting

(* q is the Project p of page x with g put in force.                       *)
InForceNow(x, p, q, g) ==
    /\ GraphsShape(q)
    /\ q.owner = p.owner /\ q.requested = p.requested /\ q.active = g
    /\ q.doomed = p.doomed /\ q.waiting = p.waiting
    /\ q.transition = [under |-> TRUE, to |-> g, from |-> p.active,
                       signals |-> x.page.signals]
    /\ g # Null => /\ q.graph[g].state = "committed"
                   /\ q.graph[g].suspended = p.graph[g].suspended
                   /\ q.graph[g].disposed = p.graph[g].disposed
    /\ \A h \in Graphs : h # g => q.graph[h] = p.graph[h]

(* The page when g has been put in force.                                  *)
LEMMA InstalledIs ==
    ASSUME NEW x, PageShape(x), NEW p, p = x.project, GraphsShape(p), NEW g \in Graphs \cup {Null},
           NEW v, v = Installed(x, g), NEW q, q = v.project
    PROVE  PageShape(v) /\ InForceNow(x, p, q, g)
<1>. DEFINE y == Bundled(x, g, NoSignals)
            t == [under |-> TRUE, to |-> g, from |-> p.active, signals |-> x.page.signals]
            z == [y EXCEPT !.project.transition = t]
            r == [z.project.graph[g] EXCEPT !.state = "committed"]
            last == [z EXCEPT !.project.graph[g].state = "committed"]
<1>1. /\ PageShape(y)
      /\ y.project = [p EXCEPT !.active = g, !.generation = p.generation + 1]
  BY BundledIs
<1>2. v = IF g = Null THEN z ELSE StreamOn(last)
  BY DEF Installed
<1>. HIDE DEF y, t
<1>3. PageShape(z) /\ z.project = [y.project EXCEPT !.transition = t]
  BY <1>1 DEF PageShape, GraphsShape, ProjectFields
<1>. HIDE DEF z
<1>4. z.project = [f \in ProjectFields |-> CASE f = "active" -> g
                                             [] f = "generation" -> p.generation + 1
                                             [] f = "transition" -> t
                                             [] OTHER -> p[f]]
  BY <1>1, <1>3 DEF GraphsShape, ProjectFields
<1>5. /\ z.project = [f \in ProjectFields |-> z.project[f]] /\ z.project.graph = p.graph
      /\ z.project.owner = p.owner /\ z.project.requested = p.requested
      /\ z.project.active = g /\ z.project.doomed = p.doomed
      /\ z.project.waiting = p.waiting /\ z.project.transition = t
  BY <1>4 DEF ProjectFields
<1>6. GraphsShape(z.project)
  BY <1>5, ShapeOf
<1>7. CASE g = Null
  <2>1. v = z
    BY <1>2, <1>7
  <2> QED BY <1>3, <1>5, <1>6, <1>7, <2>1 DEF t, InForceNow
<1>8. CASE g # Null
  <2>1. g \in Graphs
    BY <1>8
  <2>2. /\ PageShape(last) /\ last.project = With(z.project, g, r)
    BY <1>3, <1>6, <2>1 DEF PageShape, GraphsShape, ProjectFields, With
  <2>3. v = StreamOn(last)
    BY <1>2, <1>8
  <2>4. /\ r = [f \in GraphFields |-> r[f]] /\ r.state = "committed"
        /\ r.suspended = p.graph[g].suspended /\ r.disposed = p.graph[g].disposed
    <3>1. p.graph[g] = [f \in GraphFields |-> p.graph[g][f]]
      BY <2>1 DEF GraphsShape
    <3> QED BY <1>5, <3>1 DEF GraphFields
  <2>. HIDE DEF last, r
  <2>5. GraphRecord(r)
    BY <2>1, <2>4 DEF GraphRecord, GraphsShape
  <2>6. PageShape(v) /\ q = last.project
    BY <2>2, <2>3, StreamIs
  <2>7. /\ GraphsShape(last.project) /\ SameBut(z.project, last.project)
        /\ last.project.graph[g] = r
        /\ \A h \in Graphs : h # g => last.project.graph[h] = z.project.graph[h]
    BY <1>6, <2>1, <2>2, <2>5, WithShape
  <2>8. /\ last.project.owner = p.owner /\ last.project.requested = p.requested
        /\ last.project.active = g /\ last.project.doomed = p.doomed
        /\ last.project.waiting = p.waiting /\ last.project.transition = t
    BY <1>5, <2>7 DEF SameBut
  <2> QED BY <1>5, <2>4, <2>6, <2>7, <2>8 DEF t, InForceNow
<1> QED BY <1>7, <1>8

(* One graph of a page has another state.                                  *)
InStateNow(x, y, g, state) == y = [x EXCEPT !.project.graph[g].state = state]

LEMMA Restated ==
    ASSUME NEW x, PageShape(x), NEW p, p = x.project, GraphsShape(p), NEW g \in Graphs,
           NEW state, NEW y, InStateNow(x, y, g, state)
    PROVE  /\ PageShape(y) /\ GraphsShape(y.project) /\ SameBut(p, y.project)
           /\ y.project.graph[g].state = state
           /\ y.project.graph[g].suspended = p.graph[g].suspended
           /\ y.project.graph[g].disposed = p.graph[g].disposed
           /\ \A h \in Graphs : h # g => y.project.graph[h] = p.graph[h]
<1>. DEFINE r == [p.graph[g] EXCEPT !.state = state]
<1>1. PageShape(y) /\ y.project = With(p, g, r)
  BY DEF InStateNow, PageShape, GraphsShape, ProjectFields, With
<1>2. /\ r = [f \in GraphFields |-> r[f]] /\ r.state = state
      /\ r.suspended = p.graph[g].suspended /\ r.disposed = p.graph[g].disposed
  <2>1. p.graph[g] = [f \in GraphFields |-> p.graph[g][f]]
    BY DEF GraphsShape
  <2> QED BY <2>1 DEF GraphFields
<1>. HIDE DEF r
<1>3. GraphRecord(r)
  BY <1>2 DEF GraphRecord, GraphsShape
<1>4. /\ GraphsShape(y.project) /\ SameBut(p, y.project) /\ y.project.graph[g] = r
      /\ \A h \in Graphs : h # g => y.project.graph[h] = p.graph[h]
  BY <1>1, <1>3, WithShape
<1> QED BY <1>1, <1>2, <1>4

LEMMA ShapeMade ==
    ASSUME NEW q, GraphsShape(q), q.requested \in BOOLEAN,
           q.owner \in {"active", "disposing", "disposed"},
           DOMAIN q.transition = {"under", "to", "from", "signals"},
           q.transition.under \in BOOLEAN,
           q.active \in Graphs \cup {Null}, q.doomed \in Graphs \cup {Null},
           q.transition.from \in Graphs \cup {Null}, q.transition.to \in Graphs \cup {Null},
           q.waiting \in Seq(Graphs \cup {Null})
    PROVE  ProjectShape(q)
<1>1. q = [f \in ProjectFields |-> q[f]] /\ q.graph = [g \in Graphs |-> q.graph[g]]
  BY DEF GraphsShape
<1>2. /\ {q.requested, q.transition.under} \subseteq BOOLEAN
      /\ {q.active, q.doomed, q.transition.from, q.transition.to} \subseteq Graphs \cup {Null}
  OBVIOUS
<1> QED BY <1>1, <1>2 DEF ProjectShape

LEMMA ShapeGives ==
    ASSUME NEW p, ProjectOK(p)
    PROVE  /\ GraphsShape(p) /\ p.requested \in BOOLEAN
           /\ p.owner \in {"active", "disposing", "disposed"}
           /\ DOMAIN p.transition = {"under", "to", "from", "signals"}
           /\ p.transition.under \in BOOLEAN
           /\ p.active \in Graphs \cup {Null} /\ p.doomed \in Graphs \cup {Null}
           /\ p.transition.from \in Graphs \cup {Null} /\ p.transition.to \in Graphs \cup {Null}
           /\ p.waiting \in Seq(Graphs \cup {Null})
<1>1. GraphsShape(p)
  BY ProjectOKShape
<1>2. p.requested \in BOOLEAN /\ p.transition.under \in BOOLEAN
  BY DEF ProjectOK, ProjectShape
<1> QED BY <1>1, <1>2 DEF ProjectOK, ProjectShape

LEMMA SuspendKeeps ==
    ASSUME GraphsInv, NEW b \in Browsers, NEW g \in Graphs \cup {Null},
           NEW p, p = project[b], p.owner = "active", p.transition.under = FALSE, p.active # Null,
           g # Null => p.graph[g].state = "applied",
           NEW x, x = Suspending(b, g),
           NEW y, IF g = Null THEN y = x ELSE InStateNow(x, y, g, "committing"),
           Becomes(b, y)
    PROVE  GraphsInv'
<1>. DEFINE w == x.project
            q == y.project
<1>1. ProjectOK(p) /\ p.active \in Graphs /\ p.transition.under = FALSE
  BY DEF GraphsInv, ProjectOK, ProjectShape
<1>. HIDE DEF w
<1>a. w = x.project
  BY DEF w
<1>2. /\ PageShape(x) /\ GraphsShape(w)
      /\ w.owner = p.owner /\ w.requested = p.requested /\ w.active = p.active
      /\ w.generation = p.generation /\ w.transition = p.transition
      /\ w.doomed = p.doomed /\ w.waiting = Append(p.waiting, g)
      /\ w.graph[p.active].state = p.graph[p.active].state
      /\ w.graph[p.active].suspended = TRUE
      /\ w.graph[p.active].disposed = p.graph[p.active].disposed
      /\ \A h \in Graphs : h # p.active => w.graph[h] = p.graph[h]
  <2>1. PageShape(x) /\ Awaiting(p, w, g)
    BY <1>1, <1>a, SuspendingIs
  <2> QED BY <2>1 DEF Awaiting
<1>3. p.graph[p.active].state = "committed" /\ p.active # g
  BY <1>1 DEF ProjectOK, Kept
<1>4. /\ GraphsShape(q)
      /\ q.owner = p.owner /\ q.requested = p.requested /\ q.active = p.active
      /\ q.generation = p.generation /\ q.transition = p.transition
      /\ q.doomed = p.doomed /\ q.waiting = Append(p.waiting, g)
      /\ q.graph[p.active].state = p.graph[p.active].state
      /\ q.graph[p.active].suspended = TRUE
      /\ q.graph[p.active].disposed = p.graph[p.active].disposed
      /\ g # Null => /\ q.graph[g].state = "committing"
                     /\ q.graph[g].suspended = p.graph[g].suspended
                     /\ q.graph[g].disposed = p.graph[g].disposed
      /\ \A h \in Graphs : h # p.active /\ h # g => q.graph[h] = p.graph[h]
  <2>1. CASE g = Null
    <3>1. q = w
      BY <2>1 DEF w
    <3>. HIDE DEF q
    <3> QED BY <1>2, <2>1, <3>1
  <2>2. CASE g # Null
    <3>1. g \in Graphs /\ InStateNow(x, y, g, "committing")
      BY SMTT(30), <2>2
    <3>2. /\ GraphsShape(q) /\ SameBut(w, q) /\ q.graph[g].state = "committing"
          /\ q.graph[g].suspended = w.graph[g].suspended
          /\ q.graph[g].disposed = w.graph[g].disposed
          /\ \A h \in Graphs : h # g => q.graph[h] = w.graph[h]
      <4>1. q = y.project
        OBVIOUS
      <4>. HIDE DEF q
      <4> QED BY SMTT(30), <1>a, <1>2, <3>1, <4>1, Restated
    <3>. HIDE DEF q
    <3>3. q.graph[p.active] = w.graph[p.active] /\ w.graph[g] = p.graph[g]
      BY <1>1, <1>2, <1>3, <3>1, <3>2
    <3> QED BY <1>2, <3>2, <3>3 DEF SameBut
  <2> QED BY <2>1, <2>2
<1>5. ProjectShape(q)
  <2>1. p.waiting \in Seq(Graphs \cup {Null}) /\ Append(p.waiting, g) \in Seq(Graphs \cup {Null})
    BY <1>1, ShapeGives
  <2>. HIDE DEF q
  <2> QED BY <1>1, <1>4, <2>1, ShapeGives, ShapeMade
<1>6. p.owner = "active" /\ p.active # Null /\ (g # Null => p.graph[g].state = "applied")
  OBVIOUS
<1>7. ProjectOK(q)
  <2>. HIDE DEF q
  <2> QED BY ZenonT(30), <1>1, <1>4, <1>5, <1>6, WaitsKept
<1> QED BY <1>7, BecomesKeeps

(* q is p with nothing waiting any more: what waits and is not g has       *)
(* become applied again.                                                   *)
Resuming(p, q, g) ==
    /\ GraphsShape(q)
    /\ q.owner = p.owner /\ q.requested = p.requested /\ q.active = p.active
    /\ q.transition = p.transition /\ q.doomed = p.doomed /\ q.waiting = <<>>
    /\ g # Null => q.graph[g] = p.graph[g]
    /\ \A h \in Graphs : AsBefore(p, q, h)

LEMMA InstallKeeps ==
    ASSUME GraphsInv, NEW b \in Browsers, NEW g \in Graphs \cup {Null},
           NEW p, p = project[b], p.owner = "active", p.transition.under = FALSE, g # p.active,
           IF p.waiting = <<>> THEN p.active = Null /\ g # Null ELSE p.active # Null,
           g # Null => p.graph[g].state \in CandidateStates,
           NEW x, PageShape(x), NEW w, w = x.project, Resuming(p, w, g),
           NEW y, y = Installed(x, g), Becomes(b, y)
    PROVE  GraphsInv'
<1>1. ProjectOK(p)
  BY DEF GraphsInv
<1>2. PICK q : q = y.project
  OBVIOUS
<1>3. GraphsShape(w)
  BY DEF Resuming
<1>4. PageShape(y) /\ InForceNow(x, w, q, g)
  BY <1>2, <1>3, InstalledIs
<1>5. /\ GraphsShape(q)
      /\ q.owner = p.owner /\ q.requested = p.requested /\ q.active = g
      /\ q.doomed = p.doomed /\ q.waiting = <<>>
      /\ q.transition = [under |-> TRUE, to |-> g, from |-> p.active, signals |-> x.page.signals]
  BY <1>4 DEF InForceNow, Resuming
<1>6. g # Null => /\ q.graph[g].state = "committed"
                  /\ q.graph[g].suspended = p.graph[g].suspended
                  /\ q.graph[g].disposed = p.graph[g].disposed
  BY <1>4 DEF InForceNow, Resuming
<1>7. ASSUME NEW h \in Graphs, h # g
      PROVE  AsBefore(p, q, h)
  <2>1. q.graph[h] = w.graph[h]
    BY <1>4, <1>7 DEF InForceNow
  <2>2. AsBefore(p, w, h)
    BY DEF Resuming
  <2> QED BY <2>1, <2>2 DEF AsBefore
<1>8. /\ DOMAIN q.transition = {"under", "to", "from", "signals"}
      /\ q.transition.under = TRUE /\ q.transition.to = g /\ q.transition.from = p.active
  BY <1>5
<1>9. ProjectShape(q)
  <2>1. q.transition.under \in BOOLEAN /\ q.waiting \in Seq(Graphs \cup {Null})
    BY <1>5, <1>8
  <2> QED BY <1>1, <1>5, <1>8, <2>1, ShapeGives, ShapeMade
<1>10. ProjectOK(q)
  BY <1>1, <1>5, <1>6, <1>7, <1>8, <1>9, InstalledKept
<1> QED BY <1>2, <1>10, BecomesKeeps

LEMMA CommitKeeps ==
    ASSUME GraphsInv, NEW b \in Browsers, NEW g \in Created(project[b]), CommitCalled(b, g)
    PROVE  GraphsInv'
<1>. DEFINE p == project[b]
            x == Suspending(b, g)
            committing == [x EXCEPT !.project.graph[g].state = "committing"]
<1>1. /\ ProjectOK(p) /\ g \in Graphs /\ g # Null
      /\ p.owner = "active" /\ p.graph[g].state = "applied"
      /\ p.active \in Graphs \cup {Null} /\ p.transition.under \in BOOLEAN
  <2>1. ProjectOK(p) /\ g \in Graphs /\ p.owner = "active" /\ p.graph[g].state = "applied"
    BY DEF GraphsInv, Created, CommitCalled
  <2> QED BY <2>1, GraphsAssumption, ShapeGives
<1>2. g # p.active
  BY <1>1 DEF ProjectOK, Kept
<1>3. CASE Becomes(b, Consumed(b, PageOf(b), g))
  BY <1>1, <1>3, IsConsumed DEF CandidateStates
<1>4. CASE p.active = Null /\ ~p.transition.under /\ Becomes(b, Installed(PageOf(b), g))
  <2>1. PageShape(PageOf(b)) /\ PageOf(b).project = p
    BY PageOfShape
  <2>2. p.waiting = <<>> /\ p.transition.under = FALSE
    BY <1>1, <1>4 DEF ProjectOK
  <2>3. Resuming(p, p, g)
    BY <1>1, <2>2, ProjectOKShape DEF Resuming, AsBefore
  <2>4. g \in Graphs \cup {Null} /\ p.graph[g].state \in CandidateStates
    BY <1>1 DEF CandidateStates
  <2>5. p = project[b]
    OBVIOUS
  <2>. HIDE DEF p
  <2> QED BY <1>1, <1>2, <1>4, <2>1, <2>2, <2>3, <2>4, <2>5, InstallKeeps
<1>5. CASE p.active # Null /\ ~p.transition.under /\ Becomes(b, committing)
  <2>1. InStateNow(x, committing, g, "committing") /\ p.transition.under = FALSE
    BY <1>1, <1>5 DEF InStateNow
  <2>2. p = project[b] /\ x = Suspending(b, g) /\ g \in Graphs \cup {Null}
    BY <1>1
  <2>. HIDE DEF p, x, committing
  <2> QED BY <1>1, <1>5, <2>1, <2>2, SuspendKeeps
<1>6. \/ Becomes(b, Consumed(b, PageOf(b), g))
      \/ /\ ~p.transition.under
         /\ Becomes(b, IF p.active = Null THEN Installed(PageOf(b), g) ELSE committing)
  BY DEF CommitCalled
<1> QED BY <1>3, <1>4, <1>5, <1>6

LEMMA DeactivateKeeps ==
    ASSUME GraphsInv, NEW b \in Browsers, DeactivateCalled(b)
    PROVE  GraphsInv'
<1>. DEFINE p == project[b]
            x == Suspending(b, Null)
<1>1. /\ p.owner = "active" /\ p.active # Null /\ ~p.transition.under
      /\ Becomes(b, x)
  BY DEF DeactivateCalled
<1>2. p.transition.under \in BOOLEAN
  BY ShapeGives DEF GraphsInv
<1>3. p.transition.under = FALSE /\ p = project[b] /\ x = Suspending(b, Null)
  BY <1>1, <1>2
<1>. HIDE DEF p, x
<1> QED BY <1>1, <1>3, SuspendKeeps

LEMMA QuiesceKeeps ==
    ASSUME GraphsInv, NEW b \in Browsers, QuiesceSettles(b)
    PROVE  GraphsInv'
<1>. DEFINE p == project[b]
            Late(g) == g \in Range(p.waiting) /\ (p.owner = "active" => g # Head(p.waiting))
            graph == [g \in Graphs |-> IF Late(g) THEN [p.graph[g] EXCEPT !.state = "applied"]
                                       ELSE p.graph[g]]
            x == [PageOf(b) EXCEPT !.project.waiting = <<>>, !.project.graph = graph]
            w == x.project
<1>1. ProjectOK(p) /\ GraphsShape(p) /\ p.waiting \in Seq(Graphs \cup {Null})
  BY ShapeGives DEF GraphsInv
<1>2. /\ p.waiting # <<>>
      /\ Becomes(b, IF p.owner = "active" THEN Installed(x, Head(p.waiting)) ELSE x)
  BY DEF QuiesceSettles
<1>3. \A g \in Graphs : Late(g) => p.graph[g].state = "committing"
  BY <1>1, GraphsAssumption DEF ProjectOK, Range
<1>4. PageShape(x) /\ w = [p EXCEPT !.waiting = <<>>, !.graph = graph]
  BY <1>1 DEF PageOf, PageShape, GraphsShape, ProjectFields
<1>. HIDE DEF x, w, p
<1>5. w = [f \in ProjectFields |-> CASE f = "waiting" -> <<>> [] f = "graph" -> graph
                                     [] OTHER -> p[f]]
  BY <1>1, <1>4 DEF GraphsShape, ProjectFields
<1>6. /\ w = [f \in ProjectFields |-> w[f]] /\ w.graph = graph /\ w.waiting = <<>>
      /\ w.owner = p.owner /\ w.requested = p.requested /\ w.active = p.active
      /\ w.transition = p.transition /\ w.doomed = p.doomed
  BY <1>5 DEF ProjectFields
<1>7. ASSUME NEW g \in Graphs
      PROVE  AsBefore(p, w, g) /\ GraphRecord(w.graph[g]) /\ (~Late(g) => w.graph[g] = p.graph[g])
  <2>. DEFINE r == p.graph[g]
              s == [r EXCEPT !.state = "applied"]
  <2>1. GraphRecord(r)
    BY <1>1 DEF GraphsShape, GraphRecord
  <2>2. w.graph[g] = IF Late(g) THEN s ELSE r
    BY <1>6
  <2>3. /\ s.state = "applied" /\ s.suspended = r.suspended /\ s.disposed = r.disposed
        /\ s = [f \in GraphFields |-> s[f]]
    <3>1. r = [f \in GraphFields |-> r[f]]
      BY <2>1 DEF GraphRecord
    <3>. HIDE DEF r
    <3> QED BY <3>1 DEF GraphFields
  <2>4. GraphRecord(s)
    BY <2>1, <2>3 DEF GraphRecord
  <2>5. Late(g) => r.state = "committing"
    BY <1>3
  <2>. HIDE DEF s, Late
  <2>6. CASE Late(g)
    <3>1. w.graph[g] = s
      BY <2>2, <2>6
    <3>. HIDE DEF r
    <3>2. p.graph[g] = r
      BY DEF r
    <3> QED BY <2>3, <2>4, <2>5, <2>6, <3>1, <3>2 DEF AsBefore
  <2>7. CASE ~Late(g)
    BY <2>1, <2>2, <2>7 DEF AsBefore
  <2> QED BY <2>6, <2>7
<1>8. w.graph = [g \in Graphs |-> w.graph[g]]
  BY <1>6
<1>9. GraphsShape(w)
  BY <1>6, <1>7, <1>8 DEF GraphsShape, GraphRecord
<1>10. CASE p.owner = "active"
  <2>. DEFINE g == Head(p.waiting)
  <2>1. g \in Graphs \cup {Null} /\ 1 \in DOMAIN p.waiting /\ g = p.waiting[1]
    BY <1>1, <1>2
  <2>2. g # Null => p.graph[g].state = "committing" /\ ~Late(g)
    BY <1>1, <1>10, <2>1 DEF ProjectOK
  <2>3. p.transition.under = FALSE /\ p.active # Null
    BY <1>1, <1>2, <1>10, ShapeGives DEF ProjectOK
  <2>4. g # p.active
    BY <1>1, <2>2, <2>3 DEF ProjectOK, Kept
  <2>5. g # Null => w.graph[g] = p.graph[g]
    BY <1>7, <2>1, <2>2
  <2>6. Resuming(p, w, g)
    <3>. HIDE DEF g
    <3> QED BY <1>6, <1>7, <1>9, <2>5 DEF Resuming
  <2>7. Becomes(b, Installed(x, g)) /\ w = x.project /\ p = project[b]
    BY <1>2, <1>10 DEF w, p
  <2>8. g # Null => p.graph[g].state \in CandidateStates
    BY <2>2 DEF CandidateStates
  <2>. HIDE DEF g
  <2> QED BY <1>2, <1>4, <1>10, <2>1, <2>3, <2>4, <2>6, <2>7, <2>8, InstallKeeps
<1>11. CASE p.owner # "active"
  <2>1. ProjectShape(w)
    <3>1. w.waiting \in Seq(Graphs \cup {Null})
      <4>1. w.waiting = <<>>
        BY <1>6
      <4> QED BY <4>1
    <3> QED BY <1>1, <1>6, <1>9, <3>1, ShapeGives, ShapeMade
  <2>2. ProjectOK(w)
    BY <1>1, <1>6, <1>7, <1>9, <1>11, <2>1, GivenUpKept
  <2>3. Becomes(b, x) /\ w = x.project
    BY <1>2, <1>11 DEF w
  <2> QED BY <2>2, <2>3, BecomesKeeps
<1> QED BY <1>10, <1>11

(* q is p with no transition under way.                                    *)
TransitionEnded(p, q) ==
    /\ GraphsShape(q) /\ q.graph = p.graph
    /\ q.owner = p.owner /\ q.requested = p.requested /\ q.active = p.active
    /\ q.doomed = p.doomed /\ q.waiting = p.waiting /\ q.transition = NoTransition

LEMMA SettledIs ==
    ASSUME NEW x, PageShape(x), NEW p, p = x.project, GraphsShape(p),
           NEW y, y = [x EXCEPT !.project.transition = NoTransition],
           NEW q, q = y.project
    PROVE  PageShape(y) /\ TransitionEnded(p, q)
<1>1. PageShape(y) /\ q = [p EXCEPT !.transition = NoTransition]
  BY DEF PageShape, GraphsShape, ProjectFields
<1>2. q = [f \in ProjectFields |-> IF f = "transition" THEN NoTransition ELSE p[f]]
  BY <1>1 DEF GraphsShape, ProjectFields
<1>3. /\ q = [f \in ProjectFields |-> q[f]] /\ q.graph = p.graph
      /\ q.owner = p.owner /\ q.requested = p.requested /\ q.active = p.active
      /\ q.doomed = p.doomed /\ q.waiting = p.waiting /\ q.transition = NoTransition
  BY <1>2 DEF ProjectFields
<1> QED BY <1>1, <1>3, ShapeOf DEF TransitionEnded

(* A graph of a page is disposed of, or there is none to dispose of.       *)
GoneFrom(p, q, g) ==
    /\ GraphsShape(q) /\ SameBut(p, q)
    /\ g \in Graphs => /\ q.graph[g].state = p.graph[g].state
                       /\ q.graph[g].suspended = TRUE /\ q.graph[g].disposed = TRUE
    /\ \A h \in Graphs : h # g => q.graph[h] = p.graph[h]

LEMMA GoneIs ==
    ASSUME NEW b, NEW x, PageShape(x), NEW p, p = x.project, GraphsShape(p),
           NEW g \in Graphs \cup {Null}, NEW y, y = GraphDisposed(b, x, g), NEW q, q = y.project
    PROVE  PageShape(y) /\ y.page = x.page /\ GoneFrom(p, q, g)
<1>1. CASE g = Null
  <2>1. y = x
    BY <1>1 DEF GraphDisposed
  <2> QED BY <1>1, <2>1, GraphsAssumption DEF GoneFrom, SameBut
<1>2. CASE g # Null
  <2>. DEFINE r == Gone(p.graph[g])
  <2>1. g \in Graphs
    BY <1>2
  <2>2. PageShape(y) /\ y.page = x.page /\ q = With(p, g, r)
    BY <2>1, DisposedIs DEF OnlyGraph
  <2>3. /\ r = [f \in GraphFields |-> r[f]] /\ r.state = p.graph[g].state
        /\ r.suspended = TRUE /\ r.disposed = TRUE
    <3>1. p.graph[g] = [f \in GraphFields |-> p.graph[g][f]]
      BY <2>1 DEF GraphsShape
    <3> QED BY <3>1 DEF Gone, GraphFields
  <2>. HIDE DEF r
  <2>4. GraphRecord(r)
    BY <2>3 DEF GraphRecord
  <2>5. /\ GraphsShape(q) /\ SameBut(p, q) /\ q.graph[g] = r
        /\ \A h \in Graphs : h # g => q.graph[h] = p.graph[h]
    BY <2>1, <2>2, <2>4, WithShape
  <2> QED BY <2>2, <2>3, <2>5 DEF GoneFrom
<1> QED BY <1>1, <1>2

LEMMA FinalizeKeeps ==
    ASSUME GraphsInv, NEW b \in Browsers, Finalize(b)
    PROVE  GraphsInv'
<1>. DEFINE p == project[b]
            g == p.transition.from
            x == [PageOf(b) EXCEPT !.project.transition = NoTransition]
            w == x.project
            y == GraphDisposed(b, x, g)
            q == y.project
<1>1. ProjectOK(p) /\ GraphsShape(p) /\ g \in Graphs \cup {Null}
  BY ShapeGives DEF GraphsInv
<1>2. p.transition.under /\ Becomes(b, y)
  BY DEF Finalize
<1>3. p.transition.under = TRUE
  BY <1>1, <1>2, ShapeGives
<1>4. PageShape(x) /\ TransitionEnded(p, w)
  BY <1>1, PageOfShape, SettledIs
<1>. HIDE DEF p, g, x, w
<1>5. w = x.project /\ GraphsShape(w)
  BY <1>4 DEF w, TransitionEnded
<1>6. PageShape(y) /\ GoneFrom(w, q, g)
  BY <1>1, <1>4, <1>5, GoneIs
<1>. HIDE DEF y, q
<1>7. q.transition = NoTransition /\ q.owner = p.owner /\ q.requested = p.requested
        /\ q.active = p.active /\ q.doomed = p.doomed /\ q.waiting = p.waiting /\ GraphsShape(q)
  BY <1>4, <1>6 DEF TransitionEnded, GoneFrom, SameBut
<1>8. q.transition.under = FALSE /\ q.transition.from = Null /\ q.transition.to = Null
        /\ DOMAIN q.transition = {"under", "to", "from", "signals"}
  BY <1>7 DEF NoTransition
<1>9. g # Null => /\ q.graph[g].state = p.graph[g].state
                  /\ q.graph[g].suspended = TRUE /\ q.graph[g].disposed = TRUE
  BY <1>1, <1>4, <1>6 DEF TransitionEnded, GoneFrom
<1>10. \A h \in Graphs : h # g => q.graph[h] = p.graph[h]
  BY <1>4, <1>6 DEF TransitionEnded, GoneFrom
<1>11. ProjectShape(q)
  <2>1. q.transition.under \in BOOLEAN
    BY <1>8
  <2> QED BY <1>1, <1>7, <1>8, <2>1, ShapeGives, ShapeMade
<1>12. ProjectOK(q)
  BY <1>1, <1>3, <1>7, <1>8, <1>9, <1>10, <1>11, FinalizedKept DEF g
<1> QED BY <1>2, <1>12, BecomesKeeps DEF q

(* A graph of a page is consumed.                                          *)
ConsumedFrom(p, q, g) ==
    /\ GraphsShape(q) /\ SameBut(p, q)
    /\ q.graph[g].state = "consumed"
    /\ q.graph[g].suspended = TRUE /\ q.graph[g].disposed = TRUE
    /\ \A h \in Graphs : h # g => q.graph[h] = p.graph[h]

LEMMA ConsumptionIs ==
    ASSUME NEW b, NEW x, PageShape(x), NEW p, p = x.project, GraphsShape(p),
           NEW g \in Graphs, NEW y, y = Consumed(b, x, g), NEW q, q = y.project
    PROVE  PageShape(y) /\ y.page = x.page /\ ConsumedFrom(p, q, g)
<1>. DEFINE s == [p.graph[g] EXCEPT !.state = "consumed"]
            r == Gone(s)
<1>1. PageShape(y) /\ y.page = x.page /\ q = With(p, g, r)
  BY ConsumedIs DEF OnlyGraph
<1>2. /\ r = [f \in GraphFields |-> r[f]] /\ r.state = "consumed"
      /\ r.suspended = TRUE /\ r.disposed = TRUE
  <2>1. p.graph[g] = [f \in GraphFields |-> p.graph[g][f]]
    BY DEF GraphsShape
  <2> QED BY <2>1 DEF Gone, GraphFields
<1>. HIDE DEF r
<1>3. GraphRecord(r)
  BY <1>2 DEF GraphRecord
<1>4. /\ GraphsShape(q) /\ SameBut(p, q) /\ q.graph[g] = r
      /\ \A h \in Graphs : h # g => q.graph[h] = p.graph[h]
  BY <1>1, <1>3, WithShape
<1> QED BY <1>1, <1>2, <1>4 DEF ConsumedFrom

(* A graph of a page that goes on.                                         *)
ResumedFrom(p, q, g) ==
    /\ GraphsShape(q) /\ SameBut(p, q)
    /\ q.graph[g].state = p.graph[g].state
    /\ q.graph[g].suspended = FALSE /\ q.graph[g].disposed = p.graph[g].disposed
    /\ \A h \in Graphs : h # g => q.graph[h] = p.graph[h]

LEMMA ResumptionIs ==
    ASSUME NEW b, NEW x, PageShape(x), NEW p, p = x.project, GraphsShape(p),
           NEW g \in Graphs, p.graph[g].disposed = FALSE,
           NEW y, y = GraphResumed(b, x, g), NEW q, q = y.project
    PROVE  PageShape(y) /\ y.page = x.page /\ ResumedFrom(p, q, g)
<1>. DEFINE r == [p.graph[g] EXCEPT !.suspended = FALSE]
<1>1. PageShape(y) /\ y.page = x.page /\ q = With(p, g, r)
  BY ResumedIs DEF OnlyGraph
<1>2. /\ r = [f \in GraphFields |-> r[f]] /\ r.state = p.graph[g].state
      /\ r.suspended = FALSE /\ r.disposed = p.graph[g].disposed
  <2>1. p.graph[g] = [f \in GraphFields |-> p.graph[g][f]]
    BY DEF GraphsShape
  <2> QED BY <2>1 DEF GraphFields
<1>. HIDE DEF r
<1>3. GraphRecord(r)
  BY <1>2 DEF GraphRecord
<1>4. /\ GraphsShape(q) /\ SameBut(p, q) /\ q.graph[g] = r
      /\ \A h \in Graphs : h # g => q.graph[h] = p.graph[h]
  BY <1>1, <1>3, WithShape
<1> QED BY <1>1, <1>2, <1>4 DEF ResumedFrom

(* q is p with the bundle of the transition taken back.                    *)
TakenBack(p, q) ==
    /\ GraphsShape(q) /\ q.graph = p.graph
    /\ q.owner = p.owner /\ q.requested = p.requested /\ q.active = p.transition.from
    /\ q.doomed = p.doomed /\ q.waiting = p.waiting /\ q.transition = NoTransition

LEMMA TakenBackIs ==
    ASSUME NEW x, PageShape(x), NEW p, p = x.project, GraphsShape(p), NEW signals,
           NEW y, y = [Bundled(x, p.transition.from, signals) EXCEPT
                         !.project.transition = NoTransition],
           NEW q, q = y.project
    PROVE  PageShape(y) /\ TakenBack(p, q)
<1>. DEFINE z == Bundled(x, p.transition.from, signals)
<1>1. /\ PageShape(z)
      /\ z.project = [p EXCEPT !.active = p.transition.from, !.generation = p.generation + 1]
  BY BundledIs
<1>. HIDE DEF z
<1>2. y = [z EXCEPT !.project.transition = NoTransition]
  BY DEF z
<1>3. z.project = [f \in ProjectFields |-> CASE f = "active" -> p.transition.from
                                             [] f = "generation" -> p.generation + 1
                                             [] OTHER -> p[f]]
  BY <1>1 DEF GraphsShape, ProjectFields
<1>4. /\ z.project = [f \in ProjectFields |-> z.project[f]] /\ z.project.graph = p.graph
      /\ z.project.owner = p.owner /\ z.project.requested = p.requested
      /\ z.project.active = p.transition.from
      /\ z.project.doomed = p.doomed /\ z.project.waiting = p.waiting
  BY <1>3 DEF ProjectFields
<1>5. GraphsShape(z.project)
  BY <1>4, ShapeOf
<1>6. \E w : w = z.project
  OBVIOUS
<1>7. PICK w : w = z.project
  BY SMTT(30), <1>6
<1>8. PageShape(y) /\ TransitionEnded(w, q)
  BY <1>1, <1>2, <1>5, <1>7, SettledIs
<1> QED BY <1>4, <1>7, <1>8 DEF TransitionEnded, TakenBack

LEMMA RollbackKeeps ==
    ASSUME GraphsInv, NEW b \in Browsers, RollbackTransition(b)
    PROVE  GraphsInv'
<1>. DEFINE p == project[b]
            t == p.transition
            stopped == IF t.to = Null THEN PageOf(b) ELSE StreamOff(PageOf(b))
            bundled == [Bundled(stopped, t.from, t.signals) EXCEPT
                          !.project.transition = NoTransition]
            x == IF t.to = Null THEN bundled ELSE Consumed(b, bundled, t.to)
            resumed == GraphResumed(b, x, t.from)
            y == IF t.from = Null THEN x ELSE StreamOn(resumed)
<1>1. /\ ProjectOK(p) /\ GraphsShape(p) /\ p.active \in Graphs \cup {Null}
      /\ t.from \in Graphs \cup {Null}
  BY SMTT(30), ShapeGives DEF GraphsInv
<1>2. t.under /\ Becomes(b, y)
  BY SMTT(90) DEF RollbackTransition, Restored
<1>3. t.under = TRUE /\ t.to = p.active /\ t.from # p.active /\ p.owner = "active"
  BY <1>1, <1>2, ShapeGives DEF ProjectOK
<1>4. PageShape(stopped) /\ stopped.project = p
  BY PageOfShape, StreamIs
<1>. HIDE DEF stopped
<1>5. PICK w : w = bundled.project
  OBVIOUS
<1>6. PageShape(bundled) /\ TakenBack(p, w)
  <2>1. bundled = [Bundled(stopped, p.transition.from, t.signals) EXCEPT
                     !.project.transition = NoTransition]
    OBVIOUS
  <2>. HIDE DEF bundled, p, t
  <2> QED BY <1>1, <1>4, <1>5, <2>1, TakenBackIs
<1>. HIDE DEF bundled
<1>7. PICK v : v = x.project
  OBVIOUS
<1>8. /\ PageShape(x) /\ GraphsShape(v) /\ SameBut(w, v)
      /\ p.active # Null => /\ v.graph[p.active].state = "consumed"
                            /\ v.graph[p.active].suspended = TRUE
                            /\ v.graph[p.active].disposed = TRUE
      /\ \A h \in Graphs : h # p.active => v.graph[h] = p.graph[h]
  <2>1. GraphsShape(w) /\ w.graph = p.graph
    BY <1>6 DEF TakenBack
  <2>2. CASE p.active = Null
    <3>1. x = bundled
      BY <1>3, <2>2
    <3>. HIDE DEF x, p
    <3> QED BY <1>5, <1>6, <1>7, <2>1, <2>2, <3>1 DEF SameBut
  <2>3. CASE p.active # Null
    <3>1. x = Consumed(b, bundled, p.active) /\ p.active \in Graphs
      BY <1>1, <1>3, <2>3
    <3>. HIDE DEF x, p
    <3>2. PageShape(x) /\ ConsumedFrom(w, v, p.active)
      BY <1>5, <1>6, <1>7, <2>1, <3>1, ConsumptionIs
    <3> QED BY <2>1, <3>2 DEF ConsumedFrom
  <2> QED BY <2>2, <2>3
<1>. HIDE DEF x
<1>9. PICK q : q = y.project
  OBVIOUS
<1>10. /\ GraphsShape(q) /\ SameBut(v, q)
       /\ t.from # Null => /\ q.graph[t.from].state = p.graph[t.from].state
                           /\ q.graph[t.from].suspended = FALSE
                           /\ q.graph[t.from].disposed = p.graph[t.from].disposed
       /\ \A h \in Graphs : h # t.from => q.graph[h] = v.graph[h]
  <2>1. CASE t.from = Null
    <3>1. y = x
      BY <2>1
    <3>. HIDE DEF y, t, p
    <3> QED BY <1>7, <1>8, <1>9, <2>1, <3>1 DEF SameBut
  <2>2. CASE t.from # Null
    <3>1. y = StreamOn(resumed) /\ t.from \in Graphs
      BY <1>1, <2>2
    <3>2. v.graph[t.from] = p.graph[t.from]
      BY SMTT(30), <1>3, <1>8, <3>1
    <3>3. p.graph[t.from].disposed = FALSE
      <4>1. GraphOK(p, t.from) /\ ~p.graph[t.from].disposed
        BY <1>1, <1>3, <2>2, <3>1 DEF ProjectOK, Kept
      <4> QED BY Zenon, <4>1 DEF GraphOK
    <3>4. PICK u : u = resumed.project
      OBVIOUS
    <3>5. resumed = GraphResumed(b, x, t.from)
      OBVIOUS
    <3>. HIDE DEF y, t, p, resumed
    <3>6. PageShape(resumed) /\ ResumedFrom(v, u, t.from)
      <4>1. v.graph[t.from].disposed = FALSE /\ PageShape(x) /\ GraphsShape(v)
        BY <1>8, <3>2, <3>3
      <4> QED BY <1>7, <3>1, <3>4, <3>5, <4>1, ResumptionIs
    <3>7. q = u
      BY <1>9, <3>1, <3>4, <3>6, StreamIs
    <3> QED BY <2>2, <3>1, <3>2, <3>6, <3>7 DEF ResumedFrom
  <2> QED BY <2>1, <2>2
<1>. HIDE DEF y
<1>11. /\ q.owner = p.owner /\ q.requested = p.requested /\ q.active = t.from
       /\ q.doomed = p.doomed /\ q.waiting = p.waiting /\ q.transition = NoTransition
  BY <1>6, <1>8, <1>10 DEF TakenBack, SameBut
<1>12. q.transition.under = FALSE /\ q.transition.from = Null /\ q.transition.to = Null
        /\ DOMAIN q.transition = {"under", "to", "from", "signals"}
  BY <1>11 DEF NoTransition
<1>13. p.active # Null => /\ q.graph[p.active].state = "consumed"
                          /\ q.graph[p.active].suspended = TRUE
                          /\ q.graph[p.active].disposed = TRUE
  BY <1>1, <1>3, <1>8, <1>10
<1>14. \A h \in Graphs : h # t.from /\ h # p.active => q.graph[h] = p.graph[h]
  BY <1>8, <1>10
<1>15. ProjectShape(q)
  <2>1. q.transition.under \in BOOLEAN
    BY <1>12
  <2>. HIDE DEF p
  <2> QED BY <1>1, <1>10, <1>11, <1>12, <2>1, ShapeGives, ShapeMade
<1>16. ProjectOK(q)
  <2>. HIDE DEF p
  <2> QED BY <1>1, <1>3, <1>10, <1>11, <1>12, <1>13, <1>14, <1>15, RestoredKept
<1> QED BY <1>2, <1>9, <1>16, BecomesKeeps

LEMMA AskedKeeps ==
    ASSUME GraphsInv, NEW b \in Browsers, StartGatewayStream(b)
    PROVE  GraphsInv'
<1>. DEFINE p == project[b]
            x == [PageOf(b) EXCEPT !.project.requested = TRUE]
<1>1. ProjectOK(p) /\ GraphsShape(p)
  BY ShapeGives DEF GraphsInv
<1>2. Becomes(b, StreamOn(x))
  BY DEF StartGatewayStream
<1>3. PageShape(x) /\ x.project = [p EXCEPT !.requested = TRUE]
  BY <1>1 DEF PageOf, PageShape, GraphsShape, ProjectFields
<1>4. PICK q : q = StreamOn(x).project
  OBVIOUS
<1>. HIDE DEF x, p
<1>5. q = [p EXCEPT !.requested = TRUE]
  BY <1>3, <1>4, StreamIs
<1>6. q = [f \in ProjectFields |-> IF f = "requested" THEN TRUE ELSE p[f]]
  BY <1>1, <1>5 DEF GraphsShape, ProjectFields
<1>7. /\ q = [f \in ProjectFields |-> q[f]] /\ q.graph = p.graph
      /\ q.owner = p.owner /\ q.requested = TRUE /\ q.active = p.active
      /\ q.doomed = p.doomed /\ q.waiting = p.waiting /\ q.transition = p.transition
  BY <1>6 DEF ProjectFields
<1>8. ProjectShape(q)
  <2>1. GraphsShape(q) /\ q.requested \in BOOLEAN
    BY <1>1, <1>7, ShapeOf
  <2> QED BY <1>1, <1>7, <2>1, ShapeGives, ShapeMade
<1>9. ProjectOK(q)
  <2>1. ASSUME NEW g \in Graphs PROVE GraphOK(q, g)
    <3>1. GraphOK(p, g) /\ GraphsShape(q)
      BY <1>1, <1>7, ShapeOf DEF ProjectOK
    <3>2. SameState(p.graph[g], q.graph[g])
      BY <1>7 DEF SameState
    <3>3. Reserve(q) = Reserve(p) /\ (InForce(p, g) <=> InForce(q, g))
      BY <1>7 DEF Reserve, InForce
    <3>4. p.graph[g].disposed /\ p.owner = "active" /\ p.graph[g].state = "committed"
            => ~InForce(p, g)
      BY <3>1 DEF GraphOK
    <3> QED BY <1>7, <3>1, <3>2, <3>3, <3>4, OthersKept
  <2>2. Kept(q, q.active) /\ Kept(q, q.transition.from) /\ Kept(q, q.doomed)
    BY <1>1, <1>7 DEF ProjectOK, Kept
  <2> QED BY <1>1, <1>7, <1>8, <2>1, <2>2 DEF ProjectOK
<1> QED BY <1>2, <1>4, <1>9, BecomesKeeps

LEMMA DisposeCalledKeeps ==
    ASSUME GraphsInv, NEW b \in Browsers, DisposeCalled(b)
    PROVE  GraphsInv'
<1>. DEFINE p == project[b]
            off == StreamOff(PageOf(b))
            x == [off EXCEPT !.project.owner = "disposing", !.project.requested = FALSE,
                             !.project.transition = NoTransition,
                             !.project.doomed = p.transition.from]
<1>1. ProjectOK(p) /\ GraphsShape(p) /\ p.owner = "active"
  BY ShapeGives DEF GraphsInv, DisposeCalled
<1>2. Becomes(b, x)
  BY DEF DisposeCalled
<1>3. PageShape(off) /\ off.project = p
  BY PageOfShape, StreamIs
<1>. HIDE DEF off, p
<1>4. PICK q : q = x.project
  OBVIOUS
<1>5. q = [p EXCEPT !.owner = "disposing", !.requested = FALSE, !.transition = NoTransition,
                    !.doomed = p.transition.from]
  BY <1>1, <1>3, <1>4 DEF PageShape, GraphsShape, ProjectFields
<1>6. q = [f \in ProjectFields |-> CASE f = "owner" -> "disposing"
                                     [] f = "requested" -> FALSE
                                     [] f = "transition" -> NoTransition
                                     [] f = "doomed" -> p.transition.from
                                     [] OTHER -> p[f]]
  BY <1>1, <1>5 DEF GraphsShape, ProjectFields
<1>7. /\ q = [f \in ProjectFields |-> q[f]] /\ q.graph = p.graph
      /\ q.owner = "disposing" /\ q.requested = FALSE /\ q.active = p.active
      /\ q.doomed = p.transition.from /\ q.waiting = p.waiting /\ q.transition = NoTransition
  BY <1>6 DEF ProjectFields
<1>8. q.transition.under = FALSE /\ q.transition.from = Null /\ q.transition.to = Null
        /\ DOMAIN q.transition = {"under", "to", "from", "signals"}
  BY <1>7 DEF NoTransition
<1>9. ProjectShape(q)
  <2>1. GraphsShape(q) /\ q.requested \in BOOLEAN /\ q.transition.under \in BOOLEAN
    BY <1>1, <1>7, <1>8, ShapeOf
  <2> QED BY <1>1, <1>7, <1>8, <2>1, ShapeGives, ShapeMade
<1>10. ProjectOK(q)
  BY <1>1, <1>7, <1>8, <1>9, LeavingKept
<1>. HIDE DEF x
<1> QED BY <1>2, <1>4, <1>10, BecomesKeeps

(* The page when every candidate of its Project p has been consumed.       *)
NoCandidates(p, q) ==
    /\ GraphsShape(q) /\ SameBut(p, q)
    /\ \A g \in Graphs :
          IF g \in Candidates(p)
          THEN /\ q.graph[g].state = "consumed"
               /\ q.graph[g].suspended = TRUE /\ q.graph[g].disposed = TRUE
          ELSE q.graph[g] = p.graph[g]

Consumption(b, p) ==
    FoldLeft(LAMBDA x, g : Consumed(b, x, g), PageOf(b), SetToSeq(Candidates(p)))

LEMMA CandidatesConsumed ==
    ASSUME NEW b, NEW p, p = project[b], GraphsShape(p),
           NEW y, y = Consumption(b, p),
           NEW q, q = y.project
    PROVE  PageShape(y) /\ y.page = browser[b] /\ NoCandidates(p, q)
<1>. DEFINE S == Candidates(p)
            n == Cardinality(S)
            s == SetToSeq(S)
            c == [b |-> b, page |-> browser[b], project |-> p, seq |-> s]
<1>1. S \subseteq Graphs /\ IsFiniteSet(S)
  <2>1. S \in SUBSET Graphs
    BY DEF Candidates, Created
  <2> QED BY <2>1, GraphsAssumption, FS_Subset
<1>2. n \in Nat /\ s \in [1..n -> S] /\ \A g \in S : \E i \in 1..n : s[i] = g
  <2>. HIDE DEF S
  <2> QED BY <1>1, SetToSeqIs
<1>3. c.b = b /\ c.page = browser[b] /\ c.project = p /\ c.seq = s /\ DOMAIN s = 1..n
  BY <1>2
<1>. HIDE DEF c, s, n, S
<1>4. ConsumedUpTo(c, 0, PageOf(b))
  <2>1. PageShape(PageOf(b)) /\ PageOf(b).project = p
    BY PageOfShape
  <2>2. GraphsShape(PageOf(b).project) /\ SameBut(c.project, PageOf(b).project)
    BY <1>3, <2>1 DEF SameBut
  <2>3. ASSUME NEW g \in Graphs PROVE ~(\E i \in 1..0 : c.seq[i] = g)
    OBVIOUS
  <2>4. \A g \in Graphs : PageOf(b).project.graph[g] = c.project.graph[g]
    BY <1>3, <2>1
  <2>5. PageOf(b).page = c.page
    BY <1>3 DEF PageOf
  <2> QED BY <2>1, <2>2, <2>3, <2>4, <2>5 DEF ConsumedUpTo
<1>5. ASSUME NEW k \in 1..n, NEW x, ConsumedUpTo(c, k - 1, x)
      PROVE  ConsumedUpTo(c, k, ConsumeNext(c, x, s[k]))
  <2>1. s[k] \in Graphs
    BY <1>1, <1>2
  <2>2. PICK g : g = s[k]
    OBVIOUS
  <2>3. PICK z : z = Consumed(b, x, g)
    OBVIOUS
  <2>4. PICK w : w = x.project
    OBVIOUS
  <2>5. PICK v : v = z.project
    OBVIOUS
  <2>6. PageShape(x) /\ x.page = c.page /\ GraphsShape(w) /\ SameBut(p, w)
    BY <1>3, <1>5, <2>4 DEF ConsumedUpTo
  <2>7. PageShape(z) /\ z.page = x.page /\ ConsumedFrom(w, v, g)
    BY <2>1, <2>2, <2>3, <2>4, <2>5, <2>6, ConsumptionIs
  <2>8. SameBut(p, v) /\ GraphsShape(v)
    BY <2>6, <2>7 DEF SameBut, ConsumedFrom
  <2>9. ASSUME NEW h \in Graphs
        PROVE  IF \E i \in 1..k : s[i] = h
               THEN /\ v.graph[h].state = "consumed"
                    /\ v.graph[h].suspended = TRUE /\ v.graph[h].disposed = TRUE
               ELSE v.graph[h] = p.graph[h]
    <3>1. CASE h = g
      <4>1. \E i \in 1..k : s[i] = h
        BY <2>2, <3>1
      <4> QED BY <2>7, <3>1, <4>1 DEF ConsumedFrom
    <3>2. CASE h # g
      <4>1. (\E i \in 1..k : s[i] = h) <=> (\E i \in 1..(k - 1) : s[i] = h)
        BY <2>2, <3>2
      <4>2. v.graph[h] = w.graph[h]
        BY <2>7, <3>2 DEF ConsumedFrom
      <4>3. IF \E i \in 1..(k - 1) : s[i] = h
            THEN /\ w.graph[h].state = "consumed"
                 /\ w.graph[h].suspended = TRUE /\ w.graph[h].disposed = TRUE
            ELSE w.graph[h] = p.graph[h]
        BY <1>3, <1>5, <2>4 DEF ConsumedUpTo
      <4> QED BY <4>1, <4>2, <4>3
    <3> QED BY <3>1, <3>2
  <2>10. ConsumeNext(c, x, s[k]) = z
    BY <1>3, <2>2, <2>3 DEF ConsumeNext
  <2>11. z.page = c.page
    BY <2>6, <2>7
  <2>12. \A h \in Graphs :
            IF \E i \in 1..k : c.seq[i] = h
            THEN /\ z.project.graph[h].state = "consumed"
                 /\ z.project.graph[h].suspended = TRUE /\ z.project.graph[h].disposed = TRUE
            ELSE z.project.graph[h] = c.project.graph[h]
    BY ZenonT(30), <1>3, <2>5, <2>9
  <2>13. PageShape(z) /\ GraphsShape(z.project) /\ SameBut(c.project, z.project)
    BY <1>3, <2>5, <2>7, <2>8
  <2>14. ConsumedUpTo(c, k, z)
    BY <2>11, <2>12, <2>13, Zenon DEF ConsumedUpTo
  <2> QED BY <2>10, <2>14
<1>6. ConsumedUpTo(c, n, Disposal!Fold(c, PageOf(b), s))
  <2>. HIDE DEF ConsumedUpTo, ConsumeNext
  <2> QED BY <1>2, <1>3, <1>4, <1>5, Disposal!FoldLeftInduction
<1>7. Disposal!Fold(c, PageOf(b), s) = y
  BY <1>3 DEF Disposal!Fold, Disposal!Iterates, FoldLeft, MapThenFoldSet, Disposal!Max, Max,
     ConsumeNext, Consumption, s, S
<1>8. ASSUME NEW g \in Graphs
      PROVE  (\E i \in 1..n : c.seq[i] = g) <=> g \in Candidates(p)
  BY <1>2, <1>3 DEF S
<1> QED BY <1>3, <1>6, <1>7, <1>8 DEF ConsumedUpTo, NoCandidates

LEMMA DisposeSettlesKeeps ==
    ASSUME GraphsInv, NEW b \in Browsers, DisposeSettles(b)
    PROVE  GraphsInv'
<1>. DEFINE p == project[b]
            y == [AllDisposed(b) EXCEPT !.project.owner = "disposed"]
<1>1. /\ ProjectOK(p) /\ GraphsShape(p) /\ p.owner = "disposing"
      /\ p.active \in Graphs \cup {Null} /\ p.doomed \in Graphs \cup {Null}
  BY ShapeGives DEF GraphsInv, DisposeSettles
<1>2. /\ InState(p, "applying") \cup InState(p, "committing") = {}
      /\ Becomes(b, y)
  BY DEF DisposeSettles
<1>3. PICK y0 : y0 = Consumption(b, p)
  OBVIOUS
<1>4. PICK y1 : y1 = GraphDisposed(b, y0, p.doomed)
  OBVIOUS
<1>5. PICK y2 : y2 = GraphDisposed(b, y1, p.active)
  OBVIOUS
<1>6. AllDisposed(b) = y2
  BY <1>3, <1>4, <1>5 DEF AllDisposed, Consumption
<1>. HIDE DEF p
<1>7. PICK q0 : q0 = y0.project
  OBVIOUS
<1>8. PICK q1 : q1 = y1.project
  OBVIOUS
<1>9. PICK q2 : q2 = y2.project
  OBVIOUS
<1>10. PageShape(y0) /\ NoCandidates(p, q0)
  BY <1>1, <1>3, <1>7, CandidatesConsumed DEF p
<1>11. PageShape(y1) /\ GoneFrom(q0, q1, p.doomed)
  <2>1. GraphsShape(q0)
    BY <1>10 DEF NoCandidates
  <2> QED BY <1>1, <1>4, <1>7, <1>8, <1>10, <2>1, GoneIs
<1>12. PageShape(y2) /\ GoneFrom(q1, q2, p.active)
  <2>1. GraphsShape(q1)
    BY <1>11 DEF GoneFrom
  <2> QED BY <1>1, <1>5, <1>8, <1>9, <1>11, <2>1, GoneIs
<1>13. GraphsShape(q2) /\ SameBut(p, q2)
  BY <1>10, <1>11, <1>12 DEF NoCandidates, GoneFrom, SameBut
<1>14. PICK q : q = y.project
  OBVIOUS
<1>15. q = [q2 EXCEPT !.owner = "disposed"]
  BY <1>6, <1>9, <1>12, <1>13, <1>14 DEF PageShape, GraphsShape, ProjectFields
<1>16. q = [f \in ProjectFields |-> IF f = "owner" THEN "disposed" ELSE q2[f]]
  BY <1>13, <1>15 DEF GraphsShape, ProjectFields
<1>17. /\ q = [f \in ProjectFields |-> q[f]] /\ q.graph = q2.graph /\ q.owner = "disposed"
       /\ q.requested = p.requested /\ q.active = p.active /\ q.doomed = p.doomed
       /\ q.waiting = p.waiting /\ q.transition = p.transition
  BY <1>13, <1>16 DEF ProjectFields, SameBut
<1>18. GraphsShape(q)
  BY <1>13, <1>17, ShapeOf
<1>19. ProjectShape(q)
  BY <1>1, <1>17, <1>18, ShapeGives, ShapeMade
<1>20. ASSUME NEW h \in Graphs
       PROVE  /\ q.graph[h].state = p.graph[h].state \/ q.graph[h].state = "consumed"
              /\ q.graph[h].disposed => q.graph[h].suspended
              /\ p.graph[h].disposed => q.graph[h].disposed
              /\ p.graph[h].state \in CandidateStates \/ h \in {p.active, p.doomed}
                   => q.graph[h].disposed
              /\ q.graph[h].disposed => q.graph[h].state \in {"committed", "consumed"}
              /\ q.graph[h].state = "consumed" => q.graph[h].disposed
              /\ p.graph[h].state = "committed" => q.graph[h].state = "committed"
  <2>1. GraphOK(p, h) /\ (h = p.active \/ h = p.doomed => p.graph[h].state = "committed")
    BY <1>1, GraphsAssumption DEF ProjectOK, Kept
  <2>2. h \in Candidates(p) <=> p.graph[h].state \in CandidateStates
    BY <2>1 DEF Candidates, Created, GraphOK, CandidateStates
  <2>3. IF h \in Candidates(p)
        THEN /\ q0.graph[h].state = "consumed"
             /\ q0.graph[h].suspended = TRUE /\ q0.graph[h].disposed = TRUE
        ELSE q0.graph[h] = p.graph[h]
    BY <1>10 DEF NoCandidates
  <2>4. IF h = p.doomed
        THEN /\ q1.graph[h].state = q0.graph[h].state
             /\ q1.graph[h].suspended = TRUE /\ q1.graph[h].disposed = TRUE
        ELSE q1.graph[h] = q0.graph[h]
    BY <1>11 DEF GoneFrom
  <2>5. IF h = p.active
        THEN /\ q2.graph[h].state = q1.graph[h].state
             /\ q2.graph[h].suspended = TRUE /\ q2.graph[h].disposed = TRUE
        ELSE q2.graph[h] = q1.graph[h]
    BY <1>12 DEF GoneFrom
  <2>6. q.graph[h] = q2.graph[h]
    BY <1>17
  <2>7. CASE h = p.active \/ h = p.doomed
    <3>1. h \notin Candidates(p) /\ p.graph[h].state = "committed"
      BY <2>1, <2>2, <2>7 DEF CandidateStates
    <3>2. q0.graph[h] = p.graph[h]
      BY <2>3, <3>1
    <3>3. /\ q.graph[h].state = "committed"
          /\ q.graph[h].suspended = TRUE /\ q.graph[h].disposed = TRUE
      BY <2>4, <2>5, <2>6, <2>7, <3>1, <3>2
    <3> QED BY <3>1, <3>3
  <2>8. CASE h # p.active /\ h # p.doomed /\ h \in Candidates(p)
    <3>1. /\ q.graph[h].state = "consumed"
          /\ q.graph[h].suspended = TRUE /\ q.graph[h].disposed = TRUE
      BY <2>3, <2>4, <2>5, <2>6, <2>8
    <3> QED BY <2>2, <2>8, <3>1 DEF CandidateStates
  <2>9. CASE h # p.active /\ h # p.doomed /\ h \notin Candidates(p)
    <3>1. q.graph[h] = p.graph[h]
      BY <2>3, <2>4, <2>5, <2>6, <2>9
    <3> QED BY <2>1, <2>2, <2>9, <3>1 DEF GraphOK, CandidateStates
  <2> QED BY <2>7, <2>8, <2>9
<1>21. /\ p.active # Null => q.graph[p.active].state = "committed"
       /\ p.doomed # Null => q.graph[p.doomed].state = "committed"
  BY <1>1, <1>20 DEF ProjectOK, Kept
<1>22. \A h \in Graphs : p.graph[h].state # "committing"
  BY <1>2 DEF InState, Created, p
<1>23. ProjectOK(q)
  BY <1>1, <1>17, <1>18, <1>19, <1>20, <1>21, <1>22, LeftKept
<1>. HIDE DEF y
<1> QED BY <1>2, <1>14, <1>23, BecomesKeeps

-----------------------------------------------------------------------------
(* The invariant, and the property.                                        *)

LEMMA GraphsInitially ==
    ASSUME ProjectInit
    PROVE  GraphsInv
<1>. DEFINE revision == Min(scenario.revisions)
            p == NewProject(revision)
            first == NewGraph(revision, "committed", Null, 0)
<1>1. project = [b \in Browsers |-> p]
  BY DEF ProjectInit
<1>2. 1 \in Graphs /\ Null \notin Graphs
  BY GraphsAssumption
<1>. HIDE DEF revision
<1>3. /\ p = [f \in ProjectFields |-> p[f]]
      /\ p.graph = [g \in Graphs |-> IF g = 1 THEN first ELSE NoGraph]
      /\ p.owner = "active" /\ p.requested = FALSE /\ p.active = 1 /\ p.doomed = Null
      /\ p.waiting = <<>> /\ p.transition = NoTransition
  BY DEF NewProject, ProjectFields
<1>4. /\ GraphRecord(first) /\ first.state = "committed"
      /\ first.suspended = FALSE /\ first.disposed = FALSE
  BY DEF NewGraph, GraphRecord, GraphFields
<1>5. /\ GraphRecord(NoGraph) /\ NoGraph.state = "none"
      /\ NoGraph.suspended = FALSE /\ NoGraph.disposed = FALSE
  BY DEF NoGraph, NewGraph, GraphRecord, GraphFields
<1>6. /\ p.transition.under = FALSE /\ p.transition.from = Null /\ p.transition.to = Null
      /\ DOMAIN p.transition = {"under", "to", "from", "signals"}
  BY <1>3 DEF NoTransition
<1>. HIDE DEF p, first
<1>7. p.graph[1] = first /\ \A g \in Graphs : g # 1 => p.graph[g] = NoGraph
  BY <1>2, <1>3
<1>8. GraphsShape(p)
  <2>1. p.graph = [g \in Graphs |-> p.graph[g]]
    BY <1>3
  <2>2. \A g \in Graphs : GraphRecord(p.graph[g])
    BY <1>4, <1>5, <1>7
  <2> QED BY <1>3, <2>1, <2>2 DEF GraphsShape, GraphRecord
<1>9. ProjectShape(p)
  <2>1. /\ p.requested \in BOOLEAN /\ p.transition.under \in BOOLEAN
        /\ p.waiting \in Seq(Graphs \cup {Null})
    <3>1. <<>> \in Seq(Graphs \cup {Null}) /\ p.waiting = <<>>
      BY <1>3
    <3> QED BY <1>3, <1>6, <3>1
  <2> QED BY <1>2, <1>3, <1>6, <1>8, <2>1, ShapeMade
<1>10. ASSUME NEW g \in Graphs PROVE GraphOK(p, g)
  <2>1. CASE g = 1
    BY <1>3, <1>4, <1>7, <2>1 DEF GraphOK, GraphRecord, Reserve, InForce, CandidateStates
  <2>2. CASE g # 1
    BY <1>3, <1>5, <1>7, <2>2 DEF GraphOK, GraphRecord, CandidateStates
  <2> QED BY <2>1, <2>2
<1>11. Kept(p, p.active) /\ Kept(p, p.transition.from) /\ Kept(p, p.doomed)
  BY <1>3, <1>4, <1>6, <1>7 DEF Kept
<1>12. ProjectOK(p)
  BY <1>3, <1>6, <1>9, <1>10, <1>11 DEF ProjectOK
<1> QED BY <1>1, <1>12 DEF GraphsInv

LEMMA RuntimeStepKeeps ==
    ASSUME GraphsInv, RuntimeStep
    PROVE  GraphsInv'
<1>1. PICK b :
        \/ \E revision \in scenario.revisions : Prepare(b, revision)
        \/ \E g \in Created(project[b]) : \/ ApplyCalled(b, g)
                                          \/ ApplySettles(b, g)
                                          \/ RollbackCandidate(b, g)
                                          \/ CommitCalled(b, g)
        \/ DeactivateCalled(b)
        \/ QuiesceSettles(b)
        \/ Finalize(b)
        \/ RollbackTransition(b)
        \/ StartGatewayStream(b)
        \/ DisposeCalled(b)
        \/ DisposeSettles(b)
  BY DEF RuntimeStep
<1>2. CASE b \in Browsers
  BY <1>1, <1>2, PrepareKeeps, CandidateStepKeeps, CommitKeeps, DeactivateKeeps, QuiesceKeeps,
     FinalizeKeeps, RollbackKeeps, AskedKeeps, DisposeCalledKeeps, DisposeSettlesKeeps
<1>3. CASE b \notin Browsers
  <2>1. \E x : Becomes(b, x)
    BY Zenon, <1>1 DEF Prepare, ApplyCalled, ApplySettles, RollbackCandidate, CommitCalled,
       DeactivateCalled, QuiesceSettles, Finalize, RollbackTransition, StartGatewayStream,
       DisposeCalled, DisposeSettles
  <2>2. project' = project
    BY <1>3, <2>1 DEF Becomes, GraphsInv
  <2> QED BY SMTT(90), <2>2 DEF GraphsInv, ProjectOK, ProjectShape, GraphOK, Kept, Reserve, InForce
<1> QED BY <1>2, <1>3

(* The graphs of every page are as the invariant says, whatever commits,   *)
(* deactivations, rollbacks and calls of dispose() overlap.                *)
THEOREM GraphsInvariant == WorkcellSpec => []GraphsInv
<1>1. WorkcellInit => GraphsInv
  BY GraphsInitially DEF WorkcellInit
<1>2. GraphsInv /\ [WorkcellNext]_<<vars, pageVars>> => GraphsInv'
  <2>. SUFFICES ASSUME GraphsInv, [WorkcellNext]_<<vars, pageVars>> PROVE GraphsInv'
    OBVIOUS
  <2>1. CASE RuntimeStep
    BY <2>1, RuntimeStepKeeps
  <2>2. CASE UNCHANGED project
    BY SMTT(30), <2>2 DEF GraphsInv, ProjectOK, ProjectShape, GraphOK, Kept, Reserve, InForce
  <2> QED BY <2>1, <2>2 DEF WorkcellNext, JobStep, pageVars
<1> QED BY <1>1, <1>2, PTL DEF WorkcellSpec

(* No graph of a page is lost or runs beside the one in force: the         *)
(* property GraphsAccountedFor, of the commits, deactivations, rollbacks   *)
(* and dispose() of BrowserProjectRuntimeV5, for any number of pages and   *)
(* graphs.                                                                 *)
THEOREM GraphsAreAccountedFor == WorkcellSpec => []GraphsAccountedFor
<1>1. GraphsInv => GraphsAccountedFor
  <2>. SUFFICES ASSUME GraphsInv, NEW b \in Browsers, NEW g \in Created(project[b])
                PROVE  LET p == project[b]
                           graph == p.graph[g]
                       IN /\ p.owner = "disposed" => graph.disposed
                          /\ graph.disposed \/ g \in Candidates(p) \cup Reserve(p)
                          /\ p.owner = "active" /\ g \notin Candidates(p)
                                => (graph.suspended <=> ~InForce(p, g))
    BY DEF GraphsAccountedFor
  <2>. DEFINE p == project[b]
  <2>1. ProjectOK(p) /\ g \in Graphs /\ GraphOK(p, g) /\ p.graph[g].state # "none"
    BY DEF GraphsInv, ProjectOK, Created
  <2>2. g \in Candidates(p) <=> p.graph[g].state \in CandidateStates
    BY <2>1 DEF Candidates, GraphOK, CandidateStates
  <2>3. CASE p.graph[g].state \in CandidateStates
    BY <2>1, <2>2, <2>3 DEF GraphOK
  <2>4. CASE p.graph[g].state = "committed"
    BY <2>1, <2>4 DEF GraphOK
  <2>5. CASE p.graph[g].state = "consumed"
    <3>1. g # p.active /\ p.graph[g].disposed /\ p.graph[g].suspended
      BY SMTT(30), <2>1, <2>5, GraphsAssumption DEF ProjectOK, GraphOK, Kept
    <3> QED BY SMTT(30), <2>1, <3>1 DEF InForce
  <2> QED BY <2>1, <2>3, <2>4, <2>5 DEF GraphOK
<1> QED BY <1>1, GraphsInvariant, PTL

-----------------------------------------------------------------------------
(* The jobs of a page and its first graph.                                 *)

Fit(p, j) == j.quiesced = p.graph[1].suspended /\ j.disposed = p.graph[1].disposed

WriteFields == {"client", "lease", "retried", "gateway", "under", "landed"}
WriteRecord(w) == w = [f \in WriteFields |-> w[f]]
Writes(W) == \A i \in Runs : WriteRecord(W[i])

(* Page b, as it is seen from its jobs.                                    *)
Linked(b, x) ==
    Writes(x.write) /\ (b = scenario.jobPage => JobsOK(x.jobs) /\ Fit(x.project, x.jobs))

(* The writes are what they were, but that a lease on its way may not be   *)
(* kept any more.                                                          *)
SameButClient(w, v) ==
    /\ v.lease = w.lease /\ v.retried = w.retried /\ v.gateway = w.gateway
    /\ v.under = w.under /\ v.landed = w.landed

Clears(W, V) ==
    \A i \in Runs :
        V[i] = W[i] \/ (/\ W[i].client = "lease" /\ V[i].client = "oldLease"
                       /\ SameButClient(W[i], V[i]))

(* No playback is quiesced, nor waits for more than before, unless it is   *)
(* disposed of.                                                            *)
Calms(j, k) ==
    \/ k.disposed = TRUE
    \/ /\ j.disposed = FALSE /\ k.settling \subseteq j.settling
       /\ k.quiesced = TRUE => j.quiesced = TRUE

(* The page x of b becomes y.                                              *)
Follows(b, x, y) ==
    /\ Linked(b, y) /\ Clears(x.write, y.write)
    /\ IF b = scenario.jobPage THEN Carries(x.jobs, y.jobs) ELSE y.jobs = x.jobs

CalmlyFollows(b, x, y) ==
    Follows(b, x, y) /\ (b = scenario.jobPage => Calms(x.jobs, y.jobs))

LEMMA FirstIsGraph == 1 \in Graphs /\ Null # 1
  BY GraphsAssumption

LEMMA ClearsTwice ==
    ASSUME NEW W, NEW V, NEW U, Clears(W, V), Clears(V, U)
    PROVE  Clears(W, U)
  BY DEF Clears, SameButClient

LEMMA ClearedIs ==
    ASSUME NEW W, Writes(W), NEW V, V \in {W, Cleared(W)}
    PROVE  Clears(W, V) /\ Writes(V)
<1>1. CASE V = W
  BY <1>1 DEF Clears
<1>2. CASE V = Cleared(W)
  <2>1. ASSUME NEW i \in Runs, W[i].client # "lease"
        PROVE  V[i] = W[i]
    BY <1>2, <2>1 DEF Cleared
  <2>2. ASSUME NEW i \in Runs, W[i].client = "lease"
        PROVE  WriteRecord(V[i]) /\ V[i].client = "oldLease" /\ SameButClient(W[i], V[i])
    <3>1. V[i] = [W[i] EXCEPT !.client = "oldLease"]
      BY <1>2, <2>2 DEF Cleared
    <3>2. WriteRecord(W[i])
      BY DEF Writes
    <3> QED BY <3>1, <3>2 DEF WriteRecord, WriteFields, SameButClient
  <2>3. \A i \in Runs : WriteRecord(V[i])
    BY <2>1, <2>2 DEF Writes
  <2>4. Clears(W, V)
    BY <2>1, <2>2 DEF Clears
  <2> QED BY <2>3, <2>4 DEF Writes
<1> QED BY <1>1, <1>2

LEMMA JobsBoolean ==
    ASSUME NEW j, JobsOK(j)
    PROVE  j.disposed \in BOOLEAN /\ j.quiesced \in BOOLEAN
  BY DEF JobsOK, JobsCore, JobsShape

LEMMA CarriesSame ==
    ASSUME NEW j, JobsOK(j)
    PROVE  Carries(j, j)
<1>1. \A r \in Robots : RobotKeeps(j, j, r)
  BY DEF RobotKeeps
<1>2. \A i \in Runs : RunKeeps(j, j, i) /\ RunSteps(j, j, i)
  BY DEF RunKeeps, RunSteps
<1> QED BY <1>1, <1>2 DEF Carries, Keeps

LEMMA CalmlyTwice ==
    ASSUME NEW b, NEW x, NEW y, NEW z, Linked(b, x), CalmlyFollows(b, x, y),
           CalmlyFollows(b, y, z)
    PROVE  CalmlyFollows(b, x, z)
<1>0. Clears(x.write, z.write) /\ Linked(b, z)
  BY ClearsTwice DEF CalmlyFollows, Follows
<1>1. CASE b # scenario.jobPage
  BY <1>0, <1>1 DEF CalmlyFollows, Follows
<1>2. CASE b = scenario.jobPage
  <2>1. PICK j : j = x.jobs
    OBVIOUS
  <2>2. PICK k : k = y.jobs
    OBVIOUS
  <2>3. PICK l : l = z.jobs
    OBVIOUS
  <2>4. JobsOK(j) /\ Carries(j, k) /\ Carries(k, l) /\ Calms(j, k) /\ Calms(k, l) /\ Linked(b, z)
    BY <1>2, <2>1, <2>2, <2>3 DEF CalmlyFollows, Follows, Linked
  <2>5. Carries(j, l)
    BY <2>4, CarriesTwice
  <2>6. k.disposed \in BOOLEAN
    BY <2>4, JobsBoolean DEF Carries
  <2>7. Calms(j, l)
    BY <2>4, <2>6 DEF Calms
  <2> QED BY <1>0, <1>2, <2>1, <2>3, <2>5, <2>7 DEF CalmlyFollows, Follows
<1> QED BY <1>1, <1>2

(* An operation that leaves the jobs of the page, and what they go by,     *)
(* alone.                                                                  *)
LEMMA LeavesFollows ==
    ASSUME NEW b, NEW x, Linked(b, x), NEW y, y.jobs = x.jobs, Clears(x.write, y.write),
           Writes(y.write), y.project.graph[1].suspended = x.project.graph[1].suspended,
           y.project.graph[1].disposed = x.project.graph[1].disposed
    PROVE  CalmlyFollows(b, x, y)
<1>1. Linked(b, y) /\ Clears(x.write, y.write)
  BY DEF Linked, Fit
<1>2. CASE b # scenario.jobPage
  BY <1>1, <1>2 DEF CalmlyFollows, Follows
<1>3. CASE b = scenario.jobPage
  <2>1. PICK j : j = x.jobs
    OBVIOUS
  <2>2. JobsOK(j)
    BY <1>3, <2>1 DEF Linked
  <2>3. Carries(j, j) /\ j.disposed \in BOOLEAN
    BY <2>2, CarriesSame, JobsBoolean
  <2>4. Calms(j, j)
    BY <2>3 DEF Calms
  <2> QED BY <1>1, <1>3, <2>1, <2>3, <2>4 DEF CalmlyFollows, Follows
<1> QED BY <1>2, <1>3

LEMMA PlainFollows ==
    ASSUME NEW b, NEW x, Linked(b, x), NEW y, y.jobs = x.jobs /\ y.write = x.write,
           y.project.graph[1].suspended = x.project.graph[1].suspended,
           y.project.graph[1].disposed = x.project.graph[1].disposed
    PROVE  CalmlyFollows(b, x, y)
<1>1. Writes(y.write) /\ Clears(x.write, y.write)
  BY DEF Linked, Clears
<1> QED BY <1>1, LeavesFollows

LEMMA WithJobsJobs ==
    ASSUME NEW b, NEW x, PageShape(x), NEW g, NEW next
    PROVE  /\ WithJobs(b, x, g, next).jobs = IF HasJobs(b, g) THEN next ELSE x.jobs
           /\ WithJobs(b, x, g, next).write \in {x.write, Cleared(x.write)}
  BY DEF WithJobs, PageShape

LEMMA GoneJobs ==
    ASSUME NEW b, NEW x, PageShape(x), NEW g \in Graphs \cup {Null},
           NEW y, y = GraphDisposed(b, x, g)
    PROVE  /\ y.jobs = IF HasJobs(b, g) /\ ~x.project.graph[g].disposed THEN JobsDisposed(x.jobs)
                       ELSE x.jobs
           /\ y.write \in {x.write, Cleared(x.write)}
<1>1. CASE g = Null \/ x.project.graph[g].disposed
  BY <1>1, FirstIsGraph DEF GraphDisposed, HasJobs
<1>2. CASE ~(g = Null \/ x.project.graph[g].disposed)
  <2>. DEFINE z == [x EXCEPT !.project.graph[g].suspended = TRUE,
                             !.project.graph[g].disposed = TRUE]
  <2>1. y = WithJobs(b, z, g, JobsDisposed(x.jobs))
    BY <1>2 DEF GraphDisposed
  <2>2. PageShape(z) /\ z.jobs = x.jobs /\ z.write = x.write
    BY DEF PageShape
  <2>. HIDE DEF z
  <2> QED BY <1>2, <2>1, <2>2, WithJobsJobs
<1> QED BY <1>1, <1>2

LEMMA GoneFollows ==
    ASSUME NEW b, NEW x, PageShape(x), Linked(b, x), NEW p, p = x.project, GraphsShape(p),
           NEW g \in Graphs \cup {Null}, NEW y, y = GraphDisposed(b, x, g)
    PROVE  CalmlyFollows(b, x, y)
<1>1. PICK q : q = y.project
  OBVIOUS
<1>2. GoneFrom(p, q, g)
  BY <1>1, GoneIs
<1>3. y.jobs = IF HasJobs(b, g) /\ ~p.graph[g].disposed THEN JobsDisposed(x.jobs) ELSE x.jobs
  BY GoneJobs
<1>20. y.write \in {x.write, Cleared(x.write)}
  BY GoneJobs
<1>21. Clears(x.write, y.write) /\ Writes(y.write)
  BY <1>20, ClearedIs DEF Linked
<1>4. CASE b # scenario.jobPage
  BY <1>3, <1>4, <1>21 DEF HasJobs, CalmlyFollows, Follows, Linked
<1>5. CASE b = scenario.jobPage /\ g # 1
  <2>1. y.jobs = x.jobs /\ q.graph[1] = p.graph[1]
    BY <1>2, <1>3, <1>5, FirstIsGraph DEF HasJobs, GoneFrom
  <2> QED BY <1>1, <1>21, <2>1, LeavesFollows
<1>6. CASE b = scenario.jobPage /\ g = 1
  <2>1. q.graph[1].suspended = TRUE /\ q.graph[1].disposed = TRUE
    BY <1>2, <1>6, FirstIsGraph DEF GoneFrom
  <2>2. CASE p.graph[1].disposed
    <3>1. y.jobs = x.jobs
      BY <1>3, <1>6, <2>2
    <3>2. /\ p.graph[1].suspended \in BOOLEAN /\ p.graph[1].disposed \in BOOLEAN
          /\ p.graph[1].disposed => p.graph[1].suspended
      BY FirstIsGraph DEF GraphsShape
    <3>3. p.graph[1].suspended = TRUE /\ p.graph[1].disposed = TRUE
      BY <2>2, <3>2
    <3> QED BY <1>1, <2>1, <3>1, <1>21, <3>3, LeavesFollows
  <2>3. CASE ~p.graph[1].disposed
    <3>1. PICK j : j = x.jobs
      OBVIOUS
    <3>2. PICK k : k = y.jobs
      OBVIOUS
    <3>3. k = JobsDisposed(j) /\ JobsOK(j)
      BY <1>3, <1>6, <2>3, <3>1, <3>2 DEF HasJobs, Linked
    <3>4. Carries(j, k) /\ k.quiesced = TRUE /\ k.disposed = TRUE
      BY <3>3, JobsDisposedIs
    <3>5. Linked(b, y)
      BY <1>1, <1>21, <2>1, <3>2, <3>4 DEF Linked, Fit, Carries
    <3> QED BY <1>6, <1>21, <3>1, <3>2, <3>4, <3>5 DEF CalmlyFollows, Follows, Calms
  <2> QED BY <2>2, <2>3
<1> QED BY <1>4, <1>5, <1>6

LEMMA ConsumedFollows ==
    ASSUME NEW b, NEW x, PageShape(x), Linked(b, x), NEW p, p = x.project, GraphsShape(p),
           NEW g \in Graphs, NEW y, y = Consumed(b, x, g)
    PROVE  CalmlyFollows(b, x, y)
<1>1. PICK state : state = "consumed"
  OBVIOUS
<1>2. PICK z : InStateNow(x, z, g, state)
  BY DEF InStateNow
<1>3. y = GraphDisposed(b, z, g)
  BY <1>1, <1>2 DEF Consumed, InStateNow
<1>4. PICK q : q = z.project
  OBVIOUS
<1>5. /\ PageShape(z) /\ GraphsShape(q)
      /\ q.graph[g].suspended = p.graph[g].suspended
      /\ q.graph[g].disposed = p.graph[g].disposed
      /\ \A h \in Graphs : h # g => q.graph[h] = p.graph[h]
  BY <1>2, <1>4, Restated
<1>6. z.jobs = x.jobs /\ z.write = x.write
  BY <1>2 DEF InStateNow, PageShape
<1>7. /\ q.graph[1].suspended = p.graph[1].suspended
      /\ q.graph[1].disposed = p.graph[1].disposed
  BY <1>5, FirstIsGraph
<1>8. CalmlyFollows(b, x, z)
  BY <1>4, <1>6, <1>7, PlainFollows
<1>9. Linked(b, z)
  BY <1>8 DEF CalmlyFollows, Follows
<1>10. g \in Graphs \cup {Null}
  OBVIOUS
<1>11. CalmlyFollows(b, z, y)
  BY <1>3, <1>4, <1>5, <1>9, <1>10, GoneFollows
<1> QED BY <1>8, <1>11, CalmlyTwice

LEMMA ResumedGraphJobs ==
    ASSUME NEW b, NEW x, PageShape(x), NEW g, NEW y, y = GraphResumed(b, x, g)
    PROVE  /\ y.jobs = IF HasJobs(b, g) /\ x.project.graph[g].suspended THEN Resumed(x.jobs)
                       ELSE x.jobs
           /\ y.write \in {x.write, Cleared(x.write)}
<1>1. CASE ~x.project.graph[g].suspended
  BY <1>1 DEF GraphResumed
<1>2. CASE x.project.graph[g].suspended
  <2>. DEFINE z == [x EXCEPT !.project.graph[g].suspended = FALSE]
  <2>1. y = WithJobs(b, z, g, Resumed(x.jobs))
    BY <1>2 DEF GraphResumed
  <2>2. PageShape(z) /\ z.jobs = x.jobs /\ z.write = x.write
    BY DEF PageShape
  <2>. HIDE DEF z
  <2> QED BY <1>2, <2>1, <2>2, WithJobsJobs
<1> QED BY <1>1, <1>2

LEMMA ResumedFollows ==
    ASSUME NEW b, NEW x, PageShape(x), Linked(b, x), NEW p, p = x.project, GraphsShape(p),
           NEW g \in Graphs, p.graph[g].disposed = FALSE, NEW y, y = GraphResumed(b, x, g)
    PROVE  CalmlyFollows(b, x, y)
<1>1. PICK q : q = y.project
  OBVIOUS
<1>2. ResumedFrom(p, q, g)
  BY <1>1, ResumptionIs
<1>3. y.jobs = IF HasJobs(b, g) /\ p.graph[g].suspended THEN Resumed(x.jobs) ELSE x.jobs
  BY ResumedGraphJobs
<1>20. y.write \in {x.write, Cleared(x.write)}
  BY ResumedGraphJobs
<1>21. Clears(x.write, y.write) /\ Writes(y.write)
  BY <1>20, ClearedIs DEF Linked
<1>4. CASE b # scenario.jobPage
  BY <1>3, <1>4, <1>21 DEF HasJobs, CalmlyFollows, Follows, Linked
<1>5. CASE b = scenario.jobPage /\ g # 1
  <2>1. y.jobs = x.jobs /\ q.graph[1] = p.graph[1]
    BY <1>2, <1>3, <1>5, FirstIsGraph DEF HasJobs, ResumedFrom
  <2> QED BY <1>1, <1>21, <2>1, LeavesFollows
<1>6. CASE b = scenario.jobPage /\ g = 1
  <2>1. q.graph[1].suspended = FALSE /\ q.graph[1].disposed = p.graph[1].disposed
    BY <1>2, <1>6, FirstIsGraph DEF ResumedFrom
  <2>2. CASE ~p.graph[1].suspended
    <3>1. y.jobs = x.jobs
      BY <1>3, <1>6, <2>2
    <3>2. p.graph[1].suspended \in BOOLEAN
      BY FirstIsGraph DEF GraphsShape
    <3>3. p.graph[1].suspended = FALSE
      BY <2>2, <3>2
    <3> QED BY <1>1, <2>1, <3>1, <1>21, <3>3, LeavesFollows
  <2>3. CASE p.graph[1].suspended
    <3>1. PICK j : j = x.jobs
      OBVIOUS
    <3>2. PICK k : k = y.jobs
      OBVIOUS
    <3>3. k = Resumed(j) /\ JobsOK(j) /\ j.disposed = FALSE
      BY <1>3, <1>6, <2>3, <3>1, <3>2 DEF HasJobs, Linked, Fit
    <3>4. Carries(j, k) /\ k.quiesced = FALSE /\ k.disposed = FALSE /\ k.settling = {}
      BY <3>3, ResumedJobs
    <3>5. Linked(b, y)
      BY <1>1, <1>6, <1>21, <2>1, <3>2, <3>4 DEF Linked, Fit, Carries
    <3> QED BY <1>6, <1>21, <3>1, <3>2, <3>3, <3>4, <3>5 DEF CalmlyFollows, Follows, Calms
  <2> QED BY <2>2, <2>3
<1> QED BY <1>4, <1>5, <1>6

LEMMA StreamJobs ==
    ASSUME NEW x, PageShape(x)
    PROVE  /\ StreamOff(x).jobs = x.jobs /\ StreamOff(x).write = x.write
           /\ StreamOn(x).jobs = x.jobs /\ StreamOn(x).write = x.write
  BY DEF StreamOff, StreamOn, PageShape

LEMMA BundledJobs ==
    ASSUME NEW x, PageShape(x), NEW g, NEW signals
    PROVE  Bundled(x, g, signals).jobs = x.jobs /\ Bundled(x, g, signals).write = x.write
<1>. DEFINE page == Retargeted(x.page, IF g = Null THEN NoTarget
                      ELSE [graph |-> g, revision |-> x.project.graph[g].revision], signals)
            y == [x EXCEPT !.project.active = g, !.project.generation = @ + 1,
                           !.page = page]
<1>1. Bundled(x, g, signals) = y
  BY DEF Bundled, PageShape
<1>. HIDE DEF page
<1>2. y.jobs = x.jobs /\ y.write = x.write
  BY DEF PageShape
<1> QED BY <1>1, <1>2

LEMMA InstalledJobs ==
    ASSUME NEW x, PageShape(x), GraphsShape(x.project), NEW g
    PROVE  Installed(x, g).jobs = x.jobs /\ Installed(x, g).write = x.write
<1>. DEFINE y == Bundled(x, g, NoSignals)
            t == [under |-> TRUE, to |-> g, from |-> x.project.active,
                  signals |-> x.page.signals]
            z == [y EXCEPT !.project.transition = t]
            last == [z EXCEPT !.project.graph[g].state = "committed"]
<1>1. PageShape(y) /\ y.jobs = x.jobs /\ y.write = x.write
  <2>1. PICK none : none = NoSignals
    OBVIOUS
  <2>2. PageShape(Bundled(x, g, none))
    BY BundledIs
  <2>3. Bundled(x, g, none).jobs = x.jobs /\ Bundled(x, g, none).write = x.write
    BY BundledJobs
  <2> QED BY <2>1, <2>2, <2>3
<1>2. Installed(x, g) = IF g = Null THEN z ELSE StreamOn(last)
  BY DEF Installed
<1>. HIDE DEF y, t
<1>3. PageShape(z) /\ z.jobs = x.jobs /\ z.write = x.write
  BY <1>1 DEF PageShape
<1>. HIDE DEF z
<1>4. PageShape(last) /\ last.jobs = x.jobs /\ last.write = x.write
  BY <1>3 DEF PageShape
<1>. HIDE DEF last
<1>5. StreamOn(last).jobs = x.jobs /\ StreamOn(last).write = x.write
  BY <1>4, StreamJobs
<1> QED BY <1>2, <1>3, <1>5

LEMMA SuspendedJobs ==
    ASSUME NEW b, NEW x, PageShape(x), NEW g, NEW y, y = GraphSuspended(b, x, g)
    PROVE  /\ y.jobs = IF HasJobs(b, g) THEN Quiesced(x.jobs) ELSE x.jobs
           /\ y.write \in {x.write, Cleared(x.write)}
<1>. DEFINE z == [x EXCEPT !.project.graph[g].suspended = TRUE]
<1>1. y = WithJobs(b, z, g, Quiesced(x.jobs))
  BY DEF GraphSuspended
<1>2. PageShape(z) /\ z.jobs = x.jobs /\ z.write = x.write
  BY DEF PageShape
<1>. HIDE DEF z
<1> QED BY <1>1, <1>2, WithJobsJobs

LEMMA SuspendingJobs ==
    ASSUME NEW b, GraphsShape(project[b]), project[b].active \in Graphs, NEW g
    PROVE  /\ Suspending(b, g).jobs = IF HasJobs(b, project[b].active) THEN Quiesced(jobs)
                                    ELSE jobs
           /\ Suspending(b, g).write \in {write, Cleared(write)}
<1>. DEFINE x == GraphSuspended(b, PageOf(b), project[b].active)
            off == IF x.project.requested THEN StreamOff(x) ELSE x
<1>1. PageShape(PageOf(b)) /\ PageOf(b).project = project[b] /\ PageOf(b).jobs = jobs /\ PageOf(b).write = write
  BY PageOfShape DEF PageOf
<1>2. PageShape(x)
  BY <1>1, SuspendedIs DEF OnlyGraph
<1>3. /\ x.jobs = IF HasJobs(b, project[b].active) THEN Quiesced(jobs) ELSE jobs
      /\ x.write \in {write, Cleared(write)}
  BY <1>1, SuspendedJobs
<1>4. Suspending(b, g) = [off EXCEPT !.project.waiting = Append(@, g)]
  BY DEF Suspending
<1>. HIDE DEF x
<1>5. PageShape(off) /\ off.jobs = x.jobs /\ off.write = x.write
  BY <1>2, StreamIs, StreamJobs
<1>. HIDE DEF off
<1> QED BY <1>3, <1>4, <1>5 DEF PageShape

-----------------------------------------------------------------------------
(* The invariant of a page's jobs and of its graphs: the first graph is    *)
(* never a candidate, the playback is quiesced or disposed of as that      *)
(* graph is, and what it waited for is over when a transition has waited   *)
(* for the jobs.  Where no page has jobs, none runs.                       *)

FirstOK(p) == p.graph[1].state = "committed" /\ p.transition.to # 1

Still(p, j) ==
    j.quiesced = TRUE /\ j.disposed = FALSE /\ (p.waiting = <<>> \/ p.active # 1)
        => j.settling = {}

JobsInv ==
    /\ scenario \in Scenarios
    /\ JobsOK(jobs) /\ Writes(write)
    /\ scenario.jobPage = Null => Running(jobs) = {}
    /\ \A b \in Browsers : FirstOK(project[b])
    /\ \A b \in Browsers :
          b = scenario.jobPage => Fit(project[b], jobs) /\ Still(project[b], jobs)

(* What is to be shown of a step of the runtime of page b.                 *)
PageGoes(b, x, y) ==
    FirstOK(y.project) /\ Follows(b, x, y) /\ (b = scenario.jobPage => Still(y.project, y.jobs))

Passes(b) == \E y : Becomes(b, y) /\ PageGoes(b, PageOf(b), y)

LEMMA PageLinked ==
    ASSUME JobsInv, NEW b \in Browsers
    PROVE  /\ Linked(b, PageOf(b)) /\ PageOf(b).jobs = jobs /\ PageOf(b).write = write
           /\ PageShape(PageOf(b)) /\ PageOf(b).project = project[b]
<1>1. /\ PageOf(b).jobs = jobs /\ PageOf(b).write = write /\ PageOf(b).project = project[b]
      /\ PageShape(PageOf(b))
  BY PageOfShape DEF PageOf
<1> QED BY <1>1 DEF Linked, JobsInv

(* What a step that Follow describes leaves of the writes.                 *)
LEMMA FollowRecords ==
    ASSUME NEW next, NEW W, NEW cached, Writes(W), Follow(next, W, cached)
    PROVE  Writes(write)'
<1>1. ASSUME NEW i \in Runs PROVE WriteRecord(write'[i])
  <2>1. WriteRecord(W[i])
    BY DEF Writes
  <2>2. \/ write'[i] = Submitted(W[i], cached) \/ write'[i] = [W[i] EXCEPT !.client = "idle"]
        \/ write'[i] = W[i]
    BY DEF Follow
  <2>3. WriteRecord(Submitted(W[i], cached))
    BY DEF Submitted, Posted, NoWrite, WriteRecord, WriteFields
  <2>4. WriteRecord([W[i] EXCEPT !.client = "idle"])
    BY <2>1 DEF WriteRecord, WriteFields
  <2> QED BY <2>1, <2>2, <2>3, <2>4
<1> QED BY <1>1 DEF Writes, WriteRecord

LEMMA CarriesRunning ==
    ASSUME NEW j, NEW k, Carries(j, k)
    PROVE  Running(k) \subseteq Running(j)
  BY DEF Carries, Keeps, RobotKeeps, Running

(* A step of the page, as it is seen from the writes.                      *)
WritesFollow == \E W, cached : Clears(write, W) /\ Writes(W) /\ Follow(jobs', W, cached)

LEMMA PassesKeeps ==
    ASSUME JobsInv, GraphsInv, NEW b \in Browsers, Passes(b), UNCHANGED scenario
    PROVE  /\ JobsInv' /\ Carries(jobs, jobs')
           /\ WritesFollow
<1>1. PICK y : Becomes(b, y) /\ PageGoes(b, PageOf(b), y)
  BY DEF Passes
<1>2. PICK p : p = y.project
  OBVIOUS
<1>3. jobs' = y.jobs /\ project' = [project EXCEPT ![b] = p]
  BY <1>1, <1>2 DEF Becomes, Follow
<1>4. project'[b] = p /\ \A c \in Browsers : c # b => project'[c] = project[c]
  BY <1>3 DEF GraphsInv
<1>5. FirstOK(p) /\ Follows(b, PageOf(b), y) /\ (b = scenario.jobPage => Still(p, jobs'))
  BY <1>1, <1>2, <1>3 DEF PageGoes
<1>6. scenario' = scenario
  OBVIOUS
<1>7. JobsOK(jobs)
  BY DEF JobsInv
<1>8. Carries(jobs, jobs')
  <2>1. CASE b = scenario.jobPage
    <3>1. Carries(PageOf(b).jobs, y.jobs)
      BY <1>5, <2>1 DEF Follows
    <3> QED BY <1>3, <3>1, PageLinked
  <2>2. CASE b # scenario.jobPage
    <3>1. jobs' = jobs
      BY <1>3, <1>5, <2>2, PageLinked DEF Follows
    <3> QED BY <1>7, <3>1, CarriesSame
  <2> QED BY <2>1, <2>2
<1>9. JobsOK(jobs') /\ Running(jobs') \subseteq Running(jobs)
  BY <1>8, CarriesRunning DEF Carries
<1>10. \A c \in Browsers : FirstOK(project'[c])
  BY <1>4, <1>5 DEF JobsInv
<1>11. ASSUME NEW c \in Browsers, c = scenario.jobPage
       PROVE  Fit(project'[c], jobs') /\ Still(project'[c], jobs')
  <2>1. CASE c = b
    <3>1. Fit(p, jobs')
      BY <1>2, <1>3, <1>5, <1>11, <2>1 DEF Follows, Linked
    <3> QED BY <1>4, <1>5, <1>11, <2>1, <3>1
  <2>2. CASE c # b
    <3>1. jobs' = jobs /\ project'[c] = project[c]
      BY <1>3, <1>4, <1>5, <1>11, <2>2, PageLinked DEF Follows
    <3> QED BY <1>11, <3>1 DEF JobsInv
  <2> QED BY <2>1, <2>2
<1>12. scenario \in Scenarios /\ (scenario.jobPage = Null => Running(jobs) = {})
  BY DEF JobsInv
<1> HIDE DEF Carries
<1>13. (\A c \in Browsers : FirstOK(project[c]))'
  BY <1>10 DEF FirstOK
<1>14. (\A c \in Browsers : c = scenario.jobPage => Fit(project[c], jobs) /\ Still(project[c], jobs))'
  BY <1>6, <1>11 DEF Fit, Still
<1>15. (scenario.jobPage = Null => Running(jobs) = {})'
  BY <1>6, <1>9, <1>12 DEF Running
<1>16. JobsOK(jobs)'
  BY <1>9 DEF JobsOK, JobsCore, FrameOK, JobsShape, RunOK, RobotOK, SlotOK, RunRecord, ShownRecord,
     AdvanceRecord, HasProgram, Pauses, Drives, ShownIs
<1>17. Clears(write, y.write) /\ Writes(y.write) /\ Follow(jobs', y.write, y.lease)
  BY <1>1, <1>3, <1>5, PageLinked DEF Follows, Linked, Becomes
<1>18. Writes(write)'
  BY <1>17, FollowRecords
<1>. HIDE DEF Follow
<1> QED BY <1>6, <1>8, <1>12, <1>13, <1>14, <1>15, <1>16, <1>17, <1>18 DEF JobsInv, WritesFollow

LEMMA StillKept ==
    ASSUME NEW j, JobsOK(j), NEW k, Carries(j, k), Calms(j, k), NEW p, NEW q, Still(p, j),
           \/ p.waiting = <<>> \/ p.active # 1 \/ j.settling = {}
           \/ q.waiting = p.waiting /\ q.active = p.active
    PROVE  Still(q, k)
  BY JobsBoolean DEF Calms, Still

(* No transition begins to wait, and none stops waiting for the jobs       *)
(* before they are still.                                                  *)
Undisturbed(p, q) ==
    \/ p.waiting = <<>> \/ p.active # 1 \/ jobs.settling = {}
    \/ q.waiting = p.waiting /\ q.active = p.active

LEMMA CalmPage ==
    ASSUME JobsInv, NEW b \in Browsers, NEW p, p = project[b],
           NEW y, CalmlyFollows(b, PageOf(b), y),
           NEW q, q = y.project, FirstOK(q), b = scenario.jobPage => Undisturbed(p, q),
           Becomes(b, y)
    PROVE  Passes(b)
<1>1. PICK x : x = PageOf(b)
  OBVIOUS
<1>2. Follows(b, x, y)
  BY <1>1 DEF CalmlyFollows
<1>3. ASSUME b = scenario.jobPage PROVE Still(q, y.jobs)
  <2>1. PICK k : k = y.jobs
    OBVIOUS
  <2>2. x.jobs = jobs /\ x.write = write /\ JobsOK(jobs) /\ Still(p, jobs)
    BY <1>1, <1>3, PageLinked DEF JobsInv
  <2>3. Carries(jobs, k) /\ Calms(jobs, k)
    BY <1>1, <1>3, <2>1, <2>2 DEF CalmlyFollows, Follows
  <2>4. \/ p.waiting = <<>> \/ p.active # 1 \/ jobs.settling = {}
        \/ q.waiting = p.waiting /\ q.active = p.active
    BY <1>3 DEF Undisturbed
  <2>5. Still(q, k)
    BY <2>2, <2>3, <2>4, StillKept
  <2> QED BY <2>1, <2>5
<1>4. PageGoes(b, x, y)
  BY <1>2, <1>3 DEF PageGoes
<1> QED BY <1>1, <1>4 DEF Passes

-----------------------------------------------------------------------------
(* The steps of the runtime of a page.                                     *)

(* The first graph is no candidate, nor does it wait.                      *)
LEMMA FirstIs ==
    ASSUME JobsInv, GraphsInv, NEW b \in Browsers, NEW p, p = project[b]
    PROVE  /\ ProjectOK(p) /\ GraphsShape(p) /\ FirstOK(p)
           /\ p.graph[1].state = "committed" /\ p.transition.to # 1
           /\ \A g \in Graphs : p.graph[g].state # "committed" => g # 1
<1>1. ProjectOK(p) /\ GraphsShape(p) /\ FirstOK(p)
  BY ProjectOKShape DEF GraphsInv, JobsInv
<1> QED BY <1>1 DEF FirstOK

LEMMA FirstKept ==
    ASSUME NEW p, FirstOK(p), NEW q, q.graph[1].state = p.graph[1].state,
           q.transition = p.transition \/ q.transition = NoTransition
    PROVE  FirstOK(q)
<1>1. NoTransition.to # 1
  BY FirstIsGraph DEF NoTransition
<1> QED BY <1>1 DEF FirstOK

(* A step that leaves the jobs and the first graph alone.                  *)
LEMMA ElsewherePasses ==
    ASSUME JobsInv, GraphsInv, NEW b \in Browsers, NEW p, p = project[b],
           NEW y, y.jobs = jobs /\ y.write = write, NEW q, q = y.project, SameBut(p, q),
           q.graph[1] = p.graph[1], Becomes(b, y)
    PROVE  Passes(b)
<1>1. PICK x : x = PageOf(b)
  OBVIOUS
<1>2. Linked(b, x) /\ x.jobs = jobs /\ x.write = write /\ x.project = p
  BY <1>1, PageLinked
<1>3. CalmlyFollows(b, x, y)
  BY <1>2, PlainFollows
<1>4. FirstOK(q)
  BY FirstIs, FirstKept DEF SameBut
<1>5. Undisturbed(p, q)
  BY DEF Undisturbed, SameBut
<1> QED BY <1>1, <1>3, <1>4, <1>5, CalmPage

(* One graph of the page becomes the record r.                             *)
LEMMA RecordPasses ==
    ASSUME JobsInv, GraphsInv, NEW b \in Browsers, NEW g \in Graphs, g # 1, NEW r,
           GraphRecord(r), Becomes(b, [PageOf(b) EXCEPT !.project.graph[g] = r])
    PROVE  Passes(b)
<1>1. PICK p : p = project[b]
  OBVIOUS
<1>2. PICK y : y = [PageOf(b) EXCEPT !.project.graph[g] = r]
  OBVIOUS
<1>3. PICK q : q = y.project
  OBVIOUS
<1>4. GraphsShape(p)
  BY <1>1, FirstIs
<1>5. q = With(p, g, r)
  BY SMTT(30), <1>1, <1>2, <1>3, <1>4, OneGraph
<1>6. SameBut(p, q) /\ \A h \in Graphs : h # g => q.graph[h] = p.graph[h]
  BY <1>4, <1>5, WithShape
<1>7. y.jobs = jobs /\ y.write = write
  BY <1>2 DEF PageOf
<1>8. q.graph[1] = p.graph[1] /\ Becomes(b, y)
  BY <1>2, <1>6, FirstIsGraph
<1> QED BY <1>1, <1>3, <1>6, <1>7, <1>8, ElsewherePasses

LEMMA PreparePasses ==
    ASSUME JobsInv, GraphsInv, NEW b \in Browsers, NEW revision, Prepare(b, revision)
    PROVE  Passes(b)
<1>. DEFINE p == project[b]
            g == Min(Graphs \ Created(p))
            r == NewGraph(revision, "prepared", p.active, p.generation)
<1>1. ProjectOK(p)
  BY FirstIs
<1>2. Created(p) # Graphs /\ Becomes(b, [PageOf(b) EXCEPT !.project.graph[g] = r])
  BY DEF Prepare
<1>3. g \in Graphs /\ p.graph[g].state = "none"
  BY <1>1, <1>2, NextGraph DEF Created
<1>4. GraphRecord(r)
  BY DEF NewGraph, GraphRecord, GraphFields
<1>. HIDE DEF r
<1>5. g # 1
  BY <1>3, FirstIs
<1>. HIDE DEF g
<1> QED BY <1>2, <1>3, <1>4, <1>5, RecordPasses

LEMMA ConsumedPasses ==
    ASSUME JobsInv, GraphsInv, NEW b \in Browsers, NEW g \in Graphs, g # 1,
           Becomes(b, Consumed(b, PageOf(b), g))
    PROVE  Passes(b)
<1>1. PICK p : p = project[b]
  OBVIOUS
<1>2. PICK x : x = PageOf(b)
  OBVIOUS
<1>3. PICK y : y = Consumed(b, x, g)
  OBVIOUS
<1>4. PICK q : q = y.project
  OBVIOUS
<1>5. Linked(b, x) /\ PageShape(x) /\ p = x.project /\ GraphsShape(p)
  BY <1>1, <1>2, PageLinked, FirstIs
<1>6. CalmlyFollows(b, x, y)
  BY <1>3, <1>5, ConsumedFollows
<1>7. ConsumedFrom(p, q, g)
  BY <1>3, <1>4, <1>5, ConsumptionIs
<1>8. q.graph[1] = p.graph[1] /\ SameBut(p, q)
  BY <1>7, FirstIsGraph DEF ConsumedFrom
<1>9. FirstOK(q)
  BY <1>1, <1>8, FirstIs, FirstKept DEF SameBut
<1>10. Undisturbed(p, q)
  BY <1>8 DEF Undisturbed, SameBut
<1> QED BY <1>1, <1>2, <1>3, <1>4, <1>6, <1>9, <1>10, CalmPage

LEMMA CandidatePasses ==
    ASSUME JobsInv, GraphsInv, NEW b \in Browsers, NEW g \in Created(project[b]),
           ApplyCalled(b, g) \/ ApplySettles(b, g) \/ RollbackCandidate(b, g)
    PROVE  Passes(b)
<1>. DEFINE p == project[b]
            CandidateMoved(state) == [p.graph[g] EXCEPT !.state = state]
            Rolling == [p.graph[g] EXCEPT !.rolling = TRUE]
<1>1. GraphsShape(p) /\ g \in Graphs
  BY FirstIs DEF Created
<1>2. p.graph[g].state # "committed"
  BY DEF ApplyCalled, ApplySettles, RollbackCandidate
<1>3. g # 1
  BY <1>1, <1>2, FirstIs
<1>4. GraphRecord(p.graph[g])
  BY <1>1 DEF GraphsShape, GraphRecord
<1>5. ASSUME NEW state
      PROVE  /\ GraphRecord(CandidateMoved(state))
             /\ [PageOf(b) EXCEPT !.project.graph[g].state = state]
                  = [PageOf(b) EXCEPT !.project.graph[g] = CandidateMoved(state)]
  BY SMTT(30), <1>4 DEF GraphRecord, GraphFields, PageOf
<1>6. /\ GraphRecord(Rolling)
      /\ [PageOf(b) EXCEPT !.project.graph[g].rolling = TRUE]
           = [PageOf(b) EXCEPT !.project.graph[g] = Rolling]
  BY <1>4 DEF GraphRecord, GraphFields, PageOf
<1>7. ASSUME NEW state, Becomes(b, [PageOf(b) EXCEPT !.project.graph[g].state = state])
      PROVE  Passes(b)
  <2>1. GraphRecord(CandidateMoved(state))
          /\ Becomes(b, [PageOf(b) EXCEPT !.project.graph[g] = CandidateMoved(state)])
    BY <1>5, <1>7
  <2>. HIDE DEF CandidateMoved
  <2> QED BY <1>1, <1>3, <2>1, RecordPasses
<1>8. ASSUME Becomes(b, [PageOf(b) EXCEPT !.project.graph[g].rolling = TRUE])
      PROVE  Passes(b)
  <2>1. Becomes(b, [PageOf(b) EXCEPT !.project.graph[g] = Rolling])
    BY <1>6, <1>8
  <2>2. GraphRecord(Rolling)
    BY <1>6
  <2>. HIDE DEF Rolling
  <2> QED BY <1>1, <1>3, <2>1, <2>2, RecordPasses
<1>9. ASSUME Becomes(b, Consumed(b, PageOf(b), g))
      PROVE  Passes(b)
  BY <1>1, <1>3, <1>9, ConsumedPasses
<1>10. CASE ApplyCalled(b, g)
  BY <1>7, <1>10 DEF ApplyCalled
<1>11. CASE ApplySettles(b, g)
  <2>1. PICK state \in {"applied", "failed"} :
           Becomes(b, IF p.graph[g].rolling THEN Consumed(b, PageOf(b), g)
                      ELSE [PageOf(b) EXCEPT !.project.graph[g].state = state])
    BY <1>11 DEF ApplySettles
  <2> QED BY <1>7, <1>9, <2>1
<1>12. CASE RollbackCandidate(b, g)
  BY <1>8, <1>9, <1>12 DEF RollbackCandidate
<1> QED BY <1>10, <1>11, <1>12

(* The graph in force is suspended, and g is to come.                      *)
LEMMA SuspendPasses ==
    ASSUME JobsInv, GraphsInv, NEW b \in Browsers, NEW g \in Graphs \cup {Null}, g # 1,
           NEW p, p = project[b], p.active # Null,
           NEW x, x = Suspending(b, g),
           NEW y, IF g = Null THEN y = x ELSE InStateNow(x, y, g, "committing"),
           Becomes(b, y)
    PROVE  Passes(b)
<1>1. /\ ProjectOK(p) /\ GraphsShape(p) /\ FirstOK(p) /\ p.active \in Graphs
      /\ p.waiting \in Seq(Graphs \cup {Null})
  BY FirstIs, ShapeGives
<1>2. PICK w : w = x.project
  OBVIOUS
<1>3. PageShape(x) /\ Awaiting(p, w, g)
  BY <1>1, <1>2, SuspendingIs
<1>4. x.jobs = IF HasJobs(b, p.active) THEN Quiesced(jobs) ELSE jobs
  BY <1>1, SuspendingJobs
<1>5. PICK q : q = y.project
  OBVIOUS
<1>6. /\ q.graph[1] = w.graph[1] /\ q.transition = w.transition
      /\ q.waiting = w.waiting /\ q.active = w.active /\ y.jobs = x.jobs /\ y.write = x.write
  <2>1. CASE g = Null
    BY <1>2, <1>5, <2>1
  <2>2. CASE g # Null
    <3>1. g \in Graphs /\ InStateNow(x, y, g, "committing") /\ GraphsShape(w)
      BY <1>3, <2>2 DEF Awaiting
    <3>2. PICK state : state = "committing"
      OBVIOUS
    <3>3. InStateNow(x, y, g, state)
      BY <3>1, <3>2
    <3>4. SameBut(w, q) /\ \A h \in Graphs : h # g => q.graph[h] = w.graph[h]
      BY <1>2, <1>3, <1>5, <3>1, <3>3, Restated
    <3>5. y.jobs = x.jobs /\ y.write = x.write
      BY <1>3, <3>1 DEF InStateNow, PageShape
    <3> QED BY <3>4, <3>5, FirstIsGraph DEF SameBut
  <2> QED BY <2>1, <2>2
<1>7. w.transition = p.transition /\ w.active = p.active /\ w.waiting = Append(p.waiting, g)
  BY <1>3 DEF Awaiting
<1>8. q.waiting # <<>>
  <2>1. Append(p.waiting, g) # <<>>
    BY <1>1
  <2> QED BY <1>6, <1>7, <2>1
<1>9. FirstOK(q)
  <2>1. w.graph[1].state = p.graph[1].state
    <3>1. CASE p.active = 1
      BY <1>3, <3>1 DEF Awaiting
    <3>2. CASE p.active # 1
      BY <1>3, <3>2, FirstIsGraph DEF Awaiting
    <3> QED BY <3>1, <3>2
  <2> QED BY <1>1, <1>6, <1>7, <2>1, FirstKept
<1>10. PICK z : z = PageOf(b)
  OBVIOUS
<1>11. Linked(b, z) /\ z.jobs = jobs /\ z.write = write /\ z.project = p
  BY <1>10, PageLinked
<1>12. Clears(write, y.write) /\ Writes(y.write)
  <2>1. PICK W : W = y.write
    OBVIOUS
  <2>2. W \in {write, Cleared(write)}
    BY <1>1, <1>6, <2>1, SuspendingJobs
  <2>3. Writes(write)
    BY DEF JobsInv
  <2> QED BY <2>1, <2>2, <2>3, ClearedIs
<1>13. CASE ~HasJobs(b, p.active)
  <2>1. y.jobs = jobs
    BY <1>4, <1>6, <1>13
  <2>2. CASE b = scenario.jobPage
    <3>1. p.active # 1
      BY <1>13, <2>2 DEF HasJobs
    <3>2. q.graph[1] = p.graph[1]
      BY <1>3, <1>6, <3>1, FirstIsGraph DEF Awaiting
    <3>3. CalmlyFollows(b, z, y)
      BY <1>5, <1>11, <1>12, <2>1, <3>2, LeavesFollows
    <3>4. Undisturbed(p, q)
      BY <3>1 DEF Undisturbed
    <3> QED BY <1>5, <1>9, <1>10, <3>3, <3>4, CalmPage
  <2>3. CASE b # scenario.jobPage
    <3>1. PageGoes(b, z, y)
      BY <1>5, <1>9, <1>11, <1>12, <2>1, <2>3 DEF PageGoes, Follows, Linked
    <3> QED BY <1>10, <3>1 DEF Passes
  <2> QED BY <2>2, <2>3
<1>14. CASE HasJobs(b, p.active)
  <2>1. b = scenario.jobPage /\ p.active = 1
    BY <1>14 DEF HasJobs
  <2>2. PICK k : k = y.jobs
    OBVIOUS
  <2>3. k = Quiesced(jobs) /\ JobsOK(jobs) /\ Fit(p, jobs)
    BY <1>4, <1>6, <1>14, <2>1, <2>2 DEF JobsInv
  <2>4. Carries(jobs, k) /\ k.quiesced = TRUE /\ k.disposed = jobs.disposed
    BY <2>3, QuiescedIs
  <2>5. q.graph[1].suspended = TRUE /\ q.graph[1].disposed = p.graph[1].disposed
    BY SMTT(30), <1>3, <1>6, <2>1 DEF Awaiting
  <2>6. Linked(b, y)
    BY <1>5, <1>12, <2>2, <2>3, <2>4, <2>5 DEF Linked, Fit, Carries
  <2>7. Still(q, k)
    BY <1>6, <1>7, <1>8, <2>1 DEF Still
  <2>8. PageGoes(b, z, y)
    BY <1>5, <1>9, <1>11, <1>12, <2>1, <2>2, <2>4, <2>6, <2>7 DEF PageGoes, Follows
  <2> QED BY <1>10, <2>8 DEF Passes
<1> QED BY <1>13, <1>14

(* The graph g is put in force, and nothing waits for the jobs any more.   *)
LEMMA InstallPasses ==
    ASSUME JobsInv, GraphsInv, NEW b \in Browsers, NEW g \in Graphs \cup {Null}, g # 1,
           NEW p, p = project[b],
           b = scenario.jobPage => p.waiting = <<>> \/ p.active # 1 \/ jobs.settling = {},
           NEW x, PageShape(x), x.jobs = jobs /\ x.write = write,
           NEW w, w = x.project, GraphsShape(w), w.graph[1] = p.graph[1],
           NEW y, y = Installed(x, g), Becomes(b, y)
    PROVE  Passes(b)
<1>1. PICK q : q = y.project
  OBVIOUS
<1>2. InForceNow(x, w, q, g)
  BY <1>1, InstalledIs
<1>3. y.jobs = jobs /\ y.write = write
  BY InstalledJobs
<1>4. q.graph[1] = p.graph[1] /\ q.transition.to = g
  BY <1>2, FirstIsGraph DEF InForceNow
<1>5. FirstOK(q)
  BY <1>4, FirstIs DEF FirstOK
<1>6. PICK z : z = PageOf(b)
  OBVIOUS
<1>7. Linked(b, z) /\ z.jobs = jobs /\ z.write = write /\ z.project = p
  BY <1>6, PageLinked
<1>8. CalmlyFollows(b, z, y)
  BY <1>1, <1>3, <1>4, <1>7, PlainFollows
<1>9. b = scenario.jobPage => Undisturbed(p, q)
  BY DEF Undisturbed
<1> QED BY <1>1, <1>5, <1>6, <1>8, <1>9, CalmPage

LEMMA CommitPasses ==
    ASSUME JobsInv, GraphsInv, NEW b \in Browsers, NEW g \in Created(project[b]),
           CommitCalled(b, g)
    PROVE  Passes(b)
<1>1. PICK p : p = project[b]
  OBVIOUS
<1>2. ProjectOK(p) /\ GraphsShape(p) /\ g \in Graphs /\ p.graph[g].state = "applied"
        /\ p.owner = "active"
  BY <1>1, FirstIs DEF Created, CommitCalled
<1>3. g # 1 /\ g # Null
  BY <1>1, <1>2, FirstIs, GraphsAssumption
<1>4. CASE Becomes(b, Consumed(b, PageOf(b), g))
  BY <1>2, <1>3, <1>4, ConsumedPasses
<1>5. CASE p.active = Null /\ ~p.transition.under /\ Becomes(b, Installed(PageOf(b), g))
  <2>1. PICK x : x = PageOf(b)
    OBVIOUS
  <2>2. PICK y : y = Installed(x, g)
    OBVIOUS
  <2>3. PageShape(x) /\ x.jobs = jobs /\ x.write = write /\ p = x.project /\ g \in Graphs \cup {Null}
    BY <1>1, <1>2, <2>1, PageLinked
  <2>4. p.active # 1
    BY <1>5, FirstIsGraph
  <2>5. Becomes(b, y)
    BY <1>5, <2>1, <2>2
  <2> QED BY <1>1, <1>2, <1>3, <2>2, <2>3, <2>4, <2>5, InstallPasses
<1>6. CASE /\ p.active # Null
           /\ Becomes(b, [Suspending(b, g) EXCEPT !.project.graph[g].state = "committing"])
  <2>1. PICK x : x = Suspending(b, g)
    OBVIOUS
  <2>2. PICK y : InStateNow(x, y, g, "committing")
    BY DEF InStateNow
  <2>3. Becomes(b, y) /\ (IF g = Null THEN y = x ELSE InStateNow(x, y, g, "committing"))
    BY <1>3, <1>6, <2>1, <2>2 DEF InStateNow
  <2>4. g \in Graphs \cup {Null}
    BY <1>2
  <2> QED BY <1>1, <1>3, <1>6, <2>1, <2>3, <2>4, SuspendPasses
<1> QED BY <1>1, <1>4, <1>5, <1>6 DEF CommitCalled

LEMMA DeactivatePasses ==
    ASSUME JobsInv, GraphsInv, NEW b \in Browsers, DeactivateCalled(b)
    PROVE  Passes(b)
<1>1. PICK p : p = project[b]
  OBVIOUS
<1>2. PICK g : g = Null
  OBVIOUS
<1>3. PICK x : x = Suspending(b, g)
  OBVIOUS
<1>4. p.active # Null /\ Becomes(b, x) /\ g \in Graphs \cup {Null} /\ g # 1
  BY <1>1, <1>2, <1>3, FirstIsGraph DEF DeactivateCalled
<1>5. IF g = Null THEN x = x ELSE InStateNow(x, x, g, "committing")
  BY <1>2
<1> QED BY <1>1, <1>3, <1>4, <1>5, SuspendPasses

LEMMA QuiescePasses ==
    ASSUME JobsInv, GraphsInv, NEW b \in Browsers, QuiesceSettles(b)
    PROVE  Passes(b)
<1>. DEFINE Late(g) == g \in Range(project[b].waiting)
                         /\ (project[b].owner = "active" => g # Head(project[b].waiting))
            graph == [g \in Graphs |-> IF Late(g)
                                       THEN [project[b].graph[g] EXCEPT !.state = "applied"]
                                       ELSE project[b].graph[g]]
            x == [PageOf(b) EXCEPT !.project.waiting = <<>>, !.project.graph = graph]
            w == x.project
<1>1. PICK p : p = project[b]
  OBVIOUS
<1>2. ProjectOK(p) /\ GraphsShape(p) /\ FirstOK(p) /\ p.waiting \in Seq(Graphs \cup {Null})
  BY <1>1, FirstIs, ShapeGives
<1>3. /\ p.waiting # <<>>
      /\ b = scenario.jobPage => p.active # 1 \/ jobs.settling = {}
      /\ Becomes(b, IF p.owner = "active" THEN Installed(x, Head(p.waiting)) ELSE x)
  BY <1>1 DEF QuiesceSettles, HasJobs
<1>4. \A g \in Graphs : Late(g) => p.graph[g].state = "committing"
  BY <1>1, <1>2, GraphsAssumption DEF ProjectOK, Range
<1>5. PageShape(x) /\ w = [p EXCEPT !.waiting = <<>>, !.graph = graph] /\ x.jobs = jobs /\ x.write = write
  BY <1>1, <1>2 DEF PageOf, PageShape, GraphsShape, ProjectFields
<1>. HIDE DEF x
<1>6. w = [f \in ProjectFields |-> CASE f = "waiting" -> <<>> [] f = "graph" -> graph
                                     [] OTHER -> p[f]]
  BY <1>2, <1>5 DEF GraphsShape, ProjectFields
<1>. HIDE DEF w
<1>7. /\ w = [f \in ProjectFields |-> w[f]] /\ w.graph = graph /\ w.waiting = <<>>
      /\ w.transition = p.transition /\ w.active = p.active
  BY <1>6 DEF ProjectFields
<1>8. ASSUME NEW g \in Graphs PROVE GraphRecord(w.graph[g])
  <2>1. GraphRecord(p.graph[g])
    BY <1>2 DEF GraphsShape, GraphRecord
  <2>2. w.graph[g] = IF Late(g) THEN [p.graph[g] EXCEPT !.state = "applied"] ELSE p.graph[g]
    BY <1>1, <1>7
  <2>. HIDE DEF Late
  <2> QED BY <2>1, <2>2 DEF GraphRecord, GraphFields
<1>9. w.graph = [g \in Graphs |-> w.graph[g]]
  BY <1>7
<1>10. GraphsShape(w)
  BY <1>7, <1>8, <1>9 DEF GraphsShape, GraphRecord
<1>11. w.graph[1] = p.graph[1]
  BY <1>1, <1>2, <1>4, <1>7, FirstIsGraph DEF FirstOK
<1>12. PICK v : v = w
  OBVIOUS
<1>13. PICK u : u = x
  BY SMTT(30)
<1>14. /\ PageShape(u) /\ u.jobs = jobs /\ u.write = write /\ v = u.project /\ GraphsShape(v)
       /\ v.graph[1] = p.graph[1] /\ v.waiting = <<>>
       /\ v.transition = p.transition /\ v.active = p.active
  BY <1>5, <1>7, <1>10, <1>11, <1>12, <1>13 DEF w
<1>15. CASE p.owner = "active"
  <2>1. PICK g : g = Head(p.waiting)
    OBVIOUS
  <2>2. g \in Graphs \cup {Null} /\ 1 \in DOMAIN p.waiting /\ g = p.waiting[1]
    BY <1>2, <1>3, <2>1
  <2>3. g # 1
    <3>1. g # Null => p.graph[g].state = "committing"
      BY <1>2, <2>2 DEF ProjectOK
    <3> QED BY <1>2, <3>1, FirstIsGraph DEF FirstOK
  <2>4. PICK y : y = Installed(u, g)
    OBVIOUS
  <2>5. Becomes(b, y)
    BY <1>3, <1>13, <1>15, <2>1, <2>4
  <2>6. b = scenario.jobPage => p.waiting = <<>> \/ p.active # 1 \/ jobs.settling = {}
    BY <1>3
  <2> QED BY <1>1, <1>14, <2>2, <2>3, <2>4, <2>5, <2>6, InstallPasses
<1>16. CASE p.owner # "active"
  <2>1. Becomes(b, u)
    BY <1>3, <1>13, <1>16
  <2>2. PICK z : z = PageOf(b)
    OBVIOUS
  <2>3. Linked(b, z) /\ z.jobs = jobs /\ z.write = write /\ z.project = p
    BY <1>1, <2>2, PageLinked
  <2>4. CalmlyFollows(b, z, u)
    BY <1>14, <2>3, PlainFollows
  <2>5. b = scenario.jobPage => Undisturbed(p, v)
    BY <1>3 DEF Undisturbed
  <2>6. FirstOK(v)
    BY <1>2, <1>14 DEF FirstOK
  <2> QED BY <1>1, <1>14, <2>1, <2>2, <2>4, <2>5, <2>6, CalmPage
<1> QED BY <1>15, <1>16

LEMMA FinalizePasses ==
    ASSUME JobsInv, GraphsInv, NEW b \in Browsers, Finalize(b)
    PROVE  Passes(b)
<1>1. PICK p : p = project[b]
  OBVIOUS
<1>2. PICK g : g = p.transition.from
  OBVIOUS
<1>3. PICK z : z = PageOf(b)
  OBVIOUS
<1>4. PICK x : x = [z EXCEPT !.project.transition = NoTransition]
  OBVIOUS
<1>5. PICK w : w = x.project
  OBVIOUS
<1>6. PICK y : y = GraphDisposed(b, x, g)
  OBVIOUS
<1>7. PICK q : q = y.project
  OBVIOUS
<1>8. GraphsShape(p) /\ FirstOK(p) /\ g \in Graphs \cup {Null}
  BY <1>1, <1>2, FirstIs, ShapeGives
<1>9. Linked(b, z) /\ PageShape(z) /\ z.jobs = jobs /\ z.write = write /\ z.project = p
  BY <1>1, <1>3, PageLinked
<1>10. PageShape(x) /\ TransitionEnded(p, w)
  BY <1>4, <1>5, <1>8, <1>9, SettledIs
<1>11. x.jobs = z.jobs /\ x.write = z.write
  BY <1>4, <1>9 DEF PageShape
<1>12. w.graph = p.graph /\ GraphsShape(w) /\ w.transition = NoTransition
        /\ w.waiting = p.waiting /\ w.active = p.active
  BY <1>10 DEF TransitionEnded
<1>13. CalmlyFollows(b, z, x)
  BY <1>5, <1>9, <1>11, <1>12, PlainFollows
<1>14. Linked(b, x)
  BY <1>13 DEF CalmlyFollows, Follows
<1>15. CalmlyFollows(b, x, y)
  BY <1>5, <1>6, <1>8, <1>10, <1>12, <1>14, GoneFollows
<1>16. CalmlyFollows(b, z, y)
  BY <1>9, <1>13, <1>15, CalmlyTwice
<1>17. GoneFrom(w, q, g)
  BY <1>5, <1>6, <1>7, <1>8, <1>10, <1>12, GoneIs
<1>18. q.graph[1].state = p.graph[1].state /\ q.transition = NoTransition
        /\ q.waiting = p.waiting /\ q.active = p.active
  BY <1>8, <1>12, <1>17, FirstIsGraph DEF GoneFrom, SameBut
<1>19. FirstOK(q) /\ Undisturbed(p, q)
  BY <1>8, <1>18, FirstKept DEF Undisturbed
<1>20. Becomes(b, y)
  BY <1>1, <1>2, <1>3, <1>4, <1>6 DEF Finalize
<1> QED BY <1>1, <1>3, <1>7, <1>16, <1>19, <1>20, CalmPage

LEMMA AskedPasses ==
    ASSUME JobsInv, GraphsInv, NEW b \in Browsers, StartGatewayStream(b)
    PROVE  Passes(b)
<1>. DEFINE x == [PageOf(b) EXCEPT !.project.requested = TRUE]
<1>1. PICK p : p = project[b]
  OBVIOUS
<1>2. GraphsShape(p)
  BY <1>1, FirstIs
<1>3. PageShape(x) /\ x.project = [p EXCEPT !.requested = TRUE] /\ x.jobs = jobs /\ x.write = write
  BY <1>1 DEF PageOf, PageShape
<1>4. PICK y : y = StreamOn(x)
  OBVIOUS
<1>5. Becomes(b, y)
  BY <1>4 DEF StartGatewayStream
<1>. HIDE DEF x
<1>6. PICK q : q = y.project
  OBVIOUS
<1>7. q = [p EXCEPT !.requested = TRUE] /\ y.jobs = jobs /\ y.write = write
  BY <1>3, <1>4, <1>6, StreamIs, StreamJobs
<1>8. q = [f \in ProjectFields |-> IF f = "requested" THEN TRUE ELSE p[f]]
  BY <1>2, <1>7 DEF GraphsShape, ProjectFields
<1>9. q.graph = p.graph /\ q.waiting = p.waiting /\ q.active = p.active
        /\ q.transition = p.transition
  BY <1>8 DEF ProjectFields
<1>10. PICK z : z = PageOf(b)
  OBVIOUS
<1>11. Linked(b, z) /\ z.jobs = jobs /\ z.write = write /\ z.project = p
  BY <1>1, <1>10, PageLinked
<1>12. CalmlyFollows(b, z, y)
  BY <1>6, <1>7, <1>9, <1>11, PlainFollows
<1>13. FirstOK(q) /\ Undisturbed(p, q)
  BY <1>1, <1>9, FirstIs, FirstKept DEF Undisturbed
<1> QED BY <1>1, <1>5, <1>6, <1>10, <1>12, <1>13, CalmPage

LEMMA DisposeCalledPasses ==
    ASSUME JobsInv, GraphsInv, NEW b \in Browsers, DisposeCalled(b)
    PROVE  Passes(b)
<1>1. PICK p : p = project[b]
  OBVIOUS
<1>2. PICK off : off = StreamOff(PageOf(b))
  OBVIOUS
<1>3. PICK y : y = [off EXCEPT !.project.owner = "disposing", !.project.requested = FALSE,
                               !.project.transition = NoTransition,
                               !.project.doomed = p.transition.from]
  OBVIOUS
<1>4. Becomes(b, y)
  BY <1>1, <1>2, <1>3 DEF DisposeCalled
<1>5. GraphsShape(p)
  BY <1>1, FirstIs
<1>6. PageShape(off) /\ off.project = p /\ off.jobs = jobs /\ off.write = write
  BY <1>1, <1>2, PageLinked, StreamIs, StreamJobs
<1>7. PICK q : q = y.project
  OBVIOUS
<1>8. y.jobs = jobs /\ y.write = write /\ q = [p EXCEPT !.owner = "disposing", !.requested = FALSE,
                    !.transition = NoTransition, !.doomed = p.transition.from]
  BY <1>3, <1>5, <1>6, <1>7 DEF PageShape, GraphsShape, ProjectFields
<1>9. q = [f \in ProjectFields |-> CASE f = "owner" -> "disposing"
                                     [] f = "requested" -> FALSE
                                     [] f = "transition" -> NoTransition
                                     [] f = "doomed" -> p.transition.from
                                     [] OTHER -> p[f]]
  BY <1>5, <1>8 DEF GraphsShape, ProjectFields
<1>10. q.graph = p.graph /\ q.waiting = p.waiting /\ q.active = p.active
         /\ q.transition = NoTransition
  BY <1>9 DEF ProjectFields
<1>11. PICK z : z = PageOf(b)
  OBVIOUS
<1>12. Linked(b, z) /\ z.jobs = jobs /\ z.write = write /\ z.project = p
  BY <1>1, <1>11, PageLinked
<1>13. CalmlyFollows(b, z, y)
  BY <1>7, <1>8, <1>10, <1>12, PlainFollows
<1>14. FirstOK(q) /\ Undisturbed(p, q)
  BY <1>1, <1>10, FirstIs, FirstKept DEF Undisturbed
<1> QED BY <1>1, <1>4, <1>7, <1>11, <1>13, <1>14, CalmPage

LEMMA RollbackPasses ==
    ASSUME JobsInv, GraphsInv, NEW b \in Browsers, RollbackTransition(b)
    PROVE  Passes(b)
<1>1. PICK p : p = project[b]
  OBVIOUS
<1>2. PICK t : t = p.transition
  OBVIOUS
<1>3. PICK z : z = PageOf(b)
  OBVIOUS
<1>4. PICK stopped : stopped = IF t.to = Null THEN z ELSE StreamOff(z)
  OBVIOUS
<1>5. PICK bundled : bundled = [Bundled(stopped, t.from, t.signals) EXCEPT
                                  !.project.transition = NoTransition]
  OBVIOUS
<1>6. PICK x : x = IF t.to = Null THEN bundled ELSE Consumed(b, bundled, t.to)
  OBVIOUS
<1>7. PICK resumed : resumed = GraphResumed(b, x, t.from)
  OBVIOUS
<1>8. PICK y : y = IF t.from = Null THEN x ELSE StreamOn(resumed)
  OBVIOUS
<1>9. t.under /\ Becomes(b, y)
  BY Zenon, <1>1, <1>2, <1>3, <1>4, <1>5, <1>6, <1>7, <1>8 DEF RollbackTransition, Restored
<1>10. /\ ProjectOK(p) /\ GraphsShape(p) /\ FirstOK(p)
       /\ t.from \in Graphs \cup {Null} /\ t.to \in Graphs \cup {Null}
  BY <1>1, <1>2, FirstIs, ShapeGives
<1>11. t.to # 1 /\ t.from # t.to /\ p.owner = "active" /\ p.waiting = <<>>
  BY <1>2, <1>9, <1>10 DEF ProjectOK, FirstOK
<1>12. Linked(b, z) /\ PageShape(z) /\ z.jobs = jobs /\ z.write = write /\ z.project = p
  BY <1>1, <1>3, PageLinked
<1>13. PageShape(stopped) /\ stopped.project = p /\ stopped.jobs = jobs /\ stopped.write = write
  BY <1>4, <1>12, StreamIs, StreamJobs
<1>14. PICK w : w = bundled.project
  OBVIOUS
<1>15. PICK signals : signals = t.signals
  OBVIOUS
<1>16. bundled = [Bundled(stopped, p.transition.from, signals) EXCEPT
                    !.project.transition = NoTransition]
  BY <1>2, <1>5, <1>15
<1>17. PageShape(bundled) /\ TakenBack(p, w)
  BY <1>10, <1>13, <1>14, <1>16, TakenBackIs
<1>18. bundled.jobs = jobs /\ bundled.write = write
  <2>1. PICK u : u = Bundled(stopped, t.from, t.signals)
    OBVIOUS
  <2>2. PageShape(u) /\ u.jobs = jobs /\ u.write = write
    <3>1. PICK g : g = t.from
      OBVIOUS
    <3>2. u = Bundled(stopped, g, signals) /\ GraphsShape(stopped.project)
      BY <1>10, <1>13, <1>15, <2>1, <3>1
    <3>3. PageShape(Bundled(stopped, g, signals))
      BY <1>13, <3>2, BundledIs
    <3>4. Bundled(stopped, g, signals).jobs = stopped.jobs /\ Bundled(stopped, g, signals).write = stopped.write
      BY <1>13, BundledJobs
    <3> QED BY <1>13, <3>2, <3>3, <3>4
  <2> QED BY <1>5, <2>1, <2>2 DEF PageShape
<1>19. w.graph = p.graph /\ GraphsShape(w) /\ w.transition = NoTransition
  BY <1>17 DEF TakenBack
<1>20. CalmlyFollows(b, z, bundled)
  BY <1>12, <1>14, <1>18, <1>19, PlainFollows
<1>21. Linked(b, bundled)
  BY <1>20 DEF CalmlyFollows, Follows
<1>22. PICK v : v = x.project
  OBVIOUS
<1>23. /\ PageShape(x) /\ GraphsShape(v) /\ CalmlyFollows(b, z, x)
       /\ v.transition = NoTransition
       /\ \A h \in Graphs : h # t.to => v.graph[h] = p.graph[h]
  <2>1. CASE t.to = Null
    <3>1. x = bundled /\ v = w
      BY <1>6, <1>14, <1>22, <2>1
    <3> QED BY <1>17, <1>19, <1>20, <3>1
  <2>2. CASE t.to # Null
    <3>1. PICK g : g = t.to
      OBVIOUS
    <3>2. x = Consumed(b, bundled, g) /\ g \in Graphs
      BY <1>6, <1>10, <2>2, <3>1
    <3>3. CalmlyFollows(b, bundled, x)
      BY <1>14, <1>17, <1>19, <1>21, <3>2, ConsumedFollows
    <3>4. PageShape(x) /\ ConsumedFrom(w, v, g)
      BY <1>14, <1>17, <1>19, <1>22, <3>2, ConsumptionIs
    <3>5. CalmlyFollows(b, z, x)
      BY <1>12, <1>20, <3>3, CalmlyTwice
    <3> QED BY <1>19, <3>1, <3>4, <3>5 DEF ConsumedFrom, SameBut
  <2> QED BY <2>1, <2>2
<1>24. Linked(b, x)
  BY <1>23 DEF CalmlyFollows, Follows
<1>25. PICK q : q = y.project
  OBVIOUS
<1>26. /\ CalmlyFollows(b, z, y) /\ q.transition = NoTransition
       /\ q.graph[1].state = v.graph[1].state
  <2>1. CASE t.from = Null
    <3>1. y = x
      BY <1>8, <2>1
    <3> QED BY <1>22, <1>23, <1>25, <3>1
  <2>2. CASE t.from # Null
    <3>1. PICK g : g = t.from
      OBVIOUS
    <3>2. y = StreamOn(resumed) /\ g \in Graphs /\ resumed = GraphResumed(b, x, g)
      BY <1>7, <1>8, <1>10, <2>2, <3>1
    <3>3. v.graph[g].disposed = FALSE
      <4>1. GraphOK(p, g) /\ ~p.graph[g].disposed
        BY <1>2, <1>10, <1>11, <2>2, <3>1, <3>2 DEF ProjectOK, Kept
      <4>2. v.graph[g] = p.graph[g]
        BY <1>11, <1>23, <3>1, <3>2
      <4> QED BY <4>1, <4>2 DEF GraphOK
    <3>4. CalmlyFollows(b, x, resumed)
      BY <1>22, <1>23, <1>24, <3>2, <3>3, ResumedFollows
    <3>5. PICK u : u = resumed.project
      OBVIOUS
    <3>6. PageShape(resumed) /\ ResumedFrom(v, u, g)
      BY <1>22, <1>23, <3>2, <3>3, <3>5, ResumptionIs
    <3>7. CalmlyFollows(b, z, resumed)
      BY <1>12, <1>23, <3>4, CalmlyTwice
    <3>8. y.jobs = resumed.jobs /\ y.write = resumed.write /\ y.project = u
      BY <3>2, <3>5, <3>6, StreamIs, StreamJobs
    <3>9. Linked(b, resumed)
      BY <3>7 DEF CalmlyFollows, Follows
    <3>10. CalmlyFollows(b, resumed, y)
      BY <3>5, <3>8, <3>9, PlainFollows
    <3>11. CalmlyFollows(b, z, y)
      BY <1>12, <3>7, <3>10, CalmlyTwice
    <3>12. q = u
      BY <1>25, <3>8
    <3> QED BY <1>23, <3>2, <3>6, <3>11, <3>12, FirstIsGraph DEF ResumedFrom, SameBut
  <2> QED BY <2>1, <2>2
<1>27. q.graph[1].state = p.graph[1].state
  BY <1>11, <1>23, <1>26, FirstIsGraph
<1>28. FirstOK(q) /\ Undisturbed(p, q)
  BY <1>10, <1>11, <1>26, <1>27, FirstKept DEF Undisturbed
<1> QED BY <1>1, <1>3, <1>9, <1>25, <1>26, <1>28, CalmPage

(* The jobs, and the first graph, when k of the candidates of c.seq have   *)
(* been consumed.                                                          *)
CalmUpTo(c, k, x) ==
    /\ PageShape(x) /\ GraphsShape(x.project) /\ SameBut(c.project, x.project)
    /\ CalmlyFollows(c.b, c.page, x)

Candidacy == INSTANCE FoldInduction WITH Op <- ConsumeNext, P <- CalmUpTo

LEMMA CandidatesFollow ==
    ASSUME NEW b, NEW p, p = project[b], GraphsShape(p), NEW z, z = PageOf(b), Linked(b, z),
           z.project = p, PageShape(z), NEW y, y = Consumption(b, p)
    PROVE  CalmlyFollows(b, z, y)
<1>. DEFINE S == Candidates(p)
            n == Cardinality(S)
            s == SetToSeq(S)
            c == [b |-> b, project |-> p, seq |-> s, page |-> z]
<1>1. S \subseteq Graphs /\ IsFiniteSet(S)
  <2>1. S \in SUBSET Graphs
    BY DEF Candidates, Created
  <2> QED BY <2>1, GraphsAssumption, FS_Subset
<1>2. n \in Nat /\ s \in [1..n -> S]
  <2>. HIDE DEF S
  <2> QED BY <1>1, SetToSeqIs
<1>3. c.b = b /\ c.project = p /\ c.seq = s /\ c.page = z /\ DOMAIN s = 1..n
  BY <1>2
<1>. HIDE DEF c, s, n, S
<1>4. CalmUpTo(c, 0, z)
  <2>1. CalmlyFollows(b, z, z)
    BY PlainFollows
  <2> QED BY <1>3, <2>1 DEF CalmUpTo, SameBut
<1>5. ASSUME NEW k \in 1..n, NEW x, CalmUpTo(c, k - 1, x)
      PROVE  CalmUpTo(c, k, ConsumeNext(c, x, s[k]))
  <2>1. s[k] \in Graphs
    BY <1>1, <1>2
  <2>2. PICK g : g = s[k]
    OBVIOUS
  <2>3. PICK u : u = Consumed(b, x, g)
    OBVIOUS
  <2>4. PICK w : w = x.project
    OBVIOUS
  <2>5. PICK v : v = u.project
    OBVIOUS
  <2>6. PageShape(x) /\ GraphsShape(w) /\ SameBut(p, w) /\ CalmlyFollows(b, z, x)
    BY <1>3, <1>5, <2>4 DEF CalmUpTo
  <2>7. PageShape(u) /\ ConsumedFrom(w, v, g)
    BY <2>1, <2>2, <2>3, <2>4, <2>5, <2>6, ConsumptionIs
  <2>8. SameBut(p, v) /\ GraphsShape(v)
    BY <2>6, <2>7 DEF SameBut, ConsumedFrom
  <2>9. Linked(b, x)
    BY <2>6 DEF CalmlyFollows, Follows
  <2>10. CalmlyFollows(b, x, u)
    BY <2>1, <2>2, <2>3, <2>4, <2>6, <2>9, ConsumedFollows
  <2>11. CalmlyFollows(b, z, u)
    BY <2>6, <2>10, CalmlyTwice
  <2>12. ConsumeNext(c, x, s[k]) = u
    BY <1>3, <2>2, <2>3 DEF ConsumeNext
  <2>13. CalmUpTo(c, k, u)
    BY <1>3, <2>5, <2>7, <2>8, <2>11 DEF CalmUpTo
  <2> QED BY <2>12, <2>13
<1>6. CalmUpTo(c, n, Candidacy!Fold(c, z, s))
  <2>. HIDE DEF CalmUpTo, ConsumeNext
  <2> QED BY <1>2, <1>3, <1>4, <1>5, Candidacy!FoldLeftInduction
<1>7. Candidacy!Fold(c, z, s) = y
  BY <1>3 DEF Candidacy!Fold, Candidacy!Iterates, FoldLeft, MapThenFoldSet, Candidacy!Max, Max,
     ConsumeNext, Consumption, s, S
<1> QED BY <1>3, <1>6, <1>7 DEF CalmUpTo

LEMMA DisposeSettlesPasses ==
    ASSUME JobsInv, GraphsInv, NEW b \in Browsers, DisposeSettles(b)
    PROVE  Passes(b)
<1>1. PICK p : p = project[b]
  OBVIOUS
<1>2. PICK z : z = PageOf(b)
  OBVIOUS
<1>3. PICK y0 : y0 = Consumption(b, p)
  OBVIOUS
<1>4. PICK y1 : y1 = GraphDisposed(b, y0, p.doomed)
  OBVIOUS
<1>5. PICK y2 : y2 = GraphDisposed(b, y1, p.active)
  OBVIOUS
<1>6. AllDisposed(b) = y2
  BY <1>1, <1>3, <1>4, <1>5 DEF AllDisposed, Consumption
<1>7. PICK y : y = [y2 EXCEPT !.project.owner = "disposed"]
  OBVIOUS
<1>8. Becomes(b, y)
  BY <1>6, <1>7 DEF DisposeSettles
<1>9. /\ GraphsShape(p) /\ FirstOK(p) /\ p.graph[1].state = "committed"
      /\ p.active \in Graphs \cup {Null} /\ p.doomed \in Graphs \cup {Null}
  BY <1>1, FirstIs, ShapeGives
<1>10. PICK a : a = p.active
  OBVIOUS
<1>11. PICK d : d = p.doomed
  OBVIOUS
<1>12. Linked(b, z) /\ PageShape(z) /\ z.jobs = jobs /\ z.write = write /\ z.project = p
  BY <1>1, <1>2, PageLinked
<1>13. PICK q0 : q0 = y0.project
  OBVIOUS
<1>14. PICK q1 : q1 = y1.project
  OBVIOUS
<1>15. PICK q2 : q2 = y2.project
  OBVIOUS
<1>16. PageShape(y0) /\ NoCandidates(p, q0)
  BY <1>1, <1>3, <1>9, <1>13, CandidatesConsumed
<1>17. CalmlyFollows(b, z, y0)
  BY <1>1, <1>2, <1>3, <1>9, <1>12, CandidatesFollow
<1>18. GraphsShape(q0) /\ Linked(b, y0)
  BY <1>16, <1>17 DEF NoCandidates, CalmlyFollows, Follows
<1>19. /\ PageShape(y1) /\ GoneFrom(q0, q1, d)
       /\ CalmlyFollows(b, y0, y1)
  <2>1. y1 = GraphDisposed(b, y0, d) /\ d \in Graphs \cup {Null}
    BY <1>4, <1>9, <1>11
  <2> QED BY <1>13, <1>14, <1>16, <1>18, <2>1, GoneIs, GoneFollows
<1>20. GraphsShape(q1) /\ Linked(b, y1)
  BY <1>19 DEF GoneFrom, CalmlyFollows, Follows
<1>21. /\ PageShape(y2) /\ GoneFrom(q1, q2, a)
       /\ CalmlyFollows(b, y1, y2)
  <2>1. y2 = GraphDisposed(b, y1, a) /\ a \in Graphs \cup {Null}
    BY <1>5, <1>9, <1>10
  <2> QED BY <1>14, <1>15, <1>19, <1>20, <2>1, GoneIs, GoneFollows
<1>22. GraphsShape(q2) /\ SameBut(p, q2) /\ Linked(b, y2)
  BY <1>16, <1>19, <1>21 DEF NoCandidates, GoneFrom, SameBut, CalmlyFollows, Follows
<1>23. CalmlyFollows(b, z, y1)
  BY <1>12, <1>17, <1>19, CalmlyTwice
<1>24. CalmlyFollows(b, z, y2)
  BY <1>12, <1>21, <1>23, CalmlyTwice
<1>25. PICK q : q = y.project
  OBVIOUS
<1>26. q = [q2 EXCEPT !.owner = "disposed"] /\ y.jobs = y2.jobs /\ y.write = y2.write
  BY <1>7, <1>15, <1>21, <1>25 DEF PageShape
<1>27. q = [f \in ProjectFields |-> IF f = "owner" THEN "disposed" ELSE q2[f]]
  BY <1>22, <1>26 DEF GraphsShape, ProjectFields
<1>28. /\ q.graph = q2.graph /\ q.active = p.active /\ q.waiting = p.waiting
       /\ q.transition = p.transition
  BY <1>22, <1>27 DEF ProjectFields, SameBut
<1>29. CalmlyFollows(b, y2, y)
  BY <1>15, <1>22, <1>25, <1>26, <1>28, PlainFollows
<1>30. CalmlyFollows(b, z, y)
  BY <1>12, <1>24, <1>29, CalmlyTwice
<1>31. q.graph[1].state = p.graph[1].state
  <2>1. 1 \notin Candidates(p)
    BY <1>9 DEF Candidates
  <2>2. q0.graph[1] = p.graph[1]
    BY <1>16, <2>1, FirstIsGraph DEF NoCandidates
  <2>3. q1.graph[1].state = q0.graph[1].state
    BY <1>19, FirstIsGraph DEF GoneFrom
  <2>4. q2.graph[1].state = q1.graph[1].state
    BY <1>21, FirstIsGraph DEF GoneFrom
  <2> QED BY <1>28, <2>2, <2>3, <2>4
<1>32. FirstOK(q) /\ Undisturbed(p, q)
  BY <1>9, <1>28, <1>31, FirstKept DEF Undisturbed
<1> QED BY <1>1, <1>2, <1>8, <1>25, <1>30, <1>32, CalmPage

LEMMA RuntimeStepPasses ==
    ASSUME JobsInv, GraphsInv, RuntimeStep
    PROVE  \E b \in Browsers : Passes(b)
<1>1. PICK b \in scenario.browsers \cup ({scenario.jobPage} \ {Null}) :
        \/ \E revision \in scenario.revisions : Prepare(b, revision)
        \/ \E g \in Created(project[b]) :
              \/ ApplyCalled(b, g)
              \/ ApplySettles(b, g)
              \/ RollbackCandidate(b, g)
              \/ CommitCalled(b, g)
        \/ DeactivateCalled(b)
        \/ QuiesceSettles(b)
        \/ Finalize(b)
        \/ RollbackTransition(b)
        \/ StartGatewayStream(b)
        \/ DisposeCalled(b)
        \/ DisposeSettles(b)
  BY DEF RuntimeStep
<1>2. b \in Browsers
  BY <1>1, DataPlaneAssumption, GraphsAssumption DEF JobsInv
<1>. HIDE DEF JobsInv, GraphsInv
<1>3. Passes(b)
  BY <1>1, <1>2, PreparePasses, CandidatePasses, CommitPasses, DeactivatePasses, QuiescePasses,
     FinalizePasses, RollbackPasses, AskedPasses, DisposeCalledPasses, DisposeSettlesPasses
<1> QED BY <1>2, <1>3

LEMMA PageStepKeepsJobs ==
    ASSUME JobsInv, GraphsInv, RuntimeStep
    PROVE  /\ JobsInv' /\ Carries(jobs, jobs')
           /\ WritesFollow
<1>1. scenario' = scenario
  BY DEF RuntimeStep
<1>2. PICK b \in Browsers : Passes(b)
  BY RuntimeStepPasses
<1>. HIDE DEF JobsInv, GraphsInv, Passes, RuntimeStep
<1> QED BY <1>1, <1>2, PassesKeeps

-----------------------------------------------------------------------------
(* What has been written of a run, and what is on its way, by the place    *)
(* where the run stands.                                                   *)

Before(run) == SetsUpTo(run, run.cursor - 1)

AtSet(run) == run.cursor <= Len(run.program) /\ run.program[run.cursor].kind = "set"

Unsent(run, w) == w.gateway = "none" /\ w.landed = Before(run)

(* A set-do that stands is written once at most, and nothing more comes of *)
(* it once it was.                                                         *)
Lands(run, w) ==
    /\ w.landed = Before(run) \/ (AtSet(run) /\ w.landed = Before(run) + 1)
    /\ w.gateway # "none" => AtSet(run) /\ w.landed = Before(run)

(* The client waits for it as long as the run does; what it has not posted *)
(* is on its way nowhere, and the place of a run in force is fresh until   *)
(* its instruction is executed.                                            *)
Resting(j, i) == j.session[j.run[i].robot] = i /\ j.run[i].waiting = FALSE

Placed(j, w, i) ==
    /\ Lands(j.run[i], w)
    /\ w.client # "idle" => Awaits(j, i, "set")
    /\ w.client \in {"lease", "oldLease"} => Unsent(j.run[i], w)
    /\ w.client = "posted" => w.gateway # "none"
    /\ w.client \in {"idle", "lease", "oldLease", "posted"}
    /\ Resting(j, i) => Unsent(j.run[i], w)

Untouched(w) == w.client = "idle" /\ w.gateway = "none" /\ w.landed = 0

WriteOK(j, w, i) == IF j.run[i] = NoRun THEN Untouched(w) ELSE Placed(j, w, i)

WritesOK(j, W) ==
    /\ W = [i \in Runs |-> W[i]]
    /\ \A i \in Runs : WriteRecord(W[i]) /\ WriteOK(j, W[i], i)

(* The instructions of kind "set" of p among the first n.                  *)
SetsOf(p, n) == {k \in 1..n : k \in DOMAIN p /\ p[k].kind = "set"}

LEMMA SetsAreFinite ==
    ASSUME NEW p, NEW n \in Nat
    PROVE  IsFiniteSet(SetsOf(p, n)) /\ Cardinality(SetsOf(p, n)) \in Nat
<1>1. IsFiniteSet(1..n)
  BY FS_Interval
<1>2. SetsOf(p, n) \subseteq 1..n
  BY DEF SetsOf
<1> QED BY <1>1, <1>2, FS_Subset, FS_CardinalityType

LEMMA SetsUpToIs ==
    ASSUME NEW run, NEW n
    PROVE  SetsUpTo(run, n) = Cardinality(SetsOf(run.program, n))
  BY DEF SetsUpTo, SetsOf

(* One more instruction.                                                   *)
LEMMA SetsNext ==
    ASSUME NEW p \in Seq(Instruction), NEW c \in 1..Len(p)
    PROVE  /\ p[c].kind # "set" => SetsOf(p, c) = SetsOf(p, c - 1)
           /\ p[c].kind = "set" => Cardinality(SetsOf(p, c)) = Cardinality(SetsOf(p, c - 1)) + 1
<1>1. c \in DOMAIN p /\ c \in Nat /\ c - 1 \in Nat
  OBVIOUS
<1>2. ASSUME p[c].kind # "set" PROVE SetsOf(p, c) = SetsOf(p, c - 1)
  <2>1. ASSUME NEW k PROVE k \in SetsOf(p, c) <=> k \in SetsOf(p, c - 1)
    BY <1>1, <1>2 DEF SetsOf
  <2> QED BY <2>1
<1>3. ASSUME p[c].kind = "set"
      PROVE  Cardinality(SetsOf(p, c)) = Cardinality(SetsOf(p, c - 1)) + 1
  <2>1. ASSUME NEW k PROVE k \in SetsOf(p, c) <=> k \in SetsOf(p, c - 1) \cup {c}
    BY <1>1, <1>3 DEF SetsOf
  <2>2. SetsOf(p, c) = SetsOf(p, c - 1) \cup {c}
    BY <2>1
  <2>3. c \notin SetsOf(p, c - 1)
    BY <1>1 DEF SetsOf
  <2>4. IsFiniteSet(SetsOf(p, c - 1))
    BY <1>1, SetsAreFinite
  <2> QED BY <2>2, <2>3, <2>4, FS_AddElement
<1> QED BY <1>2, <1>3

(* No instruction of that kind between two places.                         *)
LEMMA SetsSkipped ==
    ASSUME NEW p, NEW a \in Nat \ {0}, NEW b \in Nat, a <= b, NoSets(p, a, b)
    PROVE  SetsOf(p, b - 1) = SetsOf(p, a - 1)
<1>1. ASSUME NEW k PROVE k \in SetsOf(p, b - 1) <=> k \in SetsOf(p, a - 1)
  <2>1. CASE k \in 1..(a - 1)
    <3>1. k \in 1..(b - 1)
      BY <2>1
    <3> QED BY <2>1, <3>1 DEF SetsOf
  <2>2. CASE k \notin 1..(a - 1)
    <3>1. k \in 1..(b - 1) => k \in a..(b - 1)
      BY <2>2
    <3> QED BY <2>2, <3>1 DEF SetsOf, NoSets
  <2> QED BY <2>1, <2>2
<1> QED BY <1>1

LEMMA BeforeIs ==
    ASSUME NEW j, NEW i \in Runs, RunOK(j, i), j.run[i] # NoRun, NEW run, run = j.run[i]
    PROVE  /\ run.cursor \in Nat \ {0} /\ run.cursor <= Len(run.program) + 1
           /\ run.program \in Seq(Instruction)
           /\ Before(run) = Cardinality(SetsOf(run.program, run.cursor - 1)) /\ Before(run) \in Nat
<1>1. HasProgram(j, i)
  BY DEF RunOK
<1>2. /\ run.cursor \in Nat \ {0} /\ run.cursor <= Len(run.program) + 1
      /\ run.program \in Seq(Instruction)
  BY <1>1 DEF HasProgram
<1>3. PICK n \in Nat : n = run.cursor - 1
  BY <1>2
<1>4. Before(run) = Cardinality(SetsOf(run.program, n))
  BY <1>3, SetsUpToIs DEF Before
<1>5. Cardinality(SetsOf(run.program, n)) \in Nat
  BY <1>3, SetsAreFinite
<1> QED BY <1>2, <1>3, <1>4, <1>5

(* What SetDoWritesOnce says of one run.                                   *)
LEMMA LandsOnce ==
    ASSUME NEW j, NEW i \in Runs, RunOK(j, i), j.run[i] # NoRun, NEW run, run = j.run[i],
           NEW w, Lands(run, w)
    PROVE  w.landed \in SetsUpTo(run, run.cursor - 1)..SetsUpTo(run, run.cursor)
<1>1. /\ run.cursor \in Nat \ {0} /\ run.cursor <= Len(run.program) + 1
      /\ run.program \in Seq(Instruction)
      /\ Before(run) = Cardinality(SetsOf(run.program, run.cursor - 1)) /\ Before(run) \in Nat
  BY BeforeIs
<1>2. PICK c \in Nat : c = run.cursor
  BY <1>1
<1>3. PICK p : p = run.program
  OBVIOUS
<1>4. SetsUpTo(run, c - 1) = Before(run) /\ SetsUpTo(run, c) = Cardinality(SetsOf(p, c))
  BY <1>2, <1>3, SetsUpToIs DEF Before
<1>5. CASE c \in 1..Len(p)
  <2>1. p \in Seq(Instruction)
    BY <1>1, <1>3
  <2>2. /\ p[c].kind # "set" => SetsOf(p, c) = SetsOf(p, c - 1)
        /\ p[c].kind = "set" => Cardinality(SetsOf(p, c)) = Cardinality(SetsOf(p, c - 1)) + 1
    BY <1>5, <2>1, SetsNext
  <2> QED BY SMTT(30), <1>1, <1>2, <1>3, <1>4, <2>2 DEF Lands, AtSet
<1>6. CASE c \notin 1..Len(p)
  <2>1. c = Len(p) + 1 /\ p \in Seq(Instruction) /\ Len(p) \in Nat
    BY SMTT(30), <1>1, <1>2, <1>3, <1>6
  <2>2. SetsOf(p, c) = SetsOf(p, c - 1)
    <3>1. ASSUME NEW k PROVE k \in SetsOf(p, c) <=> k \in SetsOf(p, c - 1)
      BY <2>1 DEF SetsOf
    <3> QED BY <3>1
  <2>3. ~AtSet(run)
    BY <1>2, <1>3, <2>1 DEF AtSet
  <2> QED BY <1>1, <1>2, <1>3, <1>4, <2>2, <2>3 DEF Lands
<1> QED BY <1>5, <1>6

(* An operation of the jobs goes by a place without instructions of kind   *)
(* "set".                                                                  *)
LEMMA BeforeSkips ==
    ASSUME NEW j, NEW k, NEW i \in Runs, RunOK(j, i), RunOK(k, i), j.run[i] # NoRun,
           k.run[i] # NoRun, k.run[i].program = j.run[i].program,
           j.run[i].cursor <= k.run[i].cursor,
           NoSets(j.run[i].program, j.run[i].cursor, k.run[i].cursor)
    PROVE  Before(k.run[i]) = Before(j.run[i])
<1>1. PICK a : a = j.run[i].cursor
  OBVIOUS
<1>2. PICK b : b = k.run[i].cursor
  OBVIOUS
<1>3. PICK p : p = j.run[i].program
  OBVIOUS
<1>4. /\ a \in Nat \ {0} /\ b \in Nat
      /\ Before(j.run[i]) = Cardinality(SetsOf(p, a - 1))
      /\ Before(k.run[i]) = Cardinality(SetsOf(p, b - 1))
  BY <1>1, <1>2, <1>3, BeforeIs
<1>5. a <= b /\ NoSets(p, a, b)
  BY <1>1, <1>2, <1>3
<1>6. SetsOf(p, b - 1) = SetsOf(p, a - 1)
  BY <1>4, <1>5, SetsSkipped
<1> QED BY <1>4, <1>6

(* An instruction of kind "set" is begun.                                  *)
Begins(j, k, i) ==
    Awaits(k, i, "set") /\ (~Awaits(j, i, "set") \/ j.run[i].cursor # k.run[i].cursor)

Leaves(j, k, i) == k.session[j.run[i].robot] = i => j.session[j.run[i].robot] = i

(* The write w of run i fits the run after the step as it did before, and  *)
(* one that is begun has not been sent.                                    *)
Ready(j, k, w, i) == Placed(k, w, i) /\ (Begins(j, k, i) => Unsent(k.run[i], w))

LEMMA StaysPlaced ==
    ASSUME NEW j, NEW k, NEW i \in Runs, j.run[i] # NoRun, k.run[i] # NoRun,
           RunKeeps(j, k, i), Leaves(j, k, i), NEW w, Placed(j, w, i),
           k.run[i].cursor = j.run[i].cursor, k.run[i].waiting = j.run[i].waiting
    PROVE  Ready(j, k, w, i)
<1>1. k.run[i].robot = j.run[i].robot /\ k.run[i].program = j.run[i].program
  BY DEF RunKeeps
<1>2. /\ Before(k.run[i]) = Before(j.run[i]) /\ (AtSet(k.run[i]) <=> AtSet(j.run[i]))
      /\ Awaits(k, i, "set") <=> Awaits(j, i, "set")
  BY <1>1 DEF Before, SetsUpTo, AtSet, Awaits, Issued
<1>3. Resting(k, i) => Resting(j, i)
  BY <1>1 DEF Resting, Leaves
<1>4. Placed(k, w, i)
  BY <1>2, <1>3 DEF Placed, Lands, Unsent
<1>5. ~Begins(j, k, i)
  BY <1>2 DEF Begins
<1> QED BY <1>4, <1>5 DEF Ready

(* What has not been sent, and nobody waits for, fits wherever the run is. *)
LEMMA FreshPlaced ==
    ASSUME NEW j, NEW k, NEW i, NEW w, w.client = "idle", Unsent(k.run[i], w)
    PROVE  Ready(j, k, w, i)
  BY DEF Ready, Placed, Lands, Unsent

LEMMA StepPlaced ==
    ASSUME NEW j, NEW k, NEW i \in Runs, RunOK(j, i), RunOK(k, i), j.run[i] # NoRun,
           k.run[i] # NoRun, RunKeeps(j, k, i), RunSteps(j, k, i), Leaves(j, k, i),
           NEW w, Placed(j, w, i)
    PROVE  Ready(j, k, w, i)
<1>1. CASE k.run[i].cursor = j.run[i].cursor /\ k.run[i].waiting = j.run[i].waiting
  BY <1>1, StaysPlaced
<1>2. CASE /\ j.session[j.run[i].robot] = i /\ j.run[i].waiting = FALSE
           /\ j.run[i].cursor <= k.run[i].cursor
           /\ NoSets(j.run[i].program, j.run[i].cursor, k.run[i].cursor)
  <2>1. k.run[i].program = j.run[i].program
    BY DEF RunKeeps
  <2>2. Before(k.run[i]) = Before(j.run[i])
    BY <1>2, <2>1, BeforeSkips
  <2>3. Unsent(j.run[i], w) /\ w.client = "idle"
    BY <1>2 DEF Placed, Resting, Awaits
  <2>4. Unsent(k.run[i], w)
    BY <2>2, <2>3 DEF Unsent
  <2> QED BY <2>3, <2>4, FreshPlaced
<1> QED BY <1>1, <1>2 DEF RunSteps

(* An answer: what the write must be by then.                              *)
Answerable(run, w, ok) ==
    /\ w.client = "idle" /\ Lands(run, w)
    /\ ok => w.gateway = "none" /\ w.landed = SetsUpTo(run, run.cursor)

LEMMA AnswerPlaced ==
    ASSUME NEW j, NEW k, NEW i \in Runs, RunOK(j, i), RunOK(k, i), Waits(j, i), k.run[i] # NoRun,
           RunKeeps(j, k, i), NEW ok, AnswerMoves(j, k, i, ok), NEW w, Answerable(j.run[i], w, ok)
    PROVE  Ready(j, k, w, i)
<1>1. k.run[i].robot = j.run[i].robot /\ k.run[i].program = j.run[i].program
  BY DEF RunKeeps
<1>2. CASE OutOfIt(j, k, i)
  <2>1. Before(k.run[i]) = Before(j.run[i]) /\ (AtSet(k.run[i]) <=> AtSet(j.run[i]))
    BY <1>1, <1>2 DEF Before, SetsUpTo, AtSet, OutOfIt
  <2>2. ~Resting(k, i) /\ ~Awaits(k, i, "set")
    BY <1>1, <1>2 DEF Resting, OutOfIt, Awaits
  <2>3. Placed(k, w, i)
    BY <2>1, <2>2 DEF Placed, Answerable, Lands
  <2> QED BY <2>2, <2>3 DEF Ready, Begins
<1>3. CASE WentOn(j, k, i, ok)
  <2>1. PICK p : p = j.run[i].program
    OBVIOUS
  <2>2. PICK c : c = j.run[i].cursor
    OBVIOUS
  <2>3. PICK b : b = k.run[i].cursor
    OBVIOUS
  <2>4. /\ c \in Nat \ {0} /\ b \in Nat
        /\ Before(k.run[i]) = Cardinality(SetsOf(p, b - 1))
    BY <1>1, <2>1, <2>2, <2>3, BeforeIs DEF Waits
  <2>5. PICK a \in Nat \ {0} : a = c + 1
    BY <2>4
  <2>6. a <= b /\ NoSets(p, a, b) /\ ok
    BY <1>3, <2>1, <2>2, <2>3, <2>5 DEF WentOn
  <2>7. SetsOf(p, b - 1) = SetsOf(p, a - 1)
    BY <2>4, <2>5, <2>6, SetsSkipped
  <2>8. a - 1 = c
    BY <2>4, <2>5
  <2>9. w.gateway = "none" /\ w.landed = SetsUpTo(j.run[i], c) /\ w.client = "idle"
    BY <2>2, <2>6 DEF Answerable
  <2>10. SetsUpTo(j.run[i], c) = Cardinality(SetsOf(p, c))
    BY <2>1, SetsUpToIs
  <2>11. Unsent(k.run[i], w)
    BY <2>4, <2>7, <2>8, <2>9, <2>10 DEF Unsent
  <2> QED BY <2>9, <2>11, FreshPlaced
<1> QED BY <1>2, <1>3 DEF AnswerMoves

(* What Follow makes of the write w of run i.                              *)
Followed(j, k, w, cached, i) ==
    IF Begins(j, k, i) THEN Submitted(w, cached)
    ELSE IF k.run[i].end # Null THEN [w EXCEPT !.client = "idle"] ELSE w

LEMMA SubmittedIs ==
    ASSUME NEW w, NEW cached, NEW v, v = Submitted(w, cached)
    PROVE  /\ WriteRecord(v) /\ v.landed = w.landed
           /\ \/ v.client = "lease" /\ v.gateway = "none"
              \/ v.client = "posted" /\ v.gateway = "queued"
  BY DEF Submitted, Posted, NoWrite, WriteRecord, WriteFields

LEMMA IdleIs ==
    ASSUME NEW w, WriteRecord(w), NEW v, v = [w EXCEPT !.client = "idle"]
    PROVE  WriteRecord(v) /\ v.client = "idle" /\ SameButClient(w, v)
  BY DEF WriteRecord, WriteFields, SameButClient

LEMMA FollowedPlaced ==
    ASSUME NEW j, NEW k, NEW i \in Runs, RunOK(k, i), NEW w, WriteRecord(w), Ready(j, k, w, i),
           NEW cached, NEW v, v = Followed(j, k, w, cached, i)
    PROVE  WriteRecord(v) /\ Placed(k, v, i)
<1>1. CASE Begins(j, k, i)
  <2>1. /\ WriteRecord(v) /\ v.landed = w.landed
        /\ \/ v.client = "lease" /\ v.gateway = "none"
           \/ v.client = "posted" /\ v.gateway = "queued"
    BY <1>1, SubmittedIs DEF Followed
  <2>2. Awaits(k, i, "set") /\ w.landed = Before(k.run[i])
    BY <1>1 DEF Begins, Ready, Unsent
  <2>3. AtSet(k.run[i]) /\ ~Resting(k, i)
    BY <2>2 DEF AtSet, Resting, Awaits, RunOK, Pauses, Issued
  <2> QED BY <2>1, <2>2, <2>3 DEF Placed, Lands, Unsent
<1>2. CASE ~Begins(j, k, i) /\ k.run[i].end # Null
  <2>1. WriteRecord(v) /\ v.client = "idle" /\ SameButClient(w, v)
    BY <1>2, IdleIs DEF Followed
  <2> QED BY <2>1 DEF Placed, Lands, Unsent, Ready, SameButClient
<1>3. CASE ~Begins(j, k, i) /\ ~(k.run[i].end # Null)
  BY <1>3 DEF Followed, Ready
<1> QED BY <1>1, <1>2, <1>3

(* The writes W fit an operation of the jobs, from j to k.                 *)
ReadyAll(j, k, W) ==
    \A i \in Runs : /\ WriteRecord(W[i])
                    /\ IF k.run[i] = NoRun THEN Untouched(W[i]) ELSE Ready(j, k, W[i], i)

LEMMA FollowPlaced ==
    ASSUME NEW k, JobsOK(k), NEW W, ReadyAll(jobs, k, W), NEW cached, Follow(k, W, cached)
    PROVE  jobs' = k /\ WritesOK(k, write')
<1>1. jobs' = k
  BY DEF Follow
<1>2. write' = [i \in Runs |-> Followed(jobs, k, W[i], cached, i)]
  BY DEF Follow, Followed, Begins
<1>3. write' = [i \in Runs |-> write'[i]]
  BY <1>2
<1>4. ASSUME NEW i \in Runs
      PROVE  WriteRecord(write'[i]) /\ WriteOK(k, write'[i], i)
  <2>1. PICK w : w = W[i]
    OBVIOUS
  <2>2. PICK v : v = Followed(jobs, k, w, cached, i)
    OBVIOUS
  <2>3. write'[i] = v
    BY <1>2, <2>1, <2>2
  <2>4. WriteRecord(w) /\ (IF k.run[i] = NoRun THEN Untouched(w) ELSE Ready(jobs, k, w, i))
    BY <2>1 DEF ReadyAll
  <2>5. CASE k.run[i] = NoRun
    <3>1. v = w
      BY <2>2, <2>5 DEF Followed, Begins, Awaits, Issued, NoRun, NewRun
    <3> QED BY <2>3, <2>4, <2>5, <3>1 DEF WriteOK
  <2>6. CASE k.run[i] # NoRun
    <3>1. RunOK(k, i)
      BY DEF JobsOK, JobsCore
    <3>2. WriteRecord(v) /\ Placed(k, v, i)
      BY <2>2, <2>4, <2>6, <3>1, FollowedPlaced
    <3> QED BY <2>3, <2>6, <3>2 DEF WriteOK
  <2> QED BY <2>5, <2>6
<1> QED BY <1>1, <1>3, <1>4 DEF WritesOK

LEMMA ClearedPlaced ==
    ASSUME NEW j, NEW W, WritesOK(j, W), NEW V, Clears(W, V), Writes(V), NEW i \in Runs
    PROVE  WriteRecord(V[i]) /\ WriteOK(j, V[i], i)
<1>1. PICK w : w = W[i]
  OBVIOUS
<1>2. PICK v : v = V[i]
  OBVIOUS
<1>3. WriteOK(j, w, i) /\ WriteRecord(v)
  BY <1>1, <1>2 DEF WritesOK, Writes
<1>4. \/ v = w
      \/ w.client = "lease" /\ v.client = "oldLease" /\ SameButClient(w, v)
  BY <1>1, <1>2 DEF Clears
<1>5. WriteOK(j, v, i)
  BY <1>3, <1>4 DEF WriteOK, Untouched, Placed, Lands, Unsent, SameButClient
<1> QED BY <1>2, <1>3, <1>5

(* A run of S goes on as the operation has it.                             *)
LEMMA KeptReady ==
    ASSUME NEW j, JobsCore(j), NEW k, JobsCore(k), NEW S \in SUBSET Runs, Keeps(j, k, S),
           NEW i \in S, NEW w, WriteRecord(w), WriteOK(j, w, i)
    PROVE  IF k.run[i] = NoRun THEN Untouched(w) ELSE Ready(j, k, w, i)
<1>1. i \in Runs
  OBVIOUS
<1>2. CASE j.run[i] = NoRun
  BY <1>1, <1>2 DEF Keeps, WriteOK
<1>3. CASE j.run[i] # NoRun
  <2>1. RunOK(j, i) /\ RunOK(k, i) /\ k.run[i] # NoRun /\ RunKeeps(j, k, i) /\ RunSteps(j, k, i)
    BY <1>1, <1>3 DEF Keeps, JobsCore
  <2>2. j.run[i].robot \in Robots
    BY <1>3, <2>1 DEF RunOK
  <2>3. Leaves(j, k, i)
    BY <1>1, <2>2, RunsAssumption DEF Keeps, RobotKeeps, Leaves
  <2>4. Ready(j, k, w, i)
    BY <1>1, <1>3, <2>1, <2>3, StepPlaced DEF WriteOK
  <2> QED BY <2>1, <2>4
<1> QED BY <1>2, <1>3

LEMMA KeptReadyAll ==
    ASSUME NEW j, JobsCore(j), NEW k, JobsCore(k), Keeps(j, k, Runs), NEW W,
           \A i \in Runs : WriteRecord(W[i]) /\ WriteOK(j, W[i], i)
    PROVE  ReadyAll(j, k, W)
<1>1. PICK T \in SUBSET Runs : T = Runs
  OBVIOUS
<1>2. ASSUME NEW i \in Runs
      PROVE  WriteRecord(W[i]) /\ (IF k.run[i] = NoRun THEN Untouched(W[i]) ELSE Ready(j, k, W[i], i))
  <2>1. PICK w : w = W[i]
    OBVIOUS
  <2>2. WriteRecord(w) /\ WriteOK(j, w, i) /\ i \in T /\ Keeps(j, k, T)
    BY <1>1, <2>1
  <2>3. IF k.run[i] = NoRun THEN Untouched(w) ELSE Ready(j, k, w, i)
    BY <2>2, KeptReady
  <2> QED BY <2>1, <2>2, <2>3
<1> QED BY <1>2 DEF ReadyAll

(* The writes, after a step of the page's runtime.                         *)
LEMMA PageStepKeepsWrites ==
    ASSUME JobsInv, GraphsInv, RuntimeStep, WritesOK(jobs, write)
    PROVE  WritesOK(jobs', write')
<1>1. Carries(jobs, jobs') /\ WritesFollow /\ JobsOK(jobs)
  BY PageStepKeepsJobs DEF JobsInv
<1>2. PICK W, cached : Clears(write, W) /\ Writes(W) /\ Follow(jobs', W, cached)
  BY <1>1 DEF WritesFollow
<1>3. PICK k : k = jobs'
  OBVIOUS
<1>4. JobsCore(jobs) /\ JobsOK(k) /\ JobsCore(k) /\ Keeps(jobs, k, Runs)
  BY <1>1, <1>3 DEF Carries, JobsOK
<1>5. \A i \in Runs : WriteRecord(W[i]) /\ WriteOK(jobs, W[i], i)
  BY <1>2, ClearedPlaced
<1>6. ReadyAll(jobs, k, W)
  BY <1>4, <1>5, KeptReadyAll
<1>7. Follow(k, W, cached)
  BY <1>2, <1>3
<1> QED BY <1>3, <1>4, <1>6, <1>7, FollowPlaced

-----------------------------------------------------------------------------
(* The steps of the jobs.                                                  *)

(* What a step makes of the runs that there are: it starts one, or goes on *)
(* with them, and what is over stays over.                                 *)
Nothing == {}

GoesOn(j, k) ==
    \/ Keeps(j, k, Nothing)
    \/ \E i \in Runs, r \in Robots, program \in Seq(Instruction) : RunStarted(j, k, i, r, program)

(* What is to be shown of a step of the jobs.                              *)
Works ==
    /\ JobsOK(jobs') /\ Same(jobs, jobs') /\ WritesOK(jobs', write')
    /\ GoesOn(jobs, jobs')

LEMMA KeepsLess ==
    ASSUME NEW j, NEW k, NEW S, Keeps(j, k, S)
    PROVE  GoesOn(j, k)
<1>1. Keeps(j, k, Nothing)
  BY DEF Keeps, Nothing
<1> QED BY <1>1 DEF GoesOn

LEMMA OperationWorks ==
    ASSUME JobsOK(jobs), WritesOK(jobs, write), NEW k, Goes(jobs, k, Runs), FrameOK(k),
           NEW cached, Follow(k, write, cached)
    PROVE  Works
<1>1. JobsCore(jobs) /\ JobsCore(k) /\ JobsOK(k) /\ Keeps(jobs, k, Runs) /\ Same(jobs, k)
  BY DEF JobsOK, Goes
<1>2. \A i \in Runs : WriteRecord(write[i]) /\ WriteOK(jobs, write[i], i)
  BY DEF WritesOK
<1>3. PICK W : W = write
  OBVIOUS
<1>4. ReadyAll(jobs, k, W)
  BY <1>1, <1>2, <1>3, KeptReadyAll
<1>5. Follow(k, W, cached)
  BY <1>3
<1>6. jobs' = k /\ WritesOK(k, write')
  BY <1>1, <1>4, <1>5, FollowPlaced
<1>7. GoesOn(jobs, k)
  BY <1>1, KeepsLess
<1> QED BY <1>1, <1>6, <1>7 DEF Works

LEMMA AnswerWorks ==
    ASSUME JobsOK(jobs), WritesOK(jobs, write), NEW i \in Runs, Waits(jobs, i),
           NEW ok, NEW met, NEW w, WriteRecord(w), Answerable(jobs.run[i], w, ok),
           NEW W, W = [write EXCEPT ![i] = w],
           NEW cached, Follow(Answered(jobs, i, ok, met), W, cached)
    PROVE  Works
<1>1. PICK k : k = Answered(jobs, i, ok, met)
  OBVIOUS
<1>2. PICK S \in SUBSET Runs : S = Runs \ {i}
  OBVIOUS
<1>3. i \notin S /\ \A h \in Runs : h # i => h \in S
  BY <1>2
<1>4. Goes(jobs, k, S) /\ FrameOK(k) /\ AnswerMoves(jobs, k, i, ok)
  BY <1>1, <1>3, AnsweredGoes
<1>5. JobsCore(jobs) /\ JobsCore(k) /\ JobsOK(k) /\ Keeps(jobs, k, S) /\ Same(jobs, k)
  BY <1>4 DEF JobsOK, Goes
<1>6. \A h \in Runs : W[h] = IF h = i THEN w ELSE write[h]
  BY DEF WritesOK
<1>7. ASSUME NEW h \in Runs
      PROVE  WriteRecord(W[h]) /\ (IF k.run[h] = NoRun THEN Untouched(W[h]) ELSE Ready(jobs, k, W[h], h))
  <2>1. CASE h = i
    <3>1. W[h] = w
      BY <1>6, <2>1
    <3>2. jobs.run[i] # NoRun
      BY DEF Waits
    <3>3. RunOK(jobs, i) /\ RunOK(k, i) /\ k.run[i] # NoRun /\ RunKeeps(jobs, k, i)
      BY <1>5, <3>2 DEF JobsCore, Keeps
    <3>4. Ready(jobs, k, w, i)
      BY <1>4, <3>3, AnswerPlaced
    <3> QED BY <2>1, <3>1, <3>3, <3>4
  <2>2. CASE h # i
    <3>1. PICK u : u = write[h]
      OBVIOUS
    <3>2. W[h] = u /\ h \in S /\ WriteRecord(u) /\ WriteOK(jobs, u, h)
      BY <1>3, <1>6, <2>2, <3>1 DEF WritesOK
    <3>3. IF k.run[h] = NoRun THEN Untouched(u) ELSE Ready(jobs, k, u, h)
      BY <1>5, <3>2, KeptReady
    <3> QED BY <3>2, <3>3
  <2> QED BY <2>1, <2>2
<1>8. ReadyAll(jobs, k, W)
  BY <1>7 DEF ReadyAll
<1>9. Follow(k, W, cached)
  BY <1>1
<1>10. jobs' = k /\ WritesOK(k, write')
  BY <1>5, <1>8, <1>9, FollowPlaced
<1>11. GoesOn(jobs, k)
  BY <1>5, KeepsLess
<1> QED BY <1>5, <1>10, <1>11 DEF Works

LEMMA StartWorks ==
    ASSUME JobsOK(jobs), WritesOK(jobs, write), jobs.quiesced = FALSE, Unused(jobs) # {},
           NEW r \in Robots, NEW program \in Seq(Instruction), NEW time,
           NEW cached, Follow(JobStarted(jobs, r, program, time), write, cached)
    PROVE  Works
<1>1. PICK k : k = JobStarted(jobs, r, program, time)
  OBVIOUS
<1>2. PICK j : j = jobs
  OBVIOUS
<1>3. JobsCore(j) /\ j.quiesced = FALSE /\ Unused(j) # {}
  BY <1>2 DEF JobsOK
<1>4. k = JobStarted(j, r, program, time)
  BY <1>1, <1>2
<1>5. /\ JobsCore(k) /\ FrameOK(k) /\ Same(j, k)
      /\ \E i \in Runs : RunStarted(j, k, i, r, program)
  BY <1>3, <1>4, JobStartedGoes
<1>6. PICK i \in Runs : RunStarted(j, k, i, r, program)
  BY <1>5
<1>7. ASSUME NEW h \in Runs
      PROVE  /\ WriteRecord(write[h])
             /\ IF k.run[h] = NoRun THEN Untouched(write[h]) ELSE Ready(j, k, write[h], h)
  <2>1. PICK w : w = write[h]
    OBVIOUS
  <2>2. WriteRecord(w) /\ WriteOK(j, w, h)
    BY <1>2, <2>1 DEF WritesOK
  <2>3. CASE h = i
    <3>1. Untouched(w) /\ k.run[i] # NoRun /\ k.run[i].cursor = 1
      BY <1>6, <2>2, <2>3 DEF RunStarted, WriteOK, IsNew
    <3>2. PICK n \in Nat : n = 0
      OBVIOUS
    <3>3. Before(k.run[i]) = Cardinality(SetsOf(k.run[i].program, n))
      BY <3>1, <3>2, SetsUpToIs DEF Before
    <3>4. SetsOf(k.run[i].program, n) = {}
      BY <3>2 DEF SetsOf
    <3>5. Before(k.run[i]) = 0
      BY <3>3, <3>4, FS_EmptySet
    <3>6. Unsent(k.run[i], w) /\ w.client = "idle"
      BY <3>1, <3>5 DEF Untouched, Unsent
    <3>7. Ready(j, k, w, i)
      BY <3>6, FreshPlaced
    <3> QED BY <2>1, <2>2, <2>3, <3>1, <3>7
  <2>4. CASE h # i
    <3>1. OtherKept(j, k, h)
      BY <1>6, <2>4 DEF RunStarted
    <3>2. CASE j.run[h] = NoRun
      BY <2>1, <2>2, <3>1, <3>2 DEF OtherKept, WriteOK
    <3>3. CASE j.run[h] # NoRun
      <4>1. /\ k.run[h] # NoRun /\ RunKeeps(j, k, h) /\ k.run[h].cursor = j.run[h].cursor
            /\ k.run[h].waiting = j.run[h].waiting /\ Placed(j, w, h)
        BY <2>2, <3>1, <3>3 DEF OtherKept, WriteOK
      <4>2. RunOK(j, h)
        BY <1>3 DEF JobsCore
      <4>3. j.run[h].robot \in Robots
        BY <3>3, <4>2 DEF RunOK
      <4>4. Leaves(j, k, h)
        BY <1>6, <2>4, <4>3 DEF RunStarted, RobotKept, Leaves
      <4>5. Ready(j, k, w, h)
        BY <3>3, <4>1, <4>4, StaysPlaced
      <4> QED BY <2>1, <2>2, <4>1, <4>5
    <3> QED BY <3>2, <3>3
  <2> QED BY <2>3, <2>4
<1>8. PICK W : W = write
  OBVIOUS
<1>9. ReadyAll(jobs, k, W) /\ JobsOK(k) /\ Follow(k, W, cached)
  BY <1>1, <1>2, <1>5, <1>7, <1>8 DEF ReadyAll, JobsOK
<1>10. jobs' = k /\ WritesOK(k, write')
  BY <1>9, FollowPlaced
<1>11. GoesOn(jobs, k)
  BY <1>2, <1>6 DEF GoesOn
<1> QED BY <1>2, <1>5, <1>9, <1>10, <1>11 DEF Works

(* The jobs stay, and one write changes.                                   *)
LEMMA WriteWorks ==
    ASSUME JobsOK(jobs), WritesOK(jobs, write), UNCHANGED jobs, NEW i \in Runs,
           jobs.run[i] # NoRun, NEW v, WriteRecord(v), Placed(jobs, v, i),
           write' = [write EXCEPT ![i] = v]
    PROVE  Works
<1>1. PICK W : W = write'
  OBVIOUS
<1>2. \A h \in Runs : W[h] = IF h = i THEN v ELSE write[h]
  BY <1>1 DEF WritesOK
<1>3. W = [h \in Runs |-> W[h]]
  BY <1>1 DEF WritesOK
<1>4. ASSUME NEW h \in Runs PROVE WriteRecord(W[h]) /\ WriteOK(jobs, W[h], h)
  <2>1. CASE h = i
    <3>1. W[h] = v
      BY <1>2, <2>1
    <3> QED BY <2>1, <3>1 DEF WriteOK
  <2>2. CASE h # i
    BY <1>2, <2>2 DEF WritesOK
  <2> QED BY <2>1, <2>2
<1>5. WritesOK(jobs, W)
  BY <1>3, <1>4 DEF WritesOK
<1>6. PICK T \in SUBSET Runs : T = Runs
  OBVIOUS
<1>7. JobsCore(jobs)
  BY DEF JobsOK
<1>8. Goes(jobs, jobs, T)
  BY <1>7, GoesNowhere
<1>9. GoesOn(jobs, jobs) /\ Same(jobs, jobs)
  BY <1>8, KeepsLess DEF Goes
<1> QED BY <1>1, <1>5, <1>9 DEF Works

-----------------------------------------------------------------------------
(* The command of a run.                                                   *)

LEMMA AwaitsIs ==
    ASSUME JobsOK(jobs), NEW i \in Runs, NEW kind, Awaits(jobs, i, kind)
    PROVE  /\ Waits(jobs, i) /\ RunOK(jobs, i)
           /\ jobs.run[i].cursor <= Len(jobs.run[i].program)
           /\ jobs.run[i].program[jobs.run[i].cursor].kind = kind
<1>1. RunOK(jobs, i)
  BY DEF JobsOK, JobsCore
<1> QED BY <1>1 DEF Awaits, Waits, Issued, RunOK, Pauses

(* The one instruction of kind "set" that there may be at the place.       *)
LEMMA LandedNext ==
    ASSUME NEW j, NEW i \in Runs, RunOK(j, i), j.run[i] # NoRun, NEW run, run = j.run[i],
           run.cursor <= Len(run.program)
    PROVE  /\ AtSet(run) => SetsUpTo(run, run.cursor) = Before(run) + 1
           /\ ~AtSet(run) => SetsUpTo(run, run.cursor) = Before(run)
<1>1. PICK p : p = run.program
  OBVIOUS
<1>2. PICK c : c = run.cursor
  OBVIOUS
<1>3. p \in Seq(Instruction) /\ c \in 1..Len(p) /\ Before(run) = Cardinality(SetsOf(p, c - 1))
  BY <1>1, <1>2, BeforeIs
<1>4. SetsUpTo(run, c) = Cardinality(SetsOf(p, c))
  BY <1>1, SetsUpToIs
<1>5. /\ p[c].kind # "set" => SetsOf(p, c) = SetsOf(p, c - 1)
      /\ p[c].kind = "set" => Cardinality(SetsOf(p, c)) = Cardinality(SetsOf(p, c - 1)) + 1
  BY <1>3, SetsNext
<1> QED BY <1>1, <1>2, <1>3, <1>4, <1>5 DEF AtSet

LEMMA AnswersWorks ==
    ASSUME JobsOK(jobs), WritesOK(jobs, write), NEW i \in Runs, Waits(jobs, i),
           NEW ok, NEW met, NEW w, WriteRecord(w), Lands(jobs.run[i], w),
           ok => w.gateway = "none" /\ w.landed = SetsUpTo(jobs.run[i], jobs.run[i].cursor),
           NEW cached, Answers(i, ok, w, met, cached)
    PROVE  Works
<1>1. PICK v : v = [w EXCEPT !.client = "idle"]
  OBVIOUS
<1>2. WriteRecord(v) /\ v.client = "idle" /\ SameButClient(w, v)
  BY <1>1, IdleIs
<1>3. Answerable(jobs.run[i], v, ok)
  BY <1>2 DEF Answerable, Lands, SameButClient
<1>4. PICK W : W = [write EXCEPT ![i] = v]
  OBVIOUS
<1>5. Follow(Answered(jobs, i, ok, met), W, cached)
  BY <1>1, <1>4 DEF Answers
<1> QED BY <1>2, <1>3, <1>4, <1>5, AnswerWorks

(* The command is over: its outcome is v, of what was w.                   *)
LEMMA ReportWorks ==
    ASSUME JobsOK(jobs), WritesOK(jobs, write), NEW i \in Runs, jobs.run[i] # NoRun,
           NEW w, w = write[i], w.gateway # "none",
           NEW ok, NEW met, NEW v, WriteRecord(v), v.gateway = "none", v.client = w.client,
           Lands(jobs.run[i], v), ok => v.landed = SetsUpTo(jobs.run[i], jobs.run[i].cursor),
           Reports(i, ok, v, met)
    PROVE  Works
<1>1. Placed(jobs, w, i)
  BY DEF WritesOK, WriteOK
<1>2. CASE v.client = "idle"
  <2>1. UNCHANGED jobs /\ write' = [write EXCEPT ![i] = v]
    BY <1>2 DEF Reports
  <2>2. ~Resting(jobs, i)
    BY <1>1 DEF Placed, Unsent
  <2>3. Placed(jobs, v, i)
    BY <1>2, <2>2 DEF Placed
  <2> QED BY <2>1, <2>3, WriteWorks
<1>3. CASE v.client # "idle"
  <2>1. PICK kind : kind = "set"
    OBVIOUS
  <2>2. Awaits(jobs, i, kind)
    BY <1>1, <1>3, <2>1 DEF Placed
  <2>3. Waits(jobs, i)
    BY <2>2, AwaitsIs
  <2>4. Answers(i, ok, v, met, lease)
    BY <1>3 DEF Reports
  <2>5. PICK cached : cached = lease
    OBVIOUS
  <2>6. Answers(i, ok, v, met, cached)
    BY <2>4, <2>5
  <2> QED BY <2>3, <2>6, AnswersWorks
<1> QED BY <1>2, <1>3

(* The write of a run that has been started.                               *)
LEMMA WriteIs ==
    ASSUME WritesOK(jobs, write), NEW i \in Runs, jobs.run[i] # NoRun, NEW w, w = write[i]
    PROVE  WriteRecord(w) /\ Placed(jobs, w, i) /\ Lands(jobs.run[i], w)
  BY DEF WritesOK, WriteOK, Placed

LEMMA GivingUpWorks ==
    ASSUME JobsOK(jobs), WritesOK(jobs, write), NEW i \in Issued(jobs), NEW met,
           Aborted(i, met) \/ GivesUp(i, met) \/ ServiceCloses(i, met)
    PROVE  Works
<1>1. i \in Runs /\ jobs.run[i] # NoRun
  BY DEF Issued
<1>2. PICK w : w = write[i]
  OBVIOUS
<1>3. WriteRecord(w) /\ Placed(jobs, w, i) /\ Lands(jobs.run[i], w)
  BY <1>1, <1>2, WriteIs
<1>4. PICK kind : kind = "set"
  OBVIOUS
<1>5. Awaits(jobs, i, kind)
  BY <1>2, <1>3, <1>4 DEF Aborted, GivesUp, ServiceCloses, Placed
<1>6. Waits(jobs, i)
  BY <1>1, <1>5, AwaitsIs
<1>7. PICK cached : cached = lease
  OBVIOUS
<1>8. PICK ok : ok = FALSE
  OBVIOUS
<1>9. Answers(i, ok, w, met, cached) /\ ~ok
  BY <1>2, <1>7, <1>8 DEF Aborted, GivesUp, ServiceCloses
<1> QED BY <1>1, <1>3, <1>6, <1>9, AnswersWorks

(* The records of a command.                                               *)
LEMMA PostedIs ==
    ASSUME NEW w, WriteRecord(w), NEW generation, NEW v, v = Posted(w, generation)
    PROVE  /\ WriteRecord(v) /\ v.client = "posted" /\ v.gateway = "queued"
           /\ v.landed = w.landed
  BY DEF Posted, WriteRecord, WriteFields

LEMMA GatewayIs ==
    ASSUME NEW w, WriteRecord(w), NEW gateway, NEW v, v = [w EXCEPT !.gateway = gateway]
    PROVE  WriteRecord(v) /\ v.gateway = gateway /\ v.client = w.client /\ v.landed = w.landed
  BY DEF WriteRecord, WriteFields

LEMMA LeaseAnsweredWorks ==
    ASSUME JobsOK(jobs), WritesOK(jobs, write), NEW i \in Issued(jobs), NEW revision, NEW met,
           LeaseAnswered(i, revision, met)
    PROVE  Works
<1>1. i \in Runs /\ jobs.run[i] # NoRun
  BY DEF Issued
<1>2. PICK w : w = write[i]
  OBVIOUS
<1>3. WriteRecord(w) /\ Placed(jobs, w, i) /\ Lands(jobs.run[i], w)
  BY <1>1, <1>2, WriteIs
<1>4. w.client \in {"lease", "oldLease"}
  BY <1>2 DEF LeaseAnswered
<1>5. PICK kind : kind = "set"
  OBVIOUS
<1>6. Awaits(jobs, i, kind)
  BY <1>3, <1>4, <1>5 DEF Placed
<1>7. Waits(jobs, i)
  BY <1>1, <1>6, AwaitsIs
<1>8. CASE feed.state = "live" /\ feed.revision = revision
  <2>1. PICK generation : generation = feed.publisher
    OBVIOUS
  <2>2. PICK v : v = Posted(w, generation)
    OBVIOUS
  <2>3. WriteRecord(v) /\ v.client = "posted" /\ v.gateway = "queued" /\ v.landed = w.landed
    BY <1>3, <2>2, PostedIs
  <2>4. UNCHANGED jobs /\ write' = [write EXCEPT ![i] = v]
    BY <1>2, <1>8, <2>1, <2>2 DEF LeaseAnswered
  <2>5. ~Resting(jobs, i)
    BY <1>7 DEF Waits, Resting
  <2>6. AtSet(jobs.run[i]) /\ w.landed = Before(jobs.run[i])
    <3>1. AtSet(jobs.run[i])
      BY <1>1, <1>5, <1>6, AwaitsIs DEF AtSet
    <3> QED BY <1>3, <1>4, <3>1 DEF Placed, Unsent
  <2>7. Awaits(jobs, i, "set")
    BY <1>5, <1>6
  <2>8. Placed(jobs, v, i)
    BY <2>3, <2>5, <2>6, <2>7 DEF Placed, Lands
  <2> QED BY <1>1, <2>3, <2>4, <2>8, WriteWorks
<1>9. CASE ~(feed.state = "live" /\ feed.revision = revision)
  <2>1. PICK cached : cached = lease
    OBVIOUS
  <2>2. PICK ok : ok = FALSE
    OBVIOUS
  <2>3. Answers(i, ok, w, met, cached) /\ ~ok
    BY <1>2, <1>9, <2>1, <2>2 DEF LeaseAnswered
  <2> QED BY <1>1, <1>3, <1>7, <2>3, AnswersWorks
<1> QED BY <1>8, <1>9

(* A command that comes to an end unwritten.                               *)
LEMMA RefusedWorks ==
    ASSUME JobsOK(jobs), WritesOK(jobs, write), NEW i \in Issued(jobs), NEW met,
           NEW w, w = write[i], w.gateway # "none",
           Reports(i, FALSE, [w EXCEPT !.gateway = "none"], met)
    PROVE  Works
<1>1. i \in Runs /\ jobs.run[i] # NoRun
  BY DEF Issued
<1>2. WriteRecord(w) /\ Lands(jobs.run[i], w)
  BY <1>1, WriteIs
<1>3. PICK none : none = "none"
  OBVIOUS
<1>4. PICK v : v = [w EXCEPT !.gateway = none]
  OBVIOUS
<1>5. WriteRecord(v) /\ v.gateway = none /\ v.client = w.client /\ v.landed = w.landed
  BY <1>2, <1>4, GatewayIs
<1>6. Lands(jobs.run[i], v)
  BY <1>2, <1>3, <1>5 DEF Lands
<1>7. PICK ok : ok = FALSE
  OBVIOUS
<1>8. Reports(i, ok, v, met) /\ ~ok /\ v.gateway = "none"
  BY <1>3, <1>4, <1>5, <1>7
<1> QED BY <1>1, <1>5, <1>6, <1>8, ReportWorks

(* It is one step further in the Gateway.                                  *)
LEMMA FurtherWorks ==
    ASSUME JobsOK(jobs), WritesOK(jobs, write), NEW i \in Issued(jobs), UNCHANGED jobs,
           NEW w, w = write[i], w.gateway # "none",
           NEW v, WriteRecord(v), v.gateway # "none", v.client = w.client, v.landed = w.landed,
           write' = [write EXCEPT ![i] = v]
    PROVE  Works
<1>1. i \in Runs /\ jobs.run[i] # NoRun
  BY DEF Issued
<1>2. Placed(jobs, w, i)
  BY <1>1, WriteIs
<1>3. Placed(jobs, v, i)
  BY <1>2 DEF Placed, Lands, Unsent
<1> QED BY <1>1, <1>3, WriteWorks

LEMMA CommandTakenWorks ==
    ASSUME JobsOK(jobs), WritesOK(jobs, write), NEW i \in Issued(jobs), NEW e, NEW revision,
           NEW met, CommandTaken(i, e, revision, met)
    PROVE  Works
<1>1. i \in Runs /\ jobs.run[i] # NoRun
  BY DEF Issued
<1>2. PICK w : w = write[i]
  OBVIOUS
<1>3. WriteRecord(w) /\ Placed(jobs, w, i) /\ w.gateway = "queued"
  BY <1>1, <1>2, WriteIs DEF CommandTaken
<1>4. PICK retaken : retaken = [w EXCEPT !.gateway = "none", !.client = "lease", !.retried = TRUE]
  OBVIOUS
<1>5. PICK under : under = <<feed.publisher, runtime[e].generation>>
  OBVIOUS
<1>6. PICK further : further = [w EXCEPT !.gateway = "namespaces", !.under = under]
  OBVIOUS
<1>7. write = [h \in Runs |-> write[h]]
  BY DEF WritesOK
<1>8. \/ UNCHANGED jobs /\ write' = [write EXCEPT ![i] = retaken] /\ w.client = "posted"
      \/ Reports(i, FALSE, [w EXCEPT !.gateway = "none"], met)
      \/ UNCHANGED jobs /\ write' = [write EXCEPT ![i] = further]
  <2>1. [[w EXCEPT !.gateway = "none"] EXCEPT !.client = "lease", !.retried = TRUE] = retaken
    BY <1>4
  <2>2. [write EXCEPT ![i].gateway = "namespaces", ![i].under = under]
          = [write EXCEPT ![i] = further]
    BY <1>1, <1>2, <1>6, <1>7
  <2> QED BY <1>2, <1>5, <2>1, <2>2 DEF CommandTaken
<1>9. CASE UNCHANGED jobs /\ write' = [write EXCEPT ![i] = retaken] /\ w.client = "posted"
  <2>1. /\ WriteRecord(retaken) /\ retaken.client = "lease" /\ retaken.gateway = "none"
        /\ retaken.landed = w.landed
    BY <1>3, <1>4 DEF WriteRecord, WriteFields
  <2>2. AtSet(jobs.run[i]) /\ w.landed = Before(jobs.run[i]) /\ Awaits(jobs, i, "set")
          /\ ~Resting(jobs, i)
    BY <1>3, <1>9 DEF Placed, Lands, Unsent
  <2>3. Placed(jobs, retaken, i)
    BY <2>1, <2>2 DEF Placed, Lands, Unsent
  <2> QED BY <1>1, <1>9, <2>1, <2>3, WriteWorks
<1>10. CASE Reports(i, FALSE, [w EXCEPT !.gateway = "none"], met)
  BY <1>2, <1>3, <1>10, RefusedWorks
<1>11. CASE UNCHANGED jobs /\ write' = [write EXCEPT ![i] = further]
  <2>1. /\ WriteRecord(further) /\ further.client = w.client /\ further.gateway # "none"
        /\ further.landed = w.landed
    BY <1>3, <1>6 DEF WriteRecord, WriteFields
  <2> QED BY <1>2, <1>3, <1>11, <2>1, FurtherWorks
<1> QED BY <1>8, <1>9, <1>10, <1>11

LEMMA NamespacesWorks ==
    ASSUME JobsOK(jobs), WritesOK(jobs, write), NEW i \in Issued(jobs), NEW e, NEW met,
           NamespacesRead(i, e, met) \/ NamespacesFail(i, met)
    PROVE  Works
<1>1. i \in Runs /\ jobs.run[i] # NoRun
  BY DEF Issued
<1>2. PICK w : w = write[i]
  OBVIOUS
<1>3. WriteRecord(w) /\ w.gateway = "namespaces"
  BY <1>1, <1>2, WriteIs DEF NamespacesRead, NamespacesFail
<1>4. PICK writing : writing = "writing"
  OBVIOUS
<1>5. PICK v : v = [w EXCEPT !.gateway = writing]
  OBVIOUS
<1>6. write = [h \in Runs |-> write[h]]
  BY DEF WritesOK
<1>7. \/ UNCHANGED jobs /\ write' = [write EXCEPT ![i] = v]
      \/ Reports(i, FALSE, [w EXCEPT !.gateway = "none"], met)
  <2>1. [write EXCEPT ![i].gateway = "writing"] = [write EXCEPT ![i] = v]
    BY <1>1, <1>2, <1>4, <1>5, <1>6
  <2> QED BY <1>2, <2>1 DEF NamespacesRead, NamespacesFail
<1>8. CASE UNCHANGED jobs /\ write' = [write EXCEPT ![i] = v]
  <2>1. WriteRecord(v) /\ v.gateway = writing /\ v.client = w.client /\ v.landed = w.landed
    BY <1>3, <1>5, GatewayIs
  <2>2. v.gateway # "none"
    BY <1>4, <2>1
  <2> QED BY <1>2, <1>3, <1>8, <2>1, <2>2, FurtherWorks
<1>9. CASE Reports(i, FALSE, [w EXCEPT !.gateway = "none"], met)
  BY <1>2, <1>3, <1>9, RefusedWorks
<1> QED BY <1>7, <1>8, <1>9

LEMMA WrittenWorks ==
    ASSUME JobsOK(jobs), WritesOK(jobs, write), NEW i \in Issued(jobs), NEW met,
           WriteDone(i, met) \/ WriteFails(i, met)
    PROVE  Works
<1>1. i \in Runs /\ jobs.run[i] # NoRun
  BY DEF Issued
<1>2. PICK w : w = write[i]
  OBVIOUS
<1>3. WriteRecord(w) /\ w.gateway = "writing" /\ Lands(jobs.run[i], w)
  BY <1>1, <1>2, WriteIs DEF WriteDone, WriteFails
<1>4. PICK run : run = jobs.run[i]
  OBVIOUS
<1>5. RunOK(jobs, i)
  BY <1>1 DEF JobsOK, JobsCore
<1>6. AtSet(run) /\ w.landed = Before(run) /\ Before(run) \in Nat
        /\ SetsUpTo(run, run.cursor) = Before(run) + 1
  <2>1. AtSet(run) /\ w.landed = Before(run)
    BY <1>3, <1>4 DEF Lands
  <2>2. run.cursor <= Len(run.program)
    BY <2>1 DEF AtSet
  <2> QED BY <1>1, <1>4, <1>5, <2>1, <2>2, BeforeIs, LandedNext
<1>7. PICK n \in {0, 1}, ok \in BOOLEAN :
        /\ Reports(i, ok, [w EXCEPT !.gateway = "none", !.landed = w.landed + n], met)
        /\ ok => n = 1
  <2>1. CASE WriteDone(i, met)
    <3>1. Reports(i, TRUE, [w EXCEPT !.gateway = "none", !.landed = w.landed + 1], met)
      BY <1>2, <2>1 DEF WriteDone
    <3> QED BY <3>1
  <2>2. CASE WriteFails(i, met)
    <3>1. PICK n \in {0, 1} :
            Reports(i, FALSE, [w EXCEPT !.gateway = "none", !.landed = w.landed + n], met)
      BY <1>2, <2>2 DEF WriteFails
    <3> QED BY <3>1
  <2> QED BY <2>1, <2>2
<1>8. PICK v : v = [w EXCEPT !.gateway = "none", !.landed = w.landed + n]
  OBVIOUS
<1>9. /\ WriteRecord(v) /\ v.gateway = "none" /\ v.client = w.client /\ v.landed = w.landed + n
  BY <1>3, <1>8 DEF WriteRecord, WriteFields
<1>10. Lands(jobs.run[i], v)
  BY <1>4, <1>6, <1>9 DEF Lands
<1>11. ok => v.landed = SetsUpTo(jobs.run[i], jobs.run[i].cursor)
  BY <1>4, <1>6, <1>7, <1>9
<1>12. Reports(i, ok, v, met) /\ w.gateway # "none"
  BY <1>3, <1>7, <1>8
<1> QED BY <1>1, <1>2, <1>9, <1>10, <1>11, <1>12, ReportWorks

LEMMA AttachmentWorks ==
    ASSUME JobsOK(jobs), WritesOK(jobs, write), NEW i \in Issued(jobs), NEW met,
           AttachmentSettles(i, met)
    PROVE  Works
<1>1. i \in Runs /\ jobs.run[i] # NoRun
  BY DEF Issued
<1>2. PICK w : w = write[i]
  OBVIOUS
<1>3. WriteRecord(w) /\ Placed(jobs, w, i)
  BY <1>1, <1>2, WriteIs
<1>4. PICK run : run = jobs.run[i]
  OBVIOUS
<1>5. PICK kind : kind = "attach"
  OBVIOUS
<1>6. /\ Waits(jobs, i) /\ RunOK(jobs, i) /\ run.cursor <= Len(run.program)
      /\ run.program[run.cursor].kind = kind
  <2>1. Awaits(jobs, i, kind)
    BY <1>5 DEF AttachmentSettles
  <2> QED BY <1>1, <1>4, <2>1, AwaitsIs
<1>7. ~AtSet(run)
  BY <1>5, <1>6 DEF AtSet
<1>8. SetsUpTo(run, run.cursor) = Before(run)
  BY <1>1, <1>4, <1>6, <1>7, LandedNext
<1>9. ~Awaits(jobs, i, "set")
  BY <1>4, <1>5, <1>6 DEF Awaits
<1>10. w.client = "idle" /\ w.gateway = "none" /\ w.landed = Before(run) /\ Lands(run, w)
  BY <1>3, <1>4, <1>7, <1>9 DEF Placed, Lands
<1>11. PICK ok \in BOOLEAN : Follow(Answered(jobs, i, ok, met), write, lease)
  BY DEF AttachmentSettles
<1>12. Answerable(jobs.run[i], w, ok)
  BY <1>4, <1>8, <1>10 DEF Answerable
<1>13. PICK W : W = [write EXCEPT ![i] = w]
  OBVIOUS
<1>14. W = write
  <2>1. write = [h \in Runs |-> write[h]]
    BY DEF WritesOK
  <2> QED BY <1>1, <1>2, <1>13, <2>1
<1>15. PICK cached : cached = lease
  OBVIOUS
<1>16. Follow(Answered(jobs, i, ok, met), W, cached)
  BY <1>11, <1>14, <1>15
<1> QED BY <1>1, <1>3, <1>6, <1>12, <1>13, <1>16, AnswerWorks

LEMMA LeaseExpiresWorks ==
    ASSUME JobsOK(jobs), WritesOK(jobs, write), LeaseExpires
    PROVE  Works
<1>1. jobs' = jobs /\ write' = write
  BY DEF LeaseExpires
<1>2. PICK T \in SUBSET Runs : T = Runs
  OBVIOUS
<1>3. JobsCore(jobs)
  BY DEF JobsOK
<1>4. Goes(jobs, jobs, T)
  BY <1>3, GoesNowhere
<1>5. GoesOn(jobs, jobs) /\ Same(jobs, jobs)
  BY <1>4, KeepsLess DEF Goes
<1> QED BY <1>1, <1>5 DEF Works

LEMMA FrameWorks ==
    ASSUME JobsOK(jobs), WritesOK(jobs, write), NEW met, AnimationFrame(met)
    PROVE  Works
<1>1. PICK k : k = FrameFired(jobs, now', met)
  OBVIOUS
<1>2. PICK time : time = now'
  OBVIOUS
<1>3. PICK cached : cached = lease
  OBVIOUS
<1>4. JobsCore(jobs) /\ k = FrameFired(jobs, time, met) /\ Follow(k, write, cached)
  BY <1>1, <1>2, <1>3 DEF AnimationFrame, JobsOK
<1>5. PICK T \in SUBSET Runs : T = Runs
  OBVIOUS
<1>6. Goes(jobs, k, T) /\ FrameOK(k)
  BY <1>4, FrameFiredGoes
<1> QED BY <1>4, <1>5, <1>6, OperationWorks

LEMMA CancelWorks ==
    ASSUME JobsOK(jobs), WritesOK(jobs, write), NEW r \in Robots, CancelJob(r)
    PROVE  Works
<1>1. PICK k : k = JobCancelled(jobs, r)
  OBVIOUS
<1>2. PICK cached : cached = lease
  OBVIOUS
<1>3. Follow(k, write, cached)
  BY <1>1, <1>2 DEF CancelJob
<1>4. PICK T \in SUBSET Runs : T = Runs
  OBVIOUS
<1>5. Goes(jobs, k, T) /\ FrameOK(k)
  BY <1>1, JobCancelledGoes
<1> QED BY <1>3, <1>4, <1>5, OperationWorks

LEMMA StartJobWorks ==
    ASSUME JobsInv, GraphsInv, WritesOK(jobs, write), scenario.jobPage # Null,
           NEW r \in Robots, NEW program \in Seq(Instruction), StartJob(r, program)
    PROVE  Works
<1>1. PICK b \in Browsers : b = scenario.jobPage
  BY GraphsAssumption DEF JobsInv
<1>2. PICK p : p = project[b]
  OBVIOUS
<1>3. GraphsShape(p) /\ Fit(p, jobs) /\ JobsOK(jobs)
  BY SMTT(30), <1>1, <1>2, FirstIs DEF JobsInv
<1>4. p.graph[1].suspended \in BOOLEAN /\ ~p.graph[1].suspended
  BY <1>1, <1>2, <1>3, FirstIsGraph DEF GraphsShape, StartJob, GraphActive
<1>5. jobs.quiesced = FALSE
  BY <1>3, <1>4 DEF Fit
<1>6. PICK cached : cached = lease
  OBVIOUS
<1>7. PICK time : time = now'
  OBVIOUS
<1>8. Unused(jobs) # {} /\ Follow(JobStarted(jobs, r, program, time), write, cached)
  BY <1>6, <1>7 DEF StartJob
<1> QED BY <1>3, <1>5, <1>8, StartWorks

LEMMA CommandWorks ==
    ASSUME JobsOK(jobs), WritesOK(jobs, write), NEW i \in Issued(jobs), NEW e, NEW met,
           CommandStep(i, e, met)
    PROVE  Works
<1>1. PICK revision : revision = project[scenario.jobPage].graph[1].revision
  OBVIOUS
<1>2. \/ Aborted(i, met) \/ GivesUp(i, met) \/ ServiceCloses(i, met)
      \/ LeaseAnswered(i, revision, met)
      \/ CommandTaken(i, e, revision, met)
      \/ NamespacesRead(i, e, met) \/ NamespacesFail(i, met)
      \/ WriteDone(i, met) \/ WriteFails(i, met)
  BY <1>1 DEF CommandStep
<1> QED BY <1>2, GivingUpWorks, LeaseAnsweredWorks, CommandTakenWorks, NamespacesWorks, WrittenWorks

LEMMA JobStepWorks ==
    ASSUME JobsInv, GraphsInv, WritesOK(jobs, write), JobStep
    PROVE  Works
<1>1. scenario \in Scenarios /\ scenario.jobPage # Null /\ JobsOK(jobs)
  BY DEF JobsInv, JobStep
<1>2. scenario.robots \subseteq Robots /\ scenario.programs \subseteq Seq(Instruction)
  BY <1>1, WorkcellAssumption
<1>3. CASE PageOperation
  <2>1. ASSUME NEW r \in scenario.robots, NEW program \in scenario.programs,
               StartJob(r, program)
        PROVE  Works
    <3>1. r \in Robots /\ program \in Seq(Instruction)
      BY <1>2
    <3> QED BY <1>1, <2>1, <3>1, StartJobWorks
  <2>2. ASSUME NEW r \in scenario.robots, CancelJob(r)
        PROVE  Works
    <3>1. r \in Robots
      BY <1>2
    <3> QED BY <1>1, <2>2, <3>1, CancelWorks
  <2> QED BY <1>3, <2>1, <2>2 DEF PageOperation
<1>4. CASE LeaseExpires
  BY <1>1, <1>4, LeaseExpiresWorks
<1>5. ASSUME NEW met, AnimationFrame(met)
      PROVE  Works
  BY <1>1, <1>5, FrameWorks
<1>6. ASSUME NEW met, NEW i \in Issued(jobs), AttachmentSettles(i, met)
      PROVE  Works
  BY <1>1, <1>6, AttachmentWorks
<1>7. ASSUME NEW met, NEW i \in Issued(jobs), NEW e, CommandStep(i, e, met)
      PROVE  Works
  BY <1>1, <1>7, CommandWorks
<1>. HIDE DEF Works
<1> QED BY <1>3, <1>4, <1>5, <1>6, <1>7 DEF JobStep

-----------------------------------------------------------------------------
(* The invariant, and what follows from it.                                *)

WorkInv == JobsInv /\ WritesOK(jobs, write)

LEMMA JobsPrimed ==
    ASSUME JobsOK(jobs') PROVE JobsOK(jobs)'
  BY DEF JobsOK, JobsCore, FrameOK, JobsShape, RunOK, RobotOK, SlotOK, RunRecord, ShownRecord,
     AdvanceRecord, HasProgram, Pauses, Drives, ShownIs

LEMMA WritesPrimed ==
    ASSUME WritesOK(jobs', write') PROVE WritesOK(jobs, write)'
  BY DEF WritesOK, WriteOK, WriteRecord, Untouched, Placed, Lands, Unsent, Resting, Awaits, Issued,
     AtSet, Before, SetsUpTo

LEMMA WritesRecords ==
    ASSUME NEW j, NEW W, WritesOK(j, W)
    PROVE  Writes(W)
  BY DEF WritesOK, Writes

LEMMA NoJobsOK == JobsOK(NoJobs) /\ Running(NoJobs) = {} /\ NoJobs.quiesced = FALSE
                    /\ NoJobs.disposed = FALSE
<1>1. PICK j : j = NoJobs
  OBVIOUS
<1>2. /\ j = [f \in JobFields |-> j[f]]
      /\ j.run = [i \in Runs |-> NoRun] /\ j.session = [r \in Robots |-> Null]
      /\ j.shown = [r \in Robots |-> Idle] /\ j.pose = [r \in Robots |-> Null]
      /\ j.slot = [r \in Robots |-> NoAdvance]
      /\ j.frame = FALSE /\ j.quiesced = FALSE /\ j.disposed = FALSE
  BY <1>1 DEF NoJobs, JobFields
<1>3. RunRecord(NoRun) /\ ShownRecord(Idle) /\ AdvanceRecord(NoAdvance) /\ NoAdvance.run = Null
        /\ Idle.state = "IDLE"
  BY DEF NoRun, NewRun, RunRecord, RunFields, Idle, ShownRecord, NoAdvance, AdvanceRecord
<1>4. /\ j.run = [i \in Runs |-> j.run[i]] /\ j.session = [r \in Robots |-> j.session[r]]
      /\ j.shown = [r \in Robots |-> j.shown[r]] /\ j.pose = [r \in Robots |-> j.pose[r]]
      /\ j.slot = [r \in Robots |-> j.slot[r]]
  BY <1>2
<1>5. JobsShape(j)
  <2>1. \A i \in Runs : RunRecord(j.run[i])
    BY <1>2, <1>3
  <2>2. \A r \in Robots :
          /\ ShownRecord(j.shown[r]) /\ AdvanceRecord(j.slot[r])
          /\ j.session[r] \in Runs \cup {Null} /\ j.slot[r].run \in Runs \cup {Null}
    BY <1>2, <1>3
  <2> QED BY <1>2, <1>4, <2>1, <2>2 DEF JobsShape
<1>6. \A i \in Runs : RunOK(j, i)
  BY <1>2 DEF RunOK
<1>7. ASSUME NEW r \in Robots
      PROVE  j.session[r] = Null /\ j.shown[r].state # "RUNNING" /\ RobotOK(j, r) /\ SlotOK(j, r)
  <2>1. j.session[r] = Null /\ j.shown[r].state # "RUNNING"
    BY <1>2, <1>3
  <2> QED BY <2>1, RunsAssumption DEF RobotOK, SlotOK
<1>8. JobsOK(j) /\ Running(j) = {}
  BY <1>2, <1>5, <1>6, <1>7 DEF JobsOK, JobsCore, FrameOK, Running
<1> QED BY <1>1, <1>2, <1>8

LEMMA WorkInitially == WorkcellInit => WorkInv
<1>. SUFFICES ASSUME WorkcellInit PROVE WorkInv
  OBVIOUS
<1>1. scenario \in Scenarios /\ jobs = NoJobs /\ write = [i \in Runs |-> NoWrite]
  BY DEF WorkcellInit, Init, WritesInit
<1>2. JobsOK(jobs) /\ Running(jobs) = {} /\ jobs.quiesced = FALSE /\ jobs.disposed = FALSE
  BY <1>1, NoJobsOK
<1>3. \A i \in Runs : jobs.run[i] = NoRun
  BY <1>1 DEF NoJobs
<1>4. WriteRecord(NoWrite) /\ Untouched(NoWrite)
  BY DEF WriteRecord, WriteFields, NoWrite, Untouched
<1>5. WritesOK(jobs, write)
  BY <1>1, <1>3, <1>4 DEF WritesOK, WriteOK
<1>6. ASSUME NEW b \in Browsers PROVE FirstOK(project[b]) /\ Fit(project[b], jobs)
  <2>1. PICK revision : revision = Min(scenario.revisions)
    OBVIOUS
  <2>2. project[b] = NewProject(revision)
    BY <2>1 DEF WorkcellInit, ProjectInit
  <2>3. /\ NewProject(revision).graph[1] = NewGraph(revision, "committed", Null, 0)
        /\ NewProject(revision).transition.to = Null
    BY FirstIsGraph DEF NewProject, NoTransition
  <2>4. /\ NewGraph(revision, "committed", Null, 0).state = "committed"
        /\ NewGraph(revision, "committed", Null, 0).suspended = FALSE
        /\ NewGraph(revision, "committed", Null, 0).disposed = FALSE
    BY DEF NewGraph
  <2> QED BY <1>2, <2>2, <2>3, <2>4, FirstIsGraph DEF FirstOK, Fit
<1>7. \A b \in Browsers : Still(project[b], jobs)
  BY <1>2 DEF Still
<1>8. Writes(write)
  BY <1>5, WritesRecords
<1> QED BY <1>1, <1>2, <1>5, <1>6, <1>7, <1>8 DEF WorkInv, JobsInv

LEMMA JobStepKeeps ==
    ASSUME WorkInv, GraphsInv, JobStep
    PROVE  WorkInv'
<1>1. JobsOK(jobs') /\ Same(jobs, jobs') /\ WritesOK(jobs', write')
  BY JobStepWorks DEF WorkInv, Works
<1>2. scenario' = scenario /\ project' = project /\ scenario.jobPage # Null
  BY DEF JobStep
<1>3. scenario \in Scenarios /\ (\A b \in Browsers : FirstOK(project[b]))
  BY DEF WorkInv, JobsInv
<1>4. ASSUME NEW b \in Browsers, b = scenario.jobPage
      PROVE  Fit(project'[b], jobs') /\ Still(project'[b], jobs')
  <2>1. Fit(project[b], jobs) /\ Still(project[b], jobs)
    BY <1>4 DEF WorkInv, JobsInv
  <2> QED BY <1>1, <1>2, <2>1 DEF Fit, Still, Same
<1>5. JobsOK(jobs)' /\ WritesOK(jobs, write)'
  BY <1>1, JobsPrimed, WritesPrimed
<1>6. Writes(write)'
  <2>1. Writes(write')
    BY <1>1, WritesRecords
  <2> QED BY <2>1 DEF Writes, WriteRecord
<1>7. (\A b \in Browsers : FirstOK(project[b]))'
  BY <1>2, <1>3 DEF FirstOK
<1>8. (\A b \in Browsers : b = scenario.jobPage => Fit(project[b], jobs) /\ Still(project[b], jobs))'
  BY <1>2, <1>4 DEF Fit, Still
<1>. HIDE DEF JobsOK, Writes, WritesOK, FirstOK
<1> QED BY <1>2, <1>3, <1>5, <1>6, <1>7, <1>8 DEF WorkInv, JobsInv

LEMMA ScenarioStands ==
    ASSUME Next
    PROVE  UNCHANGED scenario
<1>1. ASSUME NEW e, EndpointStep(e) PROVE UNCHANGED scenario
  BY <1>1 DEF EndpointStep
<1>2. CASE GatewayStep
  BY <1>2 DEF GatewayStep, StopPrevious, StartCandidate, RecoverPrevious, RecoveryFails,
     RecoveryRequired, Activate, Withdraw, Deactivate
<1>3. ASSUME NEW s, SocketStep(s) PROVE UNCHANGED scenario
  BY <1>3 DEF SocketStep, SendCallback, SendFails, PeerGone
<1>4. ASSUME NEW b, PageStep(b) PROVE UNCHANGED scenario
  BY <1>4 DEF PageStep
<1> QED BY <1>1, <1>2, <1>3, <1>4 DEF Next

(* What WorkInv speaks of stands: so does it.                              *)
LEMMA WorkStands ==
    ASSUME WorkInv, UNCHANGED <<scenario, jobs, write, project>>
    PROVE  WorkInv'
<1>1. JobsOK(jobs)' /\ WritesOK(jobs, write)'
  <2>1. JobsOK(jobs') /\ WritesOK(jobs', write')
    BY DEF WorkInv, JobsInv
  <2> QED BY <2>1, JobsPrimed, WritesPrimed
<1>2. Writes(write)'
  BY DEF WorkInv, JobsInv, Writes, WriteRecord
<1>3. (scenario.jobPage = Null => Running(jobs) = {})'
  BY DEF WorkInv, JobsInv, Running
<1>4. /\ (\A b \in Browsers : FirstOK(project[b]))'
      /\ (\A b \in Browsers : b = scenario.jobPage =>
              Fit(project[b], jobs) /\ Still(project[b], jobs))'
  BY DEF WorkInv, JobsInv, FirstOK, Fit, Still
<1>5. scenario' \in Scenarios
  BY DEF WorkInv, JobsInv
<1>. HIDE DEF JobsOK, Writes, WritesOK, FirstOK, Fit, Still
<1> QED BY <1>1, <1>2, <1>3, <1>4, <1>5 DEF WorkInv, JobsInv

-----------------------------------------------------------------------------
(* THE JOBS AND THEIR WRITES.  Whatever the page and its graphs, the       *)
(* sessions, the Gateway and the answers do: every run is where its        *)
(* program has it, what a robot shows and the slot and frame of its        *)
(* session agree, the executor is quiesced and disposed of as its graph    *)
(* is, and the write of every set-do is at the place its run is at.        *)
THEOREM WorkInvariant == WorkcellSpec => []WorkInv
<1>1. WorkcellInit => WorkInv
  BY WorkInitially
<1>2. WorkInv /\ GraphsInv /\ [WorkcellNext]_<<vars, pageVars>> => WorkInv'
  <2>. SUFFICES ASSUME WorkInv, GraphsInv, [WorkcellNext]_<<vars, pageVars>> PROVE WorkInv'
    OBVIOUS
  <2>1. CASE RuntimeStep
    <3>1. JobsInv /\ WritesOK(jobs, write)
      BY DEF WorkInv
    <3>2. JobsInv'
      BY <2>1, <3>1, PageStepKeepsJobs
    <3>3. WritesOK(jobs, write)'
      BY <2>1, <3>1, PageStepKeepsWrites, WritesPrimed
    <3> QED BY <3>2, <3>3 DEF WorkInv
  <2>2. CASE JobStep
    BY <2>2, JobStepKeeps
  <2>3. CASE Next /\ UNCHANGED pageVars
    BY <2>3, ScenarioStands, WorkStands DEF pageVars
  <2>4. CASE UNCHANGED <<vars, pageVars>>
    BY <2>4, WorkStands DEF vars, pageVars
  <2> QED BY <2>1, <2>2, <2>3, <2>4 DEF WorkcellNext
<1> QED BY <1>1, <1>2, GraphsInvariant, PTL DEF WorkcellSpec

LEMMA LandsAsPlaced ==
    ASSUME WorkInv, NEW i \in Issued(jobs)
    PROVE  LET run == jobs.run[i]
           IN write[i].landed \in SetsUpTo(run, run.cursor - 1)..SetsUpTo(run, run.cursor)
<1>1. i \in Runs /\ jobs.run[i] # NoRun /\ RunOK(jobs, i) /\ WriteOK(jobs, write[i], i)
  BY DEF Issued, WorkInv, JobsInv, JobsOK, JobsCore, WritesOK
<1>2. PICK run : run = jobs.run[i]
  OBVIOUS
<1>3. PICK w : w = write[i]
  OBVIOUS
<1>4. Lands(run, w)
  BY <1>1, <1>2, <1>3 DEF WriteOK, Placed
<1>5. PICK j : j = jobs
  OBVIOUS
<1>6. RunOK(j, i) /\ j.run[i] # NoRun /\ run = j.run[i]
  BY <1>1, <1>2, <1>5
<1>7. w.landed \in SetsUpTo(run, run.cursor - 1)..SetsUpTo(run, run.cursor)
  BY <1>1, <1>4, <1>6, LandsOnce
<1> QED BY <1>2, <1>3, <1>7

(* THE SET-DOS OF A RUN ARE WRITTEN ONCE.  Whatever leases are stale,      *)
(* sessions are lost, services close and the client gives up: a set-do     *)
(* that a run has passed was written exactly once, and the one it stands   *)
(* at, or ended at, at most once.  (The run's cursor and the writes that   *)
(* reached the server, RobotJobs and SignalWrites.)                        *)
THEOREM SetDosAreWrittenOnce == WorkcellSpec => []SetDoWritesOnce
<1>1. WorkInv => SetDoWritesOnce
  BY LandsAsPlaced DEF SetDoWritesOnce
<1> QED BY <1>1, WorkInvariant, PTL

LEMMA DrivenInForce ==
    ASSUME WorkInv, NEW r \in Running(jobs)
    PROVE  LET i == jobs.session[r]
           IN /\ i # Null /\ jobs.shown[r].run = i /\ jobs.run[i].end = Null
              /\ jobs.frame \/ project[scenario.jobPage].graph[1].suspended
<1>1. /\ r \in Robots /\ jobs.shown[r].state = "RUNNING" /\ RobotOK(jobs, r)
      /\ jobs.frame \/ jobs.quiesced
  BY DEF Running, WorkInv, JobsInv, JobsOK, JobsCore, FrameOK
<1>2. jobs.session[r] \in Runs /\ Drives(jobs, jobs.session[r], r)
  BY <1>1 DEF RobotOK
<1>3. scenario \in Scenarios /\ scenario.jobPage # Null
  BY DEF WorkInv, JobsInv
<1>4. scenario.jobPage \in Browsers
  BY <1>3, GraphsAssumption
<1>5. Fit(project[scenario.jobPage], jobs)
  BY <1>4 DEF WorkInv, JobsInv
<1>6. jobs.session[r] # Null
  BY <1>2, RunsAssumption
<1> QED BY <1>1, <1>2, <1>5, <1>6 DEF Drives, ShownIs, Fit

LEMMA QuiescedStaysStill ==
    ASSUME WorkInv, NEW b \in Browsers, b = scenario.jobPage
    PROVE  QuiescedIsStill(project[b])
<1>1. SUFFICES ASSUME project[b].graph[1].suspended, project[b].waiting = <<>>,
                      NEW r \in Robots, jobs.session[r] # Null
               PROVE  jobs.run[jobs.session[r]].tick = Null
  BY DEF QuiescedIsStill
<1>2. Fit(project[b], jobs) /\ Still(project[b], jobs) /\ JobsOK(jobs)
  BY DEF WorkInv, JobsInv
<1>3. RobotOK(jobs, r) /\ SlotOK(jobs, r)
  BY <1>2 DEF JobsOK, JobsCore
<1>4. jobs.session[r] \in Runs /\ Drives(jobs, jobs.session[r], r)
  BY <1>1, <1>3 DEF RobotOK
<1>5. PICK i \in Runs : i = jobs.session[r]
  BY <1>4
<1>6. jobs.disposed = FALSE /\ jobs.run[i].robot = r /\ jobs.run[i].end = Null
  BY <1>4, <1>5 DEF Drives
<1>7. jobs.quiesced = TRUE
  BY <1>1, <1>2 DEF Fit, JobsOK, JobsCore, JobsShape
<1>8. jobs.settling = {}
  BY <1>1, <1>2, <1>6, <1>7 DEF Still
<1>9. jobs.run[i].waiting # TRUE
  BY <1>3, <1>5, <1>7, <1>8 DEF SlotOK
<1>10. RunOK(jobs, i)
  BY <1>2 DEF JobsOK, JobsCore
<1>11. CASE jobs.run[i] = NoRun
  <2>1. NoRun.tick = Null
    BY DEF NoRun, NewRun
  <2> QED BY <1>5, <1>11, <2>1
<1>12. CASE jobs.run[i] # NoRun
  BY <1>5, <1>9, <1>10, <1>12 DEF RunOK, Pauses
<1> QED BY <1>11, <1>12

(* THE JOBS FOLLOW THEIR GRAPH.  A robot that is shown as running is run   *)
(* by a session that has not ended, with a frame on order unless the graph *)
(* is suspended; and once a transition has waited for the jobs of a        *)
(* suspended graph, no session is in the middle of a tick, so the graph    *)
(* can be switched under it (RobotJobs, BrowserProjectRuntime).            *)
THEOREM JobsFollowTheirGraph == WorkcellSpec => []JobsFollowGraph
<1>1. WorkInv => JobsFollowGraph
  <2>. SUFFICES ASSUME WorkInv PROVE JobsFollowGraph
    OBVIOUS
  <2>1. RunningIsDriven
    BY DrivenInForce DEF RunningIsDriven
  <2>2. ASSUME NEW b \in {scenario.jobPage} \ {Null} PROVE QuiescedIsStill(project[b])
    <3>1. b \in Browsers
      BY <2>2, GraphsAssumption DEF WorkInv, JobsInv
    <3> QED BY <2>2, <3>1, QuiescedStaysStill
  <2> QED BY <2>1, <2>2 DEF JobsFollowGraph
<1> QED BY <1>1, WorkInvariant, PTL

RunsRest(j, k) ==
    /\ \A i \in Issued(j) :
          j.run[i].end # Null =>
              k.run[i].end = j.run[i].end /\ k.run[i].cursor = j.run[i].cursor
    /\ \A r \in Robots :
          /\ k.pose[r] # j.pose[r] =>
                j.shown[r].run = k.pose[r][1] /\ j.shown[r].state = "RUNNING"
          /\ k.shown[r] # j.shown[r] /\ j.shown[r].state # "RUNNING"
                => k.shown[r].state \in {"RUNNING", "IDLE"}

LEMMA KeepsRests ==
    ASSUME NEW j, NEW k, NEW S, Keeps(j, k, S)
    PROVE  RunsRest(j, k)
  BY DEF Keeps, RobotKeeps, RunKeeps, RunsRest, Issued

LEMMA StartRests ==
    ASSUME NEW j, NEW k, NEW i \in Runs, NEW r \in Robots, NEW program,
           RunStarted(j, k, i, r, program)
    PROVE  RunsRest(j, k)
  BY DEF RunStarted, OtherKept, RobotKept, RunKeeps, RunsRest, Issued

(* FINISHED RUNS REST.  A run that is over stays over, at the instruction  *)
(* it ended at: a late answer or a late frame neither moves its robot nor  *)
(* changes what the page shows of it, until the next run of that robot     *)
(* (publishTerminal, the answers and the frames of RobotJobs).             *)
THEOREM FinishedRunsStayAtRest == WorkcellSpec => FinishedRunsRest
<1>1. WorkInv /\ GraphsInv /\ [WorkcellNext]_<<vars, pageVars>> => RunsRest(jobs, jobs')
  <2>. SUFFICES ASSUME WorkInv, GraphsInv, [WorkcellNext]_<<vars, pageVars>>
                PROVE  RunsRest(jobs, jobs')
    OBVIOUS
  <2>1. CASE RuntimeStep
    BY <2>1, PageStepKeepsJobs, KeepsRests DEF WorkInv, Carries
  <2>2. CASE JobStep
    <3>1. GoesOn(jobs, jobs')
      BY <2>2, JobStepWorks DEF WorkInv, Works
    <3> QED BY <3>1, KeepsRests, StartRests DEF GoesOn
  <2>3. CASE UNCHANGED jobs
    BY <2>3 DEF RunsRest
  <2> QED BY <2>1, <2>2, <2>3 DEF WorkcellNext, pageVars
<1>2. RunsRest(jobs, jobs') =>
        /\ \A i \in Issued(jobs) : Rests(i)
        /\ \A r \in Robots :
             /\ jobs'.pose[r] # jobs.pose[r] =>
                   /\ jobs.shown[r].run = jobs'.pose[r][1]
                   /\ jobs.shown[r].state = "RUNNING"
             /\ jobs'.shown[r] # jobs.shown[r] /\ jobs.shown[r].state # "RUNNING"
                   => jobs'.shown[r].state \in {"RUNNING", "IDLE"}
  BY DEF RunsRest, Rests
<1> QED BY <1>1, <1>2, WorkInvariant, GraphsInvariant, PTL DEF WorkcellSpec, FinishedRunsRest

=============================================================================
