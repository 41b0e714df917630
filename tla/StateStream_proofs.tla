-------------------------- MODULE StateStream_proofs --------------------------
(***************************************************************************)
(* Proofs about the state streams of the pages, for any number of pages,   *)
(* sockets, endpoints and graphs and every scenario, in the composed       *)
(* specification WorkcellSpec: that a page's stream runs exactly while it  *)
(* is wanted and a graph is in force, and is never stuck (PageNotStranded  *)
(* of Workcell), and that what it shows as good is live (GoodIsLive of     *)
(* DataPlane).                                                             *)
(*                                                                         *)
(* The first is not inductive. Whether a stream is stuck depends on what   *)
(* the hub has done to its socket: a socket that the hub has dropped must  *)
(* still deliver the close (SocketOK), and one that is attached and not    *)
(* open yet must still have its open event on the way (Reaches); a page    *)
(* must not have two sockets or a socket and a timer, or somebody else's   *)
(* socket (StreamOK, StreamsInv). What the hub does to a socket, in any    *)
(* operation, is SocketGoes.                                               *)
(*                                                                         *)
(* Nor is the second. During a catch-up good values are collected behind a *)
(* guard, and a replay shows its prefix as good before the connected event *)
(* that clears it: so an invariant must know of every page what its        *)
(* boundary has collected (HonestPages). It holds whatever the hub sends.  *)
(***************************************************************************)
EXTENDS ClientEndpoint_proofs, Workcell_proofs

-----------------------------------------------------------------------------
(* The sockets of the hub.                                                 *)

SocketFields == {"attached", "out", "pending", "net"}

(* The last thing a peer will read is the close.                           *)
EndsClosed(net) == net # <<>> => net[Len(net)] = Closed

(* A socket that is not attached has nothing to send and collects nothing; *)
(* what is still on its way ends with the close.                           *)
SocketOK(k) ==
    /\ k = [f \in SocketFields |-> k[f]]
    /\ k.attached \in BOOLEAN
    /\ IsSequence(k.net)
    /\ ~k.attached => k = [DetachedSocket EXCEPT !.net = k.net] /\ EndsClosed(k.net)

(* What an operation of the hub may make of a socket that a page has: it   *)
(* leaves it alone, sends it more, or drops it and says so.                *)
SocketGoes(k, l) ==
    \/ l = k
    \/ /\ k.attached
       /\ l.net = <<>> => l.attached /\ k.net = <<>>

HubOK(h) ==
    /\ DOMAIN h = HubFields
    /\ h.socket = [s \in Sockets |-> h.socket[s]]
    /\ \A s \in Sockets : SocketOK(h.socket[s])

HubGoes(h, g) == HubOK(g) /\ \A s \in Sockets : SocketGoes(h.socket[s], g.socket[s])

LEMMA SocketGoesOn ==
    ASSUME NEW k, NEW l, NEW m, SocketGoes(k, l), SocketGoes(l, m)
    PROVE  SocketGoes(k, m)
  BY DEF SocketGoes

LEMMA HubGoesOn ==
    ASSUME NEW h, NEW g, NEW i, HubGoes(h, g), HubGoes(g, i)
    PROVE  HubGoes(h, i)
  BY SocketGoesOn DEF HubGoes

LEMMA HubStays ==
    ASSUME NEW h, HubOK(h)
    PROVE  HubGoes(h, h)
  BY DEF HubGoes, SocketGoes

(* One more thing to read.                                                 *)
LEMMA MoreToRead ==
    ASSUME NEW net, IsSequence(net), NEW m
    PROVE  /\ IsSequence(Append(net, m)) /\ Append(net, m) # <<>>
           /\ m = Closed => EndsClosed(Append(net, m))
<1>1. IsSequence(Append(net, m))
  BY AppendedIsSequence
<1>2. net \in Seq(Range(net))
  BY DEF IsSequence
<1>. DEFINE S == Range(net) \cup {m}
<1>3. net \in Seq(S) /\ m \in S
  BY <1>2
<1>. HIDE DEF S
<1>4. /\ Len(Append(net, m)) = Len(net) + 1 /\ Append(net, m)[Len(net) + 1] = m
      /\ Append(net, m) # <<>>
  BY <1>3
<1> QED BY <1>1, <1>4 DEF EndsClosed

(* detachAndClose *)
LEMMA DroppedGoes ==
    ASSUME NEW k, SocketOK(k)
    PROVE  /\ SocketOK(Dropped(k))
           /\ k.attached => SocketGoes(k, Dropped(k))
           /\ Dropped(k).net # <<>>
<1>. DEFINE net == Append(k.net, Closed)
<1>1. IsSequence(net) /\ net # <<>> /\ EndsClosed(net)
  BY MoreToRead DEF SocketOK
<1>. HIDE DEF net
<1>2. Dropped(k) = [DetachedSocket EXCEPT !.net = net]
  BY DEF Dropped, net
<1>3. /\ Dropped(k) = [f \in SocketFields |-> Dropped(k)[f]]
      /\ Dropped(k).attached = FALSE /\ Dropped(k).net = net
  BY <1>2 DEF DetachedSocket, SocketFields
<1> QED BY <1>1, <1>2, <1>3 DEF SocketOK, SocketGoes

(* enqueue *)
LEMMA LoadedGoes ==
    ASSUME NEW k, SocketOK(k), k.attached, NEW frames
    PROVE  LET l == Loaded(k, frames)
           IN SocketOK(l) /\ SocketGoes(k, l) /\ l.attached
<1>. DEFINE l == Loaded(k, frames)
            net == Append(k.net, Head(frames))
<1>1. IsSequence(net) /\ net # <<>>
  BY MoreToRead DEF SocketOK
<1>. HIDE DEF net
<1>2. /\ l = [f \in SocketFields |-> l[f]]
      /\ l.attached = k.attached /\ l.net \in {k.net, net}
  BY DEF Loaded, SocketOK, SocketFields, net
<1>. HIDE DEF l
<1>3. SocketOK(l) /\ SocketGoes(k, l) /\ l.attached
  BY <1>1, <1>2 DEF SocketOK, SocketGoes
<1> QED BY <1>3 DEF l

LEMMA CollectsGoes ==
    ASSUME NEW k, SocketOK(k), k.attached, NEW pending
    PROVE  LET l == [k EXCEPT !.pending = pending]
           IN SocketOK(l) /\ SocketGoes(k, l) /\ l.attached /\ l.net = k.net
  BY DEF SocketOK, SocketGoes, SocketFields

LEMMA AppendPendingGoes ==
    ASSUME NEW k, SocketOK(k), k.attached, NEW m
    PROVE  SocketOK(AppendPending(k, m)) /\ SocketGoes(k, AppendPending(k, m))
<1>. DEFINE pending == [k.pending EXCEPT ![m.endpoint] = Extended(@, m)]
<1>1. AppendPending(k, m) = [k EXCEPT !.pending = pending] \/ AppendPending(k, m) = Dropped(k)
  BY DEF AppendPending
<1>. HIDE DEF pending
<1> QED BY <1>1, DroppedGoes, CollectsGoes

(* A hub with other sockets, each of which is what an operation may make   *)
(* of it.                                                                  *)
LEMMA SocketsGo ==
    ASSUME NEW h, HubOK(h), NEW g, DOMAIN g = HubFields, NEW socket,
           g.socket = [s \in Sockets |-> socket[s]],
           \A s \in Sockets : SocketOK(socket[s]) /\ SocketGoes(h.socket[s], socket[s])
    PROVE  HubGoes(h, g)
  BY DEF HubGoes, HubOK

LEMMA AllDroppedGo ==
    ASSUME NEW h, HubOK(h), NEW s \in Sockets
    PROVE  /\ SocketOK(DroppedAll(h.socket)[s])
           /\ SocketGoes(h.socket[s], DroppedAll(h.socket)[s])
<1>1. PICK k : k = h.socket[s]
  OBVIOUS
<1>2. SocketOK(k)
  BY <1>1 DEF HubOK
<1>3. DroppedAll(h.socket)[s] = IF k.attached THEN Dropped(k) ELSE k
  BY <1>1 DEF DroppedAll
<1>4. SocketGoes(k, k)
  BY DEF SocketGoes
<1> QED BY <1>1, <1>2, <1>3, <1>4, DroppedGoes

LEMMA ResetWireGoes ==
    ASSUME NEW h, HubOK(h), NEW e
    PROVE  HubGoes(h, ResetWire(h, e))
<1>. DEFINE dropped == DroppedAll(h.socket)
            g == ResetWire(h, e)
<1>1. dropped = [s \in Sockets |-> dropped[s]]
  BY DEF DroppedAll
<1>2. \A s \in Sockets : SocketOK(dropped[s]) /\ SocketGoes(h.socket[s], dropped[s])
  BY AllDroppedGo
<1>. HIDE DEF dropped
<1>3. DOMAIN g = HubFields /\ g.socket = dropped
  BY DEF ResetWire, HubOK, HubFields, dropped
<1>. HIDE DEF g
<1>4. g.socket = [s \in Sockets |-> dropped[s]]
  BY <1>1, <1>3
<1>5. HubGoes(h, g)
  BY <1>2, <1>3, <1>4, SocketsGo
<1> QED BY <1>5 DEF g

(* distribute: the idle sockets are sent the message, the others keep it.  *)
LEMMA DistributedGoes ==
    ASSUME NEW h, HubOK(h), NEW m
    PROVE  HubGoes(h, Distributed(h, m))
<1>. DEFINE e == m.endpoint
            idle == {s \in Sockets : h.socket[s].attached /\ ~Busy(h.socket[s])}
            appended == [s \in Sockets |-> IF h.socket[s].attached /\ Busy(h.socket[s])
                                           THEN AppendPending(h.socket[s], m) ELSE h.socket[s]]
            frame == Unframed(m, h.wire[e] + 1)
            sent == [s \in Sockets |-> IF s \in idle THEN Loaded(appended[s], <<frame>>)
                                       ELSE appended[s]]
            collected == [h EXCEPT !.socket = appended]
            all == [h EXCEPT !.socket = sent, !.wire[e] = @ + 1]
<1>1. Distributed(h, m) \in {collected, ResetWire(collected, e), all}
  BY DEF Distributed
<1>. HIDE DEF frame
<1>2. ASSUME NEW s \in Sockets
      PROVE  /\ SocketOK(appended[s]) /\ SocketGoes(h.socket[s], appended[s])
             /\ SocketOK(sent[s]) /\ SocketGoes(h.socket[s], sent[s])
  <2>1. PICK k : k = h.socket[s]
    OBVIOUS
  <2>2. SocketOK(k) /\ SocketGoes(k, k)
    BY <2>1 DEF HubOK, SocketGoes
  <2>3. appended[s] = IF k.attached /\ Busy(k) THEN AppendPending(k, m) ELSE k
    BY <2>1
  <2>4. s \in idle <=> k.attached /\ ~Busy(k)
    BY <2>1
  <2>5. sent[s] = IF k.attached /\ ~Busy(k) THEN Loaded(k, <<frame>>) ELSE appended[s]
    BY <2>3, <2>4
  <2>. HIDE DEF appended, sent, idle
  <2>6. k.attached => /\ SocketOK(AppendPending(k, m)) /\ SocketGoes(k, AppendPending(k, m))
                      /\ SocketOK(Loaded(k, <<frame>>)) /\ SocketGoes(k, Loaded(k, <<frame>>))
    BY <2>2, AppendPendingGoes, LoadedGoes
  <2> QED BY <2>1, <2>2, <2>3, <2>5, <2>6
<1>3. appended = [s \in Sockets |-> appended[s]] /\ sent = [s \in Sockets |-> sent[s]]
  OBVIOUS
<1>. HIDE DEF appended, sent, idle
<1>4. /\ DOMAIN collected = HubFields /\ collected.socket = appended
      /\ DOMAIN all = HubFields /\ all.socket = sent
  BY DEF HubOK, HubFields
<1>. HIDE DEF collected, all
<1>5. HubGoes(h, collected) /\ HubGoes(h, all)
  BY <1>2, <1>3, <1>4, SocketsGo
<1>6. HubGoes(h, ResetWire(collected, e))
  BY <1>5, ResetWireGoes, HubGoesOn DEF HubGoes
<1> QED BY <1>1, <1>5, <1>6

LEMMA PublishedGoes ==
    ASSUME NEW h, HubOK(h), NEW m
    PROVE  HubGoes(h, Published(h, m))
<1>. DEFINE g == [h EXCEPT !.admission[m.endpoint] = Admitted(@, m),
                           !.cache[m.endpoint] = Cached(@, m)]
<1>. DEFINE f == [h EXCEPT !.admission[m.endpoint] = Admitted(@, m)]
<1>1. Published(h, m) = h \/ Published(h, m) = f \/ Published(h, m) = Distributed(g, m)
  BY DEF Published
<1>2. /\ DOMAIN g = HubFields /\ g.socket = h.socket
      /\ DOMAIN f = HubFields /\ f.socket = h.socket
  BY DEF HubOK, HubFields
<1>. HIDE DEF g, f
<1>3. /\ HubOK(g) /\ (\A i : HubGoes(g, i) => HubGoes(h, i))
      /\ HubOK(f) /\ (\A i : HubGoes(f, i) => HubGoes(h, i))
  BY <1>2 DEF HubOK, HubGoes
<1> QED BY <1>1, <1>3, HubStays, DistributedGoes

(* A sequence of messages, one after the other.                            *)
GoesFrom(c, k, h) == HubGoes(c, h)
Publication == INSTANCE FoldInduction WITH Op <- PublishNext, P <- GoesFrom

LEMMA AllPublishedGo ==
    ASSUME NEW h, HubOK(h), NEW out, IsSequence(out)
    PROVE  HubGoes(h, FoldLeft(Published, h, out))
<1>1. Len(out) \in Nat /\ DOMAIN out = 1..Len(out)
  BY DEF IsSequence
<1>2. GoesFrom(h, 0, h)
  BY HubStays DEF GoesFrom
<1>3. ASSUME NEW k \in 1..Len(out), NEW g, GoesFrom(h, k - 1, g)
      PROVE  GoesFrom(h, k, PublishNext(h, g, out[k]))
  <2>1. PICK m : m = out[k]
    OBVIOUS
  <2>2. HubGoes(g, Published(g, m))
    BY <1>3, PublishedGoes DEF GoesFrom, HubGoes
  <2>3. HubGoes(h, Published(g, m))
    BY <1>3, <2>2, HubGoesOn DEF GoesFrom
  <2> QED BY <2>1, <2>3 DEF GoesFrom, PublishNext
<1>4. GoesFrom(h, Len(out), Publication!Fold(h, h, out))
  BY <1>1, <1>2, <1>3, Publication!FoldLeftInduction
<1>5. Publication!Fold(h, h, out) = FoldLeft(Published, h, out)
  BY DEF Publication!Fold, Publication!Iterates, FoldLeft, MapThenFoldSet, Publication!Max, Max,
     PublishNext
<1> QED BY <1>4, <1>5 DEF GoesFrom

(* What happens to one socket.                                             *)
LEMMA OneSocketGoes ==
    ASSUME NEW h, HubOK(h), NEW s \in Sockets, NEW l, SocketOK(l), SocketGoes(h.socket[s], l),
           NEW g, DOMAIN g = HubFields, g.socket = [h.socket EXCEPT ![s] = l]
    PROVE  HubGoes(h, g)
<1>1. h.socket = [r \in Sockets |-> h.socket[r]]
  BY DEF HubOK
<1>2. \A r \in Sockets : g.socket[r] = IF r = s THEN l ELSE h.socket[r]
  BY <1>1
<1>3. g.socket = [r \in Sockets |-> g.socket[r]]
  BY <1>1
<1>4. \A r \in Sockets : SocketOK(h.socket[r]) /\ SocketGoes(h.socket[r], h.socket[r])
  BY DEF HubOK, SocketGoes
<1> QED BY <1>2, <1>3, <1>4 DEF HubGoes, HubOK

LEMMA FailedGoes ==
    ASSUME NEW h, HubOK(h), NEW s \in Sockets, h.socket[s].attached
    PROVE  HubGoes(h, Failed(h, s))
<1>1. SocketOK(Dropped(h.socket[s])) /\ SocketGoes(h.socket[s], Dropped(h.socket[s]))
  BY DroppedGoes DEF HubOK
<1>2. DOMAIN Failed(h, s) = HubFields
      /\ Failed(h, s).socket = [h.socket EXCEPT ![s] = Dropped(h.socket[s])]
  BY DEF Failed, HubOK, HubFields
<1> QED BY <1>1, <1>2, OneSocketGoes

(* The send callback: the next frame, a catch-up, or, when the counter ran *)
(* out, the end of all sockets.                                            *)
LEMMA CalledGoes ==
    ASSUME NEW h, HubOK(h), NEW s \in Sockets, h.socket[s].attached
    PROVE  HubGoes(h, Called(h, s))
<1>. DEFINE k == [h.socket[s] EXCEPT !.out = Tail(@)]
            catchup == Cuts("catchup", PendingMessages(k), h.wire)
            frozen == [k EXCEPT !.pending = EmptyTimelines]
            next == [k EXCEPT !.net = Append(@, Head(k.out))]
            cut == Loaded(frozen, catchup.frames)
            told == [h EXCEPT !.socket[s] = next]
            caught == [h EXCEPT !.wire = catchup.wire, !.socket[s] = cut]
<1>1. Called(h, s) \in {told, ResetWire(h, catchup.exhausted), caught}
  BY DEF Called
<1>. HIDE DEF catchup
<1>2. SocketOK(k) /\ k.attached /\ k.net = h.socket[s].net
  BY ZenonT(30) DEF HubOK, SocketOK, SocketFields
<1>3. SocketOK(frozen) /\ frozen.attached /\ frozen.net = k.net
  <2>. HIDE DEF k
  <2> QED BY <1>2, CollectsGoes
<1>4. SocketOK(next) /\ next.net # <<>>
  <2>. DEFINE net == Append(k.net, Head(k.out))
  <2>. HIDE DEF k
  <2>1. IsSequence(net) /\ net # <<>>
    BY <1>2, MoreToRead DEF SocketOK
  <2>2. next = [k EXCEPT !.net = net]
    BY <1>2 DEF SocketOK, SocketFields
  <2>. HIDE DEF net
  <2> QED BY <1>2, <2>1, <2>2 DEF SocketOK, SocketFields
<1>5. SocketOK(cut) /\ SocketGoes(frozen, cut)
  <2>. HIDE DEF frozen
  <2> QED BY <1>3, LoadedGoes
<1>6. SocketGoes(h.socket[s], next) /\ SocketGoes(h.socket[s], cut)
  <2>. HIDE DEF next, cut, frozen
  <2>1. SocketGoes(h.socket[s], next)
    BY <1>4 DEF SocketGoes
  <2>2. SocketGoes(h.socket[s], frozen)
    BY <1>2, <1>3 DEF SocketGoes
  <2> QED BY <1>5, <2>1, <2>2, SocketGoesOn
<1>. HIDE DEF next, cut, frozen, k
<1>7. /\ DOMAIN told = HubFields /\ told.socket = [h.socket EXCEPT ![s] = next]
      /\ DOMAIN caught = HubFields /\ caught.socket = [h.socket EXCEPT ![s] = cut]
  BY DEF HubOK, HubFields
<1>. HIDE DEF told, caught
<1>8. HubGoes(h, told) /\ HubGoes(h, caught)
  BY <1>4, <1>5, <1>6, <1>7, OneSocketGoes
<1> QED BY <1>1, <1>8, ResetWireGoes

(* attach: the page has at least the open event to read.                   *)
LEMMA AttachedGoes ==
    ASSUME NEW h, HubOK(h), NEW s \in Sockets
    PROVE  LET g == Attached(h, s)
           IN /\ HubOK(g) /\ g.socket[s].net # <<>>
              /\ \A r \in Sockets \ {s} : SocketGoes(h.socket[r], g.socket[r])
<1>. DEFINE k == [DetachedSocket EXCEPT !.attached = TRUE, !.net = <<Opened>>]
            replay == Cuts("replay", [e \in Endpoints |-> CacheMessages(h.cache[e])], h.wire)
            joined == [h EXCEPT !.socket[s] = k]
            l == Loaded(k, replay.frames)
            loaded == [joined EXCEPT !.wire = replay.wire, !.socket[s] = l]
            Fine(g) == /\ HubOK(g) /\ g.socket[s].net # <<>>
                       /\ \A r \in Sockets \ {s} : SocketGoes(h.socket[r], g.socket[r])
<1>1. Attached(h, s) \in {joined, ResetWire(joined, replay.exhausted), loaded}
  BY DEF Attached
<1>. HIDE DEF replay
<1>2. SocketOK(k) /\ k.attached /\ k.net # <<>>
  <2>1. Append(<<>>, Opened) = <<Opened>>
    OBVIOUS
  <2>2. IsSequence(<<Opened>>) /\ <<Opened>> # <<>>
    BY <2>1, NothingIsSequence, MoreToRead
  <2> QED BY <2>2 DEF SocketOK, SocketFields, DetachedSocket
<1>. HIDE DEF k
<1>3. SocketOK(l) /\ l.net # <<>>
  BY <1>2, LoadedGoes DEF SocketGoes
<1>. HIDE DEF l
<1>4. h.socket = [r \in Sockets |-> h.socket[r]] /\ \A r \in Sockets : SocketOK(h.socket[r])
  BY DEF HubOK
<1>5. \A r \in Sockets : SocketGoes(h.socket[r], h.socket[r])
  BY DEF SocketGoes
<1>6. /\ DOMAIN joined = HubFields /\ joined.socket = [h.socket EXCEPT ![s] = k]
      /\ DOMAIN loaded = HubFields /\ loaded.socket = [joined.socket EXCEPT ![s] = l]
  BY DEF HubOK, HubFields
<1>. HIDE DEF joined, loaded
<1>7. loaded.socket = [h.socket EXCEPT ![s] = l]
  BY <1>4, <1>6
<1>8. Fine(joined)
  <2>1. \A r \in Sockets : joined.socket[r] = IF r = s THEN k ELSE h.socket[r]
    BY <1>4, <1>6
  <2>2. joined.socket = [r \in Sockets |-> joined.socket[r]]
    BY <1>4, <1>6
  <2> QED BY <1>2, <1>4, <1>5, <1>6, <2>1, <2>2 DEF HubOK
<1>9. Fine(loaded)
  <2>1. \A r \in Sockets : loaded.socket[r] = IF r = s THEN l ELSE h.socket[r]
    BY <1>4, <1>7
  <2>2. loaded.socket = [r \in Sockets |-> loaded.socket[r]]
    BY <1>4, <1>7
  <2> QED BY <1>3, <1>4, <1>5, <1>6, <2>1, <2>2 DEF HubOK
<1>10. Fine(ResetWire(joined, replay.exhausted))
  <2>1. PICK g : g = ResetWire(joined, replay.exhausted)
    OBVIOUS
  <2>2. HubGoes(joined, g)
    BY <1>8, <2>1, ResetWireGoes
  <2>3. g.socket[s].net # <<>>
    BY <1>8, <2>2 DEF HubGoes, SocketGoes
  <2>4. \A r \in Sockets \ {s} : SocketGoes(h.socket[r], g.socket[r])
    BY <1>8, <2>2, SocketGoesOn DEF HubGoes
  <2> QED BY <2>1, <2>2, <2>3, <2>4 DEF HubGoes
<1> QED BY <1>1, <1>8, <1>9, <1>10

(* flushPrepared: an open socket is sent what it had pending and what was  *)
(* staged.                                                                 *)
LEMMA RenewedGoes ==
    ASSUME NEW h, HubOK(h), NEW activation, NEW messages
    PROVE  HubGoes(h, Renewed(h, activation, messages))
<1>. DEFINE cuts == SharedCuts(h, activation, messages)
            flushed(k, own) == IF ~k.attached THEN k
                               ELSE Loaded([k EXCEPT !.pending = EmptyTimelines],
                                           own \o cuts.shared.frames)
            socket == [s \in Sockets |-> flushed(h.socket[s], cuts.own.frames[s])]
            g == Renewed(h, activation, messages)
<1>1. DOMAIN g = HubFields /\ g.socket = socket
  BY DEF Renewed, HubFields
<1>. HIDE DEF g, cuts
<1>2. ASSUME NEW s \in Sockets
      PROVE  SocketOK(socket[s]) /\ SocketGoes(h.socket[s], socket[s])
  <2>1. PICK k : k = h.socket[s]
    OBVIOUS
  <2>2. PICK frames : frames = cuts.own.frames[s] \o cuts.shared.frames
    OBVIOUS
  <2>3. PICK l : l = [k EXCEPT !.pending = EmptyTimelines]
    OBVIOUS
  <2>4. SocketOK(k) /\ SocketGoes(k, k)
    BY <2>1 DEF HubOK, SocketGoes
  <2>5. socket[s] = IF ~k.attached THEN k ELSE Loaded(l, frames)
    BY <2>1, <2>2, <2>3
  <2>. HIDE DEF socket
  <2>6. k.attached => SocketOK(l) /\ SocketGoes(k, l) /\ l.attached
    BY <2>3, <2>4, CollectsGoes
  <2>7. k.attached => SocketOK(Loaded(l, frames)) /\ SocketGoes(k, Loaded(l, frames))
    BY <2>6, LoadedGoes, SocketGoesOn
  <2> QED BY <2>1, <2>4, <2>5, <2>7
<1>3. g.socket = [s \in Sockets |-> socket[s]]
  BY <1>1
<1>. HIDE DEF socket
<1>4. HubGoes(h, g)
  BY <1>1, <1>2, <1>3, SocketsGo
<1> QED BY <1>4 DEF g

(* Another revision, or none: every socket goes.                           *)
LEMMA AllClosedGo ==
    ASSUME NEW h, HubOK(h), NEW g, DOMAIN g = HubFields, g.socket = DroppedAll(h.socket)
    PROVE  HubGoes(h, g)
<1>. DEFINE dropped == DroppedAll(h.socket)
<1>1. dropped = [s \in Sockets |-> dropped[s]]
  BY DEF DroppedAll
<1>2. \A s \in Sockets : SocketOK(dropped[s]) /\ SocketGoes(h.socket[s], dropped[s])
  BY AllDroppedGo
<1>3. g.socket = dropped
  OBVIOUS
<1>. HIDE DEF dropped
<1>4. g.socket = [s \in Sockets |-> dropped[s]]
  BY <1>1, <1>3
<1> QED BY <1>2, <1>4, SocketsGo

LEMMA ActivatedGoes ==
    ASSUME NEW h, HubOK(h), NEW activation, NEW messages
    PROVE  HubGoes(h, Activated(h, activation, messages)) /\ HubGoes(h, Deactivated(h))
<1>. DEFINE g == Replaced(h, activation, messages)
<1>1. DOMAIN g = HubFields /\ g.socket = DroppedAll(h.socket)
  BY DEF Replaced, NewHub, HubFields
<1>. HIDE DEF g
<1>2. HubGoes(h, g)
  BY <1>1, AllClosedGo
<1>3. PICK n : n = Deactivated(h)
  OBVIOUS
<1>4. DOMAIN n = HubFields /\ n.socket = DroppedAll(h.socket)
  BY <1>3 DEF Deactivated, NewHub, HubFields
<1>5. HubGoes(h, n)
  BY <1>4, AllClosedGo
<1> QED BY <1>2, <1>3, <1>5, RenewedGoes DEF Activated, g

(* The page has gone, or has given the socket up.                          *)
LEMMA DetachedIs ==
    ASSUME NEW h, HubOK(h), NEW s \in Sockets
    PROVE  /\ HubOK(Detached(h, s))
           /\ \A r \in Sockets \ {s} : Detached(h, s).socket[r] = h.socket[r]
<1>1. SocketOK(DetachedSocket)
  BY NothingIsSequence DEF SocketOK, SocketFields, DetachedSocket, EndsClosed
<1>2. /\ DOMAIN Detached(h, s) = HubFields
      /\ Detached(h, s).socket = [h.socket EXCEPT ![s] = DetachedSocket]
  BY DEF Detached, HubOK, HubFields
<1> QED BY <1>1, <1>2 DEF HubOK

LEMMA GivenUpIs ==
    ASSUME NEW h, HubOK(h), NEW s \in Sockets \cup {Null}
    PROVE  /\ HubOK(GivenUp(h, s))
           /\ \A r \in Sockets \ {s} : GivenUp(h, s).socket[r] = h.socket[r]
<1>1. CASE s = Null
  BY <1>1 DEF GivenUp
<1>2. CASE s # Null
  <2>. DEFINE k == [h.socket[s] EXCEPT !.net = <<>>]
  <2>1. /\ DOMAIN GivenUp(h, s) = HubFields
        /\ GivenUp(h, s).socket = [h.socket EXCEPT ![s] = k]
    BY <1>2 DEF GivenUp, HubOK, HubFields
  <2>2. SocketOK(k)
    <3>1. SocketOK(h.socket[s])
      BY <1>2 DEF HubOK
    <3>2. k.net = <<>> /\ k.attached = h.socket[s].attached /\ k = [f \in SocketFields |-> k[f]]
      BY <3>1 DEF SocketOK, SocketFields
    <3>3. ~k.attached => k = [DetachedSocket EXCEPT !.net = <<>>]
      BY <3>1 DEF SocketOK, SocketFields, DetachedSocket
    <3>. HIDE DEF k
    <3>4. h.socket[s].attached \in BOOLEAN
      BY <3>1 DEF SocketOK
    <3> QED BY <3>2, <3>3, <3>4, NothingIsSequence DEF SocketOK, EndsClosed
  <2>. HIDE DEF k
  <2> QED BY <2>1, <2>2 DEF HubOK
<1> QED BY <1>1, <1>2

LEMMA TailIs ==
    ASSUME NEW S, NEW t \in Seq(S), t # <<>>
    PROVE  /\ Tail(t) \in Seq(S) /\ Head(t) = t[1]
           /\ Len(t) \in Nat \ {0} /\ Len(Tail(t)) = Len(t) - 1
           /\ \A i \in 1..(Len(t) - 1) : Tail(t)[i] = t[i + 1]
           /\ Tail(t) = <<>> <=> Len(t) = 1
<1>1. Len(t) \in Nat \ {0} /\ Head(t) = t[1]
  OBVIOUS
<1>2. Tail(t) \in Seq(S) /\ Len(Tail(t)) = Len(t) - 1
  OBVIOUS
<1>3. \A i \in 1..(Len(t) - 1) : Tail(t)[i] = t[i + 1]
  OBVIOUS
<1>4. Tail(t) = <<>> <=> Len(Tail(t)) = 0
  <2>1. PICK u \in Seq(S) : u = Tail(t)
    BY <1>2
  <2>2. u = <<>> <=> Len(u) = 0
    OBVIOUS
  <2>3. QED
    BY <2>1, <2>2
<1> QED BY <1>1, <1>2, <1>3, <1>4

(* The peer reads on: a socket of which nothing is left to read, and whose *)
(* last event was not the close, is attached.                              *)
NextRead(h, s) == [h EXCEPT !.socket[s].net = Tail(@)]

LEMMA ReadIs ==
    ASSUME NEW h, HubOK(h), NEW s \in Sockets, h.socket[s].net # <<>>,
           NEW g, g = NextRead(h, s)
    PROVE  /\ HubOK(g) /\ \A r \in Sockets \ {s} : g.socket[r] = h.socket[r]
           /\ Head(h.socket[s].net) # Closed /\ g.socket[s].net = <<>> => g.socket[s].attached
<1>. DEFINE k == h.socket[s]
            net == Tail(k.net)
            l == [k EXCEPT !.net = net]
<1>1. SocketOK(k) /\ k.net \in Seq(Range(k.net)) /\ k.net # <<>>
  BY DEF HubOK, SocketOK, IsSequence
<1>2. /\ IsSequence(net)
      /\ net # <<>> => net[Len(net)] = k.net[Len(k.net)]
      /\ net = <<>> => Head(k.net) = k.net[Len(k.net)]
  <2>. PICK t : t = k.net
    OBVIOUS
  <2>. PICK S : S = Range(t)
    OBVIOUS
  <2>1. t \in Seq(S) /\ t # <<>>
    BY <1>1
  <2>2. /\ Tail(t) \in Seq(S) /\ Len(Tail(t)) = Len(t) - 1 /\ Len(t) \in Nat \ {0}
        /\ \A i \in 1..(Len(t) - 1) : Tail(t)[i] = t[i + 1]
        /\ Head(t) = t[1]
        /\ Tail(t) = <<>> <=> Len(t) = 1
    BY <2>1, TailIs
  <2>3. IsSequence(Tail(t))
    BY <2>2, SequenceOfItsValues
  <2>4. Tail(t) # <<>> => Len(t) - 1 \in 1..(Len(t) - 1) /\ (Len(t) - 1) + 1 = Len(t)
    <3>1. Tail(t) # <<>> => Len(t) \in Nat /\ Len(t) # 0 /\ Len(t) # 1
      BY <2>2
    <3>2. ASSUME NEW n \in Nat, n # 0, n # 1
          PROVE  n - 1 \in 1..(n - 1) /\ (n - 1) + 1 = n
      BY <3>2
    <3> QED BY <3>1, <3>2
  <2>5. Tail(t) # <<>> => Tail(t)[Len(Tail(t))] = t[Len(t)]
    <3>1. Tail(t) # <<>> => Tail(t)[Len(t) - 1] = t[(Len(t) - 1) + 1]
      BY <2>2, <2>4
    <3> QED BY <2>2, <2>4, <3>1
  <2> QED BY <2>2, <2>3, <2>5
<1>. HIDE DEF net
<1>3. /\ l.net = net /\ l.attached = k.attached /\ l = [f \in SocketFields |-> l[f]]
      /\ ~k.attached => l = [DetachedSocket EXCEPT !.net = net]
      /\ k.attached \in BOOLEAN
      /\ ~k.attached => k.net[Len(k.net)] = Closed
  BY <1>1 DEF SocketOK, SocketFields, DetachedSocket, EndsClosed
<1>4. DOMAIN g = HubFields /\ g.socket = [h.socket EXCEPT ![s] = l]
  BY DEF HubOK, HubFields, net, NextRead
<1>. HIDE DEF l, k
<1>5. SocketOK(l)
  BY <1>2, <1>3 DEF SocketOK, EndsClosed
<1>6. g.socket[s] = l
  BY <1>4 DEF HubOK
<1>7. HubOK(g) /\ \A r \in Sockets \ {s} : g.socket[r] = h.socket[r]
  BY <1>4, <1>5 DEF HubOK
<1> QED BY <1>2, <1>3, <1>6, <1>7 DEF k

-----------------------------------------------------------------------------
(* The stream of a page.                                                   *)

PageFields ==
    {"started", "target", "candidate", "opened", "timer", "refreshing", "record", "boundary",
     "signals", "refused"}

BoundaryFields == {"kind", "endpoint", "id", "count", "lifecycle", "stage", "frames"}

(* The body of a boundary that has begun is collected in a sequence.       *)
BoundaryOK(k) ==
    k.boundary # Null => DOMAIN k.boundary = BoundaryFields /\ IsSequence(k.boundary.frames)

PageOK(k) == DOMAIN k = PageFields /\ {k.started, k.timer} \subseteq BOOLEAN /\ BoundaryOK(k)

(* The candidate is there only while the stream runs, and only it can have *)
(* opened; while there is none the timer runs, and no timer runs beside a  *)
(* candidate.                                                              *)
CandidateOK(k) ==
    IF k.candidate = Null THEN k.opened = NoTarget /\ (k.timer <=> k.started)
    ELSE k.candidate \in Sockets /\ k.started /\ ~k.timer

StreamOK(p, k) ==
    /\ PageOK(k) /\ CandidateOK(k)
    /\ k.started <=> StreamRuns(p)
    /\ k.target.graph = p.active

(* A socket of which there is nothing to read waits for the server, or has *)
(* opened and is attached.                                                 *)
Reaches(h, k) ==
    k.candidate # Null /\ h.socket[k.candidate].net = <<>>
        => (h.socket[k.candidate].attached <=> k.opened # NoTarget)

(* Every page reaches its own socket.                                      *)
StreamsHold(h, pages, projects) ==
    /\ HubOK(h)
    /\ pages = [b \in Browsers |-> pages[b]]
    /\ \A b \in Browsers : StreamOK(projects[b], pages[b]) /\ Reaches(h, pages[b])
    /\ \A b, c \in Browsers :
          pages[b].candidate # Null /\ pages[b].candidate = pages[c].candidate => b = c

StreamsInv == StreamsHold(hub, browser, project)

-----------------------------------------------------------------------------
(* What the operations of the stream do to a page.                         *)

(* l has the candidate of k, with whatever it has read of it.              *)
SameStream(k, l) ==
    /\ DOMAIN l = PageFields
    /\ l.started = k.started /\ l.target = k.target /\ l.candidate = k.candidate
    /\ l.opened = k.opened /\ l.timer = k.timer

(* ... and is within the same boundary.                                    *)
Alike(k, l) == SameStream(k, l) /\ l.boundary = k.boundary

LEMMA UnguardedIs ==
    ASSUME NEW k, DOMAIN k = PageFields
    PROVE  SameStream(k, Unguarded(k)) /\ Unguarded(k).boundary = Null
           /\ Unguarded(k).refreshing = k.refreshing
  BY DEF Unguarded, SameStream, PageFields

LEMMA DetachIs ==
    ASSUME NEW k, DOMAIN k = PageFields
    PROVE  LET l == Detach(k)
           IN /\ DOMAIN l = PageFields /\ l.boundary = Null
              /\ l.candidate = Null /\ l.opened = NoTarget
              /\ l.started = k.started /\ l.target = k.target /\ l.timer = k.timer
              /\ l.refreshing = k.refreshing
<1>1. PICK u : u = Unguarded(k)
  OBVIOUS
<1>2. SameStream(k, u) /\ u.boundary = Null /\ u.refreshing = k.refreshing
  BY <1>1, UnguardedIs
<1>3. Detach(k) = [u EXCEPT !.candidate = Null, !.opened = NoTarget, !.record = NewRecords]
  BY <1>1 DEF Detach
<1> QED BY <1>2, <1>3 DEF SameStream, PageFields

(* rejectCandidate: a stream that runs will try again.                     *)
LEMMA RejectedIs ==
    ASSUME NEW k, PageOK(k)
    PROVE  LET l == Rejected(k)
           IN /\ PageOK(l) /\ l.candidate = Null /\ l.opened = NoTarget
              /\ l.started = k.started /\ l.target = k.target
              /\ l.timer <=> k.timer \/ k.started
<1>. DEFINE lost == IF k.opened = NoTarget THEN k
                    ELSE [k EXCEPT !.signals = [e \in Endpoints |->
                                                  EndpointDisconnected(k.signals[e])]]
<1>1. DOMAIN lost = PageFields /\ lost.started = k.started /\ lost.target = k.target
        /\ lost.timer = k.timer
  BY DEF PageOK, PageFields
<1>2. Rejected(k) = [Detach(lost) EXCEPT !.timer = @ \/ k.started]
  BY DEF Rejected
<1>. HIDE DEF lost
<1>3. PICK d : d = Detach(lost)
  OBVIOUS
<1>4. /\ DOMAIN d = PageFields /\ d.boundary = Null /\ d.candidate = Null /\ d.opened = NoTarget
      /\ d.started = k.started /\ d.target = k.target /\ d.timer = k.timer
  BY <1>1, <1>3, DetachIs
<1>5. PICK t : t = (k.timer \/ k.started)
  OBVIOUS
<1>6. t \in BOOLEAN
  BY <1>5
<1>7. Rejected(k) = [d EXCEPT !.timer = t]
  BY <1>2, <1>3, <1>4, <1>5
<1> QED BY <1>4, <1>5, <1>6, <1>7 DEF PageOK, BoundaryOK, PageFields

(* open                                                                    *)
LEMMA SessionOpenedIs ==
    ASSUME NEW k, PageOK(k)
    PROVE  LET l == SessionOpened(k)
           IN /\ PageOK(l) /\ l.candidate = k.candidate /\ l.opened = k.target
              /\ l.started = k.started /\ l.target = k.target /\ l.timer = k.timer
<1>1. PICK u : u = Unguarded(k)
  OBVIOUS
<1>2. SameStream(k, u) /\ u.boundary = Null
  BY <1>1, UnguardedIs DEF PageOK
<1>3. PICK signals : signals = [e \in Endpoints |-> SessionReset(k.signals[e])]
  OBVIOUS
<1>4. SessionOpened(k) = [u EXCEPT !.opened = k.target, !.record = NewRecords,
                                   !.refreshing = FALSE, !.signals = signals]
  BY <1>1, <1>3 DEF SessionOpened
<1> QED BY <1>2, <1>4 DEF SameStream, PageOK, BoundaryOK, PageFields

(* A frame: what it does to a page whose candidate stays.  applyLifecycle  *)
(* and ingest change what is known of an endpoint and its signals only.    *)
LEMMA AppliedIs ==
    ASSUME NEW k, DOMAIN k = PageFields, NEW f
    PROVE  Applied(k, f) = Null \/ Alike(k, Applied(k, f))
  BY DEF Applied, Alike, SameStream, PageFields

LEMMA OrdinaryIs ==
    ASSUME NEW k, DOMAIN k = PageFields, NEW f
    PROVE  Ordinary(k, f) = Null \/ Alike(k, Ordinary(k, f))
<1>1. PICK l : l = [k EXCEPT !.record[f.endpoint].seen = TRUE]
  OBVIOUS
<1>2. Alike(k, l) /\ DOMAIN l = PageFields
  BY <1>1 DEF Alike, SameStream, PageFields
<1>3. Applied(l, f) = Null \/ Alike(l, Applied(l, f))
  BY <1>2, AppliedIs
<1> QED BY <1>1, <1>2, <1>3 DEF Ordinary, Alike, SameStream

LEMMA BoundaryBegunIs ==
    ASSUME NEW k, DOMAIN k = PageFields, NEW f
    PROVE  LET l == Begun(k, f) IN l = Null \/ (SameStream(k, l) /\ BoundaryOK(l))
<1>. DEFINE e == f.endpoint
            boundary == [kind |-> KindOf(f), endpoint |-> e, id |-> f.id, count |-> f.body,
                         lifecycle |-> k.record[e].lifecycle, stage |-> "prefix", frames |-> <<>>]
            active == [k EXCEPT !.boundary = boundary, !.record[e].seen = TRUE]
            signals == [active.signals EXCEPT ![e] = CatchupBegun(@)]
<1>1. DOMAIN boundary = BoundaryFields /\ IsSequence(boundary.frames)
  BY NothingIsSequence DEF BoundaryFields
<1>. HIDE DEF boundary
<1>2. SameStream(k, active) /\ active.boundary = boundary
  BY DEF SameStream, PageFields
<1>3. Begun(k, f) \in {Null, active, [active EXCEPT !.signals = signals]}
  BY DEF Begun, boundary
<1>. HIDE DEF active, signals
<1>4. PICK next : next = [active EXCEPT !.signals = signals]
  OBVIOUS
<1>5. SameStream(k, next) /\ next.boundary = boundary
  BY <1>2, <1>4 DEF SameStream, PageFields
<1>6. BoundaryOK(active) /\ BoundaryOK(next)
  BY <1>1, <1>2, <1>5 DEF BoundaryOK
<1> QED BY <1>2, <1>3, <1>4, <1>5, <1>6

LEMMA BufferedIs ==
    ASSUME NEW k, DOMAIN k = PageFields, BoundaryOK(k), k.boundary # Null, NEW f
    PROVE  LET l == Buffered(k, f) IN l = Null \/ (SameStream(k, l) /\ BoundaryOK(l))
<1>. DEFINE m == f.body
            boundary == k.boundary
            stage == IF boundary.kind = "replay" THEN StageAfter(boundary, m)
                     ELSE IF CatchupAdmits(boundary, m) THEN "current" ELSE Null
            entry == [frame |-> f, prefix |-> m.kind = "state" /\ stage = "prefix"]
            lifecycle == IF m.kind = "state" THEN boundary.lifecycle ELSE Order(m)
            next == [k EXCEPT !.boundary.stage = stage,
                              !.boundary.lifecycle = IF m.kind = "state" THEN @ ELSE Order(m),
                              !.boundary.frames = Append(@, entry)]
            frames == Append(boundary.frames, entry)
<1>1. Buffered(k, f) \in {Null, next}
  BY DEF Buffered
<1>2. IsSequence(frames) /\ DOMAIN boundary = BoundaryFields
  BY AppendedIsSequence DEF BoundaryOK
<1>. HIDE DEF stage, entry
<1>3. /\ SameStream(k, next) /\ DOMAIN next.boundary = BoundaryFields
      /\ next.boundary.frames = frames
  BY <1>2 DEF SameStream, PageFields, BoundaryFields
<1>. HIDE DEF next, frames
<1>4. BoundaryOK(next)
  BY <1>2, <1>3 DEF BoundaryOK
<1> QED BY <1>1, <1>3, <1>4

(* The end of a boundary: its body is applied in order.                    *)
DrainNext(c, k, entry) == Drained(k, entry)
DrainedFrom(c, n, k) == k = Null \/ SameStream(c, k)
Drain == INSTANCE FoldInduction WITH Op <- DrainNext, P <- DrainedFrom

LEMMA AllDrained ==
    ASSUME NEW k, DOMAIN k = PageFields, NEW frames, IsSequence(frames)
    PROVE  LET l == FoldLeft(Drained, k, frames) IN l = Null \/ SameStream(k, l)
<1>1. Len(frames) \in Nat /\ DOMAIN frames = 1..Len(frames)
  BY DEF IsSequence
<1>2. DrainedFrom(k, 0, k)
  BY DEF DrainedFrom, SameStream
<1>3. ASSUME NEW n \in 1..Len(frames), NEW x, DrainedFrom(k, n - 1, x)
      PROVE  DrainedFrom(k, n, DrainNext(k, x, frames[n]))
  <2>1. PICK entry : entry = frames[n]
    OBVIOUS
  <2>2. PICK f : f = entry.frame
    OBVIOUS
  <2>3. PICK signals : signals = [x.signals EXCEPT ![f.endpoint] = PrefixRestored(@, f.body)]
    OBVIOUS
  <2>4. PICK y : y = Drained(x, entry)
    OBVIOUS
  <2>5. y = Null \/ y = [x EXCEPT !.signals = signals] \/ y = Applied(x, f)
    BY <2>2, <2>3, <2>4 DEF Drained
  <2>6. CASE x = Null
    BY <2>1, <2>4, <2>6 DEF Drained, DrainNext, DrainedFrom
  <2>7. CASE SameStream(k, x)
    <3>1. SameStream(k, [x EXCEPT !.signals = signals])
      BY <2>7 DEF SameStream, PageFields
    <3>2. Applied(x, f) = Null \/ SameStream(x, Applied(x, f))
      BY <2>7, AppliedIs DEF SameStream, Alike
    <3>3. y = Null \/ SameStream(k, y)
      BY <2>5, <2>7, <3>1, <3>2 DEF SameStream
    <3> QED BY <2>1, <2>4, <3>3 DEF DrainNext, DrainedFrom
  <2> QED BY <1>3, <2>6, <2>7 DEF DrainedFrom
<1>4. DrainedFrom(k, Len(frames), Drain!Fold(k, k, frames))
  BY <1>1, <1>2, <1>3, Drain!FoldLeftInduction
<1>5. Drain!Fold(k, k, frames) = FoldLeft(Drained, k, frames)
  BY DEF Drain!Fold, Drain!Iterates, FoldLeft, MapThenFoldSet, Drain!Max, Max, DrainNext
<1> QED BY <1>4, <1>5 DEF DrainedFrom

LEMMA FinishedIs ==
    ASSUME NEW k, DOMAIN k = PageFields, BoundaryOK(k), k.boundary # Null, NEW f
    PROVE  LET l == Finished(k, f) IN l = Null \/ (SameStream(k, l) /\ BoundaryOK(l))
<1>1. IsSequence(k.boundary.frames)
  BY DEF BoundaryOK
<1>2. PICK drained : drained = FoldLeft(Drained, k, k.boundary.frames)
  OBVIOUS
<1>3. drained = Null \/ SameStream(k, drained)
  BY <1>1, <1>2, AllDrained
<1>4. PICK closed : closed = [drained EXCEPT !.boundary = Null]
  OBVIOUS
<1>5. PICK signals : signals = [closed.signals EXCEPT ![f.endpoint] = CatchupCommitted(@)]
  OBVIOUS
<1>6. PICK last : last = [closed EXCEPT !.signals = signals]
  OBVIOUS
<1>7. PICK l : l = Finished(k, f)
  OBVIOUS
<1>8. l = Null \/ (drained # Null /\ l \in {closed, last})
  BY <1>2, <1>4, <1>5, <1>6, <1>7 DEF Finished
<1>9. SameStream(k, drained) => /\ SameStream(k, closed) /\ closed.boundary = Null
                                /\ SameStream(k, last) /\ last.boundary = Null
  BY <1>4, <1>6 DEF SameStream, PageFields
<1> QED BY <1>3, <1>7, <1>8, <1>9 DEF BoundaryOK

LEMMA RoutedIs ==
    ASSUME NEW k, PageOK(k), NEW f
    PROVE  LET l == Routed(k, f) IN l = Null \/ (SameStream(k, l) /\ BoundaryOK(l))
<1>1. PICK admitted : admitted = [k EXCEPT !.record[f.endpoint].wire = f.wire]
  OBVIOUS
<1>2. Alike(k, admitted) /\ DOMAIN admitted = PageFields /\ BoundaryOK(admitted)
  BY <1>1 DEF Alike, SameStream, PageFields, PageOK, BoundaryOK
<1>3. PICK l : l = Routed(k, f)
  OBVIOUS
<1>4. \/ l = Null
      \/ k.boundary # Null /\ l = Finished(admitted, f)
      \/ k.boundary # Null /\ l = Buffered(admitted, f)
      \/ l = Begun(admitted, f)
      \/ l = Ordinary(admitted, f)
  BY <1>1, <1>3 DEF Routed
<1>5. l = Null \/ (SameStream(admitted, l) /\ BoundaryOK(l))
  <2>1. CASE l = Begun(admitted, f)
    BY <1>2, <2>1, BoundaryBegunIs
  <2>2. CASE l = Ordinary(admitted, f)
    BY <1>2, <2>2, OrdinaryIs DEF Alike, BoundaryOK
  <2>3. CASE k.boundary # Null /\ l = Finished(admitted, f)
    <3>1. admitted.boundary # Null
      BY <1>2, <2>3 DEF Alike
    <3> QED BY <1>2, <2>3, <3>1, FinishedIs
  <2>4. CASE k.boundary # Null /\ l = Buffered(admitted, f)
    <3>1. admitted.boundary # Null
      BY <1>2, <2>4 DEF Alike
    <3> QED BY <1>2, <2>4, <3>1, BufferedIs
  <2> QED BY <1>4, <2>1, <2>2, <2>3, <2>4
<1> QED BY <1>2, <1>3, <1>5 DEF Alike, SameStream

(* admitEnvelope and routeAdmittedFrame: the candidate is rejected, or     *)
(* stays, and then its session is that of the page's target.               *)
LEMMA HandledIs ==
    ASSUME NEW k, PageOK(k), NEW f
    PROVE  LET l == Handled(k, f)
           IN /\ PageOK(l) /\ l.started = k.started /\ l.target = k.target
              /\ \/ /\ l.candidate = Null /\ l.opened = NoTarget
                    /\ l.timer <=> k.timer \/ k.started
                 \/ SameStream(k, l) /\ k.target = k.opened
<1>1. PICK r : r = [k EXCEPT !.refused = TRUE]
  OBVIOUS
<1>2. PageOK(r) /\ SameStream(k, r)
  BY <1>1 DEF PageOK, BoundaryOK, SameStream, PageFields
<1>3. PICK routed : routed = Routed(k, f)
  OBVIOUS
<1>4. PICK l : l = Handled(k, f)
  OBVIOUS
<1>5. CASE l = Rejected(k)
  BY <1>4, <1>5, RejectedIs
<1>6. CASE l = Rejected(r)
  <2>1. /\ PageOK(l) /\ l.candidate = Null /\ l.opened = NoTarget
        /\ l.started = r.started /\ l.target = r.target
        /\ l.timer <=> r.timer \/ r.started
    BY <1>2, <1>6, RejectedIs
  <2> QED BY <1>2, <1>4, <2>1 DEF SameStream
<1>7. CASE l = routed /\ routed # Null /\ InContext(k, f)
  <2>1. SameStream(k, l) /\ BoundaryOK(l)
    BY <1>3, <1>7, RoutedIs
  <2>2. k.target = k.opened
    BY <1>7 DEF InContext
  <2>3. PageOK(l) /\ l.started = k.started /\ l.target = k.target
    BY <2>1 DEF SameStream, PageOK
  <2> QED BY <1>4, <2>1, <2>2, <2>3
<1>8. l = Rejected(k) \/ l = Rejected(r) \/ (l = routed /\ routed # Null /\ InContext(k, f))
  BY <1>1, <1>3, <1>4 DEF Handled
<1> QED BY <1>5, <1>6, <1>7, <1>8

(* stop(), and what refreshActiveTarget() begins with.                     *)
LEMMA StoppedIs ==
    ASSUME NEW k, PageOK(k)
    PROVE  LET l == StreamStopped(k)
           IN /\ PageOK(l) /\ l.candidate = Null /\ l.opened = NoTarget
              /\ ~l.timer /\ ~l.started /\ l.target = k.target
<1>1. PICK d : d = Detach(k)
  OBVIOUS
<1>2. /\ DOMAIN d = PageFields /\ d.boundary = Null /\ d.candidate = Null /\ d.opened = NoTarget
      /\ d.target = k.target
  BY <1>1, DetachIs DEF PageOK
<1>3. PICK c : c = [d EXCEPT !.timer = FALSE]
  OBVIOUS
<1>4. /\ DOMAIN c = PageFields /\ c.boundary = Null /\ c.candidate = Null /\ c.opened = NoTarget
      /\ c.target = k.target /\ c.timer = FALSE
  BY <1>2, <1>3 DEF PageFields
<1>5. StreamStopped(k) = [c EXCEPT !.started = FALSE, !.refreshing = FALSE]
  BY <1>1, <1>3 DEF StreamStopped, Disposed
<1> QED BY <1>4, <1>5 DEF PageOK, BoundaryOK, PageFields

LEMMA RefreshedIs ==
    ASSUME NEW k, PageOK(k), ~k.refreshing
    PROVE  LET l == StreamRefreshed(k)
           IN /\ PageOK(l) /\ l.candidate = Null /\ l.opened = NoTarget
              /\ ~l.timer /\ l.started = k.started /\ l.target = k.target
<1>1. PICK d : d = Detach(k)
  OBVIOUS
<1>2. /\ DOMAIN d = PageFields /\ d.boundary = Null /\ d.candidate = Null /\ d.opened = NoTarget
      /\ d.target = k.target /\ d.started = k.started
  BY <1>1, DetachIs DEF PageOK
<1>3. PICK c : c = [d EXCEPT !.timer = FALSE]
  OBVIOUS
<1>4. /\ DOMAIN c = PageFields /\ c.boundary = Null /\ c.candidate = Null /\ c.opened = NoTarget
      /\ c.target = k.target /\ c.timer = FALSE /\ c.started = k.started
  BY <1>2, <1>3 DEF PageFields
<1>5. StreamRefreshed(k) = [c EXCEPT !.refreshing = TRUE]
  BY <1>1, <1>3 DEF StreamRefreshed, Disposed
<1> QED BY <1>4, <1>5 DEF PageOK, BoundaryOK, PageFields

(* createWebSocket                                                         *)
LEMMA CandidateMadeIs ==
    ASSUME NEW k, PageOK(k), NEW s, NEW l, l = CandidateMade(k, s)
    PROVE  /\ PageOK(l) /\ l.candidate = s /\ l.opened = k.opened
           /\ ~l.timer /\ l.started = k.started /\ l.target = k.target
<1>1. /\ DOMAIN l = PageFields /\ l.candidate = s /\ l.opened = k.opened /\ l.timer = FALSE
      /\ l.started = k.started /\ l.target = k.target /\ l.boundary = k.boundary
  BY DEF CandidateMade, PageOK, PageFields
<1> QED BY <1>1 DEF PageOK, BoundaryOK

(* start() *)
LEMMA StartedStreamIs ==
    ASSUME NEW k, PageOK(k)
    PROVE  LET l == StreamStarted(k)
           IN /\ PageOK(l) /\ l.candidate = k.candidate /\ l.opened = k.opened
              /\ l.started /\ l.target = k.target
<1>1. PICK l : l = StreamStarted(k)
  OBVIOUS
<1>2. /\ DOMAIN l = PageFields /\ l.candidate = k.candidate /\ l.opened = k.opened
      /\ l.timer = k.timer /\ l.started = TRUE /\ l.target = k.target /\ l.boundary = k.boundary
  BY <1>1 DEF StreamStarted, PageOK, PageFields
<1> QED BY <1>1, <1>2 DEF PageOK, BoundaryOK

LEMMA RetargetedIs ==
    ASSUME NEW k, PageOK(k), NEW target, NEW signals
    PROVE  LET l == Retargeted(k, target, signals)
           IN /\ PageOK(l) /\ l.candidate = k.candidate /\ l.opened = k.opened
              /\ l.timer = k.timer /\ l.started = k.started /\ l.target = target
<1>1. PICK l : l = Retargeted(k, target, signals)
  OBVIOUS
<1>2. /\ DOMAIN l = PageFields /\ l.candidate = k.candidate /\ l.opened = k.opened
      /\ l.timer = k.timer /\ l.started = k.started /\ l.target = target
      /\ l.boundary = k.boundary
  BY <1>1 DEF Retargeted, PageOK, PageFields
<1> QED BY <1>1, <1>2 DEF PageOK, BoundaryOK

-----------------------------------------------------------------------------
(* The steps of the data plane keep the invariant.                         *)

LEMMA StreamsPrimed ==
    ASSUME StreamsHold(hub', browser', project')
    PROVE  StreamsInv'
  BY DEF StreamsInv, StreamsHold, HubOK, SocketOK, EndsClosed, StreamOK, PageOK, CandidateOK,
     BoundaryOK, Reaches, StreamRuns, IsSequence

LEMMA StillReaches ==
    ASSUME NEW h, NEW g, NEW k, Reaches(h, k),
           k.candidate # Null => SocketGoes(h.socket[k.candidate], g.socket[k.candidate])
    PROVE  Reaches(g, k)
  BY DEF Reaches, SocketGoes

(* The hub does something, the pages do not.                               *)
LEMMA HubStep ==
    ASSUME StreamsInv, HubGoes(hub, hub'), UNCHANGED <<browser, project>>
    PROVE  StreamsInv'
<1>1. ASSUME NEW b \in Browsers PROVE StreamOK(project[b], browser[b]) /\ Reaches(hub', browser[b])
  <2>1. StreamOK(project[b], browser[b]) /\ Reaches(hub, browser[b])
    BY DEF StreamsInv, StreamsHold
  <2>2. PICK s : s = browser[b].candidate
    OBVIOUS
  <2>3. s # Null => s \in Sockets
    BY <2>1, <2>2 DEF StreamOK, CandidateOK
  <2>4. s # Null => SocketGoes(hub.socket[s], hub'.socket[s])
    BY <2>3 DEF HubGoes
  <2>5. Reaches(hub', browser[b])
    BY <2>1, <2>2, <2>4, StillReaches
  <2> QED BY <2>1, <2>5
<1>2. StreamsHold(hub', browser, project)
  BY <1>1 DEF StreamsInv, StreamsHold, HubGoes
<1>3. StreamsHold(hub', browser', project')
  BY <1>2
<1> QED BY <1>3, StreamsPrimed

(* A page does something, the others do not, and neither does the hub to   *)
(* their sockets.                                                          *)
LEMMA OnePageStep ==
    ASSUME StreamsInv, NEW b \in Browsers, NEW k, NEW p, HubOK(hub'),
           browser' = [browser EXCEPT ![b] = k],
           \A c \in Browsers : project'[c] = IF c = b THEN p ELSE project[c],
           StreamOK(p, k), Reaches(hub', k),
           \A c \in Browsers \ {b} :
              browser[c].candidate # Null =>
                 /\ browser[c].candidate # k.candidate
                 /\ SocketGoes(hub.socket[browser[c].candidate], hub'.socket[browser[c].candidate])
    PROVE  StreamsInv'
<1>1. \A c \in Browsers : browser'[c] = IF c = b THEN k ELSE browser[c]
  BY DEF StreamsInv, StreamsHold
<1>2. browser' = [c \in Browsers |-> browser'[c]]
  BY DEF StreamsInv, StreamsHold
<1>3. ASSUME NEW c \in Browsers
      PROVE  StreamOK(project'[c], browser'[c]) /\ Reaches(hub', browser'[c])
  <2>1. CASE c = b
    BY <1>1, <2>1
  <2>2. CASE c # b
    <3>1. StreamOK(project[c], browser[c]) /\ Reaches(hub, browser[c])
      BY DEF StreamsInv, StreamsHold
    <3>2. PICK s : s = browser[c].candidate
      OBVIOUS
    <3>3. s # Null => s \in Sockets
      BY <3>1, <3>2 DEF StreamOK, CandidateOK
    <3>4. s # Null => SocketGoes(hub.socket[s], hub'.socket[s])
      BY <2>2, <3>2, <3>3 DEF HubGoes, SocketGoes
    <3>5. Reaches(hub', browser[c])
      BY <3>1, <3>2, <3>4, StillReaches
    <3> QED BY <1>1, <2>2, <3>1, <3>5
  <2> QED BY <2>1, <2>2
<1>4. ASSUME NEW c \in Browsers, NEW d \in Browsers,
             browser'[c].candidate # Null, browser'[c].candidate = browser'[d].candidate
      PROVE  c = d
  <2>1. CASE c # b /\ d # b
    BY <1>1, <1>4, <2>1 DEF StreamsInv, StreamsHold
  <2>2. CASE c = b /\ d # b
    BY <1>1, <1>4, <2>2
  <2>3. CASE c # b /\ d = b
    BY <1>1, <1>4, <2>3
  <2> QED BY <2>1, <2>2, <2>3
<1>5. StreamsHold(hub', browser', project')
  BY <1>2, <1>3, <1>4 DEF StreamsHold
<1> QED BY <1>5, StreamsPrimed

LEMMA NewSocketIs ==
    ASSUME Connectable
    PROVE  NewSocket \in Sockets /\ hub.socket[NewSocket] = DetachedSocket /\ ~Owned(NewSocket)
<1>1. \E s \in Sockets : Free(s)
  BY DEF Connectable
<1>2. NewSocket \in Sockets /\ Free(NewSocket)
  BY <1>1 DEF NewSocket
<1> QED BY <1>2 DEF Free

(* The page that has a candidate has a target.                             *)
LEMMA TargetIs ==
    ASSUME NEW p, NEW k, StreamOK(p, k), k.candidate # Null
    PROVE  k.target # NoTarget
<1>1. k.target.graph # Null
  BY DEF StreamOK, CandidateOK, StreamRuns
<1>2. NoTarget.graph = Null
  BY DEF NoTarget
<1> QED BY <1>1, <1>2

(* What is known of a page and its socket before a step.                   *)
LEMMA PageBefore ==
    ASSUME StreamsInv, NEW b \in Browsers
    PROVE  /\ HubOK(hub) /\ StreamOK(project[b], browser[b]) /\ Reaches(hub, browser[b])
           /\ browser[b].candidate \in Sockets \cup {Null}
           /\ \A c \in Browsers \ {b} :
                 browser[c].candidate # Null => /\ browser[c].candidate \in Sockets
                                                /\ browser[c].candidate # browser[b].candidate
  BY DEF StreamsInv, StreamsHold, StreamOK, CandidateOK

(* A page without a candidate: all that was to be read is given up.        *)
LEMMA WithoutCandidate ==
    ASSUME StreamsInv, NEW b \in Browsers, NEW k, PageOK(k), k.candidate = Null,
           k.opened = NoTarget, k.started = browser[b].started, k.target = browser[b].target,
           k.timer <=> k.started,
           Page(b, k), UNCHANGED project,
           \/ hub' = GivenUp(hub, browser[b].candidate)
           \/ hub' = hub
           \/ /\ browser[b].candidate # Null
              /\ hub.socket[browser[b].candidate].net # <<>>
              /\ hub' = NextRead(hub, browser[b].candidate)
    PROVE  StreamsInv'
<1>1. PICK s : s = browser[b].candidate
  OBVIOUS
<1>2. /\ HubOK(hub) /\ StreamOK(project[b], browser[b])
      /\ s \in Sockets \cup {Null}
      /\ \A c \in Browsers \ {b} :
            browser[c].candidate # Null => browser[c].candidate \in Sockets /\ browser[c].candidate # s
  BY <1>1, PageBefore
<1>3. HubOK(hub') /\ \A r \in Sockets \ {s} : hub'.socket[r] = hub.socket[r]
  <2>1. CASE hub' = GivenUp(hub, s)
    BY <1>2, <2>1, GivenUpIs
  <2>2. CASE hub' = hub
    BY <1>2, <2>2
  <2>3. CASE s # Null /\ hub.socket[s].net # <<>> /\ hub' = NextRead(hub, s)
    <3>1. PICK g : g = hub'
      OBVIOUS
    <3>2. s \in Sockets /\ g = NextRead(hub, s)
      BY <1>2, <2>3, <3>1
    <3>3. HubOK(g) /\ \A r \in Sockets \ {s} : g.socket[r] = hub.socket[r]
      BY <1>2, <2>3, <3>2, ReadIs
    <3> QED BY <3>1, <3>3
  <2> QED BY <1>1, <2>1, <2>2, <2>3
<1>4. StreamOK(project[b], k)
  BY <1>2 DEF StreamOK, CandidateOK
<1>5. Reaches(hub', k)
  BY DEF Reaches
<1>6. browser' = [browser EXCEPT ![b] = k]
  BY DEF Page
<1>7. PICK p : p = project[b]
  OBVIOUS
<1>8. \A c \in Browsers : project'[c] = IF c = b THEN p ELSE project[c]
  BY <1>7
<1>9. \A c \in Browsers \ {b} :
         browser[c].candidate # Null =>
            /\ browser[c].candidate # k.candidate
            /\ SocketGoes(hub.socket[browser[c].candidate], hub'.socket[browser[c].candidate])
  BY <1>2, <1>3 DEF SocketGoes
<1> QED BY <1>3, <1>4, <1>5, <1>6, <1>7, <1>8, <1>9, OnePageStep

LEMMA ReadingStep ==
    ASSUME StreamsInv, NEW b \in Browsers, Arrives(b), Read(b), UNCHANGED project,
           NEW k, PageOK(k), Page(b, k), k.candidate = browser[b].candidate,
           k.started = browser[b].started, k.target = browser[b].target,
           k.timer = browser[b].timer, k.opened = k.target, Incoming(b) # Closed
    PROVE  StreamsInv'
<1>1. PICK s : s = browser[b].candidate
  OBVIOUS
<1>2. /\ HubOK(hub) /\ StreamOK(project[b], browser[b])
      /\ s \in Sockets /\ s # Null
      /\ \A c \in Browsers \ {b} :
            browser[c].candidate # Null => browser[c].candidate \in Sockets /\ browser[c].candidate # s
  BY <1>1, PageBefore DEF Arrives
<1>3. PICK g : g = hub'
  OBVIOUS
<1>4. hub.socket[s].net # <<>> /\ Head(hub.socket[s].net) # Closed
        /\ g = NextRead(hub, s)
  BY <1>1, <1>3 DEF Arrives, Incoming, Read, NextRead
<1>5. /\ HubOK(g) /\ \A r \in Sockets \ {s} : g.socket[r] = hub.socket[r]
      /\ g.socket[s].net = <<>> => g.socket[s].attached
  BY <1>2, <1>4, ReadIs
<1>6. StreamOK(project[b], k)
  BY <1>1, <1>2 DEF StreamOK, CandidateOK
<1>7. k.opened # NoTarget
  BY <1>1, <1>2, <1>6, TargetIs
<1>8. Reaches(g, k)
  BY <1>1, <1>5, <1>7 DEF Reaches
<1>9. browser' = [browser EXCEPT ![b] = k]
  BY DEF Page
<1>10. PICK p : p = project[b]
  OBVIOUS
<1>11. \A c \in Browsers : project'[c] = IF c = b THEN p ELSE project[c]
  BY <1>10
<1>12. \A c \in Browsers \ {b} :
         browser[c].candidate # Null =>
            /\ browser[c].candidate # k.candidate
            /\ SocketGoes(hub.socket[browser[c].candidate], hub'.socket[browser[c].candidate])
  BY <1>1, <1>2, <1>3, <1>5 DEF SocketGoes
<1> QED BY <1>3, <1>5, <1>6, <1>8, <1>9, <1>10, <1>11, <1>12, OnePageStep

(* A new connection, with the earlier one given up.                        *)
LEMMA ConnectingStep ==
    ASSUME StreamsInv, NEW b \in Browsers, Connectable, UNCHANGED project,
           NEW k, PageOK(k), Page(b, k), k.candidate = NewSocket, k.opened = NoTarget,
           k.started = browser[b].started, k.target = browser[b].target, ~k.timer,
           browser[b].started, hub' = GivenUp(hub, browser[b].candidate)
    PROVE  StreamsInv'
<1>1. PICK s : s = browser[b].candidate
  OBVIOUS
<1>2. /\ HubOK(hub) /\ StreamOK(project[b], browser[b])
      /\ s \in Sockets \cup {Null}
      /\ \A c \in Browsers \ {b} :
            browser[c].candidate # Null => browser[c].candidate \in Sockets /\ browser[c].candidate # s
  BY <1>1, PageBefore
<1>3. PICK n : n = NewSocket
  OBVIOUS
<1>4. n \in Sockets /\ hub.socket[n] = DetachedSocket /\ \A c \in Browsers : browser[c].candidate # n
  BY <1>3, NewSocketIs DEF Owned
<1>5. HubOK(hub') /\ \A r \in Sockets \ {s} : hub'.socket[r] = hub.socket[r]
  BY <1>1, <1>2, GivenUpIs
<1>6. n # Null
  BY <1>4, HubAssumption
<1>7. StreamOK(project[b], k)
  BY <1>2, <1>3, <1>4, <1>6 DEF StreamOK, CandidateOK
<1>8. n # s
  BY <1>1, <1>4
<1>9. hub'.socket[n] = DetachedSocket
  BY <1>4, <1>5, <1>8
<1>10. DetachedSocket.attached = FALSE
  BY DEF DetachedSocket
<1>11. Reaches(hub', k)
  BY <1>3, <1>9, <1>10 DEF Reaches
<1>12. browser' = [browser EXCEPT ![b] = k]
  BY DEF Page
<1>13. PICK p : p = project[b]
  OBVIOUS
<1>14. \A c \in Browsers : project'[c] = IF c = b THEN p ELSE project[c]
  BY <1>13
<1>15. \A c \in Browsers \ {b} :
         browser[c].candidate # Null =>
            /\ browser[c].candidate # k.candidate
            /\ SocketGoes(hub.socket[browser[c].candidate], hub'.socket[browser[c].candidate])
  BY <1>2, <1>3, <1>4, <1>5 DEF SocketGoes
<1> QED BY <1>5, <1>7, <1>11, <1>12, <1>13, <1>14, <1>15, OnePageStep

LEMMA RefreshSteps ==
    ASSUME StreamsInv, NEW b \in Browsers, PageRefreshes(b), UNCHANGED project
    PROVE  StreamsInv'
<1>1. PICK k : k = browser[b]
  OBVIOUS
<1>2. StreamOK(project[b], k)
  BY <1>1, PageBefore
<1>3. PageOK(k) /\ k.started /\ ~k.refreshing /\ Connectable
  BY <1>1, <1>2 DEF StreamOK, PageRefreshes
<1>4. PICK r : r = StreamRefreshed(k)
  OBVIOUS
<1>5. /\ PageOK(r) /\ r.candidate = Null /\ r.opened = NoTarget
      /\ ~r.timer /\ r.started = k.started /\ r.target = k.target
  BY <1>3, <1>4, RefreshedIs
<1>6. PICK n : n = NewSocket
  OBVIOUS
<1>7. PICK m : m = CandidateMade(r, n)
  OBVIOUS
<1>8. /\ PageOK(m) /\ m.candidate = n /\ m.opened = r.opened
      /\ ~m.timer /\ m.started = r.started /\ m.target = r.target
  BY <1>5, <1>7, CandidateMadeIs
<1>9. Page(b, m) /\ hub' = GivenUp(hub, browser[b].candidate)
  BY <1>1, <1>4, <1>6, <1>7 DEF PageRefreshes
<1> QED BY <1>1, <1>3, <1>5, <1>6, <1>8, <1>9, ConnectingStep

LEMMA TimerSteps ==
    ASSUME StreamsInv, NEW b \in Browsers, TimerFires(b), UNCHANGED project
    PROVE  StreamsInv'
<1>1. PICK k : k = browser[b]
  OBVIOUS
<1>2. StreamOK(project[b], k)
  BY <1>1, PageBefore
<1>3. PageOK(k) /\ k.timer /\ Connectable
  BY <1>1, <1>2 DEF StreamOK, TimerFires
<1>4. k.candidate = Null /\ k.opened = NoTarget /\ k.started
  BY <1>2, <1>3 DEF StreamOK, CandidateOK
<1>5. PICK n : n = NewSocket
  OBVIOUS
<1>6. PICK m : m = CandidateMade(k, n)
  OBVIOUS
<1>7. /\ PageOK(m) /\ m.candidate = n /\ m.opened = k.opened
      /\ ~m.timer /\ m.started = k.started /\ m.target = k.target
  BY <1>3, <1>6, CandidateMadeIs
<1>8. Page(b, m) /\ hub' = hub
  BY <1>1, <1>5, <1>6 DEF TimerFires
<1>9. hub' = GivenUp(hub, browser[b].candidate)
  BY <1>1, <1>4, <1>8 DEF GivenUp
<1> QED BY <1>1, <1>3, <1>4, <1>5, <1>7, <1>8, <1>9, ConnectingStep

LEMMA UpgradeSteps ==
    ASSUME StreamsInv, NEW b \in Browsers, Upgrade(b), UNCHANGED project
    PROVE  StreamsInv'
<1>1. PICK k : k = browser[b]
  OBVIOUS
<1>2. PICK s : s = k.candidate
  OBVIOUS
<1>3. /\ HubOK(hub) /\ StreamOK(project[b], k)
      /\ s \in Sockets \cup {Null}
      /\ \A c \in Browsers \ {b} :
            browser[c].candidate # Null => browser[c].candidate \in Sockets /\ browser[c].candidate # s
  BY <1>1, <1>2, PageBefore
<1>4. s # Null /\ hub' = Attached(hub, s) /\ browser' = browser
  BY <1>1, <1>2 DEF Upgrade, Awaited
<1>5. s \in Sockets
  BY <1>3, <1>4
<1>6. PICK g : g = Attached(hub, s)
  OBVIOUS
<1>7. /\ HubOK(g) /\ g.socket[s].net # <<>>
      /\ \A r \in Sockets \ {s} : SocketGoes(hub.socket[r], g.socket[r])
  BY <1>3, <1>5, <1>6, AttachedGoes
<1>8. Reaches(hub', k)
  BY <1>2, <1>4, <1>6, <1>7 DEF Reaches
<1>9. browser' = [browser EXCEPT ![b] = k]
  <2>1. browser = [c \in Browsers |-> browser[c]]
    BY DEF StreamsInv, StreamsHold
  <2> QED BY <1>1, <1>4, <2>1
<1>10. PICK p : p = project[b]
  OBVIOUS
<1>11. \A c \in Browsers : project'[c] = IF c = b THEN p ELSE project[c]
  BY <1>10
<1>12. \A c \in Browsers \ {b} :
         browser[c].candidate # Null =>
            /\ browser[c].candidate # k.candidate
            /\ SocketGoes(hub.socket[browser[c].candidate], hub'.socket[browser[c].candidate])
  BY <1>2, <1>3, <1>4, <1>6, <1>7
<1>13. HubOK(hub') /\ StreamOK(p, k)
  BY <1>3, <1>4, <1>6, <1>7, <1>10
<1> QED BY <1>8, <1>9, <1>11, <1>12, <1>13, OnePageStep

LEMMA OpenSteps ==
    ASSUME StreamsInv, NEW b \in Browsers, SocketOpens(b), UNCHANGED project
    PROVE  StreamsInv'
<1>1. PICK k : k = browser[b]
  OBVIOUS
<1>2. StreamOK(project[b], k)
  BY <1>1, PageBefore
<1>3. PageOK(k)
  BY <1>2 DEF StreamOK
<1>4. PICK l : l = SessionOpened(k)
  OBVIOUS
<1>5. /\ PageOK(l) /\ l.candidate = k.candidate /\ l.opened = k.target
      /\ l.started = k.started /\ l.target = k.target /\ l.timer = k.timer
  BY <1>3, <1>4, SessionOpenedIs
<1>6. Opened # Closed
  BY DEF Opened, Closed
<1>7. Arrives(b) /\ Read(b) /\ Page(b, l) /\ Incoming(b) # Closed
  BY <1>1, <1>4, <1>6 DEF SocketOpens
<1>8. l.opened = l.target
  BY <1>5
<1> QED BY <1>1, <1>5, <1>7, <1>8, ReadingStep

(* The page lets the socket go, or reads that the server has.              *)
LEMMA RejectionSteps ==
    ASSUME StreamsInv, NEW b \in Browsers, Page(b, Rejected(browser[b])), UNCHANGED project,
           \/ hub' = GivenUp(hub, browser[b].candidate)
           \/ hub' = hub
           \/ Arrives(b) /\ Read(b)
    PROVE  StreamsInv'
<1>1. PICK k : k = browser[b]
  OBVIOUS
<1>2. StreamOK(project[b], k)
  BY <1>1, PageBefore
<1>3. PageOK(k) /\ (k.timer => k.started)
  BY <1>2 DEF StreamOK, CandidateOK
<1>4. PICK l : l = Rejected(k)
  OBVIOUS
<1>5. /\ PageOK(l) /\ l.candidate = Null /\ l.opened = NoTarget
      /\ l.started = k.started /\ l.target = k.target
      /\ l.timer <=> k.timer \/ k.started
  BY <1>3, <1>4, RejectedIs
<1>6. l.timer <=> l.started
  BY <1>3, <1>5
<1>7. Page(b, l)
  BY <1>1, <1>4
<1>8. CASE Arrives(b) /\ Read(b)
  <2>1. /\ browser[b].candidate # Null
        /\ hub.socket[browser[b].candidate].net # <<>>
        /\ hub' = NextRead(hub, browser[b].candidate)
    BY <1>8 DEF Arrives, Read, NextRead
  <2> QED BY <1>1, <1>5, <1>6, <1>7, <2>1, WithoutCandidate
<1>9. CASE hub' = GivenUp(hub, browser[b].candidate)
  BY <1>1, <1>5, <1>6, <1>7, <1>9, WithoutCandidate
<1>10. CASE hub' = hub
  BY <1>1, <1>5, <1>6, <1>7, <1>10, WithoutCandidate
<1> QED BY <1>8, <1>9, <1>10

LEMMA FrameSteps ==
    ASSUME StreamsInv, NEW b \in Browsers, FrameArrives(b), UNCHANGED project
    PROVE  StreamsInv'
<1>1. PICK k : k = browser[b]
  OBVIOUS
<1>2. StreamOK(project[b], k)
  BY <1>1, PageBefore
<1>3. PageOK(k) /\ (k.timer => k.started)
  BY <1>2 DEF StreamOK, CandidateOK
<1>4. PICK f : f = Incoming(b)
  OBVIOUS
<1>5. PICK l : l = Handled(k, f)
  OBVIOUS
<1>6. /\ Arrives(b) /\ f # Closed /\ Page(b, l)
      /\ IF l.candidate = Null THEN hub' = GivenUp(hub, k.candidate) ELSE Read(b)
  BY <1>1, <1>4, <1>5 DEF FrameArrives
<1>7. k.candidate # Null
  BY <1>1, <1>6 DEF Arrives
<1>8. /\ PageOK(l) /\ l.started = k.started /\ l.target = k.target
      /\ \/ /\ l.candidate = Null /\ l.opened = NoTarget
            /\ l.timer <=> k.timer \/ k.started
         \/ SameStream(k, l) /\ k.target = k.opened
  BY <1>3, <1>5, HandledIs
<1>9. CASE /\ l.candidate = Null /\ l.opened = NoTarget
           /\ l.timer <=> k.timer \/ k.started
  <2>1. l.timer <=> l.started
    BY <1>3, <1>8, <1>9
  <2>2. hub' = GivenUp(hub, browser[b].candidate)
    BY <1>1, <1>6, <1>9
  <2> QED BY <1>1, <1>6, <1>8, <1>9, <2>1, <2>2, WithoutCandidate
<1>10. CASE SameStream(k, l) /\ k.target = k.opened
  <2>1. /\ l.candidate = k.candidate /\ l.timer = k.timer /\ l.opened = k.opened
        /\ l.opened = l.target
    BY <1>10, <1>8 DEF SameStream
  <2>2. Read(b)
    BY <1>6, <1>7, <2>1
  <2> QED BY <1>1, <1>4, <1>6, <1>8, <2>1, <2>2, ReadingStep
<1> QED BY <1>8, <1>9, <1>10

(* What the pages do with their sockets.                                   *)
LEMMA PageStepHolds ==
    ASSUME StreamsInv, NEW b \in Browsers, PageStep(b), UNCHANGED project
    PROVE  StreamsInv'
<1>1. CASE PageRefreshes(b)
  BY <1>1, RefreshSteps
<1>2. CASE TimerFires(b)
  BY <1>2, TimerSteps
<1>3. CASE Upgrade(b)
  BY <1>3, UpgradeSteps
<1>4. CASE SocketOpens(b)
  BY <1>4, OpenSteps
<1>5. CASE SocketCloses(b)
  BY <1>5, RejectionSteps DEF SocketCloses
<1>6. CASE FrameArrives(b)
  BY <1>6, FrameSteps
<1>7. CASE ConnectionRefused(b)
  BY <1>7, RejectionSteps DEF ConnectionRefused
<1>8. CASE ConnectionBreaks(b)
  BY <1>8, RejectionSteps DEF ConnectionBreaks
<1> QED BY <1>1, <1>2, <1>3, <1>4, <1>5, <1>6, <1>7, <1>8 DEF PageStep, PageProgress

LEMMA SocketStepHolds ==
    ASSUME StreamsInv, NEW s \in Sockets, SocketStep(s), UNCHANGED project
    PROVE  StreamsInv'
<1>1. PICK h : h = hub
  OBVIOUS
<1>2. HubOK(h)
  BY <1>1 DEF StreamsInv, StreamsHold
<1>3. CASE SendCallback(s)
  <2>1. h.socket[s].attached /\ hub' = Called(h, s) /\ browser' = browser
    BY <1>1, <1>3 DEF SendCallback
  <2>2. HubGoes(h, hub')
    BY <1>2, <2>1, CalledGoes
  <2> QED BY <1>1, <2>1, <2>2, HubStep
<1>4. CASE SendFails(s)
  <2>1. h.socket[s].attached /\ hub' = Failed(h, s) /\ browser' = browser
    BY <1>1, <1>4 DEF SendFails
  <2>2. HubGoes(h, hub')
    BY <1>2, <2>1, FailedGoes
  <2> QED BY <1>1, <2>1, <2>2, HubStep
<1>5. CASE PeerGone(s)
  <2>1. hub' = Detached(h, s) /\ browser' = browser /\ ~Owned(s)
    BY <1>1, <1>5 DEF PeerGone
  <2>2. PICK g : g = Detached(h, s)
    OBVIOUS
  <2>3. HubOK(g) /\ \A r \in Sockets \ {s} : g.socket[r] = h.socket[r]
    BY <1>2, <2>2, DetachedIs
  <2>4. ASSUME NEW b \in Browsers
        PROVE  StreamOK(project[b], browser[b]) /\ Reaches(g, browser[b])
    <3>1. PICK k : k = browser[b]
      OBVIOUS
    <3>2. StreamOK(project[b], k) /\ Reaches(h, k)
      BY <1>1, <3>1 DEF StreamsInv, StreamsHold
    <3>3. PICK r : r = k.candidate
      OBVIOUS
    <3>4. r # Null => r \in Sockets /\ r # s
      BY <2>1, <3>1, <3>2, <3>3 DEF Owned, StreamOK, CandidateOK
    <3>5. r # Null => g.socket[r] = h.socket[r]
      BY <2>3, <3>4
    <3>6. Reaches(g, k)
      BY <3>2, <3>3, <3>5 DEF Reaches
    <3> QED BY <3>1, <3>2, <3>6
  <2>5. StreamsHold(g, browser, project)
    BY <2>3, <2>4 DEF StreamsInv, StreamsHold
  <2>6. StreamsHold(hub', browser', project')
    BY <2>1, <2>2, <2>5
  <2> QED BY <2>6, StreamsPrimed
<1> QED BY <1>3, <1>4, <1>5 DEF SocketStep

(* An endpoint publishes what it has to say, or nothing.                   *)
LEMMA EndpointStepHolds ==
    ASSUME StreamsInv, EndpointInv, NEW e \in Endpoints, EndpointStep(e), UNCHANGED project
    PROVE  StreamsInv'
<1>1. Announced
  BY EndpointStepOK
<1>2. UNCHANGED browser
  BY DEF EndpointStep
<1>3. PICK h : h = hub
  OBVIOUS
<1>4. HubOK(h)
  BY <1>3 DEF StreamsInv, StreamsHold
<1>5. CASE hub' = h
  BY <1>2, <1>3, <1>4, <1>5, HubStays, HubStep
<1>6. CASE hub' # h
  <2>1. PICK out : IsSequence(out) /\ hub' = FoldLeft(Published, h, out)
    BY <1>1, <1>3, <1>6 DEF Announced
  <2>2. HubGoes(h, hub')
    BY <1>4, <2>1, AllPublishedGo
  <2> QED BY <1>2, <1>3, <2>2, HubStep
<1> QED BY <1>5, <1>6

LEMMA GatewayStepHolds ==
    ASSUME StreamsInv, GatewayStep, UNCHANGED project
    PROVE  StreamsInv'
<1>1. PICK h : h = hub
  OBVIOUS
<1>2. HubOK(h)
  BY <1>1 DEF StreamsInv, StreamsHold
<1>3. UNCHANGED browser
  BY DEF GatewayStep, StopPrevious, StartCandidate, RecoverPrevious, RecoveryFails,
     RecoveryRequired, Activate, Withdraw, Deactivate
<1>4. \/ hub' = h
      \/ hub' = Deactivated(h)
      \/ hub' = Activated(h, Activation, StagedMessages)
  BY <1>1 DEF GatewayStep, StopPrevious, StartCandidate, RecoverPrevious, RecoveryFails,
     RecoveryRequired, Activate, Withdraw, Deactivate
<1>5. PICK activation : activation = Activation
  OBVIOUS
<1>6. PICK messages : messages = StagedMessages
  OBVIOUS
<1>7. HubGoes(h, h) /\ HubGoes(h, Activated(h, activation, messages)) /\ HubGoes(h, Deactivated(h))
  BY <1>2, HubStays, ActivatedGoes
<1>8. HubGoes(h, hub')
  BY <1>4, <1>5, <1>6, <1>7
<1> QED BY <1>1, <1>3, <1>8, HubStep

(* What is not the page's runtime: the pages come from the scenario.       *)
LEMMA NextHolds ==
    ASSUME StreamsInv, EndpointInv, scenario \in Scenarios, Next, UNCHANGED project
    PROVE  StreamsInv'
<1>1. scenario.browsers \subseteq Browsers
  BY DataPlaneAssumption
<1>2. CASE \E e \in Endpoints : EndpointStep(e)
  BY <1>2, EndpointStepHolds
<1>3. CASE GatewayStep
  BY <1>3, GatewayStepHolds
<1>4. CASE \E s \in Sockets : SocketStep(s)
  BY <1>4, SocketStepHolds
<1>5. CASE \E b \in Browsers : PageStep(b)
  BY <1>5, PageStepHolds
<1> QED BY <1>2, <1>3, <1>4, <1>5 DEF Next

-----------------------------------------------------------------------------
(* The page's runtime: what its operations do to the stream.               *)

(* Of its socket the page keeps what it has, or it has none, or a new one. *)
Continues(k, l) ==
    \/ l = k
    \/ l.candidate = Null
    \/ Connectable /\ l.candidate = NewSocket /\ l.opened = NoTarget

(* What the runtime changes of a page, it changes while nothing is open.   *)
PagesKept == \A b \in Browsers : browser'[b] = browser[b] \/ browser'[b].opened = NoTarget

LEMMA BecomesHolds ==
    ASSUME StreamsInv, GraphsInv, NEW b \in Browsers, NEW x, Becomes(b, x),
           NEW q, q = x.project, NEW l, l = x.page, StreamOK(q, l),
           NEW k, k = browser[b], Continues(k, l)
    PROVE  StreamsInv' /\ PagesKept
<1>1. PICK s : s = k.candidate
  OBVIOUS
<1>2. /\ HubOK(hub) /\ Reaches(hub, k)
      /\ s \in Sockets \cup {Null}
      /\ \A c \in Browsers \ {b} :
            browser[c].candidate # Null => browser[c].candidate \in Sockets /\ browser[c].candidate # s
  BY <1>1, PageBefore
<1>3. /\ hub' = IF l.candidate = s THEN hub ELSE GivenUp(hub, s)
      /\ browser' = [browser EXCEPT ![b] = l]
      /\ project' = [project EXCEPT ![b] = q]
  BY <1>1 DEF Becomes, Page
<1>4. HubOK(hub') /\ \A r \in Sockets \ {s} : hub'.socket[r] = hub.socket[r]
  BY <1>2, <1>3, GivenUpIs
<1>5. \A c \in Browsers : project'[c] = IF c = b THEN q ELSE project[c]
  BY <1>3 DEF GraphsInv
<1>9. browser' = [browser EXCEPT ![b] = l]
  BY <1>3
<1>8. l.opened = NoTarget \/ l = k => PagesKept
  BY <1>9 DEF PagesKept, StreamsInv, StreamsHold
<1>6. CASE Connectable /\ l.candidate = NewSocket /\ l.opened = NoTarget
  <2>1. PICK n : n = NewSocket
    OBVIOUS
  <2>2. n \in Sockets /\ hub.socket[n] = DetachedSocket /\ \A c \in Browsers : browser[c].candidate # n
    BY <1>6, <2>1, NewSocketIs DEF Owned
  <2>3. n # s
    BY <1>1, <2>2
  <2>4. hub'.socket[n] = DetachedSocket
    BY <1>4, <2>2, <2>3
  <2>5. DetachedSocket.attached = FALSE
    BY DEF DetachedSocket
  <2>6. Reaches(hub', l)
    BY <1>6, <2>1, <2>4, <2>5 DEF Reaches
  <2>7. \A c \in Browsers \ {b} :
           browser[c].candidate # Null =>
              /\ browser[c].candidate # l.candidate
              /\ SocketGoes(hub.socket[browser[c].candidate], hub'.socket[browser[c].candidate])
    BY <1>2, <1>4, <1>6, <2>1, <2>2 DEF SocketGoes
  <2>8. HubOK(hub')
    BY <1>4
  <2>9. StreamsInv'
    BY <1>5, <1>9, <2>6, <2>7, <2>8, OnePageStep
  <2> QED BY <1>6, <1>8, <2>9
<1>7. CASE l.candidate = Null \/ l = k
  <2>1. Reaches(hub', l) /\ l.candidate \in {Null, s}
    BY <1>1, <1>2, <1>3, <1>7 DEF Reaches
  <2>2. \A c \in Browsers \ {b} :
           browser[c].candidate # Null =>
              /\ browser[c].candidate # l.candidate
              /\ SocketGoes(hub.socket[browser[c].candidate], hub'.socket[browser[c].candidate])
    BY <1>2, <1>4, <2>1 DEF SocketGoes
  <2>3. HubOK(hub')
    BY <1>4
  <2>4. StreamsInv'
    BY <1>5, <1>9, <2>1, <2>2, <2>3, OnePageStep
  <2>5. l.opened = NoTarget \/ l = k
    BY <1>7 DEF StreamOK, CandidateOK
  <2> QED BY <1>8, <2>4, <2>5
<1> QED BY <1>1, <1>6, <1>7 DEF Continues

(* What does not concern the stream.                                       *)
StreamAs(p, q) == (StreamRuns(q) <=> StreamRuns(p)) /\ q.active = p.active

LEMMA QuietHolds ==
    ASSUME StreamsInv, GraphsInv, NEW b \in Browsers, NEW x, Becomes(b, x),
           NEW q, q = x.project, x.page = browser[b], StreamAs(project[b], q)
    PROVE  StreamsInv' /\ PagesKept
<1>1. PICK k : k = browser[b]
  OBVIOUS
<1>2. StreamOK(project[b], k)
  BY <1>1, PageBefore
<1>3. StreamOK(q, k)
  BY <1>2 DEF StreamOK, StreamAs
<1>4. k = x.page /\ Continues(k, k)
  BY <1>1 DEF Continues
<1> QED BY <1>1, <1>3, <1>4, BecomesHolds

LEMMA SameStreams ==
    ASSUME NEW p, NEW q, SameBut(p, q)
    PROVE  StreamAs(p, q)
  BY DEF SameBut, StreamAs, StreamRuns

LEMMA WithStreams ==
    ASSUME NEW p, GraphsShape(p), NEW g, NEW r
    PROVE  StreamAs(p, With(p, g, r))
<1>1. PICK graph : graph = [p.graph EXCEPT ![g] = r]
  OBVIOUS
<1>2. With(p, g, r) = [p EXCEPT !.graph = graph]
  BY <1>1 DEF With
<1>3. p = [f \in ProjectFields |-> p[f]]
  BY DEF GraphsShape
<1> QED BY <1>2, <1>3 DEF StreamAs, StreamRuns, ProjectFields

(* One field of one graph.                                                 *)
LEMMA OneGraphQuiet ==
    ASSUME StreamsInv, GraphsInv, NEW b \in Browsers, NEW g \in Graphs, NEW r,
           Becomes(b, [PageOf(b) EXCEPT !.project.graph[g] = r])
    PROVE  StreamsInv' /\ PagesKept
<1>1. PICK y : y = [PageOf(b) EXCEPT !.project.graph[g] = r]
  OBVIOUS
<1>2. GraphsShape(project[b])
  BY ProjectOKShape DEF GraphsInv
<1>3. y.page = browser[b] /\ y.project = With(project[b], g, r)
  BY <1>1, <1>2, OneGraph
<1>4. PICK q : q = y.project
  OBVIOUS
<1>5. StreamAs(project[b], q)
  BY <1>2, <1>3, <1>4, WithStreams
<1> QED BY <1>1, <1>3, <1>4, <1>5, QuietHolds

LEMMA ConsumedQuiet ==
    ASSUME StreamsInv, GraphsInv, NEW b \in Browsers, NEW g \in Graphs,
           Becomes(b, Consumed(b, PageOf(b), g))
    PROVE  StreamsInv' /\ PagesKept
<1>1. PICK y : y = Consumed(b, PageOf(b), g)
  OBVIOUS
<1>2. PICK x : x = PageOf(b)
  OBVIOUS
<1>3. PICK p : p = project[b]
  OBVIOUS
<1>4. PageShape(x) /\ x.project = p /\ GraphsShape(p) /\ x.page = browser[b]
  BY <1>2, <1>3, PageOfShape, ProjectOKShape DEF GraphsInv, PageOf
<1>5. PICK q : q = y.project
  OBVIOUS
<1>6. y = Consumed(b, x, g)
  BY <1>1, <1>2
<1>7. y.page = x.page /\ ConsumedFrom(p, q, g)
  BY <1>4, <1>5, <1>6, ConsumptionIs
<1>8. StreamAs(p, q)
  BY <1>7, SameStreams DEF ConsumedFrom
<1> QED BY <1>1, <1>3, <1>4, <1>5, <1>7, <1>8, QuietHolds

LEMMA PrepareHolds ==
    ASSUME StreamsInv, GraphsInv, NEW b \in Browsers, NEW revision, Prepare(b, revision)
    PROVE  StreamsInv' /\ PagesKept
<1>1. PICK g : g = Min(Graphs \ Created(project[b]))
  OBVIOUS
<1>2. PICK r : r = NewGraph(revision, "prepared", project[b].active, project[b].generation)
  OBVIOUS
<1>3. ProjectOK(project[b]) /\ Created(project[b]) # Graphs
  BY DEF GraphsInv, Prepare
<1>4. g \in Graphs
  BY <1>1, <1>3, NextGraph
<1>5. Becomes(b, [PageOf(b) EXCEPT !.project.graph[g] = r])
  BY <1>1, <1>2 DEF Prepare
<1> QED BY <1>4, <1>5, OneGraphQuiet

LEMMA CandidateHolds ==
    ASSUME StreamsInv, GraphsInv, NEW b \in Browsers, NEW g \in Created(project[b]),
           ApplyCalled(b, g) \/ ApplySettles(b, g) \/ RollbackCandidate(b, g)
    PROVE  StreamsInv' /\ PagesKept
<1>1. g \in Graphs
  BY DEF Created
<1>2. ASSUME NEW state, Becomes(b, [PageOf(b) EXCEPT !.project.graph[g].state = state])
      PROVE  StreamsInv' /\ PagesKept
  <2>1. PICK r : r = [project[b].graph[g] EXCEPT !.state = state]
    OBVIOUS
  <2>2. [PageOf(b) EXCEPT !.project.graph[g].state = state]
          = [PageOf(b) EXCEPT !.project.graph[g] = r]
    BY <2>1 DEF PageOf
  <2>3. Becomes(b, [PageOf(b) EXCEPT !.project.graph[g] = r])
    BY <1>2, <2>2
  <2> QED BY <1>1, <2>3, OneGraphQuiet
<1>3. ASSUME Becomes(b, [PageOf(b) EXCEPT !.project.graph[g].rolling = TRUE])
      PROVE  StreamsInv' /\ PagesKept
  <2>1. PICK r : r = [project[b].graph[g] EXCEPT !.rolling = TRUE]
    OBVIOUS
  <2>2. [PageOf(b) EXCEPT !.project.graph[g].rolling = TRUE]
          = [PageOf(b) EXCEPT !.project.graph[g] = r]
    BY <2>1 DEF PageOf
  <2>3. Becomes(b, [PageOf(b) EXCEPT !.project.graph[g] = r])
    BY <1>3, <2>2
  <2> QED BY <1>1, <2>3, OneGraphQuiet
<1>4. CASE ApplyCalled(b, g)
  BY <1>2, <1>4 DEF ApplyCalled
<1>5. CASE ApplySettles(b, g)
  <2>1. CASE project[b].graph[g].rolling
    <3>1. Becomes(b, Consumed(b, PageOf(b), g))
      BY <1>5, <2>1 DEF ApplySettles
    <3> QED BY <1>1, <3>1, ConsumedQuiet
  <2>2. CASE ~project[b].graph[g].rolling
    <3>1. PICK state : Becomes(b, [PageOf(b) EXCEPT !.project.graph[g].state = state])
      BY <1>5, <2>2 DEF ApplySettles
    <3> QED BY <1>2, <3>1
  <2> QED BY <2>1, <2>2
<1>6. CASE RollbackCandidate(b, g)
  <2>1. CASE project[b].graph[g].state = "applying"
    <3>1. Becomes(b, [PageOf(b) EXCEPT !.project.graph[g].rolling = TRUE])
      BY <1>6, <2>1 DEF RollbackCandidate
    <3> QED BY <1>3, <3>1
  <2>2. CASE project[b].graph[g].state # "applying"
    <3>1. Becomes(b, Consumed(b, PageOf(b), g))
      BY <1>6, <2>2 DEF RollbackCandidate
    <3> QED BY <1>1, <3>1, ConsumedQuiet
  <2> QED BY <2>1, <2>2
<1> QED BY <1>4, <1>5, <1>6

LEMMA FinalizeHolds ==
    ASSUME StreamsInv, GraphsInv, NEW b \in Browsers, Finalize(b)
    PROVE  StreamsInv' /\ PagesKept
<1>1. PICK p : p = project[b]
  OBVIOUS
<1>2. PICK x : x = PageOf(b)
  OBVIOUS
<1>3. PageShape(x) /\ x.project = p /\ GraphsShape(p) /\ x.page = browser[b] /\ ProjectOK(p)
  BY <1>1, <1>2, PageOfShape, ProjectOKShape DEF GraphsInv, PageOf
<1>4. PICK g : g = p.transition.from
  OBVIOUS
<1>5. g \in Graphs \cup {Null}
  BY <1>3, <1>4, ShapeGives
<1>6. PICK y : y = [x EXCEPT !.project.transition = NoTransition]
  OBVIOUS
<1>7. PICK z : z = GraphDisposed(b, y, g)
  OBVIOUS
<1>8. Becomes(b, z)
  BY <1>1, <1>2, <1>4, <1>6, <1>7 DEF Finalize
<1>9. PICK q : q = y.project
  OBVIOUS
<1>10. PICK r : r = z.project
  OBVIOUS
<1>11. PageShape(y) /\ TransitionEnded(p, q)
  BY <1>3, <1>6, <1>9, SettledIs
<1>12. y.page = x.page
  BY <1>3, <1>6 DEF PageShape
<1>13. GraphsShape(q)
  BY <1>11 DEF TransitionEnded
<1>14. z.page = y.page /\ GoneFrom(q, r, g)
  BY <1>5, <1>7, <1>9, <1>10, <1>11, <1>13, GoneIs
<1>15. StreamAs(p, r)
  BY <1>11, <1>14 DEF TransitionEnded, GoneFrom, SameBut, StreamAs, StreamRuns
<1> QED BY <1>1, <1>3, <1>8, <1>10, <1>12, <1>14, <1>15, QuietHolds

-----------------------------------------------------------------------------
(* The stream is off: no socket and no timer.                              *)

StreamIsOff(k) == PageOK(k) /\ ~k.started /\ ~k.timer /\ k.candidate = Null /\ k.opened = NoTarget

LEMMA OffNow ==
    ASSUME NEW p, NEW k, StreamOK(p, k), ~StreamRuns(p)
    PROVE  StreamIsOff(k)
  BY DEF StreamOK, CandidateOK, StreamIsOff

LEMMA OffFits ==
    ASSUME NEW q, NEW l, StreamIsOff(l), ~StreamRuns(q), l.target.graph = q.active
    PROVE  StreamOK(q, l)
  BY DEF StreamOK, CandidateOK, StreamIsOff

LEMMA OffIs ==
    ASSUME NEW x, PageShape(x), NEW k, k = x.page, PageOK(k),
           NEW l, l = StreamOff(x).page
    PROVE  StreamIsOff(l) /\ l.target = k.target
<1>1. l = StreamStopped(k)
  BY DEF StreamOff, PageShape
<1>2. /\ PageOK(l) /\ l.candidate = Null /\ l.opened = NoTarget
      /\ ~l.timer /\ ~l.started /\ l.target = k.target
  BY <1>1, StoppedIs
<1> QED BY <1>2 DEF StreamIsOff

(* createWebSocket for a stream that was off.                              *)
LEMMA OnHolds ==
    ASSUME NEW x, PageShape(x), NEW k, k = x.page, StreamIsOff(k), NEW p, p = x.project,
           k.target.graph = p.active, p.owner = "active", p.active # Null, p.waiting = <<>>,
           Connectable, NEW l, l = StreamOn(x).page
    PROVE  StreamOK(p, l) /\ \A m : Continues(m, l)
<1>1. CASE p.requested
  <2>1. PICK s : s = StreamStarted(k)
    OBVIOUS
  <2>2. PICK n : n = NewSocket
    OBVIOUS
  <2>3. l = CandidateMade(s, n)
    BY <1>1, <2>1, <2>2 DEF StreamOn, PageShape, StreamIsOff
  <2>4. PageOK(k) /\ k.opened = NoTarget
    BY DEF StreamIsOff
  <2>5. PageOK(s) /\ s.opened = k.opened /\ s.started /\ s.target = k.target
    BY <2>1, <2>4, StartedStreamIs
  <2>6. PageOK(s)
    BY <2>5
  <2>7. /\ PageOK(l) /\ l.candidate = n /\ l.opened = s.opened
        /\ ~l.timer /\ l.started = s.started /\ l.target = s.target
    BY <2>3, <2>6, CandidateMadeIs
  <2>8. n \in Sockets /\ n # Null
    BY <2>2, NewSocketIs, HubAssumption
  <2>9. StreamRuns(p)
    BY <1>1 DEF StreamRuns
  <2>10. StreamOK(p, l)
    BY <2>5, <2>7, <2>8, <2>9 DEF StreamOK, CandidateOK
  <2>11. l.candidate = NewSocket /\ l.opened = NoTarget
    BY <2>2, <2>4, <2>5, <2>7
  <2> QED BY <2>10, <2>11 DEF Continues
<1>2. CASE ~p.requested
  <2>1. l = k /\ ~StreamRuns(p)
    BY <1>2 DEF StreamOn, StreamRuns
  <2>2. StreamOK(p, l)
    BY <2>1, OffFits
  <2> QED BY <2>1, <2>2 DEF Continues, StreamIsOff
<1> QED BY <1>1, <1>2

LEMMA BundledPage ==
    ASSUME NEW x, PageShape(x), NEW k, k = x.page, StreamIsOff(k), NEW g, NEW signals,
           NEW l, l = Bundled(x, g, signals).page
    PROVE  StreamIsOff(l) /\ l.target.graph = g
<1>1. PICK target : target = IF g = Null THEN NoTarget
                             ELSE [graph |-> g, revision |-> x.project.graph[g].revision]
  OBVIOUS
<1>2. target.graph = g
  BY <1>1 DEF NoTarget
<1>3. l = Retargeted(k, target, signals)
  BY <1>1 DEF Bundled, PageShape
<1>4. PageOK(k)
  BY DEF StreamIsOff
<1>5. /\ PageOK(l) /\ l.candidate = k.candidate /\ l.opened = k.opened
      /\ l.timer = k.timer /\ l.started = k.started /\ l.target = target
  BY <1>3, <1>4, RetargetedIs
<1> QED BY <1>2, <1>5 DEF StreamIsOff

-----------------------------------------------------------------------------
(* commit() and deactivate().                                              *)

(* Of a page whose stream does not run nothing is left of it.              *)
LEMMA PageNow ==
    ASSUME StreamsInv, GraphsInv, NEW b \in Browsers, NEW p, p = project[b],
           NEW x, x = PageOf(b), NEW k, k = browser[b]
    PROVE  /\ PageShape(x) /\ x.project = p /\ x.page = k
           /\ ProjectOK(p) /\ GraphsShape(p) /\ PageOK(k) /\ k.target.graph = p.active
           /\ ~StreamRuns(p) => StreamIsOff(k)
<1>1. PageShape(x) /\ x.project = p /\ x.page = k
  BY PageOfShape DEF PageOf
<1>2. ProjectOK(p) /\ GraphsShape(p)
  BY ProjectOKShape DEF GraphsInv
<1>3. StreamOK(p, k)
  BY PageBefore
<1> QED BY <1>1, <1>2, <1>3, OffNow DEF StreamOK

(* What waits for the jobs has the stream stopped.                         *)
LEMMA SuspendHolds ==
    ASSUME StreamsInv, GraphsInv, NEW b \in Browsers, NEW g \in Graphs \cup {Null},
           NEW p, p = project[b], p.active # Null,
           NEW x, x = Suspending(b, g),
           NEW y, IF g = Null THEN y = x ELSE InStateNow(x, y, g, "committing"),
           Becomes(b, y)
    PROVE  StreamsInv' /\ PagesKept
<1>1. PICK k : k = browser[b]
  OBVIOUS
<1>2. PICK z : z = PageOf(b)
  OBVIOUS
<1>3. /\ PageShape(z) /\ z.project = p /\ z.page = k
      /\ ProjectOK(p) /\ GraphsShape(p) /\ PageOK(k) /\ k.target.graph = p.active
      /\ ~StreamRuns(p) => StreamIsOff(k)
  BY <1>1, <1>2, PageNow
<1>4. PICK w : w = x.project
  OBVIOUS
<1>5. PageShape(x) /\ Awaiting(p, w, g)
  BY <1>3, <1>4, SuspendingIs
<1>6. p.active \in Graphs
  BY <1>3, ShapeGives
<1>7. PICK u : u = GraphSuspended(b, z, p.active)
  OBVIOUS
<1>8. PageShape(u) /\ u.page = k /\ u.project.requested = p.requested
  <2>1. PICK r : r = [p.graph[p.active] EXCEPT !.suspended = TRUE]
    OBVIOUS
  <2>2. PageShape(u) /\ u.page = z.page /\ u.project = With(p, p.active, r)
    BY <1>3, <1>6, <1>7, <2>1, SuspendedIs DEF OnlyGraph
  <2>3. With(p, p.active, r).requested = p.requested
    BY <1>3 DEF With, GraphsShape, ProjectFields
  <2> QED BY <1>3, <2>2, <2>3
<1>9. PICK off : off = IF p.requested THEN StreamOff(u) ELSE u
  OBVIOUS
<1>10. PICK l : l = off.page
  OBVIOUS
<1>11. StreamIsOff(l) /\ l.target = k.target /\ PageShape(off)
  <2>1. CASE p.requested
    <3>1. l = StreamOff(u).page
      BY <1>9, <1>10, <2>1
    <3> QED BY <1>3, <1>8, <1>9, <2>1, <3>1, OffIs, StreamIs
  <2>2. CASE ~p.requested
    BY <1>3, <1>8, <1>9, <1>10, <2>2 DEF StreamRuns
  <2> QED BY <2>1, <2>2
<1>12. x = [off EXCEPT !.project.waiting = Append(@, g)]
  BY <1>2, <1>7, <1>8, <1>9 DEF Suspending
<1>13. x.page = l
  BY <1>10, <1>11, <1>12 DEF PageShape
<1>14. PICK q : q = y.project
  OBVIOUS
<1>15. y.page = l /\ q.waiting = w.waiting /\ q.active = w.active
  <2>1. CASE g = Null
    BY <1>4, <1>13, <1>14, <2>1
  <2>2. CASE g # Null
    <3>1. GraphsShape(w) /\ InStateNow(x, y, g, "committing") /\ g \in Graphs
      BY <1>5, <2>2 DEF Awaiting
    <3>2. SameBut(w, q)
      BY <1>4, <1>5, <1>14, <3>1, Restated
    <3>3. y.page = x.page
      BY <1>5, <3>1 DEF InStateNow, PageShape
    <3> QED BY <1>13, <3>2, <3>3 DEF SameBut
  <2> QED BY <2>1, <2>2
<1>16. q.waiting = Append(p.waiting, g) /\ q.active = p.active
  BY <1>5, <1>15 DEF Awaiting
<1>17. q.waiting # <<>>
  <2>1. p.waiting \in Seq(Graphs \cup {Null})
    BY <1>3, ShapeGives
  <2>2. PICK v : v = p.waiting
    OBVIOUS
  <2>3. v \in Seq(Graphs \cup {Null})
    BY <2>1, <2>2
  <2>4. Append(v, g) # <<>>
    BY SMTT(30), <2>3
  <2> QED BY <1>16, <2>2, <2>4
<1>18. ~StreamRuns(q)
  BY <1>17 DEF StreamRuns
<1>19. StreamOK(q, l)
  BY <1>3, <1>11, <1>16, <1>18, OffFits
<1>20. Continues(k, l)
  BY <1>11 DEF Continues, StreamIsOff
<1> QED BY <1>1, <1>14, <1>15, <1>19, <1>20, BecomesHolds

(* A graph is put in force, or none; the stream was off.                   *)
LEMMA InstallHolds ==
    ASSUME StreamsInv, GraphsInv, NEW b \in Browsers, NEW g \in Graphs \cup {Null}, Connectable,
           NEW x, PageShape(x), NEW w, w = x.project, GraphsShape(w),
           w.owner = "active", w.waiting = <<>>,
           NEW k, k = x.page, StreamIsOff(k),
           NEW y, y = Installed(x, g), Becomes(b, y)
    PROVE  StreamsInv' /\ PagesKept
<1>1. PICK q : q = y.project
  OBVIOUS
<1>2. PageShape(y) /\ InForceNow(x, w, q, g)
  BY <1>1, InstalledIs
<1>3. q.owner = "active" /\ q.active = g /\ q.waiting = <<>>
  BY <1>2 DEF InForceNow
<1>4. PICK u : u = Bundled(x, g, NoSignals)
  OBVIOUS
<1>5. PageShape(u)
  <2>1. PICK signals : signals = NoSignals
    OBVIOUS
  <2>2. u = Bundled(x, g, signals)
    BY <1>4, <2>1
  <2> QED BY <2>2, BundledIs
<1>6. PICK l : l = u.page
  OBVIOUS
<1>7. StreamIsOff(l) /\ l.target.graph = g
  <2>1. PICK signals : signals = NoSignals
    OBVIOUS
  <2>2. l = Bundled(x, g, signals).page
    BY <1>4, <1>6, <2>1
  <2> QED BY <2>2, BundledPage
<1>8. PICK t : t = [under |-> TRUE, to |-> g, from |-> w.active, signals |-> x.page.signals]
  OBVIOUS
<1>9. PICK z : z = [u EXCEPT !.project.transition = t]
  OBVIOUS
<1>10. PageShape(z) /\ z.page = l
  BY <1>5, <1>6, <1>9 DEF PageShape
<1>11. PICK m : m = browser[b]
  OBVIOUS
<1>12. PICK n : n = y.page
  OBVIOUS
<1>13. CASE g = Null
  <2>1. y = z
    BY <1>4, <1>8, <1>9, <1>13 DEF Installed
  <2>2. n = l /\ ~StreamRuns(q)
    BY <1>3, <1>10, <1>12, <1>13, <2>1 DEF StreamRuns
  <2>3. StreamOK(q, n) /\ Continues(m, n)
    BY <1>3, <1>7, <2>2, OffFits DEF Continues, StreamIsOff
  <2> QED BY <1>1, <1>11, <1>12, <2>3, BecomesHolds
<1>14. CASE g # Null
  <2>1. PICK last : last = [z EXCEPT !.project.graph[g].state = "committed"]
    OBVIOUS
  <2>2. y = StreamOn(last)
    BY <1>4, <1>8, <1>9, <1>14, <2>1 DEF Installed
  <2>3. PageShape(last) /\ last.page = l
    BY <1>10, <2>1 DEF PageShape
  <2>4. q = last.project
    BY <1>1, <2>2, <2>3, StreamIs
  <2>5. n = StreamOn(last).page
    BY <1>12, <2>2
  <2>6. StreamOK(q, n) /\ \A c : Continues(c, n)
    BY <1>3, <1>7, <1>14, <2>3, <2>4, <2>5, OnHolds
  <2> QED BY <1>1, <1>11, <1>12, <2>6, BecomesHolds
<1> QED BY <1>13, <1>14

LEMMA CommitHolds ==
    ASSUME StreamsInv, GraphsInv, NEW b \in Browsers, NEW g \in Created(project[b]),
           CommitCalled(b, g)
    PROVE  StreamsInv' /\ PagesKept
<1>1. PICK p : p = project[b]
  OBVIOUS
<1>2. PICK x : x = PageOf(b)
  OBVIOUS
<1>3. PICK k : k = browser[b]
  OBVIOUS
<1>4. /\ PageShape(x) /\ x.project = p /\ x.page = k
      /\ ProjectOK(p) /\ GraphsShape(p)
      /\ ~StreamRuns(p) => StreamIsOff(k)
  BY <1>1, <1>2, <1>3, PageNow
<1>5. g \in Graphs /\ g # Null
  BY GraphsAssumption DEF Created
<1>6. PICK z : z = Suspending(b, g)
  OBVIOUS
<1>7. PICK y : y = [z EXCEPT !.project.graph[g].state = "committing"]
  OBVIOUS
<1>8. p.owner = "active" /\ Connectable
  BY <1>1 DEF CommitCalled
<1>9. \/ Becomes(b, Consumed(b, PageOf(b), g))
      \/ p.active = Null /\ Becomes(b, Installed(x, g))
      \/ p.active # Null /\ Becomes(b, y)
  BY <1>1, <1>2, <1>6, <1>7 DEF CommitCalled
<1>10. CASE Becomes(b, Consumed(b, PageOf(b), g))
  BY <1>5, <1>10, ConsumedQuiet
<1>11. CASE p.active = Null /\ Becomes(b, Installed(x, g))
  <2>1. p.waiting = <<>> /\ StreamIsOff(k)
    BY <1>4, <1>8, <1>11 DEF ProjectOK, StreamRuns
  <2>2. PICK v : v = Installed(x, g)
    OBVIOUS
  <2> QED BY <1>4, <1>5, <1>8, <1>11, <2>1, <2>2, InstallHolds
<1>12. CASE p.active # Null /\ Becomes(b, y)
  <2>1. InStateNow(z, y, g, "committing")
    BY <1>7 DEF InStateNow
  <2> QED BY <1>1, <1>5, <1>6, <1>12, <2>1, SuspendHolds
<1> QED BY <1>9, <1>10, <1>11, <1>12

LEMMA DeactivateHolds ==
    ASSUME StreamsInv, GraphsInv, NEW b \in Browsers, DeactivateCalled(b)
    PROVE  StreamsInv' /\ PagesKept
<1>1. PICK p : p = project[b]
  OBVIOUS
<1>2. PICK x : x = Suspending(b, Null)
  OBVIOUS
<1>3. p.active # Null /\ Becomes(b, x)
  BY <1>1, <1>2 DEF DeactivateCalled
<1>4. PICK g : g = Null
  OBVIOUS
<1>5. g \in Graphs \cup {Null} /\ x = Suspending(b, g)
  BY <1>2, <1>4
<1> QED BY <1>1, <1>3, <1>4, <1>5, SuspendHolds

(* The jobs have settled: the first who waits goes on.                     *)
LEMMA QuiesceHolds ==
    ASSUME StreamsInv, GraphsInv, NEW b \in Browsers, QuiesceSettles(b)
    PROVE  StreamsInv' /\ PagesKept
<1>1. PICK p : p = project[b]
  OBVIOUS
<1>2. PICK z : z = PageOf(b)
  OBVIOUS
<1>3. PICK k : k = browser[b]
  OBVIOUS
<1>4. /\ PageShape(z) /\ z.project = p /\ z.page = k
      /\ ProjectOK(p) /\ GraphsShape(p)
      /\ ~StreamRuns(p) => StreamIsOff(k)
  BY <1>1, <1>2, <1>3, PageNow
<1>. DEFINE Late(g) == g \in Range(p.waiting) /\ (p.owner = "active" => g # Head(p.waiting))
<1>5. PICK graph : graph = [g \in Graphs |-> IF Late(g) THEN [p.graph[g] EXCEPT !.state = "applied"]
                                              ELSE p.graph[g]]
  OBVIOUS
<1>6. PICK x : x = [z EXCEPT !.project.waiting = <<>>, !.project.graph = graph]
  OBVIOUS
<1>7. /\ p.waiting # <<>> /\ Connectable
      /\ Becomes(b, IF p.owner = "active" THEN Installed(x, Head(p.waiting)) ELSE x)
  BY <1>1, <1>2, <1>5, <1>6 DEF QuiesceSettles
<1>8. StreamIsOff(k) /\ ~StreamRuns(p)
  BY <1>4, <1>7 DEF StreamRuns
<1>9. PICK w : w = x.project
  OBVIOUS
<1>10. PageShape(x) /\ x.page = k /\ w = [p EXCEPT !.waiting = <<>>, !.graph = graph]
  BY <1>4, <1>6, <1>9 DEF PageShape, GraphsShape, ProjectFields
<1>11. w = [f \in ProjectFields |-> CASE f = "waiting" -> <<>> [] f = "graph" -> graph
                                      [] OTHER -> p[f]]
  BY <1>4, <1>10 DEF GraphsShape, ProjectFields
<1>12. /\ w = [f \in ProjectFields |-> w[f]] /\ w.graph = graph /\ w.waiting = <<>>
       /\ w.owner = p.owner /\ w.active = p.active
  BY <1>11 DEF ProjectFields
<1>13. GraphsShape(w)
  <2>1. ASSUME NEW g \in Graphs PROVE GraphRecord(graph[g])
    <3>1. PICK r : r = p.graph[g]
      OBVIOUS
    <3>2. GraphRecord(r)
      BY <1>4, <3>1 DEF GraphsShape, GraphRecord
    <3>3. GraphRecord([r EXCEPT !.state = "applied"])
      BY <3>2 DEF GraphRecord, GraphFields
    <3>4. graph[g] = r \/ graph[g] = [r EXCEPT !.state = "applied"]
      BY <1>5, <3>1
    <3> QED BY <3>2, <3>3, <3>4
  <2>2. graph = [g \in Graphs |-> graph[g]]
    BY <1>5
  <2> QED BY <1>12, <2>1, <2>2 DEF GraphsShape, GraphRecord
<1>14. CASE p.owner = "active"
  <2>1. PICK g : g = Head(p.waiting)
    OBVIOUS
  <2>2. g \in Graphs \cup {Null}
    <3>1. p.waiting \in Seq(Graphs \cup {Null})
      BY <1>4, ShapeGives
    <3> QED BY <1>7, <2>1, <3>1
  <2>3. PICK y : y = Installed(x, g)
    OBVIOUS
  <2>4. Becomes(b, y)
    BY <1>7, <1>14, <2>1, <2>3
  <2>5. w.owner = "active" /\ w.waiting = <<>>
    BY <1>12, <1>14
  <2> QED BY <1>7, <1>8, <1>9, <1>10, <1>13, <2>2, <2>3, <2>4, <2>5, InstallHolds
<1>15. CASE p.owner # "active"
  <2>1. Becomes(b, x)
    BY <1>7, <1>15
  <2>2. StreamAs(p, w)
    BY <1>8, <1>12, <1>15 DEF StreamAs, StreamRuns
  <2> QED BY <1>1, <1>3, <1>9, <1>10, <2>1, <2>2, QuietHolds
<1> QED BY <1>14, <1>15

(* startGatewayStream()                                                    *)
LEMMA AskedHolds ==
    ASSUME StreamsInv, GraphsInv, NEW b \in Browsers, StartGatewayStream(b)
    PROVE  StreamsInv' /\ PagesKept
<1>1. PICK p : p = project[b]
  OBVIOUS
<1>2. PICK z : z = PageOf(b)
  OBVIOUS
<1>3. PICK k : k = browser[b]
  OBVIOUS
<1>4. /\ PageShape(z) /\ z.project = p /\ z.page = k
      /\ ProjectOK(p) /\ GraphsShape(p) /\ PageOK(k) /\ k.target.graph = p.active
      /\ ~StreamRuns(p) => StreamIsOff(k)
  BY <1>1, <1>2, <1>3, PageNow
<1>5. PICK x : x = [z EXCEPT !.project.requested = TRUE]
  OBVIOUS
<1>6. PICK y : y = StreamOn(x)
  OBVIOUS
<1>7. /\ p.owner = "active" /\ p.active # Null /\ ~p.requested /\ p.waiting = <<>>
      /\ Connectable /\ Becomes(b, y)
  BY <1>1, <1>2, <1>5, <1>6 DEF StartGatewayStream
<1>8. StreamIsOff(k)
  BY <1>4, <1>7 DEF StreamRuns
<1>9. PICK w : w = x.project
  OBVIOUS
<1>10. PageShape(x) /\ x.page = k /\ w = [p EXCEPT !.requested = TRUE]
  BY <1>4, <1>5, <1>9 DEF PageShape
<1>11. w.owner = "active" /\ w.active = p.active /\ w.waiting = <<>>
  BY <1>4, <1>7, <1>10 DEF GraphsShape, ProjectFields
<1>12. PICK l : l = y.page
  OBVIOUS
<1>13. l = StreamOn(x).page
  BY <1>6, <1>12
<1>14. w.active # Null /\ k.target.graph = w.active
  BY <1>4, <1>7, <1>11
<1>15. StreamOK(w, l) /\ \A m : Continues(m, l)
  <2>1. PageShape(x) /\ k = x.page /\ w = x.project
    BY <1>9, <1>10
  <2>2. Connectable
    BY <1>7
  <2> QED BY <1>8, <1>11, <1>13, <1>14, <2>1, <2>2, OnHolds
<1>16. w = y.project
  BY <1>6, <1>9, <1>10, StreamIs
<1> QED BY <1>3, <1>7, <1>12, <1>15, <1>16, BecomesHolds

(* dispose() stops the stream, and nobody asks for it any more.            *)
LEMMA DisposeCalledHolds ==
    ASSUME StreamsInv, GraphsInv, NEW b \in Browsers, DisposeCalled(b)
    PROVE  StreamsInv' /\ PagesKept
<1>1. PICK p : p = project[b]
  OBVIOUS
<1>2. PICK z : z = PageOf(b)
  OBVIOUS
<1>3. PICK k : k = browser[b]
  OBVIOUS
<1>4. /\ PageShape(z) /\ z.project = p /\ z.page = k
      /\ ProjectOK(p) /\ GraphsShape(p) /\ PageOK(k) /\ k.target.graph = p.active
  BY <1>1, <1>2, <1>3, PageNow
<1>5. PICK off : off = StreamOff(z)
  OBVIOUS
<1>6. PageShape(off) /\ off.project = p
  BY <1>4, <1>5, StreamIs
<1>7. PICK l : l = off.page
  OBVIOUS
<1>8. l = StreamOff(z).page
  BY <1>5, <1>7
<1>9. StreamIsOff(l) /\ l.target = k.target
  BY <1>4, <1>8, OffIs
<1>10. PICK from : from = p.transition.from
  OBVIOUS
<1>11. PICK t : t = NoTransition
  OBVIOUS
<1>12. PICK x : x = [off EXCEPT !.project.owner = "disposing", !.project.requested = FALSE,
                                !.project.transition = t, !.project.doomed = from]
  OBVIOUS
<1>13. Becomes(b, x)
  BY <1>1, <1>2, <1>5, <1>10, <1>11, <1>12 DEF DisposeCalled
<1>14. PICK q : q = x.project
  OBVIOUS
<1>15. x.page = l /\ q = [p EXCEPT !.owner = "disposing", !.requested = FALSE,
                                   !.transition = t, !.doomed = from]
  BY <1>6, <1>7, <1>12, <1>14 DEF PageShape
<1>16. q.owner = "disposing" /\ q.active = p.active
  BY <1>4, <1>15 DEF GraphsShape, ProjectFields
<1>17. StreamOK(q, l) /\ Continues(k, l)
  <2>1. ~StreamRuns(q)
    BY <1>16 DEF StreamRuns
  <2> QED BY <1>4, <1>9, <1>16, <2>1, OffFits DEF Continues, StreamIsOff
<1> QED BY <1>3, <1>13, <1>14, <1>15, <1>17, BecomesHolds

(* The candidates and the graph in force are disposed of.                  *)
LEMMA DisposeSettlesHolds ==
    ASSUME StreamsInv, GraphsInv, NEW b \in Browsers, DisposeSettles(b)
    PROVE  StreamsInv' /\ PagesKept
<1>1. PICK p : p = project[b]
  OBVIOUS
<1>2. ProjectOK(p) /\ GraphsShape(p) /\ p.doomed \in Graphs \cup {Null}
        /\ p.active \in Graphs \cup {Null}
  BY <1>1, ShapeGives DEF GraphsInv
<1>3. PICK y0 : y0 = Consumption(b, p)
  OBVIOUS
<1>4. PICK y1 : y1 = GraphDisposed(b, y0, p.doomed)
  OBVIOUS
<1>5. PICK y2 : y2 = GraphDisposed(b, y1, p.active)
  OBVIOUS
<1>6. AllDisposed(b) = y2
  BY <1>1, <1>3, <1>4, <1>5 DEF AllDisposed, Consumption
<1>7. PICK y : y = [y2 EXCEPT !.project.owner = "disposed"]
  OBVIOUS
<1>8. Becomes(b, y) /\ p.owner = "disposing"
  BY <1>1, <1>6, <1>7 DEF DisposeSettles
<1>9. PICK q0 : q0 = y0.project
  OBVIOUS
<1>10. PICK q1 : q1 = y1.project
  OBVIOUS
<1>11. PICK q2 : q2 = y2.project
  OBVIOUS
<1>12. PageShape(y0) /\ y0.page = browser[b] /\ NoCandidates(p, q0)
  BY <1>1, <1>2, <1>3, <1>9, CandidatesConsumed
<1>13. PageShape(y1) /\ y1.page = y0.page /\ GoneFrom(q0, q1, p.doomed)
  <2>1. GraphsShape(q0)
    BY <1>12 DEF NoCandidates
  <2> QED BY <1>2, <1>4, <1>9, <1>10, <1>12, <2>1, GoneIs
<1>14. PageShape(y2) /\ y2.page = y1.page /\ GoneFrom(q1, q2, p.active)
  <2>1. GraphsShape(q1)
    BY <1>13 DEF GoneFrom
  <2> QED BY <1>2, <1>5, <1>10, <1>11, <1>13, <2>1, GoneIs
<1>15. GraphsShape(q2) /\ q2.active = p.active
  BY <1>12, <1>13, <1>14 DEF NoCandidates, GoneFrom, SameBut
<1>16. PICK q : q = y.project
  OBVIOUS
<1>17. y.page = y2.page /\ q = [q2 EXCEPT !.owner = "disposed"]
  BY <1>7, <1>11, <1>14, <1>16 DEF PageShape
<1>18. q.owner = "disposed" /\ q.active = p.active
  BY <1>15, <1>17 DEF GraphsShape, ProjectFields
<1>19. StreamAs(p, q)
  BY <1>8, <1>18 DEF StreamAs, StreamRuns
<1>20. y.page = browser[b]
  BY <1>12, <1>13, <1>14, <1>17
<1> QED BY <1>1, <1>8, <1>16, <1>19, <1>20, QuietHolds

(* What a graph that goes on leaves alone.                                 *)
Unmoved(p, q) == q.owner = p.owner /\ q.active = p.active /\ q.waiting = p.waiting

LEMMA ResumedPage ==
    ASSUME NEW b, NEW x, PageShape(x), NEW p, p = x.project, GraphsShape(p),
           NEW g \in Graphs, NEW y, y = GraphResumed(b, x, g), NEW q, q = y.project
    PROVE  PageShape(y) /\ y.page = x.page /\ Unmoved(p, q)
<1>1. PICK r : r = [p.graph[g] EXCEPT !.suspended = FALSE]
  OBVIOUS
<1>2. PageShape(y) /\ y.page = x.page /\ q = With(p, g, r)
  BY <1>1, ResumedIs DEF OnlyGraph
<1> QED BY <1>2 DEF Unmoved, With, GraphsShape, ProjectFields

(* The graph before is in force again, or none; the stream goes on.        *)
LEMMA RollbackHolds ==
    ASSUME StreamsInv, GraphsInv, NEW b \in Browsers, RollbackTransition(b)
    PROVE  StreamsInv' /\ PagesKept
<1>1. PICK p : p = project[b]
  OBVIOUS
<1>2. PICK z : z = PageOf(b)
  OBVIOUS
<1>3. PICK k : k = browser[b]
  OBVIOUS
<1>4. /\ PageShape(z) /\ z.project = p /\ z.page = k
      /\ ProjectOK(p) /\ GraphsShape(p) /\ PageOK(k)
      /\ ~StreamRuns(p) => StreamIsOff(k)
  BY <1>1, <1>2, <1>3, PageNow
<1>5. PICK t : t = p.transition
  OBVIOUS
<1>6. PICK stopped : stopped = IF t.to = Null THEN z ELSE StreamOff(z)
  OBVIOUS
<1>7. PICK signals : signals = t.signals
  OBVIOUS
<1>8. PICK taken : taken = Bundled(stopped, t.from, signals)
  OBVIOUS
<1>9. PICK bundled : bundled = [taken EXCEPT !.project.transition = NoTransition]
  OBVIOUS
<1>10. PICK x : x = IF t.to = Null THEN bundled ELSE Consumed(b, bundled, t.to)
  OBVIOUS
<1>11. PICK resumed : resumed = GraphResumed(b, x, t.from)
  OBVIOUS
<1>12. PICK y : y = IF t.from = Null THEN x ELSE StreamOn(resumed)
  OBVIOUS
<1>13. /\ p.transition.under /\ Connectable
       /\ Becomes(b, Restored(b, project[b].transition))
  BY SMTT(30), <1>1 DEF RollbackTransition
<1>14. Becomes(b, y)
  BY <1>1, <1>2, <1>5, <1>6, <1>7, <1>8, <1>9, <1>10, <1>11, <1>12, <1>13 DEF Restored
<1>15. /\ t.to = p.active /\ t.from # p.active /\ p.owner = "active" /\ p.waiting = <<>>
       /\ t.from \in Graphs \cup {Null} /\ p.active \in Graphs \cup {Null}
  BY <1>4, <1>5, <1>13, ShapeGives DEF ProjectOK
<1>16. PageShape(stopped) /\ stopped.project = p
  BY <1>4, <1>6, StreamIs
<1>17. PICK l : l = stopped.page
  OBVIOUS
<1>18. StreamIsOff(l)
  <2>1. CASE t.to = Null
    BY <1>4, <1>6, <1>15, <1>17, <2>1 DEF StreamRuns
  <2>2. CASE t.to # Null
    <3>1. l = StreamOff(z).page
      BY <1>6, <1>17, <2>2
    <3> QED BY <1>4, <3>1, OffIs
  <2> QED BY <2>1, <2>2
<1>19. PICK from : from = t.from
  OBVIOUS
<1>20. PICK m : m = taken.page
  OBVIOUS
<1>21. PageShape(taken) /\ StreamIsOff(m) /\ m.target.graph = from
  <2>1. taken = Bundled(stopped, from, signals)
    BY <1>8, <1>19
  <2>2. m = Bundled(stopped, from, signals).page
    BY <1>20, <2>1
  <2>3. StreamIsOff(m) /\ m.target.graph = from
    BY <1>16, <1>17, <1>18, <2>2, BundledPage
  <2>4. PageShape(taken)
    BY <1>4, <1>16, <2>1, BundledIs
  <2> QED BY <2>3, <2>4
<1>22. PageShape(bundled) /\ bundled.page = m
  BY <1>9, <1>20, <1>21 DEF PageShape
<1>23. PICK w : w = bundled.project
  OBVIOUS
<1>24. TakenBack(p, w)
  <2>1. bundled = [Bundled(stopped, p.transition.from, signals) EXCEPT
                     !.project.transition = NoTransition]
    BY <1>5, <1>8, <1>9
  <2> QED BY <1>4, <1>16, <1>23, <2>1, TakenBackIs
<1>25. GraphsShape(w) /\ w.graph = p.graph
  BY <1>24 DEF TakenBack
<1>26. PICK v : v = x.project
  OBVIOUS
<1>27. /\ PageShape(x) /\ x.page = m /\ GraphsShape(v) /\ SameBut(w, v)
       /\ \A h \in Graphs : h # p.active => v.graph[h] = p.graph[h]
  <2>1. CASE p.active = Null
    <3>1. x = bundled
      BY <1>10, <1>15, <2>1
    <3> QED BY <1>22, <1>23, <1>25, <1>26, <3>1 DEF SameBut
  <2>2. CASE p.active # Null
    <3>1. PICK g : g = p.active
      OBVIOUS
    <3>2. x = Consumed(b, bundled, g) /\ g \in Graphs
      BY <1>10, <1>15, <2>2, <3>1
    <3>3. PageShape(x) /\ x.page = bundled.page /\ ConsumedFrom(w, v, g)
      BY <1>22, <1>23, <1>25, <1>26, <3>2, ConsumptionIs
    <3> QED BY <1>22, <1>25, <3>1, <3>3 DEF ConsumedFrom
  <2> QED BY <2>1, <2>2
<1>28. /\ v.owner = "active" /\ v.active = from /\ v.waiting = <<>>
  BY <1>5, <1>15, <1>19, <1>24, <1>27 DEF TakenBack, SameBut
<1>29. PICK q : q = y.project
  OBVIOUS
<1>30. PICK n : n = y.page
  OBVIOUS
<1>31. CASE from = Null
  <2>1. y = x
    BY <1>12, <1>19, <1>31
  <2>2. n = m /\ q = v
    BY <1>26, <1>27, <1>29, <1>30, <2>1
  <2>3. ~StreamRuns(q)
    BY <1>28, <1>31, <2>2 DEF StreamRuns
  <2>4. StreamOK(q, n) /\ Continues(k, n)
    BY <1>21, <1>28, <2>2, <2>3, OffFits DEF Continues, StreamIsOff
  <2> QED BY <1>3, <1>14, <1>29, <1>30, <2>4, BecomesHolds
<1>32. CASE from # Null
  <2>1. y = StreamOn(resumed) /\ from \in Graphs /\ resumed = GraphResumed(b, x, from)
    BY <1>11, <1>12, <1>15, <1>19, <1>32
  <2>4. PICK u : u = resumed.project
    OBVIOUS
  <2>5. PageShape(resumed) /\ resumed.page = x.page /\ Unmoved(v, u)
    BY <1>26, <1>27, <2>1, <2>4, ResumedPage
  <2>6. u.owner = "active" /\ u.active = from /\ u.waiting = <<>>
    BY <1>28, <2>5 DEF Unmoved
  <2>7. n = StreamOn(resumed).page /\ m = resumed.page
    BY <1>27, <1>30, <2>1, <2>5
  <2>8. m.target.graph = u.active /\ u.active # Null /\ StreamIsOff(m)
    BY <1>21, <1>32, <2>6
  <2>9. StreamOK(u, n) /\ \A c : Continues(c, n)
    BY <1>13, <2>4, <2>5, <2>6, <2>7, <2>8, OnHolds
  <2>10. q = u
    BY <1>29, <2>1, <2>4, <2>5, StreamIs
  <2> QED BY <1>3, <1>14, <1>29, <1>30, <2>9, <2>10, BecomesHolds
<1> QED BY <1>31, <1>32

LEMMA RuntimeStepHolds ==
    ASSUME StreamsInv, GraphsInv, scenario \in Scenarios, RuntimeStep
    PROVE  StreamsInv' /\ PagesKept
<1>1. PICK b \in scenario.browsers \cup ({scenario.jobPage} \ {Null}) :
        \/ \E revision \in scenario.revisions : Prepare(b, revision)
        \/ \E g \in Created(project[b]) : \/ ApplyCalled(b, g)
                                          \/ ApplySettles(b, g)
                                          \/ RollbackCandidate(b, g)
                                          \/ CommitCalled(b, g)
        \/ DeactivateCalled(b)
        \/ QuiesceSettles(b)
        \/ Finalize(b)
        \/ RollbackTransition(b)
        \/ StartGatewayStream(b)
        \/ DisposeCalled(b)
        \/ DisposeSettles(b)
  BY DEF RuntimeStep
<1>2. b \in Browsers
  BY DataPlaneAssumption, GraphsAssumption
<1> QED BY <1>1, <1>2, PrepareHolds, CandidateHolds, CommitHolds, DeactivateHolds, QuiesceHolds,
     FinalizeHolds, RollbackHolds, AskedHolds, DisposeCalledHolds, DisposeSettlesHolds

(* At first there are no sockets, and nobody has asked for a stream.       *)
LEMMA StreamsInitially == WorkcellInit => StreamsInv
<1>. SUFFICES ASSUME WorkcellInit PROVE StreamsInv
  OBVIOUS
<1>1. SocketOK(DetachedSocket)
  BY NothingIsSequence DEF SocketOK, SocketFields, DetachedSocket, EndsClosed
<1>2. HubOK(hub)
  BY <1>1 DEF WorkcellInit, Init, NewHub, HubOK, HubFields
<1>3. PICK n : n = Min(scenario.revisions)
  OBVIOUS
<1>4. PICK t : t = [graph |-> 1, revision |-> n]
  OBVIOUS
<1>5. PICK k : k = [NewBrowser EXCEPT !.target = t]
  OBVIOUS
<1>6. browser = [b \in Browsers |-> k]
  BY <1>3, <1>4, <1>5 DEF WorkcellInit, Init
<1>7. /\ PageOK(k) /\ k.candidate = Null /\ k.opened = NoTarget /\ ~k.started /\ ~k.timer
      /\ k.target.graph = 1
  BY <1>4, <1>5 DEF NewBrowser, PageOK, BoundaryOK, PageFields
<1>8. PICK p : p = NewProject(n)
  OBVIOUS
<1>9. project = [b \in Browsers |-> p]
  BY <1>3, <1>8 DEF WorkcellInit, ProjectInit
<1>10. ~p.requested /\ p.active = 1
  BY <1>8 DEF NewProject
<1>11. StreamOK(p, k) /\ Reaches(hub, k)
  BY <1>7, <1>10 DEF StreamOK, CandidateOK, StreamRuns, Reaches
<1> QED BY <1>2, <1>6, <1>7, <1>9, <1>11 DEF StreamsInv, StreamsHold

-----------------------------------------------------------------------------
(* The theorems.                                                           *)

LEMMA ScenarioGiven == WorkcellSpec => [](scenario \in Scenarios)
<1>1. WorkcellInit => scenario \in Scenarios
  BY DEF WorkcellInit, Init
<1>2. scenario \in Scenarios /\ [WorkcellNext]_<<vars, pageVars>> => (scenario \in Scenarios)'
  <2>. SUFFICES ASSUME scenario \in Scenarios, [WorkcellNext]_<<vars, pageVars>>
                PROVE  UNCHANGED scenario
    OBVIOUS
  <2> QED BY ScenarioStands DEF WorkcellNext, RuntimeStep, JobStep, vars
<1> QED BY <1>1, <1>2, PTL DEF WorkcellSpec

(* The streams and the sockets of the pages are as the invariant says,     *)
(* however commits, rollbacks and dispose() of a page, activations of the  *)
(* Gateway, slow and failing sockets and what the endpoints publish        *)
(* interleave.                                                             *)
THEOREM StreamsInvariant == WorkcellSpec => []StreamsInv
<1>1. WorkcellInit => StreamsInv
  BY StreamsInitially
<1>2. StreamsInv /\ GraphsInv /\ EndpointInv /\ scenario \in Scenarios
        /\ [WorkcellNext]_<<vars, pageVars>>
        => StreamsInv'
  <2>. SUFFICES ASSUME StreamsInv, GraphsInv, EndpointInv, scenario \in Scenarios,
                       [WorkcellNext]_<<vars, pageVars>>
                PROVE  StreamsInv'
    OBVIOUS
  <2>1. CASE Next /\ UNCHANGED pageVars
    BY <2>1, NextHolds DEF pageVars
  <2>2. CASE RuntimeStep
    BY <2>2, RuntimeStepHolds
  <2>3. CASE UNCHANGED <<hub, browser, project>>
    BY <2>3, HubStays, HubStep DEF StreamsInv, StreamsHold
  <2> QED BY <2>1, <2>2, <2>3 DEF WorkcellNext, JobStep, vars, pageVars
<1> QED BY <1>1, <1>2, GraphsInvariant, EndpointsKept, ScenarioGiven, PTL DEF WorkcellSpec

(* No stream is stuck: the property PageNotStranded, of                    *)
(* runtime-gateway-state-stream.ts (createWebSocket, rejectCandidate and   *)
(* the reconnect timer), of the hub's sockets (drop, send and flush of     *)
(* state-batch-hub.ts) and of what starts and stops the stream in          *)
(* browser-project-runtime-v5.ts, for any number of pages and sockets.     *)
THEOREM PagesAreNotStranded == WorkcellSpec => []PageNotStranded
<1>1. ASSUME StreamsInv, NEW b \in Browsers, NEW s, s = browser[b].candidate
      PROVE  /\ browser[b].started <=> StreamRuns(project[b])
             /\ IF s = Null THEN browser[b].timer <=> browser[b].started
                ELSE /\ browser[b].started
                     /\ \/ Awaited(b) /\ browser[b].opened = NoTarget
                        \/ Arrives(b) \/ AtRest(b) \/ Busy(hub.socket[s])
  <2>1. StreamOK(project[b], browser[b]) /\ Reaches(hub, browser[b]) /\ HubOK(hub)
    BY <1>1 DEF StreamsInv, StreamsHold
  <2>2. CASE s = Null
    BY <1>1, <2>1, <2>2 DEF StreamOK, CandidateOK
  <2>3. CASE s # Null
    <3>1. s \in Sockets /\ browser[b].started
      BY <1>1, <2>1, <2>3 DEF StreamOK, CandidateOK
    <3>2. CASE hub.socket[s].net # <<>>
      BY <1>1, <2>1, <2>3, <3>1, <3>2 DEF StreamOK, Arrives
    <3>3. CASE hub.socket[s].net = <<>>
      <4>1. hub.socket[s].attached <=> browser[b].opened # NoTarget
        BY <1>1, <2>1, <2>3, <3>3 DEF Reaches
      <4>2. CASE ~hub.socket[s].attached
        <5>1. SocketOK(hub.socket[s])
          BY <2>1, <3>1 DEF HubOK
        <5>2. hub.socket[s] = [DetachedSocket EXCEPT !.net = <<>>]
          BY <3>3, <4>2, <5>1 DEF SocketOK
        <5>3. hub.socket[s] = DetachedSocket
          BY <5>2 DEF DetachedSocket
        <5> QED BY <1>1, <2>1, <2>3, <3>1, <4>1, <4>2, <5>3 DEF StreamOK, Awaited
      <4>3. CASE hub.socket[s].attached
        BY <1>1, <2>1, <2>3, <3>1, <3>3, <4>1, <4>3 DEF StreamOK, AtRest
      <4> QED BY <4>2, <4>3
    <3> QED BY <3>2, <3>3
  <2> QED BY <2>2, <2>3
<1>2. StreamsInv => PageNotStranded
  BY <1>1 DEF PageNotStranded
<1> QED BY <1>2, StreamsInvariant, PTL

-----------------------------------------------------------------------------
(* What a page shows as good: GoodIsLive of DataPlane, for a session that  *)
(* is open.  Until a catch-up is over what is shown is not good, and what  *)
(* is collected may be; a replay restores its prefix as good before the    *)
(* endpoint is connected, and is saved by the connected event that must    *)
(* follow in its body and resets the signals (ClearsPrefix).               *)

SignalFields == {"signal", "fence", "stamp", "guard", "routed"}
GuardFields == {"under", "pending", "fence", "stamp"}
RecordFields == {"wire", "lifecycle", "seen"}

NothingGood(signal) == \A c \in Channels : signal[c].quality # "good"

SignalsOK(s) ==
    /\ DOMAIN s = SignalFields
    /\ DOMAIN s.signal = Channels
    /\ DOMAIN s.guard = GuardFields
    /\ s.guard.under => DOMAIN s.guard.pending = Channels

(* What is shown during a catch-up is not good.                            *)
Hidden(s) == SignalsOK(s) /\ (s.guard.under => NothingGood(s.signal))

(* The signals of an endpoint that is up or not.                           *)
Honest(s, up) == Hidden(s) /\ (up \/ NothingGood(Writable(s)))

(* What an operation of the store leaves alone.                            *)
SameGuard(s, t) == t.guard.under = s.guard.under /\ t.routed = s.routed

LEMMA WrittenIs ==
    ASSUME NEW s, SignalsOK(s), NEW signal, DOMAIN signal = Channels,
           NEW t, t = Written(s, signal)
    PROVE  /\ SignalsOK(t) /\ SameGuard(s, t) /\ t.fence = s.fence
           /\ IF s.guard.under THEN t.signal = s.signal /\ t.guard.pending = signal
              ELSE t.signal = signal
  BY DEF SignalsOK, Written, SameGuard, SignalFields, GuardFields

LEMMA WritableIs ==
    ASSUME NEW s, SignalsOK(s)
    PROVE  DOMAIN Writable(s) = Channels
  BY DEF SignalsOK, Writable

(* What is written is not good, or the endpoint is up.                     *)
LEMMA WrittenLive ==
    ASSUME NEW s, Hidden(s), NEW signal, DOMAIN signal = Channels,
           NEW up, up \/ NothingGood(signal), NEW t, t = Written(s, signal)
    PROVE  Honest(t, up) /\ SameGuard(s, t)
<1>1. /\ SignalsOK(t) /\ SameGuard(s, t)
      /\ IF s.guard.under THEN t.signal = s.signal /\ t.guard.pending = signal
         ELSE t.signal = signal
  BY WrittenIs DEF Hidden
<1> QED BY <1>1 DEF Honest, Hidden, Writable, SameGuard

(* Fence, stamp and lifecycle say nothing of the quality.                  *)
LEMMA FencedLive ==
    ASSUME NEW s, NEW up, Honest(s, up), NEW n, NEW stamp,
           NEW t, t = [s EXCEPT !.fence = n, !.stamp = stamp]
    PROVE  Honest(t, up) /\ SameGuard(s, t)
<1>1. /\ DOMAIN t = SignalFields /\ t.signal = s.signal /\ t.guard = s.guard
      /\ t.routed = s.routed
  BY DEF Honest, Hidden, Writable, SignalsOK, SignalFields
<1> QED BY <1>1 DEF Honest, Hidden, Writable, SignalsOK, SameGuard

LEMMA RoutedLive ==
    ASSUME NEW s, NEW up, Honest(s, up), NEW o, NEW t, t = [s EXCEPT !.routed = o]
    PROVE  Honest(t, up) /\ t.guard.under = s.guard.under /\ t.routed = o
<1>1. /\ DOMAIN t = SignalFields /\ t.signal = s.signal /\ t.guard = s.guard
      /\ t.routed = o
  BY DEF Honest, Hidden, Writable, SignalsOK, SignalFields
<1> QED BY <1>1 DEF Honest, Hidden, Writable, SignalsOK

LEMMA IngestedLive ==
    ASSUME NEW s, NEW up, up, Honest(s, up), NEW m, NEW n, NEW t, t = Ingested(s, m, n)
    PROVE  Honest(t, up) /\ SameGuard(s, t)
<1>1. PICK signal : signal = [Writable(s) EXCEPT ![m.channel] = Observed(@, m)]
  OBVIOUS
<1>2. PICK w : w = Written(s, signal)
  OBVIOUS
<1>3. t = s \/ t = [w EXCEPT !.fence = n, !.stamp[m.channel] = m.stamp]
  BY <1>1, <1>2 DEF Ingested
<1>4. DOMAIN signal = Channels
  BY <1>1, WritableIs DEF Honest, Hidden
<1>5. Honest(w, up) /\ SameGuard(s, w)
  BY <1>2, <1>4, WrittenLive DEF Honest
<1>6. CASE t = s
  BY <1>6 DEF SameGuard
<1>7. CASE t = [w EXCEPT !.fence = n, !.stamp[m.channel] = m.stamp]
  <2>1. PICK stamp : stamp = [w.stamp EXCEPT ![m.channel] = m.stamp]
    OBVIOUS
  <2>2. t = [w EXCEPT !.fence = n, !.stamp = stamp]
    BY <1>5, <1>7, <2>1 DEF Honest, Hidden, SignalsOK, SignalFields
  <2>3. Honest(t, up) /\ SameGuard(w, t)
    BY <1>5, <2>2, FencedLive
  <2> QED BY <1>5, <2>3 DEF SameGuard
<1> QED BY <1>3, <1>6, <1>7

LEMMA WithQualityIs ==
    ASSUME NEW signal, NEW q, q # "good"
    PROVE  DOMAIN WithQuality(signal, q) = Channels /\ NothingGood(WithQuality(signal, q))
  BY DEF WithQuality, NothingGood

(* An event of the endpoint: nothing that can be written to is good.       *)
LEMMA DisconnectedLive ==
    ASSUME NEW s, Hidden(s), NEW up, NEW t, t = EndpointDisconnected(s)
    PROVE  Honest(t, up) /\ SameGuard(s, t)
<1>1. PICK signal : signal = WithQuality(Writable(s), "stale")
  OBVIOUS
<1>2. DOMAIN signal = Channels /\ NothingGood(signal)
  BY <1>1, WithQualityIs
<1>3. t = Written(s, signal)
  BY <1>1 DEF EndpointDisconnected
<1> QED BY <1>2, <1>3, WrittenLive

LEMMA ResetLive ==
    ASSUME NEW s, Hidden(s), NEW up, NEW t, t = EndpointReset(s)
    PROVE  Honest(t, up) /\ SameGuard(s, t)
<1>1. PICK signal : signal = WithQuality(Writable(s), "waiting")
  OBVIOUS
<1>2. DOMAIN signal = Channels /\ NothingGood(signal)
  BY <1>1, WithQualityIs
<1>3. PICK w : w = Written(s, signal)
  OBVIOUS
<1>4. t = [w EXCEPT !.fence = 0, !.stamp = NoStamps]
  BY <1>1, <1>3 DEF EndpointReset
<1>5. Honest(w, up) /\ SameGuard(s, w)
  BY <1>2, <1>3, WrittenLive
<1>6. Honest(t, up) /\ SameGuard(w, t)
  BY <1>4, <1>5, FencedLive
<1> QED BY <1>5, <1>6 DEF SameGuard

(* The router lets an event pass that the stream has accepted, for both go *)
(* by the same last event.                                                 *)
LEMMA AcceptedIsLater ==
    ASSUME NEW m, NEW p, p # Null, Accepted(p, Order(m))
    PROVE  Later(Order(m), p)
<1>1. PICK o : o = Order(m)
  OBVIOUS
<1>2. DOMAIN o = {1, 2, 3}
  BY <1>1 DEF Order
<1>3. \/ o[1] > p[1]
      \/ o[1] = p[1] /\ o[2] > p[2]
      \/ o[1] = p[1] /\ o[2] = p[2] /\ o[3] > p[3]
  BY <1>1 DEF Accepted, Connects, Disconnects
<1>4. 1..(1 - 1) = {} /\ 1..(2 - 1) = {1} /\ 1..(3 - 1) = {1, 2}
  OBVIOUS
<1> QED BY <1>1, <1>2, <1>3, <1>4 DEF Later

LEMMA LifecycleLive ==
    ASSUME NEW s, Hidden(s), NEW m, NEW p, p = s.routed, Accepted(p, Order(m)),
           NEW up, NEW t, t = LifecycleRouted(s, m)
    PROVE  Honest(t, up) /\ t.guard.under = s.guard.under /\ t.routed = Order(m)
<1>1. p = Null \/ Later(Order(m), p)
  BY AcceptedIsLater
<1>2. PICK w : w = IF m.kind = "connected" THEN EndpointReset(s) ELSE EndpointDisconnected(s)
  OBVIOUS
<1>3. PICK o : o = Order(m)
  OBVIOUS
<1>4. t = [w EXCEPT !.routed = o]
  BY <1>1, <1>2, <1>3 DEF LifecycleRouted
<1>5. Honest(w, up) /\ SameGuard(s, w)
  <2>1. CASE m.kind = "connected"
    BY <1>2, <2>1, ResetLive
  <2>2. CASE m.kind # "connected"
    BY <1>2, <2>2, DisconnectedLive
  <2> QED BY <2>1, <2>2
<1>6. Honest(t, up) /\ t.guard.under = w.guard.under /\ t.routed = o
  BY <1>4, <1>5, RoutedLive
<1> QED BY <1>3, <1>5, <1>6 DEF SameGuard

LEMMA SessionResetLive ==
    ASSUME NEW s, NEW up, NEW t, t = SessionReset(s)
    PROVE  Honest(t, up) /\ ~t.guard.under /\ t.routed = Null
<1>1. PICK signal : signal = WithQuality(s.signal, "waiting")
  OBVIOUS
<1>2. DOMAIN signal = Channels /\ NothingGood(signal)
  BY <1>1, WithQualityIs
<1>3. t = [NewSignals EXCEPT !.signal = signal]
  BY <1>1 DEF SessionReset
<1>4. t = [signal |-> signal, fence |-> 0, stamp |-> NoStamps,
          guard |-> NoGuard, routed |-> Null]
  BY <1>3 DEF NewSignals
<1> QED BY <1>2, <1>4 DEF Honest, Hidden, Writable, SignalsOK, SignalFields, GuardFields, NoGuard

(* beginEndpointCatchup and commit.                                        *)
LEMMA CatchupBegunLive ==
    ASSUME NEW s, NEW up, Honest(s, up), NEW t, t = CatchupBegun(s)
    PROVE  Honest(t, up) /\ t.guard.under /\ t.routed = s.routed
<1>1. PICK signal : signal = WithQuality(s.signal, "stale")
  OBVIOUS
<1>2. DOMAIN signal = Channels /\ NothingGood(signal)
  BY <1>1, WithQualityIs
<1>3. PICK guard : guard = Guarded(s)
  OBVIOUS
<1>4. t = [s EXCEPT !.signal = signal, !.guard = guard]
  BY <1>1, <1>3 DEF CatchupBegun
<1>5. /\ DOMAIN t = SignalFields /\ t.signal = signal /\ t.guard = guard
      /\ t.routed = s.routed
  BY <1>4 DEF Honest, Hidden, Writable, SignalsOK, SignalFields
<1>6. DOMAIN guard = GuardFields /\ guard.under = TRUE /\ guard.pending = s.signal
  BY <1>3 DEF Guarded, GuardFields
<1> QED BY <1>2, <1>5, <1>6 DEF Honest, Hidden, Writable, SignalsOK

LEMMA CatchupCommittedLive ==
    ASSUME NEW s, NEW up, Honest(s, up), s.guard.under, NEW t, t = CatchupCommitted(s)
    PROVE  Honest(t, up) /\ ~t.guard.under /\ t.routed = s.routed
<1>1. /\ DOMAIN t = SignalFields /\ t.signal = s.guard.pending /\ t.guard = NoGuard
      /\ t.routed = s.routed
  BY DEF CatchupCommitted, Honest, Hidden, SignalsOK, SignalFields
<1> QED BY <1>1 DEF Honest, Hidden, Writable, SignalsOK, NoGuard, GuardFields

(* restoreReplayPrefix                                                     *)
LEMMA PrefixRestoredIs ==
    ASSUME NEW s, SignalsOK(s), ~s.guard.under, NEW m, NEW t, t = PrefixRestored(s, m)
    PROVE  SignalsOK(t) /\ ~t.guard.under /\ t.routed = s.routed
  BY DEF PrefixRestored, SignalsOK, SignalFields

-----------------------------------------------------------------------------
(* The session of a page: what it knows of an endpoint and what it shows   *)
(* of it go together.                                                      *)

EndpointHonest(s, r) ==
    /\ Honest(s, IsConnected(r.lifecycle))
    /\ DOMAIN r = RecordFields
    /\ s.routed = r.lifecycle
    /\ s.guard.under => r.seen

(* A replay has restored some of its prefix.                               *)
Restoring(s, r) ==
    /\ SignalsOK(s) /\ ~s.guard.under
    /\ DOMAIN r = RecordFields
    /\ s.routed = r.lifecycle

(* The session, which restores the prefix of endpoint e or of none.        *)
SessionHonest(k, e) ==
    /\ DOMAIN k = PageFields /\ DOMAIN k.signals = Endpoints /\ DOMAIN k.record = Endpoints
    /\ \A d \in Endpoints : IF d = e THEN Restoring(k.signals[d], k.record[d])
                            ELSE EndpointHonest(k.signals[d], k.record[d])

(* The guards are as they were.                                            *)
SameGuards(k, l) ==
    /\ l.boundary = k.boundary
    /\ \A d \in Endpoints : l.signals[d].guard.under <=> k.signals[d].guard.under

(* applyLifecycle and ingest: a lifecycle event that is known already, a   *)
(* state batch of a connected endpoint, or an event that fits.             *)
AppliedAs(k, l, f, e, m) ==
    \/ l = k /\ (m.kind # "state" => k.record[e].lifecycle = Order(m))
    \/ /\ m.kind = "state" /\ IsConnected(k.record[e].lifecycle)
       /\ DOMAIN l = PageFields /\ l.boundary = k.boundary /\ l.record = k.record
       /\ l.signals = [k.signals EXCEPT ![e] = Ingested(@, m, f.wire)]
    \/ /\ m.kind # "state" /\ Accepted(k.record[e].lifecycle, Order(m))
       /\ DOMAIN l = PageFields /\ l.boundary = k.boundary
       /\ l.record = [k.record EXCEPT ![e].lifecycle = Order(m)]
       /\ l.signals = [k.signals EXCEPT ![e] = LifecycleRouted(@, m)]

LEMMA AppliedCases ==
    ASSUME NEW k, DOMAIN k = PageFields, NEW f, NEW l, l = Applied(k, f), l # Null,
           NEW e, e = f.endpoint, NEW m, m = f.body
    PROVE  AppliedAs(k, l, f, e, m)
<1>1. PICK next : next = [k EXCEPT !.signals[e] = Ingested(@, m, f.wire)]
  OBVIOUS
<1>2. PICK o : o = Order(m)
  OBVIOUS
<1>3. PICK last : last = [k EXCEPT !.record[e].lifecycle = o, !.signals[e] = LifecycleRouted(@, m)]
  OBVIOUS
<1>4. \/ m.kind = "state" /\ IsConnected(k.record[e].lifecycle) /\ l = next
      \/ m.kind # "state" /\ k.record[e].lifecycle = o /\ l = k
      \/ m.kind # "state" /\ Accepted(k.record[e].lifecycle, o) /\ l = last
  BY <1>1, <1>2, <1>3 DEF Applied
<1>5. /\ DOMAIN next = PageFields /\ next.boundary = k.boundary /\ next.record = k.record
      /\ next.signals = [k.signals EXCEPT ![e] = Ingested(@, m, f.wire)]
  BY <1>1 DEF PageFields
<1>6. /\ DOMAIN last = PageFields /\ last.boundary = k.boundary
      /\ last.record = [k.record EXCEPT ![e].lifecycle = o]
      /\ last.signals = [k.signals EXCEPT ![e] = LifecycleRouted(@, m)]
  BY <1>3 DEF PageFields
<1> QED BY <1>2, <1>4, <1>5, <1>6 DEF AppliedAs

(* An endpoint whose connected event is to come, or that is up or down,    *)
(* after an event of its own.                                              *)
LEMMA EventHonest ==
    ASSUME NEW s, NEW r, Restoring(s, r) \/ EndpointHonest(s, r), NEW m,
           Accepted(r.lifecycle, Order(m)),
           NEW t, t = LifecycleRouted(s, m), NEW q, q = [r EXCEPT !.lifecycle = Order(m)]
    PROVE  EndpointHonest(t, q) /\ (t.guard.under <=> s.guard.under)
<1>1. Hidden(s) /\ DOMAIN r = RecordFields /\ s.routed = r.lifecycle
        /\ (s.guard.under => r.seen)
  BY DEF Restoring, EndpointHonest, Honest, Hidden
<1>2. PICK o : o = Order(m)
  OBVIOUS
<1>3. DOMAIN q = RecordFields /\ q.lifecycle = o /\ q.seen = r.seen
  BY <1>1, <1>2 DEF RecordFields
<1>4. PICK p : p = s.routed
  OBVIOUS
<1>5. PICK up : up = IsConnected(o)
  OBVIOUS
<1>6. Accepted(p, Order(m))
  BY <1>1, <1>4
<1>7. Honest(t, up) /\ t.guard.under = s.guard.under /\ t.routed = Order(m)
  BY <1>1, <1>4, <1>6, LifecycleLive
<1> QED BY <1>1, <1>2, <1>3, <1>5, <1>7 DEF EndpointHonest

LEMMA StateHonest ==
    ASSUME NEW s, NEW r, EndpointHonest(s, r), IsConnected(r.lifecycle), NEW m, NEW n,
           NEW t, t = Ingested(s, m, n)
    PROVE  EndpointHonest(t, r) /\ (t.guard.under <=> s.guard.under)
<1>1. PICK up : up = IsConnected(r.lifecycle)
  OBVIOUS
<1>2. up /\ Honest(s, up)
  BY <1>1 DEF EndpointHonest
<1>3. Honest(t, up) /\ SameGuard(s, t)
  BY <1>2, IngestedLive
<1> QED BY <1>1, <1>3 DEF EndpointHonest, SameGuard

(* A message is applied while no prefix is being restored.                 *)
LEMMA AppliedHonest ==
    ASSUME NEW k, SessionHonest(k, Null), NEW f, NEW l, l = Applied(k, f), l # Null
    PROVE  SessionHonest(l, Null) /\ SameGuards(k, l)
<1>1. PICK e : e = f.endpoint
  OBVIOUS
<1>2. PICK m : m = f.body
  OBVIOUS
<1>3. /\ DOMAIN k = PageFields /\ DOMAIN k.signals = Endpoints /\ DOMAIN k.record = Endpoints
      /\ \A d \in Endpoints : EndpointHonest(k.signals[d], k.record[d])
  BY HubAssumption DEF SessionHonest
<1>4. CASE l = k
  BY <1>4 DEF SameGuards
<1>5. CASE /\ m.kind = "state" /\ IsConnected(k.record[e].lifecycle)
           /\ DOMAIN l = PageFields /\ l.boundary = k.boundary /\ l.record = k.record
           /\ l.signals = [k.signals EXCEPT ![e] = Ingested(@, m, f.wire)]
  <2>1. ASSUME NEW d \in Endpoints
        PROVE  /\ EndpointHonest(l.signals[d], l.record[d])
               /\ l.signals[d].guard.under <=> k.signals[d].guard.under
    <3>1. CASE d = e
      <4>1. PICK s : s = k.signals[d]
        OBVIOUS
      <4>2. PICK r : r = k.record[d]
        OBVIOUS
      <4>3. PICK n : n = f.wire
        OBVIOUS
      <4>4. PICK t : t = Ingested(s, m, n)
        OBVIOUS
      <4>5. EndpointHonest(s, r) /\ IsConnected(r.lifecycle)
        BY <1>3, <1>5, <3>1, <4>1, <4>2
      <4>6. EndpointHonest(t, r) /\ (t.guard.under <=> s.guard.under)
        BY <4>4, <4>5, StateHonest
      <4> QED BY <1>3, <1>5, <3>1, <4>1, <4>2, <4>3, <4>4, <4>6
    <3>2. CASE d # e
      BY <1>3, <1>5, <3>2
    <3> QED BY <3>1, <3>2
  <2> QED BY <1>3, <1>5, <2>1, HubAssumption DEF SessionHonest, SameGuards
<1>6. CASE /\ m.kind # "state" /\ Accepted(k.record[e].lifecycle, Order(m))
           /\ DOMAIN l = PageFields /\ l.boundary = k.boundary
           /\ l.record = [k.record EXCEPT ![e].lifecycle = Order(m)]
           /\ l.signals = [k.signals EXCEPT ![e] = LifecycleRouted(@, m)]
  <2>1. ASSUME NEW d \in Endpoints
        PROVE  /\ EndpointHonest(l.signals[d], l.record[d])
               /\ l.signals[d].guard.under <=> k.signals[d].guard.under
    <3>1. CASE d = e
      <4>1. PICK s : s = k.signals[d]
        OBVIOUS
      <4>2. PICK r : r = k.record[d]
        OBVIOUS
      <4>3. PICK q : q = [r EXCEPT !.lifecycle = Order(m)]
        OBVIOUS
      <4>4. PICK t : t = LifecycleRouted(s, m)
        OBVIOUS
      <4>5. EndpointHonest(s, r) /\ Accepted(r.lifecycle, Order(m))
        BY <1>3, <1>6, <3>1, <4>1, <4>2
      <4>6. EndpointHonest(t, q) /\ (t.guard.under <=> s.guard.under)
        BY <4>3, <4>4, <4>5, EventHonest
      <4>7. l.signals[d] = t /\ l.record[d] = q
        BY <1>3, <1>6, <3>1, <4>1, <4>2, <4>3, <4>4
      <4> QED BY <4>1, <4>6, <4>7
    <3>2. CASE d # e
      BY <1>3, <1>6, <3>2
    <3> QED BY <3>1, <3>2
  <2> QED BY <1>3, <1>6, <2>1, HubAssumption DEF SessionHonest, SameGuards
<1>7. AppliedAs(k, l, f, e, m)
  BY <1>1, <1>2, <1>3, AppliedCases
<1> QED BY <1>4, <1>5, <1>6, <1>7 DEF AppliedAs

-----------------------------------------------------------------------------
(* The body of a boundary, as it is applied.                               *)

(* No endpoint of the Project: nothing is restored.                        *)
LEMMA RestoresNone ==
    ASSUME NEW k, NEW e, e \notin Endpoints
    PROVE  SessionHonest(k, e) <=> SessionHonest(k, Null)
  BY HubAssumption DEF SessionHonest

(* An endpoint that waits for no catch-up may begin to be restored.        *)
LEMMA RestoringBegins ==
    ASSUME NEW k, SessionHonest(k, Null), NEW e \in Endpoints, ~k.signals[e].guard.under
    PROVE  SessionHonest(k, e)
  BY HubAssumption DEF SessionHonest, Restoring, EndpointHonest, Honest, Hidden

LEMMA PrefixHonest ==
    ASSUME NEW k, NEW entry, NEW e, e = entry.frame.endpoint, SessionHonest(k, e), entry.prefix,
           NEW l, l = Drained(k, entry)
    PROVE  l = Null \/ (SessionHonest(l, e) /\ SameGuards(k, l) /\ l.record = k.record)
<1>1. PICK m : m = entry.frame.body
  OBVIOUS
<1>2. PICK signals : signals = [k.signals EXCEPT ![e] = PrefixRestored(@, m)]
  OBVIOUS
<1>3. l = Null \/ l = [k EXCEPT !.signals = signals]
  BY <1>1, <1>2 DEF Drained
<1>4. CASE l = [k EXCEPT !.signals = signals]
  <2>1. /\ DOMAIN l = PageFields /\ l.signals = signals /\ l.record = k.record
        /\ l.boundary = k.boundary
    BY <1>4 DEF SessionHonest, PageFields
  <2>2. DOMAIN k.signals = Endpoints /\ DOMAIN k.record = Endpoints
          /\ \A d \in Endpoints : IF d = e THEN Restoring(k.signals[d], k.record[d])
                                  ELSE EndpointHonest(k.signals[d], k.record[d])
    BY DEF SessionHonest
  <2>3. ASSUME NEW d \in Endpoints
        PROVE  /\ IF d = e THEN Restoring(signals[d], k.record[d])
                  ELSE EndpointHonest(signals[d], k.record[d])
               /\ signals[d].guard.under <=> k.signals[d].guard.under
    <3>1. CASE d = e
      <4>1. PICK s : s = k.signals[d]
        OBVIOUS
      <4>2. PICK t : t = PrefixRestored(s, m)
        OBVIOUS
      <4>3. Restoring(s, k.record[d])
        BY <2>2, <3>1, <4>1
      <4>4. SignalsOK(s) /\ ~s.guard.under /\ DOMAIN k.record[d] = RecordFields
              /\ s.routed = k.record[d].lifecycle
        BY <4>3 DEF Restoring
      <4>5. SignalsOK(t) /\ ~t.guard.under /\ t.routed = s.routed
        BY <4>2, <4>4, PrefixRestoredIs
      <4>6. signals[d] = t
        BY <1>2, <2>2, <3>1, <4>1, <4>2
      <4> QED BY <3>1, <4>1, <4>4, <4>5, <4>6 DEF Restoring
    <3>2. CASE d # e
      BY <1>2, <2>2, <3>2
    <3> QED BY <3>1, <3>2
  <2>4. DOMAIN signals = Endpoints
    BY <1>2, <2>2
  <2> QED BY <2>1, <2>2, <2>3, <2>4 DEF SessionHonest, SameGuards
<1> QED BY <1>3, <1>4

(* The connected event after a prefix makes the endpoint honest again.     *)
LEMMA ClearedHonest ==
    ASSUME NEW k, NEW f, NEW e \in Endpoints, e = f.endpoint, SessionHonest(k, e),
           NEW m, m = f.body, m.kind = "connected", Order(m) # k.record[e].lifecycle,
           NEW l, l = Applied(k, f), l # Null
    PROVE  SessionHonest(l, Null) /\ SameGuards(k, l)
<1>1. /\ DOMAIN k = PageFields /\ DOMAIN k.signals = Endpoints /\ DOMAIN k.record = Endpoints
      /\ \A d \in Endpoints : IF d = e THEN Restoring(k.signals[d], k.record[d])
                              ELSE EndpointHonest(k.signals[d], k.record[d])
  BY DEF SessionHonest
<1>2. DOMAIN k = PageFields
  BY <1>1
<1>3. CASE l = k /\ (m.kind # "state" => k.record[e].lifecycle = Order(m))
  BY <1>3
<1>4. CASE /\ m.kind = "state" /\ IsConnected(k.record[e].lifecycle)
           /\ DOMAIN l = PageFields /\ l.boundary = k.boundary /\ l.record = k.record
           /\ l.signals = [k.signals EXCEPT ![e] = Ingested(@, m, f.wire)]
  BY <1>4
<1>5. CASE /\ m.kind # "state" /\ Accepted(k.record[e].lifecycle, Order(m))
           /\ DOMAIN l = PageFields /\ l.boundary = k.boundary
           /\ l.record = [k.record EXCEPT ![e].lifecycle = Order(m)]
           /\ l.signals = [k.signals EXCEPT ![e] = LifecycleRouted(@, m)]
  <2>1. ASSUME NEW d \in Endpoints
        PROVE  /\ EndpointHonest(l.signals[d], l.record[d])
               /\ l.signals[d].guard.under <=> k.signals[d].guard.under
    <3>1. CASE d = e
      <4>1. PICK s : s = k.signals[d]
        OBVIOUS
      <4>2. PICK r : r = k.record[d]
        OBVIOUS
      <4>3. PICK q : q = [r EXCEPT !.lifecycle = Order(m)]
        OBVIOUS
      <4>4. PICK t : t = LifecycleRouted(s, m)
        OBVIOUS
      <4>5. Restoring(s, r) /\ Accepted(r.lifecycle, Order(m))
        BY <1>1, <1>5, <3>1, <4>1, <4>2
      <4>6. EndpointHonest(t, q) /\ (t.guard.under <=> s.guard.under)
        BY <4>3, <4>4, <4>5, EventHonest
      <4>7. l.signals[d] = t /\ l.record[d] = q
        BY <1>1, <1>5, <3>1, <4>1, <4>2, <4>3, <4>4
      <4> QED BY <4>1, <4>6, <4>7
    <3>2. CASE d # e
      BY <1>1, <1>5, <3>2
    <3> QED BY <3>1, <3>2
  <2> QED BY <1>1, <1>5, <2>1, HubAssumption DEF SessionHonest, SameGuards
<1>6. AppliedAs(k, l, f, e, m)
  BY <1>2, AppliedCases
<1> QED BY <1>3, <1>4, <1>5, <1>6 DEF AppliedAs

(* Of a replay, what comes before entry number from is its prefix, and     *)
(* that entry the connected event; of a catch-up from is 0.                *)
ClearsPrefix(entry, lifecycle) ==
    /\ entry.frame.body.kind = "connected"
    /\ Order(entry.frame.body) # lifecycle

Body(k, frames, e, from) ==
    /\ IsSequence(frames) /\ from \in 0..Len(frames)
    /\ \A i \in DOMAIN frames : frames[i].frame.endpoint = e
    /\ e \in Endpoints =>
          /\ \A i \in DOMAIN frames : frames[i].prefix <=> i < from
          /\ from # 0 => ClearsPrefix(frames[from], k.record[e].lifecycle)
    /\ e \notin Endpoints => from = 0

(* The whole body is applied: then nothing is being restored.              *)
HonestFrom(c, n, k) ==
    \/ k = Null
    \/ /\ SameGuards(c.page, k)
       /\ IF n < c.from THEN SessionHonest(k, c.endpoint) /\ k.record = c.page.record
          ELSE SessionHonest(k, Null)
Restore == INSTANCE FoldInduction WITH Op <- DrainNext, P <- HonestFrom

LEMMA EntryHonest ==
    ASSUME NEW k, SessionHonest(k, Null), NEW entry,
           entry.frame.endpoint \in Endpoints => ~entry.prefix,
           NEW l, l = Drained(k, entry)
    PROVE  l = Null \/ (SessionHonest(l, Null) /\ SameGuards(k, l))
<1>1. PICK f : f = entry.frame
  OBVIOUS
<1>2. PICK e : e = f.endpoint
  OBVIOUS
<1>3. CASE ~entry.prefix
  <2>1. l = Null \/ l = Applied(k, f)
    BY <1>1, <1>3 DEF Drained
  <2> QED BY <2>1, AppliedHonest
<1>4. CASE entry.prefix
  <2>1. e \notin Endpoints /\ e = entry.frame.endpoint
    BY <1>1, <1>2, <1>4
  <2>2. SessionHonest(k, e)
    BY <2>1, RestoresNone
  <2>3. l = Null \/ (SessionHonest(l, e) /\ SameGuards(k, l) /\ l.record = k.record)
    BY <1>4, <2>1, <2>2, PrefixHonest
  <2> QED BY <2>1, <2>3, RestoresNone
<1> QED BY <1>3, <1>4

LEMMA BodyHonest ==
    ASSUME NEW k, SessionHonest(k, Null), NEW e, NEW frames, NEW from, Body(k, frames, e, from),
           from # 0 => ~k.signals[e].guard.under,
           NEW l, l = FoldLeft(Drained, k, frames)
    PROVE  l = Null \/ (SessionHonest(l, Null) /\ SameGuards(k, l))
<1>1. Len(frames) \in Nat /\ DOMAIN frames = 1..Len(frames) /\ from \in 0..Len(frames)
  BY DEF Body, IsSequence
<1>2. PICK c : c = [page |-> k, from |-> from, endpoint |-> e]
  OBVIOUS
<1>3. c.page = k /\ c.from = from /\ c.endpoint = e
  BY <1>2
<1>4. HonestFrom(c, 0, k)
  <2>1. SameGuards(k, k)
    BY DEF SameGuards
  <2>2. CASE from = 0
    BY <1>3, <2>1, <2>2 DEF HonestFrom
  <2>3. CASE from # 0
    <3>1. e \in Endpoints
      BY <2>3 DEF Body
    <3>2. SessionHonest(k, e)
      BY <2>3, <3>1, RestoringBegins
    <3> QED BY <1>3, <2>1, <3>2, <1>1, <2>3 DEF HonestFrom
  <2> QED BY <2>2, <2>3
<1>5. ASSUME NEW n \in 1..Len(frames), NEW x, HonestFrom(c, n - 1, x)
      PROVE  HonestFrom(c, n, DrainNext(c, x, frames[n]))
  <2>1. PICK entry : entry = frames[n]
    OBVIOUS
  <2>2. PICK y : y = Drained(x, entry)
    OBVIOUS
  <2>3. /\ entry.frame.endpoint = e
        /\ e \in Endpoints => (entry.prefix <=> n < from)
        /\ n = from => e \in Endpoints /\ ClearsPrefix(entry, k.record[e].lifecycle)
    BY <1>1, <2>1 DEF Body
  <2>4. SUFFICES HonestFrom(c, n, y)
    BY <2>1, <2>2 DEF DrainNext
  <2>5. CASE x = Null
    BY <2>2, <2>5 DEF Drained, HonestFrom
  <2>6. CASE x # Null /\ from <= n - 1
    <3>1. SessionHonest(x, Null) /\ SameGuards(k, x)
      BY <1>1, <1>3, <1>5, <2>6 DEF HonestFrom
    <3>2. y = Null \/ (SessionHonest(y, Null) /\ SameGuards(x, y))
      <4>1. entry.frame.endpoint \in Endpoints => ~entry.prefix
        BY <1>1, <2>3, <2>6
      <4> QED BY <2>2, <3>1, <4>1, EntryHonest
    <3>3. y = Null \/ SameGuards(k, y)
      BY <3>1, <3>2 DEF SameGuards
    <3> QED BY <1>1, <1>3, <2>6, <3>2, <3>3 DEF HonestFrom
  <2>7. CASE x # Null /\ n - 1 < from
    <3>1. SessionHonest(x, e) /\ SameGuards(k, x) /\ x.record = k.record
      BY <1>1, <1>3, <1>5, <2>7 DEF HonestFrom
    <3>2. CASE n < from
      <4>1. e \in Endpoints
        BY <1>1, <3>2 DEF Body
      <4>2. entry.prefix
        BY <2>3, <3>2, <4>1
      <4>3. y = Null \/ (SessionHonest(y, e) /\ SameGuards(x, y) /\ y.record = x.record)
        BY <2>2, <2>3, <3>1, <4>2, PrefixHonest
      <4>4. y = Null \/ SameGuards(k, y)
        BY <3>1, <4>3 DEF SameGuards
      <4> QED BY <1>3, <3>1, <3>2, <4>3, <4>4 DEF HonestFrom
    <3>3. CASE n = from
      <4>1. e \in Endpoints /\ ClearsPrefix(entry, x.record[e].lifecycle) /\ ~entry.prefix
        BY <2>3, <3>1, <3>3
      <4>2. PICK f : f = entry.frame
        OBVIOUS
      <4>3. PICK m : m = f.body
        OBVIOUS
      <4>4. m.kind = "connected" /\ Order(m) # x.record[e].lifecycle /\ e = f.endpoint
        BY <2>3, <4>1, <4>2, <4>3 DEF ClearsPrefix
      <4>5. y = Null \/ y = Applied(x, f)
        BY <2>2, <4>1, <4>2 DEF Drained
      <4>6. y = Null \/ (SessionHonest(y, Null) /\ SameGuards(x, y))
        BY <3>1, <4>1, <4>3, <4>4, <4>5, ClearedHonest
      <4>7. y = Null \/ SameGuards(k, y)
        BY <3>1, <4>6 DEF SameGuards
      <4> QED BY <1>3, <3>3, <4>6, <4>7 DEF HonestFrom
    <3> QED BY <1>1, <2>7, <3>2, <3>3
  <2> QED BY <1>1, <2>5, <2>6, <2>7
<1>6. HonestFrom(c, Len(frames), Restore!Fold(c, k, frames))
  BY <1>1, <1>4, <1>5, Restore!FoldLeftInduction
<1>7. Restore!Fold(c, k, frames) = FoldLeft(Drained, k, frames)
  BY DEF Restore!Fold, Restore!Iterates, FoldLeft, MapThenFoldSet, Restore!Max, Max, DrainNext
<1> QED BY <1>1, <1>3, <1>6, <1>7 DEF HonestFrom

-----------------------------------------------------------------------------
(* A boundary that has begun: what has been collected of a replay is its   *)
(* prefix, or there is the connected event after it; a catch-up has its    *)
(* guard and no prefix.                                                    *)

BodyFits(q, s, r) ==
    IF q.kind = "replay"
    THEN /\ ~s.guard.under
         /\ IF q.stage = "prefix"
            THEN q.lifecycle = r.lifecycle /\ \A i \in DOMAIN q.frames : q.frames[i].prefix
            ELSE \E n \in DOMAIN q.frames :
                    /\ ClearsPrefix(q.frames[n], r.lifecycle)
                    /\ \A i \in DOMAIN q.frames : q.frames[i].prefix <=> i < n
    ELSE s.guard.under /\ \A i \in DOMAIN q.frames : ~q.frames[i].prefix

BoundaryFits(k) ==
    LET q == k.boundary
    IN /\ \A i \in DOMAIN q.frames : q.frames[i].frame.endpoint = q.endpoint
       /\ q.endpoint \in Endpoints => BodyFits(q, k.signals[q.endpoint], k.record[q.endpoint])

PageHonest(k) ==
    k.opened # NoTarget =>
        SessionHonest(k, Null) /\ (k.boundary # Null => BoundaryFits(k))

LEMMA AppendedIs ==
    ASSUME NEW s, IsSequence(s), NEW m, NEW t, t = Append(s, m)
    PROVE  /\ IsSequence(t) /\ Len(s) \in Nat
           /\ DOMAIN s = 1..Len(s) /\ DOMAIN t = 1..(Len(s) + 1)
           /\ \A i \in DOMAIN s : t[i] = s[i]
           /\ t[Len(s) + 1] = m
<1>1. IsSequence(t)
  BY AppendedIsSequence
<1>2. PICK S : S = Range(s) \cup {m}
  OBVIOUS
<1>3. s \in Seq(S) /\ m \in S
  BY <1>2 DEF IsSequence
<1> QED BY <1>1, <1>3

LEMMA StageIs ==
    ASSUME NEW q, NEW m, NEW stage, stage = StageAfter(q, m), stage # Null
    PROVE  IF q.stage # "prefix" THEN stage # "prefix"
           ELSE IF m.kind = "state" THEN stage = "prefix"
           ELSE stage = "current" /\ m.kind = "connected" /\ q.lifecycle # Order(m)
  BY DEF StageAfter

(* One more frame of the body, which has message m.                        *)
Collects(q, p, m, entry) ==
    /\ p.stage # Null
    /\ IF q.kind = "replay" THEN p.stage = StageAfter(q, m) ELSE p.stage = "current"
    /\ entry.prefix <=> m.kind = "state" /\ p.stage = "prefix"
    /\ entry.frame.body = m
    /\ p.kind = q.kind
    /\ p.frames = Append(q.frames, entry)
    /\ p.lifecycle = IF m.kind = "state" THEN q.lifecycle ELSE Order(m)

LEMMA CollectedFits ==
    ASSUME NEW q, IsSequence(q.frames), NEW s, NEW r, BodyFits(q, s, r),
           NEW m, NEW entry, NEW p, Collects(q, p, m, entry)
    PROVE  BodyFits(p, s, r)
<1>1. PICK stage : stage = p.stage
  OBVIOUS
<1>2. /\ stage # Null
      /\ IF q.kind = "replay" THEN stage = StageAfter(q, m) ELSE stage = "current"
      /\ entry.prefix <=> m.kind = "state" /\ stage = "prefix"
      /\ entry.frame.body = m
      /\ p.kind = q.kind
      /\ p.frames = Append(q.frames, entry)
      /\ p.lifecycle = IF m.kind = "state" THEN q.lifecycle ELSE Order(m)
      /\ stage = p.stage
  BY <1>1 DEF Collects
<1>3. PICK n : n = Len(q.frames) + 1
  OBVIOUS
<1>4. PICK before : before = q.frames
  OBVIOUS
<1>5. PICK after : after = p.frames
  OBVIOUS
<1>6. /\ n \in 1..n /\ DOMAIN before = 1..(n - 1) /\ DOMAIN after = 1..n
      /\ \A i \in 1..(n - 1) : after[i] = before[i]
      /\ after[n] = entry
  <2>1. after = Append(before, entry) /\ IsSequence(before)
    BY <1>2, <1>4, <1>5
  <2>2. /\ Len(before) \in Nat /\ DOMAIN before = 1..Len(before)
        /\ DOMAIN after = 1..(Len(before) + 1)
        /\ \A i \in DOMAIN before : after[i] = before[i]
        /\ after[Len(before) + 1] = entry
    BY <2>1, AppendedIs
  <2> QED BY <1>3, <1>4, <2>2
<1>7. CASE q.kind # "replay"
  <2>1. s.guard.under /\ \A i \in 1..(n - 1) : ~before[i].prefix
    BY <1>4, <1>6, <1>7 DEF BodyFits
  <2>2. ~entry.prefix
    BY <1>2, <1>7
  <2>3. \A i \in 1..n : ~after[i].prefix
    BY <1>6, <2>1, <2>2
  <2> QED BY <1>2, <1>5, <1>6, <1>7, <2>1, <2>3 DEF BodyFits
<1>8. CASE q.kind = "replay" /\ q.stage = "prefix"
  <2>1. ~s.guard.under /\ q.lifecycle = r.lifecycle /\ \A i \in 1..(n - 1) : before[i].prefix
    BY <1>4, <1>6, <1>8 DEF BodyFits
  <2>2. CASE m.kind = "state"
    <3>1. stage = "prefix" /\ entry.prefix
      BY <1>2, <1>8, <2>2, StageIs
    <3>2. \A i \in 1..n : after[i].prefix
      BY <1>6, <2>1, <3>1
    <3> QED BY <1>2, <1>5, <1>6, <1>8, <2>1, <2>2, <3>1, <3>2 DEF BodyFits
  <2>3. CASE m.kind # "state"
    <3>1. stage = "current" /\ ~entry.prefix /\ m.kind = "connected" /\ q.lifecycle # Order(m)
      BY <1>2, <1>8, <2>3, StageIs
    <3>2. ClearsPrefix(entry, r.lifecycle)
      BY <1>2, <2>1, <3>1 DEF ClearsPrefix
    <3>3. \A i \in 1..n : after[i].prefix <=> i < n
      BY <1>6, <2>1, <3>1
    <3>4. n \in DOMAIN after /\ ClearsPrefix(after[n], r.lifecycle)
      BY <1>6, <3>2
    <3> QED BY <1>2, <1>5, <1>6, <1>8, <2>1, <3>1, <3>3, <3>4 DEF BodyFits
  <2> QED BY <2>2, <2>3
<1>9. CASE q.kind = "replay" /\ q.stage # "prefix"
  <2>1. stage # "prefix" /\ ~entry.prefix
    BY <1>2, <1>9, StageIs
  <2>2. PICK i \in 1..(n - 1) : /\ ClearsPrefix(before[i], r.lifecycle)
                                /\ \A j \in 1..(n - 1) : before[j].prefix <=> j < i
    BY <1>4, <1>6, <1>9 DEF BodyFits
  <2>3. i \in 1..n /\ ClearsPrefix(after[i], r.lifecycle)
    BY <1>6, <2>2
  <2>4. \A j \in 1..n : after[j].prefix <=> j < i
    BY <1>6, <2>1, <2>2
  <2>5. ~s.guard.under
    BY <1>9 DEF BodyFits
  <2> QED BY <1>2, <1>5, <1>6, <1>9, <2>1, <2>3, <2>4, <2>5 DEF BodyFits
<1> QED BY <1>7, <1>8, <1>9

LEMMA BufferedHonest ==
    ASSUME NEW k, SessionHonest(k, Null), BoundaryOK(k), k.boundary # Null, BoundaryFits(k),
           NEW f, NEW l, l = Buffered(k, f), l # Null
    PROVE  SessionHonest(l, Null) /\ BoundaryFits(l)
<1>1. PICK m : m = f.body
  OBVIOUS
<1>2. PICK q : q = k.boundary
  OBVIOUS
<1>3. PICK stage : stage = IF q.kind = "replay" THEN StageAfter(q, m)
                           ELSE IF CatchupAdmits(q, m) THEN "current" ELSE Null
  OBVIOUS
<1>4. PICK prefix : prefix = (m.kind = "state" /\ stage = "prefix")
  OBVIOUS
<1>5. PICK entry : entry = [frame |-> f, prefix |-> prefix]
  OBVIOUS
<1>6. PICK lifecycle : lifecycle = IF m.kind = "state" THEN q.lifecycle ELSE Order(m)
  OBVIOUS
<1>7. PICK frames : frames = Append(q.frames, entry)
  OBVIOUS
<1>8. PICK p : p = [q EXCEPT !.stage = stage, !.lifecycle = lifecycle, !.frames = frames]
  OBVIOUS
<1>9. /\ f.endpoint = q.endpoint /\ stage # Null
      /\ l = [k EXCEPT !.boundary.stage = stage, !.boundary.lifecycle = lifecycle,
                       !.boundary.frames = frames]
  BY <1>1, <1>2, <1>3, <1>4, <1>5, <1>6, <1>7 DEF Buffered
<1>10. DOMAIN k = PageFields
  BY DEF SessionHonest
<1>11. /\ DOMAIN l = PageFields /\ l.boundary = p /\ l.signals = k.signals
       /\ l.record = k.record
  BY <1>2, <1>8, <1>9, <1>10 DEF PageFields
<1>12. DOMAIN q = BoundaryFields /\ IsSequence(q.frames)
  BY <1>2 DEF BoundaryOK
<1>13. /\ p.kind = q.kind /\ p.endpoint = q.endpoint /\ p.stage = stage
       /\ p.frames = frames /\ p.lifecycle = lifecycle
  BY <1>8, <1>12 DEF BoundaryFields
<1>14. entry.frame = f /\ (entry.prefix <=> m.kind = "state" /\ stage = "prefix")
  BY <1>4, <1>5
<1>15. SessionHonest(l, Null)
  BY <1>11 DEF SessionHonest
<1>16. \A i \in DOMAIN frames : frames[i].frame.endpoint = p.endpoint
  <2>1. \A i \in DOMAIN q.frames : q.frames[i].frame.endpoint = q.endpoint
    BY <1>2 DEF BoundaryFits
  <2>2. PICK before : before = q.frames
    OBVIOUS
  <2>3. IsSequence(before) /\ frames = Append(before, entry)
    BY <1>7, <1>12, <2>2
  <2>4. /\ Len(before) \in Nat /\ DOMAIN before = 1..Len(before)
        /\ DOMAIN frames = 1..(Len(before) + 1)
        /\ \A i \in DOMAIN before : frames[i] = before[i]
        /\ frames[Len(before) + 1] = entry
    BY <2>3, AppendedIs
  <2> QED BY <1>9, <1>13, <1>14, <2>1, <2>2, <2>4
<1>17. ASSUME p.endpoint \in Endpoints
       PROVE  BodyFits(p, l.signals[p.endpoint], l.record[p.endpoint])
  <2>1. PICK s : s = k.signals[q.endpoint]
    OBVIOUS
  <2>2. PICK r : r = k.record[q.endpoint]
    OBVIOUS
  <2>3. BodyFits(q, s, r)
    BY <1>2, <1>13, <1>17, <2>1, <2>2 DEF BoundaryFits
  <2>4. IF q.kind = "replay" THEN stage = StageAfter(q, m) ELSE stage = "current"
    BY <1>3, <1>9
  <2>5. Collects(q, p, m, entry)
    BY <1>1, <1>6, <1>7, <1>9, <1>13, <1>14, <2>4 DEF Collects
  <2>6. BodyFits(p, s, r)
    BY <1>12, <2>3, <2>5, CollectedFits
  <2> QED BY <1>11, <1>13, <2>1, <2>2, <2>6
<1> QED BY <1>11, <1>13, <1>15, <1>16, <1>17 DEF BoundaryFits

-----------------------------------------------------------------------------
(* The frames of an open session.                                          *)

(* Of what is known of the endpoints only the wire sequences and what has  *)
(* been seen have changed.                                                 *)
Seen(k, l) ==
    /\ DOMAIN l = PageFields /\ DOMAIN l.record = Endpoints /\ l.signals = k.signals
    /\ \A d \in Endpoints : /\ DOMAIN l.record[d] = RecordFields
                            /\ l.record[d].lifecycle = k.record[d].lifecycle
                            /\ k.record[d].seen => l.record[d].seen

LEMMA SeenHonest ==
    ASSUME NEW k, SessionHonest(k, Null), NEW l, Seen(k, l)
    PROVE  SessionHonest(l, Null)
  BY HubAssumption DEF SessionHonest, EndpointHonest, Seen

LEMMA SeenFits ==
    ASSUME NEW k, BoundaryFits(k), NEW l, Seen(k, l), l.boundary = k.boundary
    PROVE  BoundaryFits(l)
<1>1. PICK q : q = k.boundary
  OBVIOUS
<1>2. PICK e : e = q.endpoint
  OBVIOUS
<1>3. ASSUME e \in Endpoints PROVE BodyFits(q, l.signals[e], l.record[e])
  <2>1. BodyFits(q, k.signals[e], k.record[e])
    BY <1>1, <1>2, <1>3 DEF BoundaryFits
  <2>2. l.signals = k.signals /\ l.record[e].lifecycle = k.record[e].lifecycle
    BY <1>3 DEF Seen
  <2> QED BY <2>1, <2>2 DEF BodyFits
<1> QED BY <1>1, <1>2, <1>3 DEF BoundaryFits

LEMMA OneSeen ==
    ASSUME NEW k, SessionHonest(k, Null), NEW e, NEW r,
           e \in Endpoints => /\ DOMAIN r = RecordFields
                              /\ r.lifecycle = k.record[e].lifecycle
                              /\ k.record[e].seen => r.seen,
           NEW l, DOMAIN l = PageFields, l.signals = k.signals,
           l.record = [k.record EXCEPT ![e] = r]
    PROVE  Seen(k, l)
<1>1. DOMAIN k.record = Endpoints /\ \A d \in Endpoints : EndpointHonest(k.signals[d], k.record[d])
  BY HubAssumption DEF SessionHonest
<1>2. ASSUME NEW d \in Endpoints
      PROVE  /\ DOMAIN l.record[d] = RecordFields
             /\ l.record[d].lifecycle = k.record[d].lifecycle
             /\ k.record[d].seen => l.record[d].seen
  BY <1>1 DEF EndpointHonest
<1> QED BY <1>1, <1>2 DEF Seen

LEMMA OrdinaryHonest ==
    ASSUME NEW k, SessionHonest(k, Null), NEW f, NEW l, l = Ordinary(k, f), l # Null
    PROVE  SessionHonest(l, Null) /\ l.boundary = k.boundary
<1>1. PICK e : e = f.endpoint
  OBVIOUS
<1>2. PICK r : r = [k.record[e] EXCEPT !.seen = TRUE]
  OBVIOUS
<1>3. PICK x : x = [k EXCEPT !.record[e].seen = TRUE]
  OBVIOUS
<1>4. l = Applied(x, f)
  BY <1>1, <1>3 DEF Ordinary
<1>5. /\ DOMAIN k = PageFields
      /\ e \in Endpoints => DOMAIN k.record[e] = RecordFields
  BY HubAssumption DEF SessionHonest, EndpointHonest
<1>6. /\ DOMAIN x = PageFields /\ x.signals = k.signals /\ x.boundary = k.boundary
      /\ x.record = [k.record EXCEPT ![e] = r]
  BY <1>2, <1>3, <1>5 DEF PageFields
<1>7. e \in Endpoints => /\ DOMAIN r = RecordFields
                         /\ r.lifecycle = k.record[e].lifecycle
                         /\ k.record[e].seen => r.seen
  BY <1>2, <1>5 DEF RecordFields
<1>8. SessionHonest(x, Null)
  BY <1>6, <1>7, OneSeen, SeenHonest
<1>9. SessionHonest(l, Null) /\ SameGuards(x, l)
  BY <1>4, <1>8, AppliedHonest
<1> QED BY <1>6, <1>9 DEF SameGuards

(* beginBoundary: a replay is only taken of an endpoint of which nothing   *)
(* has been seen, and so no catch-up is under way.                         *)
LEMMA BegunHonest ==
    ASSUME NEW k, SessionHonest(k, Null), NEW f, NEW l, l = Begun(k, f), l # Null
    PROVE  SessionHonest(l, Null) /\ BoundaryFits(l)
<1>1. PICK e : e = f.endpoint
  OBVIOUS
<1>2. PICK q : q = [kind |-> KindOf(f), endpoint |-> e, id |-> f.id, count |-> f.body,
                    lifecycle |-> k.record[e].lifecycle, stage |-> "prefix", frames |-> <<>>]
  OBVIOUS
<1>3. PICK r : r = [k.record[e] EXCEPT !.seen = TRUE]
  OBVIOUS
<1>4. PICK x : x = [k EXCEPT !.boundary = q, !.record[e].seen = TRUE]
  OBVIOUS
<1>5. PICK signals : signals = [k.signals EXCEPT ![e] = CatchupBegun(@)]
  OBVIOUS
<1>6. /\ DOMAIN k = PageFields /\ DOMAIN k.signals = Endpoints /\ DOMAIN k.record = Endpoints
      /\ \A d \in Endpoints : EndpointHonest(k.signals[d], k.record[d])
  BY HubAssumption DEF SessionHonest
<1>7. e \in Endpoints => DOMAIN k.record[e] = RecordFields
  BY <1>6 DEF EndpointHonest
<1>8. /\ DOMAIN x = PageFields /\ x.signals = k.signals /\ x.boundary = q
      /\ x.record = [k.record EXCEPT ![e] = r]
  BY <1>3, <1>4, <1>6 DEF PageFields
<1>9. e \in Endpoints => /\ DOMAIN r = RecordFields
                         /\ r.lifecycle = k.record[e].lifecycle
                         /\ k.record[e].seen => r.seen
                         /\ r.seen
  BY <1>3, <1>7 DEF RecordFields
<1>10. SessionHonest(x, Null)
  BY <1>8, <1>9, OneSeen, SeenHonest
<1>11. /\ q.kind = KindOf(f) /\ q.endpoint = e /\ q.stage = "prefix" /\ q.frames = <<>>
       /\ q.lifecycle = k.record[e].lifecycle
  BY <1>2
<1>12. \/ KindOf(f) = "replay" /\ ~k.record[e].seen /\ l = x
       \/ KindOf(f) # "replay" /\ l = [x EXCEPT !.signals[e] = CatchupBegun(@)]
  BY <1>1, <1>2, <1>4 DEF Begun
<1>13. CASE KindOf(f) = "replay" /\ ~k.record[e].seen /\ l = x
  <2>1. ASSUME e \in Endpoints PROVE BodyFits(q, l.signals[e], l.record[e])
    <3>1. ~k.signals[e].guard.under
      BY <1>6, <1>13, <2>1 DEF EndpointHonest
    <3>2. l.signals[e] = k.signals[e] /\ l.record[e].lifecycle = k.record[e].lifecycle
      BY <1>6, <1>8, <1>9, <1>13, <2>1
    <3> QED BY <1>11, <1>13, <3>1, <3>2 DEF BodyFits
  <2> QED BY <1>8, <1>10, <1>11, <1>13, <2>1 DEF BoundaryFits
<1>14. CASE KindOf(f) # "replay" /\ l = [x EXCEPT !.signals[e] = CatchupBegun(@)]
  <2>1. /\ DOMAIN l = PageFields /\ l.signals = signals /\ l.boundary = q
        /\ l.record = x.record
    BY <1>5, <1>8, <1>14 DEF PageFields
  <2>2. ASSUME NEW d \in Endpoints
        PROVE  /\ EndpointHonest(l.signals[d], l.record[d])
               /\ d = e => l.signals[d].guard.under
    <3>1. EndpointHonest(x.signals[d], x.record[d])
      BY <1>10, HubAssumption DEF SessionHonest
    <3>2. CASE d = e
      <4>1. PICK s : s = k.signals[d]
        OBVIOUS
      <4>2. PICK t : t = CatchupBegun(s)
        OBVIOUS
      <4>3. PICK up : up = IsConnected(r.lifecycle)
        OBVIOUS
      <4>4. x.signals[d] = s /\ x.record[d] = r /\ l.signals[d] = t /\ l.record[d] = r
        BY <1>5, <1>6, <1>8, <2>1, <3>2, <4>1, <4>2
      <4>5. Honest(s, up) /\ s.routed = r.lifecycle
        BY <3>1, <4>3, <4>4 DEF EndpointHonest
      <4>6. Honest(t, up) /\ t.guard.under /\ t.routed = s.routed
        BY <4>2, <4>5, CatchupBegunLive
      <4> QED BY <1>9, <3>2, <4>3, <4>4, <4>5, <4>6 DEF EndpointHonest
    <3>3. CASE d # e
      BY <1>5, <1>6, <1>8, <2>1, <3>1, <3>3
    <3> QED BY <3>2, <3>3
  <2>3. DOMAIN signals = Endpoints /\ DOMAIN x.record = Endpoints
    BY <1>5, <1>6, <1>8
  <2>4. SessionHonest(l, Null)
    BY <2>1, <2>2, <2>3, HubAssumption DEF SessionHonest
  <2>5. e \in Endpoints => BodyFits(q, l.signals[e], l.record[e])
    BY <1>11, <1>14, <2>2 DEF BodyFits
  <2> QED BY <1>11, <2>1, <2>4, <2>5 DEF BoundaryFits
<1> QED BY <1>12, <1>13, <1>14

(* finishBoundary                                                          *)
LEMMA FinishedHonest ==
    ASSUME NEW k, SessionHonest(k, Null), BoundaryOK(k), k.boundary # Null, BoundaryFits(k),
           NEW f, NEW l, l = Finished(k, f), l # Null
    PROVE  SessionHonest(l, Null) /\ l.boundary = Null
<1>1. PICK q : q = k.boundary
  OBVIOUS
<1>2. PICK e : e = q.endpoint
  OBVIOUS
<1>3. PICK frames : frames = q.frames
  OBVIOUS
<1>4. PICK drained : drained = FoldLeft(Drained, k, frames)
  OBVIOUS
<1>5. PICK closed : closed = [drained EXCEPT !.boundary = Null]
  OBVIOUS
<1>6. /\ drained # Null /\ q.stage # "prefix" /\ f.endpoint = e
      /\ IF q.kind = "replay" THEN l = closed
         ELSE l = [closed EXCEPT !.signals[e] = CatchupCommitted(@)]
  BY <1>1, <1>2, <1>3, <1>4, <1>5 DEF Finished, Complete
<1>7. /\ IsSequence(frames) /\ \A i \in DOMAIN frames : frames[i].frame.endpoint = e
      /\ e \in Endpoints => BodyFits(q, k.signals[e], k.record[e])
  BY <1>1, <1>2, <1>3 DEF BoundaryOK, BoundaryFits
<1>8. Len(frames) \in Nat /\ DOMAIN frames = 1..Len(frames)
  BY <1>7 DEF IsSequence
<1>9. \E from : Body(k, frames, e, from) /\ (from # 0 => ~k.signals[e].guard.under)
  <2>1. CASE e \in Endpoints /\ q.kind = "replay"
    <3>1. PICK n \in DOMAIN frames :
             /\ ClearsPrefix(frames[n], k.record[e].lifecycle)
             /\ \A i \in DOMAIN frames : frames[i].prefix <=> i < n
      BY <1>3, <1>6, <1>7, <2>1 DEF BodyFits
    <3>2. ~k.signals[e].guard.under
      BY <1>7, <2>1 DEF BodyFits
    <3>3. n \in 0..Len(frames)
      BY <1>8
    <3>4. Body(k, frames, e, n)
      BY <1>7, <2>1, <3>1, <3>3 DEF Body
    <3> QED BY <3>2, <3>4
  <2>2. CASE ~(e \in Endpoints /\ q.kind = "replay")
    <3>1. e \in Endpoints => \A i \in DOMAIN frames : frames[i].prefix <=> i < 0
      <4>1. e \in Endpoints => \A i \in DOMAIN frames : ~frames[i].prefix
        BY <1>3, <1>7, <2>2 DEF BodyFits
      <4>2. \A i \in DOMAIN frames : ~(i < 0)
        BY <1>8
      <4> QED BY <4>1, <4>2
    <3>2. Body(k, frames, e, 0)
      BY <1>7, <1>8, <3>1 DEF Body
    <3> QED BY <3>2
  <2> QED BY <2>1, <2>2
<1>10. SessionHonest(drained, Null) /\ SameGuards(k, drained)
  BY <1>4, <1>6, <1>9, BodyHonest
<1>11. /\ DOMAIN drained = PageFields
       /\ DOMAIN closed = PageFields /\ closed.boundary = Null
       /\ closed.signals = drained.signals /\ closed.record = drained.record
  <2>1. DOMAIN drained = PageFields
    BY <1>10 DEF SessionHonest
  <2> QED BY <1>5, <2>1 DEF PageFields
<1>12. SessionHonest(closed, Null)
  BY <1>10, <1>11 DEF SessionHonest
<1>13. CASE q.kind = "replay"
  BY <1>6, <1>11, <1>12, <1>13
<1>14. CASE q.kind # "replay"
  <2>1. PICK signals : signals = [closed.signals EXCEPT ![e] = CatchupCommitted(@)]
    OBVIOUS
  <2>2. /\ DOMAIN l = PageFields /\ l.boundary = Null /\ l.signals = signals
        /\ l.record = closed.record
    BY <1>6, <1>11, <1>14, <2>1 DEF PageFields
  <2>3. /\ DOMAIN closed.signals = Endpoints /\ DOMAIN closed.record = Endpoints
        /\ \A d \in Endpoints : EndpointHonest(closed.signals[d], closed.record[d])
    BY <1>12, HubAssumption DEF SessionHonest
  <2>4. ASSUME NEW d \in Endpoints PROVE EndpointHonest(signals[d], closed.record[d])
    <3>1. CASE d = e
      <4>1. PICK s : s = closed.signals[d]
        OBVIOUS
      <4>2. PICK r : r = closed.record[d]
        OBVIOUS
      <4>3. PICK t : t = CatchupCommitted(s)
        OBVIOUS
      <4>4. PICK up : up = IsConnected(r.lifecycle)
        OBVIOUS
      <4>5. s.guard.under
        <5>1. k.signals[e].guard.under
          BY <1>7, <1>14, <3>1 DEF BodyFits
        <5> QED BY <1>10, <1>11, <3>1, <4>1, <5>1 DEF SameGuards
      <4>6. Honest(s, up) /\ s.routed = r.lifecycle /\ DOMAIN r = RecordFields
        BY <2>3, <4>1, <4>2, <4>4 DEF EndpointHonest
      <4>7. Honest(t, up) /\ ~t.guard.under /\ t.routed = s.routed
        BY <4>3, <4>5, <4>6, CatchupCommittedLive
      <4>8. signals[d] = t
        BY <2>1, <2>3, <3>1, <4>1, <4>3
      <4> QED BY <4>2, <4>4, <4>6, <4>7, <4>8 DEF EndpointHonest
    <3>2. CASE d # e
      BY <2>1, <2>3, <3>2
    <3> QED BY <3>1, <3>2
  <2>5. DOMAIN signals = Endpoints
    BY <2>1, <2>3
  <2> QED BY <2>2, <2>3, <2>4, <2>5, HubAssumption DEF SessionHonest
<1> QED BY <1>13, <1>14

-----------------------------------------------------------------------------
(* The pages.                                                              *)

LEMMA RoutedHonest ==
    ASSUME NEW k, PageOK(k), SessionHonest(k, Null), k.boundary # Null => BoundaryFits(k),
           NEW f, NEW l, l = Routed(k, f), l # Null
    PROVE  SessionHonest(l, Null) /\ (l.boundary # Null => BoundaryFits(l))
<1>1. PICK e : e = f.endpoint
  OBVIOUS
<1>2. PICK x : x = [k EXCEPT !.record[e].wire = f.wire]
  OBVIOUS
<1>3. PICK r : r = [k.record[e] EXCEPT !.wire = f.wire]
  OBVIOUS
<1>4. /\ DOMAIN k = PageFields
      /\ e \in Endpoints => DOMAIN k.record[e] = RecordFields
  BY HubAssumption DEF SessionHonest, EndpointHonest
<1>5. /\ DOMAIN x = PageFields /\ x.signals = k.signals /\ x.boundary = k.boundary
      /\ x.record = [k.record EXCEPT ![e] = r]
  BY <1>2, <1>3, <1>4 DEF PageFields
<1>6. e \in Endpoints => /\ DOMAIN r = RecordFields
                         /\ r.lifecycle = k.record[e].lifecycle
                         /\ k.record[e].seen => r.seen
  BY <1>3, <1>4 DEF RecordFields
<1>7. Seen(k, x)
  BY <1>5, <1>6, OneSeen
<1>8. SessionHonest(x, Null) /\ BoundaryOK(x) /\ (x.boundary # Null => BoundaryFits(x))
  <2>1. SessionHonest(x, Null)
    BY <1>7, SeenHonest
  <2>2. BoundaryOK(x)
    BY <1>5 DEF PageOK, BoundaryOK
  <2>3. ASSUME x.boundary # Null PROVE BoundaryFits(x)
    <3>1. BoundaryFits(k)
      BY <1>5, <2>3
    <3> QED BY <1>5, <1>7, <3>1, SeenFits
  <2> QED BY <2>1, <2>2, <2>3
<1>9. \/ k.boundary # Null /\ l = Finished(x, f)
      \/ k.boundary # Null /\ l = Buffered(x, f)
      \/ l = Begun(x, f)
      \/ k.boundary = Null /\ l = Ordinary(x, f)
  BY <1>1, <1>2 DEF Routed
<1>10. CASE k.boundary # Null /\ l = Finished(x, f)
  <2>1. x.boundary # Null /\ BoundaryFits(x)
    BY <1>5, <1>8, <1>10
  <2> QED BY <1>8, <1>10, <2>1, FinishedHonest
<1>11. CASE k.boundary # Null /\ l = Buffered(x, f)
  <2>1. x.boundary # Null /\ BoundaryFits(x)
    BY <1>5, <1>8, <1>11
  <2> QED BY <1>8, <1>11, <2>1, BufferedHonest
<1>12. CASE l = Begun(x, f)
  BY <1>8, <1>12, BegunHonest
<1>13. CASE k.boundary = Null /\ l = Ordinary(x, f)
  <2>1. SessionHonest(l, Null) /\ l.boundary = x.boundary
    BY <1>8, <1>13, OrdinaryHonest
  <2> QED BY <1>5, <1>13, <2>1
<1> QED BY <1>9, <1>10, <1>11, <1>12, <1>13

LEMMA HandledHonest ==
    ASSUME NEW k, PageOK(k), PageHonest(k), NEW f, NEW l, l = Handled(k, f)
    PROVE  PageHonest(l)
<1>1. PICK r : r = [k EXCEPT !.refused = TRUE]
  OBVIOUS
<1>2. PageOK(r)
  BY <1>1 DEF PageOK, BoundaryOK, PageFields
<1>3. PICK routed : routed = Routed(k, f)
  OBVIOUS
<1>4. \/ l = Rejected(k) \/ l = Rejected(r)
      \/ l = routed /\ routed # Null
  BY <1>1, <1>3 DEF Handled
<1>5. CASE l = Rejected(k) \/ l = Rejected(r)
  <2>1. l.opened = NoTarget
    BY <1>2, <1>5, RejectedIs
  <2> QED BY <2>1 DEF PageHonest
<1>6. CASE l = routed /\ routed # Null
  <2>1. l.opened = k.opened
    BY <1>3, <1>6, RoutedIs DEF SameStream
  <2>2. ASSUME l.opened # NoTarget
        PROVE  SessionHonest(l, Null) /\ (l.boundary # Null => BoundaryFits(l))
    <3>1. SessionHonest(k, Null) /\ (k.boundary # Null => BoundaryFits(k))
      BY <2>1, <2>2 DEF PageHonest
    <3> QED BY <1>3, <1>6, <3>1, RoutedHonest
  <2> QED BY <2>2 DEF PageHonest
<1> QED BY <1>4, <1>5, <1>6

(* open: of a new session nothing is known, and nothing is shown as good.  *)
LEMMA OpenedHonest ==
    ASSUME NEW k, PageOK(k), NEW l, l = SessionOpened(k)
    PROVE  PageHonest(l)
<1>1. PICK u : u = Unguarded(k)
  OBVIOUS
<1>2. DOMAIN u = PageFields /\ u.boundary = Null
  BY <1>1, UnguardedIs DEF PageOK, SameStream
<1>3. PICK signals : signals = [e \in Endpoints |-> SessionReset(k.signals[e])]
  OBVIOUS
<1>4. l = [u EXCEPT !.opened = k.target, !.record = NewRecords, !.refreshing = FALSE,
                    !.signals = signals]
  BY <1>1, <1>3 DEF SessionOpened
<1>5. /\ DOMAIN l = PageFields /\ l.boundary = Null /\ l.signals = signals
      /\ l.record = NewRecords
  BY <1>2, <1>4 DEF PageFields
<1>6. ASSUME NEW e \in Endpoints PROVE EndpointHonest(signals[e], NewRecord)
  <2>1. PICK s : s = k.signals[e]
    OBVIOUS
  <2>2. PICK t : t = SessionReset(s)
    OBVIOUS
  <2>3. PICK up : up = IsConnected(NewRecord.lifecycle)
    OBVIOUS
  <2>4. Honest(t, up) /\ ~t.guard.under /\ t.routed = Null
    BY <2>2, SessionResetLive
  <2>5. signals[e] = t
    BY <1>3, <2>1, <2>2
  <2>6. DOMAIN NewRecord = RecordFields /\ NewRecord.lifecycle = Null
    BY DEF NewRecord, RecordFields
  <2> QED BY <2>3, <2>4, <2>5, <2>6 DEF EndpointHonest
<1>7. SessionHonest(l, Null)
  BY <1>3, <1>5, <1>6, HubAssumption DEF SessionHonest, NewRecords
<1> QED BY <1>5, <1>7 DEF PageHonest

HonestPages == \A b \in Browsers : PageHonest(browser[b])

LEMMA HonestPrimed ==
    ASSUME \A b \in Browsers : PageHonest(browser'[b])
    PROVE  HonestPages'
  BY DEF HonestPages, PageHonest, SessionHonest, EndpointHonest, Restoring, Honest, Hidden,
     SignalsOK, NothingGood, Writable, BoundaryFits, BodyFits, ClearsPrefix, Order, IsConnected

LEMMA PageStepHonest ==
    ASSUME StreamsInv, HonestPages, NEW b \in Browsers, PageStep(b)
    PROVE  HonestPages'
<1>1. PICK k : k = browser[b]
  OBVIOUS
<1>2. StreamOK(project[b], k) /\ PageOK(k) /\ PageHonest(k)
  BY <1>1, PageBefore DEF HonestPages, StreamOK
<1>3. ASSUME NEW l, Page(b, l), PageHonest(l)
      PROVE  HonestPages'
  <2>1. \A c \in Browsers : browser'[c] = IF c = b THEN l ELSE browser[c]
    BY <1>3 DEF Page, StreamsInv, StreamsHold
  <2>2. \A c \in Browsers : PageHonest(browser'[c])
    BY <1>3, <2>1 DEF HonestPages
  <2> QED BY <2>2, HonestPrimed
<1>4. ASSUME NEW l, Page(b, l), l.opened = NoTarget
      PROVE  HonestPages'
  BY <1>3, <1>4 DEF PageHonest
<1>5. CASE PageRefreshes(b)
  <2>1. PICK x : x = StreamRefreshed(k)
    OBVIOUS
  <2>2. PICK s : s = NewSocket
    OBVIOUS
  <2>3. PICK l : l = CandidateMade(x, s)
    OBVIOUS
  <2>4. ~k.refreshing /\ Page(b, l)
    BY <1>1, <1>5, <2>1, <2>2, <2>3 DEF PageRefreshes
  <2>5. PageOK(x) /\ x.opened = NoTarget
    BY <1>2, <2>1, <2>4, RefreshedIs
  <2>6. l.opened = NoTarget
    BY <2>3, <2>5, CandidateMadeIs
  <2> QED BY <1>4, <2>4, <2>6
<1>6. CASE TimerFires(b)
  <2>1. PICK s : s = NewSocket
    OBVIOUS
  <2>2. PICK l : l = CandidateMade(k, s)
    OBVIOUS
  <2>3. k.timer /\ Page(b, l)
    BY <1>1, <1>6, <2>1, <2>2 DEF TimerFires
  <2>4. k.opened = NoTarget
    BY <1>2, <2>3 DEF StreamOK, CandidateOK
  <2>5. l.opened = NoTarget
    BY <1>2, <2>2, <2>4, CandidateMadeIs
  <2> QED BY <1>4, <2>3, <2>5
<1>7. CASE Upgrade(b)
  <2>1. browser' = browser
    BY <1>7 DEF Upgrade
  <2> QED BY <2>1, HonestPrimed DEF HonestPages
<1>8. CASE SocketOpens(b)
  <2>1. PICK l : l = SessionOpened(k)
    OBVIOUS
  <2>2. Page(b, l)
    BY <1>1, <1>8, <2>1 DEF SocketOpens
  <2>3. PageHonest(l)
    BY <1>2, <2>1, OpenedHonest
  <2> QED BY <1>3, <2>2, <2>3
<1>9. CASE FrameArrives(b)
  <2>1. PICK f : f = Incoming(b)
    OBVIOUS
  <2>2. PICK l : l = Handled(k, f)
    OBVIOUS
  <2>3. Page(b, l)
    BY <1>1, <1>9, <2>1, <2>2 DEF FrameArrives
  <2>4. PageHonest(l)
    BY <1>2, <2>2, HandledHonest
  <2> QED BY <1>3, <2>3, <2>4
<1>10. CASE SocketCloses(b) \/ ConnectionRefused(b) \/ ConnectionBreaks(b)
  <2>1. PICK l : l = Rejected(k)
    OBVIOUS
  <2>2. Page(b, l)
    BY <1>1, <1>10, <2>1 DEF SocketCloses, ConnectionRefused, ConnectionBreaks
  <2>3. l.opened = NoTarget
    BY <1>2, <2>1, RejectedIs
  <2> QED BY <1>4, <2>2, <2>3
<1> QED BY <1>5, <1>6, <1>7, <1>8, <1>9, <1>10 DEF PageStep, PageProgress

LEMMA HonestStays ==
    ASSUME HonestPages, UNCHANGED browser
    PROVE  HonestPages'
  BY HonestPrimed DEF HonestPages

LEMMA NextHonest ==
    ASSUME StreamsInv, HonestPages, scenario \in Scenarios, Next
    PROVE  HonestPages'
<1>1. scenario.browsers \subseteq Browsers
  BY DataPlaneAssumption
<1>2. CASE \E e \in Endpoints : EndpointStep(e)
  <2>1. UNCHANGED browser
    BY <1>2 DEF EndpointStep
  <2> QED BY <2>1, HonestStays
<1>3. CASE GatewayStep
  <2>1. UNCHANGED browser
    BY <1>3 DEF GatewayStep, StopPrevious, StartCandidate, RecoverPrevious, RecoveryFails,
       RecoveryRequired, Activate, Withdraw, Deactivate
  <2> QED BY <2>1, HonestStays
<1>4. CASE \E s \in Sockets : SocketStep(s)
  <2>1. UNCHANGED browser
    BY <1>4 DEF SocketStep, SendCallback, SendFails, PeerGone
  <2> QED BY <2>1, HonestStays
<1>5. CASE \E b \in Browsers : PageStep(b)
  BY <1>5, PageStepHonest
<1> QED BY <1>2, <1>3, <1>4, <1>5 DEF Next

(* Whatever the stream's frames are, an open session shows and knows of    *)
(* each endpoint what the invariant says.                                  *)
THEOREM HonestPagesInvariant == WorkcellSpec => []HonestPages
<1>1. WorkcellInit => HonestPages
  <2>. SUFFICES ASSUME WorkcellInit, NEW b \in Browsers PROVE browser[b].opened = NoTarget
    BY DEF HonestPages, PageHonest
  <2>1. PICK t : t = [graph |-> 1, revision |-> Min(scenario.revisions)]
    OBVIOUS
  <2>2. browser = [c \in Browsers |-> [NewBrowser EXCEPT !.target = t]]
    BY <2>1 DEF WorkcellInit, Init
  <2> QED BY <2>2 DEF NewBrowser
<1>2. HonestPages /\ StreamsInv /\ GraphsInv /\ scenario \in Scenarios
        /\ [WorkcellNext]_<<vars, pageVars>>
        => HonestPages'
  <2>. SUFFICES ASSUME HonestPages, StreamsInv, GraphsInv, scenario \in Scenarios,
                       [WorkcellNext]_<<vars, pageVars>>
                PROVE  HonestPages'
    OBVIOUS
  <2>1. CASE Next /\ UNCHANGED pageVars
    BY <2>1, NextHonest
  <2>2. CASE RuntimeStep
    <3>1. PagesKept
      BY <2>2, RuntimeStepHolds
    <3>2. \A b \in Browsers : PageHonest(browser'[b])
      BY <3>1 DEF PagesKept, HonestPages, PageHonest
    <3> QED BY <3>2, HonestPrimed
  <2>3. CASE UNCHANGED browser
    BY <2>3, HonestStays
  <2> QED BY <2>1, <2>2, <2>3 DEF WorkcellNext, JobStep, vars
<1> QED BY <1>1, <1>2, StreamsInvariant, GraphsInvariant, ScenarioGiven, PTL DEF WorkcellSpec

(* What a page with an open session shows as good is of an endpoint whose  *)
(* connected event it has, and not in the middle of a catch-up: the        *)
(* property GoodIsLive, of the boundaries of                               *)
(* runtime-gateway-state-stream.ts, the router of                          *)
(* endpoint-lifecycle-router.ts and the guards and replay prefixes of      *)
(* logical-signal-runtime-store.ts, for any number of endpoints, channels  *)
(* and pages and any frames.                                               *)
THEOREM GoodIsAlwaysLive == WorkcellSpec => []GoodIsLive
<1>1. ASSUME HonestPages, NEW b \in Browsers, NEW e \in Endpoints, NEW c \in Channels,
             browser[b].opened # NoTarget, browser[b].signals[e].signal[c].quality = "good"
      PROVE  IsConnected(browser[b].record[e].lifecycle) /\ ~browser[b].signals[e].guard.under
  <2>1. EndpointHonest(browser[b].signals[e], browser[b].record[e])
    BY <1>1, HubAssumption DEF HonestPages, PageHonest, SessionHonest
  <2> QED BY <1>1, <2>1 DEF EndpointHonest, Honest, Hidden, NothingGood, Writable
<1>2. HonestPages => GoodIsLive
  BY <1>1 DEF GoodIsLive
<1> QED BY <1>2, HonestPagesInvariant, PTL

=============================================================================
