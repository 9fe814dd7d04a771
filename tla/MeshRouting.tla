----------------------------- MODULE MeshRouting -----------------------------
(***************************************************************************)
(* The firmware's packet routing, which carries every alarm: FloodingRouter,*)
(* NextHopRouter and ReliableRouter on the packet history, in a mesh of     *)
(* nodes that hear their neighbours.  One node sends one text message, to   *)
(* another node or to all; the acknowledgements follow from the handlers.   *)
(* A handler of the router works on the record of one node; the operators   *)
(* below map such a record to the next one and are composed as the methods  *)
(* call each other.                                                         *)
(***************************************************************************)
EXTENDS Integers, Sequences, FiniteSets

CONSTANTS
  Nodes, Source,         \* Source sends the text message
  Gone,                  \* nodes that are in databases but no longer in the mesh
  Broadcast, NoNode,     \* NODENUM_BROADCAST; NO_NEXT_HOP_PREFERENCE
  HopLimit,              \* config.lora.hop_limit of every node
  NUM_RELIABLE_RETX, NUM_INTERMEDIATE_RETX,
  Meshes                 \* the meshes looked at, each a record of
  \*  dest       whom the text is for
  \*  neighbours of each node, those who hear it
  \*  role       the configured role of each node
  \*  favorites  the favourite routers in each node's database
  \*  route      next_hop in each node's database at the start
  \*  patient    the retransmission timers outlast what is under way
  \*  maxLost, maxReboots: bounds on the receptions that fail and on restarts

(* What a next hop may be.                                                  *)
Hops == Nodes \cup Gone \cup {NoNode}

ASSUME RoutingAssumption ==
  /\ Source \in Nodes /\ {Broadcast, NoNode} \cap (Nodes \cup Gone) = {}
  /\ IsFiniteSet(Nodes) /\ HopLimit \in Nat \ {0}
  \* with more, doRetransmissions would erase the record it is working on
  /\ NUM_INTERMEDIATE_RETX \in 1..2
  \* the last try of a sender is a flood, which one try would not come to
  /\ NUM_RELIABLE_RETX \in Nat /\ NUM_RELIABLE_RETX >= 2
  /\ \A m \in Meshes : /\ m.dest \in (Nodes \ {Source}) \cup {Broadcast}
                       /\ m.neighbours \in [Nodes -> SUBSET Nodes]
                       /\ m.route \in [Nodes -> [Nodes -> Hops]]
                       /\ m.patient \in BOOLEAN
                       /\ m.maxLost \in Nat /\ m.maxReboots \in Nat

VARIABLES
  mesh,        \* the mesh this behaviour is in; never changes
  node,        \* hist, queue, pend, rx, route, ids: the state of each router
  lost,        \* receptions that failed so far
  reboots,
  sentBy,      \* history: transmissions of the text by each node, this boot
  deliveries,  \* history: times each node's modules got the text, this boot
  outcomes     \* history: ACK and NAK passed to the phone of Source

vars == <<mesh, node, lost, reboots, sentBy, deliveries, outcomes>>

Dest       == mesh.dest
Neighbours == mesh.neighbours
Role       == mesh.role
Favorites  == mesh.favorites
Route      == mesh.route

Key(p)  == <<p.from, p.id>>
TextKey == <<Source, 0>>
Text    == [from |-> Source, id |-> 0, to |-> Dest, req |-> -1, err |-> FALSE,
            ack |-> TRUE, lim |-> HopLimit, start |-> HopLimit,
            next |-> NoNode, relay |-> Source]

(* getHopsAway, before the packet is decoded and, for a packet that was sent*)
(* to go on, after it; IsDirect is what else it gives once it is decoded.   *)
HopsAway(p)      == IF p.start = 0 \/ p.start < p.lim THEN -1 ELSE p.start - p.lim
IsDirect(p)      == p.start = p.lim

(* relay_node as it is received: void when there is no hop_start.           *)
RelayOf(p)       == IF p.start = 0 THEN NoNode ELSE p.relay

IsRouter(n)      == Role[n] \in {"ROUTER", "ROUTER_LATE", "CLIENT_BASE"}
IsRebroadcaster(n) == Role[n] # "CLIENT_MUTE"

(* roleAllowsCancelingDupe; CLIENT_BASE has no favourite endpoint here.     *)
AllowsCanceling(n) == Role[n] \notin {"ROUTER", "ROUTER_LATE"}

(* Mutant of Decrements: the first hop may be free.                        *)
DecrementsLater(n, p) == ~IsRouter(n) \/ p.relay \notin Favorites[n]

Decrements(n, p) ==
  HopsAway(p) = 0 \/ ~IsRouter(n) \/ p.relay \notin Favorites[n]

-----------------------------------------------------------------------------
(* PacketHistory: the record of a packet, and what a copy of it changes.    *)

Known(s, p) == Key(p) \in DOMAIN s.hist
WasRelayer(s, r, k) == k \in DOMAIN s.hist /\ r \in s.hist[k].by

Record(n, s, p) ==
  LET mine == p.relay = n IN
  IF ~Known(s, p)
  THEN [next |-> p.next, high |-> p.lim, ours |-> IF mine THEN p.lim ELSE 0,
        by |-> IF mine THEN {n} ELSE {}]
  ELSE LET old     == s.hist[Key(p)]
           heardUs == n \in old.by /\ p.lim \in {old.ours, old.ours - 1}
       IN [next |-> old.next,
           high |-> IF old.high > p.lim THEN old.high ELSE p.lim,
           ours |-> IF mine THEN p.lim ELSE old.ours,
           by   |-> old.by \cup (IF mine THEN {n}
                                 ELSE IF heardUs THEN {p.relay} ELSE {})]

(* Mutant of Saw: a packet is entered only when it was relayed by us.       *)
SawOursOnly(n, s, p) ==
  IF p.relay # n THEN s ELSE
  [s EXCEPT !.hist = [k \in DOMAIN s.hist \cup {Key(p)} |->
                        IF k = Key(p) THEN Record(n, s, p) ELSE s.hist[k]]]

Saw(n, s, p) ==
  [s EXCEPT !.hist = [k \in DOMAIN s.hist \cup {Key(p)} |->
                        IF k = Key(p) THEN Record(n, s, p) ELSE s.hist[k]]]

WasUpgraded(s, p) == Known(s, p) /\ s.hist[Key(p)].high < p.lim

WasFallback(n, s, p) ==
  LET old == s.hist[Key(p)] IN
  /\ p.from # n
  /\ old.next \notin {NoNode, n} /\ p.next = NoNode
  /\ p.relay \in old.by /\ n \notin old.by /\ old.next \notin old.by

-----------------------------------------------------------------------------
(* The transmit queue.  Delays and priorities decide what is sent next, so  *)
(* any packet may be; copies of one packet are found in their order.        *)

Queued(s, k)  == \E i \in DOMAIN s.queue : Key(s.queue[i]) = k
DropAt(q, i)  == [j \in 1..Len(q) - 1 |-> IF j < i THEN q[j] ELSE q[j + 1]]
FirstIn(q, P) == CHOOSE i \in P : \A j \in P : i <= j
Enqueue(s, p) == [s EXCEPT !.queue = Append(@, p)]

(* Router::cancelSending: the node is no relayer of the packet any more.    *)
Cancel(n, s, k) ==
  LET found == {i \in DOMAIN s.queue : Key(s.queue[i]) = k} IN
  IF found = {} THEN s
  ELSE [s EXCEPT !.queue = DropAt(@, FirstIn(s.queue, found)),
                 !.hist = IF k \in DOMAIN @ THEN [s.hist EXCEPT ![k].by = @ \ {n}]
                                                      ELSE @]

StopRetransmission(n, s, k) ==
  IF k \notin DOMAIN s.pend THEN s
  ELSE LET s1 == IF /\ s.pend[k].left < NUM_RELIABLE_RETX - 1
                    /\ k[1] = n \/ AllowsCanceling(n)
                 THEN Cancel(n, s, k) ELSE s
       IN [s1 EXCEPT !.pend = [j \in DOMAIN @ \ {k} |-> @[j]]]

StartRetransmission(n, s, p, tries) ==
  LET s1 == StopRetransmission(n, s, Key(p)) IN
  [s1 EXCEPT !.pend = [k \in DOMAIN @ \cup {Key(p)} |->
                         IF k = Key(p) THEN [pkt |-> p, left |-> tries - 1]
                                       ELSE @[k]]]

-----------------------------------------------------------------------------
(* Sending.  Router::send, FloodingRouter::send, NextHopRouter::send and    *)
(* ReliableRouter::send; the interface exists and the duty cycle allows it. *)

RouterSend(n, s, p) ==
  Enqueue(s, [p EXCEPT !.ack = @ /\ p.to # Broadcast, !.relay = n,
                       !.start = IF p.from = n THEN p.lim ELSE @])

FloodSend(n, s, p) ==
  LET q == [p EXCEPT !.relay = n] IN RouterSend(n, Saw(n, s, q), q)

GetNextHop(n, s, to) ==
  IF to = Broadcast \/ s.route[to] = n THEN NoNode ELSE s.route[to]

NextHopSend(n, s, p) ==
  LET q  == [p EXCEPT !.relay = n, !.next = GetNextHop(n, s, p.to)]
      s1 == Saw(n, s, [p EXCEPT !.relay = n])
      s2 == IF /\ p.from # n \/ ~p.ack
               /\ q.next # NoNode
               /\ p.lim > 0 \/ p.ack
            THEN StartRetransmission(n, s1, q, NUM_INTERMEDIATE_RETX) ELSE s1
  IN RouterSend(n, s2, q)

ReliableSend(n, s, p) ==
  LET s1 == IF p.ack THEN StartRetransmission(n, s, p, NUM_RELIABLE_RETX) ELSE s
  IN IF p.to = Broadcast THEN FloodSend(n, s1, p) ELSE NextHopSend(n, s1, p)

(* RoutingModule::sendAckNak and Router::sendLocal: to the node itself it   *)
(* goes through the receive queue.                                          *)
SendAckNak(n, s, err, to, id, lim, wantsAck) ==
  LET p == [from |-> n, id |-> s.ids, to |-> to, req |-> id, err |-> err,
            ack |-> wantsAck, lim |-> lim, start |-> lim,
            next |-> NoNode, relay |-> n]
      s1 == [s EXCEPT !.ids = @ + 1]
  IN IF to = n THEN [s1 EXCEPT !.rx = Append(@, p)] ELSE ReliableSend(n, s1, p)

HopLimitForResponse(p) ==
  CASE HopsAway(p) > HopLimit -> HopsAway(p)
    [] HopsAway(p) >= 0 /\ HopsAway(p) + 2 < HopLimit -> HopsAway(p) + 2
    [] OTHER -> HopLimit

(* Mutant of MayRelay: the hop limit is not looked at.                      *)
MayRelayForever(n, p) ==
  /\ n \notin {p.to, p.from}
  /\ IsRebroadcaster(n) /\ p.next \in {NoNode, n}

MayRelay(n, p) ==
  /\ n \notin {p.to, p.from} /\ p.lim > 0
  /\ IsRebroadcaster(n) /\ p.next \in {NoNode, n}

Rebroadcast(n, s, p) ==
  LET q == [p EXCEPT !.lim = IF Decrements(n, p) THEN @ - 1 ELSE @] IN
  IF ~MayRelay(n, p) THEN s
  ELSE IF p.next = NoNode THEN FloodSend(n, s, q) ELSE NextHopSend(n, s, q)

-----------------------------------------------------------------------------
(* Receiving: shouldFilterReceived of the three routers.  Each returns the  *)
(* new record of the node and whether the packet goes on to the modules.    *)

(* perhapsHandleUpgradedPacket: a queued copy with fewer hops is replaced.  *)
Worse(s, p) == {i \in DOMAIN s.queue : Key(s.queue[i]) = Key(p) /\ s.queue[i].lim < p.lim}
Upgrades(n, s, p) ==
  WasUpgraded(s, p) /\ IsRebroadcaster(n) /\ p.lim > 0 /\ Worse(s, p) # {}
Upgrade(n, s, p) ==
  Rebroadcast(n, [s EXCEPT !.queue = DropAt(@, FirstIn(@, Worse(s, p)))], p)

CancelDupe(n, s, p) == IF AllowsCanceling(n) THEN Cancel(n, s, Key(p)) ELSE s

Again(n, s, p) == IF Queued(s, Key(p)) THEN s ELSE Rebroadcast(n, s, p)
AckAgain(n, s, p) ==
  IF p.to = n /\ p.ack /\ ~Queued(s, Key(p))
  THEN SendAckNak(n, s, FALSE, p.from, p.id, 0, FALSE) ELSE s

FloodDupe(n, s, p) ==
  IF p.start > 0 /\ p.start = p.lim
  THEN Again(n, s, p) ELSE CancelDupe(n, s, p)

NextHopDupe(n, old, s, p) ==
  LET s1 == StopRetransmission(n, s, Key(p)) IN
  IF WasFallback(n, old, p) THEN Again(n, s1, p)
  ELSE IF HopsAway(p) = 0
  THEN IF MayRelay(n, p) THEN Again(n, s1, p) ELSE AckAgain(n, s1, p)
  ELSE IF old.hist[Key(p)].next = n THEN s1 ELSE CancelDupe(n, s1, p)

(* Mutant of OverhearOwn: the sender is not told.                           *)
OverhearOwnSilent(n, s, p) ==
  IF p.from = n /\ Key(p) \in DOMAIN s.pend
  THEN StopRetransmission(n, s, Key(p)) ELSE s

(* ReliableRouter: somebody relays what we sent, an implicit ACK.           *)
OverhearOwn(n, s, p) ==
  IF p.from = n /\ Key(p) \in DOMAIN s.pend
  THEN StopRetransmission(n, SendAckNak(n, s, FALSE, n, p.id, HopLimit, FALSE), Key(p))
  ELSE s

Duplicate(n, s, p) ==
  LET s1 == Saw(n, s, p) IN
  CASE Upgrades(n, s, p) -> Upgrade(n, s1, p)
    [] ~Upgrades(n, s, p) /\ p.to = Broadcast -> FloodDupe(n, s1, p)
    [] OTHER -> NextHopDupe(n, s, s1, p)

-----------------------------------------------------------------------------
(* sniffReceived of the three routers, for a packet seen for the first time.*)

Acknowledge(n, s, p) ==
  CASE p.ack /\ p.req < 0 ->
         SendAckNak(n, s, FALSE, p.from, p.id, HopLimitForResponse(p), TRUE)
    [] p.ack /\ p.req >= 0 /\ (HopsAway(p) = 0 \/ p.next # NoNode) ->
         SendAckNak(n, s, FALSE, p.from, p.id, 0, FALSE)
    [] ~p.ack /\ p.next = n /\ p.lim > 0 ->
         SendAckNak(n, s, FALSE, p.from, p.id, 0, FALSE)
    [] OTHER -> s

LearnRoute(n, s, p) ==
  LET k    == <<p.to, p.req>>
      sole == WasRelayer(s, n, k) /\ s.hist[k].by = {n}
  IN IF /\ p.req >= 0 /\ p.from # n
        /\ \/ WasRelayer(s, n, k) /\ WasRelayer(s, RelayOf(p), k)
           \/ IsDirect(p) /\ sole
     THEN [s EXCEPT !.route[p.from] = RelayOf(p)] ELSE s

StopForOthers(n, s, p) ==
  LET k == <<p.to, p.req>> IN
  IF p.req < 0 \/ p.to = n THEN s
  ELSE StopRetransmission(n, Cancel(n, s, k), k)

Sniff(n, s, p) ==
  LET s1 == IF p.to # n THEN s
            ELSE LET a == Acknowledge(n, s, p)
                 IN IF p.req >= 0 THEN StopRetransmission(n, a, <<n, p.req>>) ELSE a
      s2 == IF p.to = Broadcast THEN s1
            ELSE StopForOthers(n, LearnRoute(n, s1, p), p)
  IN Rebroadcast(n, s2, p)

-----------------------------------------------------------------------------
(* Actions.                                                                 *)

Boot(n) == [hist |-> <<>>, queue |-> <<>>, pend |-> <<>>, rx |-> <<>>,
            route |-> Route[n], ids |-> 1]

(* The phone of Source has handed the text to its node (sendToMesh).        *)
Init ==
  /\ mesh \in Meshes
  /\ node = [n \in Nodes |-> IF n = Source THEN ReliableSend(n, Boot(n), Text) ELSE Boot(n)]
  /\ lost = 0 /\ reboots = 0
  /\ sentBy = [n \in Nodes |-> 0] /\ deliveries = [n \in Nodes |-> 0]
  /\ outcomes = <<>>

(* The radio sends a queued packet; neighbours receive it unless they fail  *)
(* to (collision, noise, they are sending themselves).                      *)
Transmit(n) ==
  \E i \in DOMAIN node[n].queue, Deaf \in SUBSET Neighbours[n] :
    LET p == node[n].queue[i] IN
    /\ lost + Cardinality(Deaf) <= mesh.maxLost
    /\ lost' = lost + Cardinality(Deaf)
    /\ node' = [m \in Nodes |->
         IF m = n THEN [node[n] EXCEPT !.queue = DropAt(@, i)]
         ELSE IF m \in Neighbours[n] \ Deaf
         THEN [node[m] EXCEPT !.rx = Append(@, p)] ELSE node[m]]
    /\ sentBy' = IF Key(p) = TextKey THEN [sentBy EXCEPT ![n] = @ + 1] ELSE sentBy
    /\ UNCHANGED <<mesh, reboots, deliveries, outcomes>>

(* Router::runOnce takes a packet out of the receive queue.                 *)
HandleReceived(n) ==
  /\ node[n].rx # <<>>
  /\ LET p  == Head(node[n].rx)
         s  == OverhearOwn(n, [node[n] EXCEPT !.rx = Tail(@)], p)
         is == Known(s, p)
         up == ~is /\ p.to \in {n, Broadcast}
     IN /\ node' = [node EXCEPT ![n] = IF is THEN Duplicate(n, s, p)
                                       ELSE Sniff(n, Saw(n, s, p), p)]
        /\ deliveries' = IF up /\ Key(p) = TextKey
                         THEN [deliveries EXCEPT ![n] = @ + 1] ELSE deliveries
        /\ outcomes' = IF up /\ n = Source /\ p.req = 0
                       THEN Append(outcomes, IF p.err THEN "nak" ELSE "ack")
                       ELSE outcomes
  /\ UNCHANGED <<mesh, lost, reboots, sentBy>>

Calm == \A n \in Nodes : node[n].queue = <<>> /\ node[n].rx = <<>>

(* Mutant of Due: a record without tries left is passed over.              *)
DueWithTries(n, k) ==
  k \in DOMAIN node[n].pend /\ (mesh.patient => Calm) /\ node[n].pend[k].left > 0

(* The time of a retransmission record has come.                            *)
Due(n, k) == k \in DOMAIN node[n].pend /\ (mesh.patient => Calm)

(* Mutant of DoRetransmission: the number of tries is not counted down.     *)
DoRetransmissionUncounted(n, k) ==
  /\ Due(n, k)
  /\ node[n].pend[k].left > 0
  /\ node' = [node EXCEPT ![n] = FloodSend(n, @, @.pend[k].pkt)]
  /\ UNCHANGED <<mesh, lost, reboots, sentBy, deliveries, outcomes>>

(* Mutant of DoRetransmission: the fallback does not reset the next hop.    *)
DoRetransmissionKeepsHop(n, k) ==
  /\ Due(n, k)
  /\ LET s  == node[n]
         e  == s.pend[k]
         s1 == [s EXCEPT !.pend[k].left = @ - 1]
     IN node' = [node EXCEPT ![n] =
          CASE e.left = 0 ->
                 StopRetransmission(n,
                   IF k[1] = n THEN SendAckNak(n, s, TRUE, n, k[2], HopLimit, FALSE) ELSE s, k)
            [] e.left = 1 -> FloodSend(n, s1, [e.pkt EXCEPT !.next = NoNode])
            [] OTHER -> NextHopSend(n, s1, e.pkt)]
  /\ UNCHANGED <<mesh, lost, reboots, sentBy, deliveries, outcomes>>

(* doRetransmissions for one record whose time has come.                    *)
DoRetransmission(n, k) ==
  /\ Due(n, k)
  /\ LET s == node[n]
         e == s.pend[k]
         fallback == e.pkt.to # Broadcast /\ e.left = 1
         p == IF fallback THEN [e.pkt EXCEPT !.next = NoNode] ELSE e.pkt
         s1 == [s EXCEPT !.pend[k] = [pkt |-> p, left |-> e.left - 1],
                         !.route = IF fallback THEN [@ EXCEPT ![p.to] = NoNode] ELSE @]
     IN node' = [node EXCEPT ![n] =
          CASE e.left = 0 ->
                 StopRetransmission(n,
                   IF k[1] = n THEN SendAckNak(n, s, TRUE, n, k[2], HopLimit, FALSE) ELSE s, k)
            [] e.left > 0 /\ (fallback \/ p.to = Broadcast) -> FloodSend(n, s1, p)
            [] OTHER -> NextHopSend(n, s1, p)]
  /\ UNCHANGED <<mesh, lost, reboots, sentBy, deliveries, outcomes>>

(* A node other than Source restarts; next hops are in the saved database.  *)
Reboot(n) ==
  /\ reboots < mesh.maxReboots /\ n # Source
  /\ reboots' = reboots + 1
  /\ node' = [node EXCEPT ![n] = [Boot(n) EXCEPT !.route = node[n].route,
                                                 !.ids = node[n].ids]]
  /\ deliveries' = [deliveries EXCEPT ![n] = 0]
  /\ sentBy' = [sentBy EXCEPT ![n] = 0]
  /\ UNCHANGED <<mesh, lost, outcomes>>

Keys == UNION {DOMAIN node[n].pend : n \in Nodes}

Next == \E n \in Nodes :
  \/ Transmit(n)
  \/ HandleReceived(n)
  \/ \E k \in Keys : DoRetransmission(n, k)
  \/ Reboot(n)

Spec == Init /\ [][Next]_vars

(* The radio sends what is queued, the router thread runs and the timers    *)
(* expire: the mesh does not stop while it can go on.  Which node is next   *)
(* is left open, failures are bounded by the mesh.                          *)
System == \E n \in Nodes :
  \/ Transmit(n) \/ HandleReceived(n) \/ \E k \in Keys : DoRetransmission(n, k)

Fairness == WF_vars(System)

(* Where System is enabled.                                                 *)
CanMove == ~Calm \/ \E n \in Nodes : \E k \in DOMAIN node[n].pend : Due(n, k)

FairSpec == Spec /\ Fairness

-----------------------------------------------------------------------------
(* Properties.                                                              *)

Packet == [from : Nodes, id : Nat, to : Nodes \cup {Broadcast}, req : Nat \cup {-1},
           err : BOOLEAN, ack : BOOLEAN, lim : 0..HopLimit, start : 0..HopLimit,
           next : Hops, relay : Nodes]
Seen   == [next : Hops, high : 0..HopLimit, ours : 0..HopLimit, by : SUBSET Nodes]

(* Every hop count stays within the limit and every record is well formed:  *)
(* a retransmission record is filed under its packet, with tries in range.  *)
RouterType(s) ==
  /\ s.queue \in Seq(Packet) /\ s.rx \in Seq(Packet)
  /\ \A k \in DOMAIN s.pend : /\ s.pend[k].pkt \in Packet /\ Key(s.pend[k].pkt) = k
                              /\ s.pend[k].left \in 0..NUM_RELIABLE_RETX - 1
  /\ \A k \in DOMAIN s.hist : s.hist[k] \in Seen
  /\ s.route \in [Nodes -> Hops] /\ s.ids \in Nat
TypeOK == \A n \in Nodes : RouterType(node[n])

(* However many copies reach a node, over however many paths, its modules   *)
(* see the text once per boot (an alarm is switched once).                  *)
DeliveredOnce == \A n \in Nodes : deliveries[n] <= 1

(* A flood does not feed itself: no node has sent a broadcast more often    *)
(* than its originator has.                                                 *)
RelayBudget == Dest = Broadcast =>
  \A n \in Nodes : sentBy[n] <= sentBy[Source] + Cardinality({i \in DOMAIN
     node[Source].queue : Key(node[Source].queue[i]) = TextKey})

(* However the answers and the timers race, the sender transmits its text   *)
(* no more often than it has tries.                                         *)
TriesBounded == sentBy[Source] <= NUM_RELIABLE_RETX

(* A message costs the mesh a bounded number of transmissions: the sender's *)
(* tries and, of any node and for each of these, one as a relay and its one *)
(* repetition.                                                              *)
EffortBounded == TriesBounded /\
  \A n \in Nodes : sentBy[n] <= NUM_INTERMEDIATE_RETX * NUM_RELIABLE_RETX

(* ReliableRouter.cpp: a NAK indicates failure, so none follows an ACK.     *)
NoNakAfterAck == \A i, j \in DOMAIN outcomes :
  i < j /\ outcomes[i] = "ack" => outcomes[j] = "ack"

(* A message that failed leaves no next hop behind: the sender floods the   *)
(* next one, whatever answers came late.                                    *)
FailedForgetsHop ==
  Dest # Broadcast /\ outcomes = <<"nak">> => node[Source].route[Dest] = NoNode

(* The mesh falls silent: no flood and no retransmission goes on for ever.  *)
Silent == \A n \in Nodes : node[n].queue = <<>> /\ node[n].rx = <<>> /\ node[n].pend = <<>>
DiesOut == <>[]Silent

(* The sender is told how its message ended.                                *)
SenderTold == <>(outcomes # <<>>)

(* FloodingRouter.h: whoever receives a broadcast resends it.               *)
FloodReachesAll == <>(\A n \in Nodes \ {Source} : deliveries[n] > 0)

(* NextHopRouter.h: a hop that does not answer is replaced by flooding.     *)
StaleHopHealed == <>(deliveries[Dest] > 0)

(* NextHopRouter.h: a next hop is learnt only over a two-way connection.    *)
TwoWayHop == \A n, d \in Nodes :
  node[n].route[d] # Route[n][d] => node[n].route[d] \in Neighbours[n] \cup {NoNode}
=============================================================================
