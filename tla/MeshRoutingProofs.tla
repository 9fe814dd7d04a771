--------------------------- MODULE MeshRoutingProofs ---------------------------
(***************************************************************************)
(* Proofs about MeshRouting, for every set of nodes, every mesh and every   *)
(* value of the limits.  The operators of the router map the record of one  *)
(* node to the next one; each of them is shown to keep the record well      *)
(* formed and to forget no packet, and the handlers compose them.           *)
(***************************************************************************)
EXTENDS MeshRouting, FiniteSetTheorems, SequenceTheorems, TLAPS

-----------------------------------------------------------------------------
(* Sequences.                                                               *)

(* A set of positions has a least one.                                      *)
LEMMA LeastExists ==
  ASSUME NEW N \in Nat, NEW P, P \subseteq 1..N, P # {}
  PROVE  \E k \in P : \A j \in P : k <= j
<1> DEFINE A == {i \in 1..N : \A j \in P : i < j}
           a == Cardinality(A)
<1>1. IsFiniteSet(1..N) /\ Cardinality(1..N) = N
  BY FS_Interval
<1>2. IsFiniteSet(A) /\ a \in Nat /\ a <= N
  BY <1>1, FS_Subset, FS_CardinalityType
<1>3. ASSUME NEW i \in A PROVE i <= a
  <2>1. 1..i \subseteq A /\ i \in Nat
    OBVIOUS
  <2>2. Cardinality(1..i) = i
    BY <2>1, FS_Interval
  <2>3. QED
    BY <1>2, <2>1, <2>2, FS_Subset
<1>4. ASSUME NEW i \in 1..N, i \notin A PROVE a < i
  <2>1. PICK j \in P : j <= i
    BY <1>4
  <2>2. A \subseteq 1..i-1
    BY <2>1
  <2>3. IsFiniteSet(1..i-1) /\ Cardinality(1..i-1) = i - 1
    <3>1. i - 1 \in Nat /\ i - 1 - 1 + 1 = i - 1 /\ (1 > i - 1 => i - 1 = 0)
      OBVIOUS
    <3>2. QED
      BY <3>1, FS_Interval
  <2>4. a <= i - 1
    BY <2>2, <2>3, FS_Subset
  <2>5. QED
    BY <1>2, <2>4
<1> DEFINE m == a + 1
<1>5. \A j \in P : m <= j
  <2>1. SUFFICES ASSUME NEW j \in P PROVE a < j
    BY <1>2
  <2>2. j \notin A
    OBVIOUS
  <2>3. QED
    BY <1>4, <2>2
<1>6. m \in 1..N
  <2>1. PICK j \in P : TRUE
    OBVIOUS
  <2>2. m <= j /\ j <= N
    BY <1>5, <2>1
  <2> HIDE DEF a
  <2>3. QED
    BY <1>2, <2>1, <2>2
<1>7. m \notin A
  BY <1>2, <1>3
<1>8. PICK j \in P : j <= m
  BY <1>6, <1>7
<1>9. QED
  BY <1>5, <1>6, <1>8

(* Where a packet leaves a queue, the others keep their order.              *)
LEMMA DropAtType ==
  ASSUME NEW S, NEW q \in Seq(S), NEW i \in DOMAIN q
  PROVE  /\ DropAt(q, i) \in Seq(S) /\ Len(DropAt(q, i)) = Len(q) - 1
         /\ DOMAIN DropAt(q, i) = 1..Len(q) - 1
         /\ Len(q) \in Nat /\ DOMAIN q = 1..Len(q)
         /\ \A j \in 1..Len(q) - 1 :
              DropAt(q, i)[j] = IF j < i THEN q[j] ELSE q[j + 1]
<1>1. Len(q) \in Nat /\ DOMAIN q = 1..Len(q) /\ Len(q) - 1 \in Nat
  OBVIOUS
<1>2. \A j \in 1..Len(q) - 1 : (IF j < i THEN q[j] ELSE q[j + 1]) \in S
  BY <1>1
<1>3. QED
  BY <1>1, <1>2 DEF DropAt

LEMMA FirstInType ==
  ASSUME NEW S, NEW q \in Seq(S), NEW P, P \subseteq DOMAIN q, P # {}
  PROVE  FirstIn(q, P) \in P
<1>1. \E k \in P : \A j \in P : k <= j
  <2>1. Len(q) \in Nat /\ P \subseteq 1..Len(q)
    OBVIOUS
  <2>2. QED
    BY <2>1, LeastExists
<1>2. QED
  BY <1>1 DEF FirstIn

-----------------------------------------------------------------------------
(* A router and its packets.                                                *)

Fields == {"hist", "queue", "pend", "rx", "route", "ids"}
RouterOK(s) == DOMAIN s = Fields /\ RouterType(s)

(* What an operator does at least: the record stays well formed and every   *)
(* packet seen before is still known.                                       *)
Keeps(s, t) == RouterOK(t) /\ DOMAIN s.hist \subseteq DOMAIN t.hist

LEMMA KeepsTrans ==
  ASSUME NEW s, NEW t, NEW u, Keeps(s, t), Keeps(t, u)
  PROVE  Keeps(s, u)
BY DEF Keeps

(* PacketHistory.                                                           *)
LEMMA SawKeeps ==
  ASSUME NEW n \in Nodes, NEW s, RouterOK(s), NEW p \in Packet
  PROVE  Keeps(s, Saw(n, s, p)) /\ Known(Saw(n, s, p), p)
<1>1. Record(n, s, p) \in Seen
  <2>1. p.next \in Hops /\ p.lim \in 0..HopLimit /\ p.relay \in Nodes /\ 0 \in 0..HopLimit
    BY RoutingAssumption DEF Packet
  <2>2. CASE ~Known(s, p)
    BY <2>1, <2>2 DEF Record, Seen
  <2>3. CASE Known(s, p)
    <3>1. s.hist[Key(p)] \in Seen
      BY <2>3 DEF Known, RouterOK, RouterType
    <3>2. QED
      BY <2>1, <2>3, <3>1 DEF Record, Seen
  <2>4. QED
    BY <2>2, <2>3
<1>2. QED
  BY <1>1 DEF Keeps, Known, Saw, RouterOK, RouterType, Fields

(* The transmit queue and the retransmission records.                       *)
LEMMA EnqueueKeeps ==
  ASSUME NEW s, RouterOK(s), NEW p \in Packet
  PROVE  Keeps(s, Enqueue(s, p))
<1>1. Append(s.queue, p) \in Seq(Packet)
  BY DEF RouterOK, RouterType
<1>2. QED
  BY <1>1 DEF Keeps, Enqueue, RouterOK, RouterType, Fields

LEMMA CancelKeeps ==
  ASSUME NEW n \in Nodes, NEW s, RouterOK(s), NEW k
  PROVE  Keeps(s, Cancel(n, s, k))
<1> DEFINE found == {i \in DOMAIN s.queue : Key(s.queue[i]) = k}
           q == DropAt(s.queue, FirstIn(s.queue, found))
           h == IF k \in DOMAIN s.hist THEN [s.hist EXCEPT ![k].by = @ \ {n}] ELSE s.hist
<1>1. CASE found = {}
  BY <1>1 DEF Cancel, Keeps
<1>2. CASE found # {}
  <2>1. s.queue \in Seq(Packet)
    BY DEF RouterOK, RouterType
  <2>2. FirstIn(s.queue, found) \in DOMAIN s.queue
    BY <1>2, <2>1, FirstInType
  <2>3. q \in Seq(Packet)
    BY <2>1, <2>2, DropAtType
  <2>4. DOMAIN h = DOMAIN s.hist /\ \A j \in DOMAIN h : h[j] \in Seen
    BY DEF RouterOK, RouterType, Seen
  <2>5. Cancel(n, s, k) = [s EXCEPT !.queue = q, !.hist = h]
    BY <1>2 DEF Cancel
  <2> HIDE DEF q, h
  <2>6. QED
    BY <2>3, <2>4, <2>5 DEF Keeps, RouterOK, RouterType, Fields
<1>3. QED
  BY <1>1, <1>2

LEMMA StopKeeps ==
  ASSUME NEW n \in Nodes, NEW s, RouterOK(s), NEW k
  PROVE  Keeps(s, StopRetransmission(n, s, k))
<1> DEFINE s1 == IF s.pend[k].left < NUM_RELIABLE_RETX - 1
                    /\ (k[1] = n \/ AllowsCanceling(n))
                 THEN Cancel(n, s, k) ELSE s
<1>1. Keeps(s, s1)
  BY CancelKeeps DEF Keeps
<1>2. k \in DOMAIN s.pend =>
        StopRetransmission(n, s, k) = [s1 EXCEPT !.pend = [j \in DOMAIN @ \ {k} |-> @[j]]]
  BY DEF StopRetransmission
<1>3. k \notin DOMAIN s.pend => StopRetransmission(n, s, k) = s
  BY DEF StopRetransmission
<1> HIDE DEF s1
<1>4. CASE k \in DOMAIN s.pend
  <2>1. /\ StopRetransmission(n, s, k) = [s1 EXCEPT !.pend = [j \in DOMAIN @ \ {k} |-> @[j]]]
        /\ DOMAIN s1 = Fields
    BY <1>1, <1>2, <1>4 DEF Keeps, RouterOK
  <2>2. QED
    BY <1>1, <2>1 DEF Keeps, RouterOK, RouterType, Fields
<1>5. CASE k \notin DOMAIN s.pend
  BY <1>3, <1>5 DEF Keeps
<1>6. QED
  BY <1>4, <1>5

LEMMA StartKeeps ==
  ASSUME NEW n \in Nodes, NEW s, RouterOK(s), NEW p \in Packet,
         NEW tries \in 1..NUM_RELIABLE_RETX
  PROVE  Keeps(s, StartRetransmission(n, s, p, tries))
<1> DEFINE s1 == StopRetransmission(n, s, Key(p))
<1>1. Keeps(s, s1)
  BY StopKeeps
<1>2. tries - 1 \in 0..NUM_RELIABLE_RETX - 1
  BY RoutingAssumption
<1>3. StartRetransmission(n, s, p, tries) =
        [s1 EXCEPT !.pend = [k \in DOMAIN @ \cup {Key(p)} |->
           IF k = Key(p) THEN [pkt |-> p, left |-> tries - 1] ELSE @[k]]]
  BY DEF StartRetransmission
<1> HIDE DEF s1
<1>4. QED
  BY <1>1, <1>2, <1>3 DEF Keeps, RouterOK, RouterType, Fields

-----------------------------------------------------------------------------
(* Sending.                                                                 *)

LEMMA RouterSendKeeps ==
  ASSUME NEW n \in Nodes, NEW s, RouterOK(s), NEW p \in Packet
  PROVE  Keeps(s, RouterSend(n, s, p))
<1>1. [p EXCEPT !.ack = @ /\ p.to # Broadcast, !.relay = n,
                !.start = IF p.from = n THEN p.lim ELSE @] \in Packet
  BY DEF Packet
<1>2. QED
  BY <1>1, EnqueueKeeps DEF RouterSend

LEMMA FloodSendKeeps ==
  ASSUME NEW n \in Nodes, NEW s, RouterOK(s), NEW p \in Packet
  PROVE  Keeps(s, FloodSend(n, s, p))
<1> DEFINE q == [p EXCEPT !.relay = n]
<1>1. q \in Packet
  BY DEF Packet
<1> HIDE DEF q
<1>2. Keeps(s, Saw(n, s, q))
  BY <1>1, SawKeeps
<1>3. Keeps(Saw(n, s, q), RouterSend(n, Saw(n, s, q), q))
  BY <1>1, <1>2, RouterSendKeeps DEF Keeps
<1>4. QED
  BY <1>2, <1>3, KeepsTrans DEF FloodSend, q

LEMMA NextHopSendKeeps ==
  ASSUME NEW n \in Nodes, NEW s, RouterOK(s), NEW p \in Packet
  PROVE  Keeps(s, NextHopSend(n, s, p))
<1> DEFINE r  == [p EXCEPT !.relay = n]
           q  == [p EXCEPT !.relay = n, !.next = GetNextHop(n, s, p.to)]
           s1 == Saw(n, s, r)
           s2 == IF /\ p.from # n \/ ~p.ack
                    /\ q.next # NoNode
                    /\ p.lim > 0 \/ p.ack
                 THEN StartRetransmission(n, s1, q, NUM_INTERMEDIATE_RETX) ELSE s1
<1>1. GetNextHop(n, s, p.to) \in Hops
  BY RoutingAssumption DEF GetNextHop, Hops, Packet, RouterOK, RouterType
<1>2. r \in Packet /\ q \in Packet
  BY <1>1 DEF Packet
<1>3. NUM_INTERMEDIATE_RETX \in 1..NUM_RELIABLE_RETX
  BY RoutingAssumption
<1>4. NextHopSend(n, s, p) = RouterSend(n, s2, q)
  BY DEF NextHopSend
<1>5. Keeps(s, s1)
  BY <1>2, SawKeeps
<1>6. Keeps(s1, s2)
  <2> HIDE DEF s1, q
  <2>1. RouterOK(s1)
    BY <1>5 DEF Keeps
  <2>2. Keeps(s1, StartRetransmission(n, s1, q, NUM_INTERMEDIATE_RETX)) /\ Keeps(s1, s1)
    BY <1>2, <1>3, <2>1, StartKeeps DEF Keeps
  <2>3. QED
    BY <2>2
<1> HIDE DEF s1, s2, q
<1>7. Keeps(s2, RouterSend(n, s2, q))
  BY <1>2, <1>6, RouterSendKeeps DEF Keeps
<1>8. QED
  BY <1>4, <1>5, <1>6, <1>7, KeepsTrans

LEMMA ReliableSendKeeps ==
  ASSUME NEW n \in Nodes, NEW s, RouterOK(s), NEW p \in Packet
  PROVE  Keeps(s, ReliableSend(n, s, p))
<1> DEFINE s1 == IF p.ack THEN StartRetransmission(n, s, p, NUM_RELIABLE_RETX) ELSE s
<1>1. NUM_RELIABLE_RETX \in 1..NUM_RELIABLE_RETX
  BY RoutingAssumption
<1>2. Keeps(s, s1)
  BY <1>1, StartKeeps DEF Keeps
<1>3. ReliableSend(n, s, p) = IF p.to = Broadcast THEN FloodSend(n, s1, p)
                                                  ELSE NextHopSend(n, s1, p)
  BY DEF ReliableSend
<1> HIDE DEF s1
<1>4. RouterOK(s1)
  BY <1>2 DEF Keeps
<1>5. QED
  BY <1>2, <1>3, <1>4, FloodSendKeeps, NextHopSendKeeps, KeepsTrans

LEMMA SendAckNakKeeps ==
  ASSUME NEW n \in Nodes, NEW s, RouterOK(s), NEW err \in BOOLEAN, NEW to \in Nodes,
         NEW id \in Nat, NEW lim \in 0..HopLimit, NEW wantsAck \in BOOLEAN
  PROVE  Keeps(s, SendAckNak(n, s, err, to, id, lim, wantsAck))
<1> DEFINE p == [from |-> n, id |-> s.ids, to |-> to, req |-> id, err |-> err,
                 ack |-> wantsAck, lim |-> lim, start |-> lim,
                 next |-> NoNode, relay |-> n]
           s1 == [s EXCEPT !.ids = @ + 1]
           s2 == [s1 EXCEPT !.rx = Append(@, p)]
<1>1. p \in Packet
  BY DEF Packet, Hops, RouterOK, RouterType
<1>2. SendAckNak(n, s, err, to, id, lim, wantsAck)
        = IF to = n THEN s2 ELSE ReliableSend(n, s1, p)
  BY DEF SendAckNak
<1> HIDE DEF p
<1>3. Keeps(s, s1)
  BY DEF Keeps, RouterOK, RouterType, Fields
<1>4. Keeps(s, s2)
  <2>1. Append(s.rx, p) \in Seq(Packet)
    BY <1>1 DEF RouterOK, RouterType
  <2>2. QED
    BY <2>1 DEF Keeps, RouterOK, RouterType, Fields
<1> HIDE DEF s1, s2
<1>5. QED
  BY <1>1, <1>2, <1>3, <1>4, ReliableSendKeeps, KeepsTrans DEF Keeps

LEMMA ResponseType ==
  ASSUME NEW p \in Packet
  PROVE  HopLimitForResponse(p) \in 0..HopLimit
<1>1. p.start \in 0..HopLimit /\ p.lim \in 0..HopLimit /\ HopLimit \in Nat
  BY RoutingAssumption DEF Packet
<1>2. QED
  BY <1>1 DEF HopLimitForResponse, HopsAway

LEMMA RebroadcastKeeps ==
  ASSUME NEW n \in Nodes, NEW s, RouterOK(s), NEW p \in Packet
  PROVE  Keeps(s, Rebroadcast(n, s, p))
<1> DEFINE q == [p EXCEPT !.lim = IF Decrements(n, p) THEN @ - 1 ELSE @]
<1>1. CASE MayRelay(n, p)
  <2>1. (IF Decrements(n, p) THEN p.lim - 1 ELSE p.lim) \in 0..HopLimit
    BY <1>1, RoutingAssumption DEF MayRelay, Packet
  <2>2. q \in Packet
    BY <2>1 DEF Packet
  <2>3. Rebroadcast(n, s, p) = IF p.next = NoNode THEN FloodSend(n, s, q)
                                                  ELSE NextHopSend(n, s, q)
    BY <1>1 DEF Rebroadcast
  <2> HIDE DEF q
  <2>4. QED
    BY <2>2, <2>3, FloodSendKeeps, NextHopSendKeeps
<1>2. CASE ~MayRelay(n, p)
  BY <1>2 DEF Rebroadcast, Keeps
<1>3. QED
  BY <1>1, <1>2

-----------------------------------------------------------------------------
(* Receiving.                                                               *)

LEMMA UpgradeKeeps ==
  ASSUME NEW n \in Nodes, NEW s, RouterOK(s), NEW p \in Packet, Worse(s, p) # {}
  PROVE  Keeps(s, Upgrade(n, s, p))
<1> DEFINE q  == DropAt(s.queue, FirstIn(s.queue, Worse(s, p)))
           s1 == [s EXCEPT !.queue = q]
<1>1. s.queue \in Seq(Packet) /\ Worse(s, p) \subseteq DOMAIN s.queue
  BY DEF RouterOK, RouterType, Worse
<1>2. q \in Seq(Packet)
  <2>1. FirstIn(s.queue, Worse(s, p)) \in DOMAIN s.queue
    BY <1>1, FirstInType
  <2>2. QED
    BY <1>1, <2>1, DropAtType
<1>3. Upgrade(n, s, p) = Rebroadcast(n, s1, p)
  BY DEF Upgrade
<1> HIDE DEF q
<1>4. Keeps(s, s1)
  BY <1>2 DEF Keeps, RouterOK, RouterType, Fields
<1> HIDE DEF s1
<1>5. QED
  BY <1>3, <1>4, RebroadcastKeeps, KeepsTrans DEF Keeps

LEMMA CancelDupeKeeps ==
  ASSUME NEW n \in Nodes, NEW s, RouterOK(s), NEW p \in Packet
  PROVE  Keeps(s, CancelDupe(n, s, p))
BY CancelKeeps DEF CancelDupe, Keeps

LEMMA AgainKeeps ==
  ASSUME NEW n \in Nodes, NEW s, RouterOK(s), NEW p \in Packet
  PROVE  Keeps(s, Again(n, s, p)) /\ Keeps(s, AckAgain(n, s, p))
<1>1. p.from \in Nodes /\ p.id \in Nat /\ 0 \in 0..HopLimit
  BY RoutingAssumption DEF Packet
<1>2. Keeps(s, s) /\ Keeps(s, Rebroadcast(n, s, p))
  BY RebroadcastKeeps DEF Keeps
<1>3. Keeps(s, SendAckNak(n, s, FALSE, p.from, p.id, 0, FALSE))
  BY <1>1, SendAckNakKeeps
<1>4. QED
  BY <1>2, <1>3 DEF Again, AckAgain

LEMMA FloodDupeKeeps ==
  ASSUME NEW n \in Nodes, NEW s, RouterOK(s), NEW p \in Packet
  PROVE  Keeps(s, FloodDupe(n, s, p))
BY AgainKeeps, CancelDupeKeeps DEF FloodDupe

LEMMA NextHopDupeKeeps ==
  ASSUME NEW n \in Nodes, NEW old, NEW s, RouterOK(s), NEW p \in Packet
  PROVE  Keeps(s, NextHopDupe(n, old, s, p))
<1> DEFINE s1 == StopRetransmission(n, s, Key(p))
<1>1. Keeps(s, s1)
  BY StopKeeps
<1>2. NextHopDupe(n, old, s, p) \in {Again(n, s1, p), AckAgain(n, s1, p), s1, CancelDupe(n, s1, p)}
  BY DEF NextHopDupe
<1> HIDE DEF s1
<1>3. RouterOK(s1)
  BY <1>1 DEF Keeps
<1>4. QED
  BY <1>1, <1>2, <1>3, AgainKeeps, CancelDupeKeeps, KeepsTrans

LEMMA OverhearOwnKeeps ==
  ASSUME NEW n \in Nodes, NEW s, RouterOK(s), NEW p \in Packet
  PROVE  Keeps(s, OverhearOwn(n, s, p))
<1> DEFINE s1 == SendAckNak(n, s, FALSE, n, p.id, HopLimit, FALSE)
<1>1. p.id \in Nat /\ HopLimit \in 0..HopLimit
  BY RoutingAssumption DEF Packet
<1>2. Keeps(s, s1)
  BY <1>1, SendAckNakKeeps
<1>3. OverhearOwn(n, s, p) \in {s, StopRetransmission(n, s1, Key(p))}
  BY DEF OverhearOwn
<1> HIDE DEF s1
<1>4. RouterOK(s1)
  BY <1>2 DEF Keeps
<1>5. Keeps(s1, StopRetransmission(n, s1, Key(p))) /\ Keeps(s, s)
  BY <1>4, StopKeeps DEF Keeps
<1>6. QED
  BY <1>2, <1>3, <1>5, KeepsTrans

LEMMA DuplicateKeeps ==
  ASSUME NEW n \in Nodes, NEW s, RouterOK(s), NEW p \in Packet
  PROVE  Keeps(s, Duplicate(n, s, p))
<1> DEFINE s1 == Saw(n, s, p)
<1>1. Keeps(s, s1)
  BY SawKeeps
<1>2. Worse(s1, p) = Worse(s, p)
  BY DEF Worse, Saw, RouterOK, Fields
<1>3. /\ Upgrades(n, s, p) => Duplicate(n, s, p) = Upgrade(n, s1, p)
      /\ ~Upgrades(n, s, p) =>
           Duplicate(n, s, p) \in {FloodDupe(n, s1, p), NextHopDupe(n, s, s1, p)}
  BY DEF Duplicate
<1> HIDE DEF s1
<1>4. RouterOK(s1)
  BY <1>1 DEF Keeps
<1>5. CASE Upgrades(n, s, p)
  <2>1. Worse(s1, p) # {}
    BY <1>2, <1>5 DEF Upgrades
  <2>2. QED
    BY <1>1, <1>3, <1>4, <1>5, <2>1, UpgradeKeeps, KeepsTrans
<1>6. CASE ~Upgrades(n, s, p)
  BY <1>1, <1>3, <1>4, <1>6, FloodDupeKeeps, NextHopDupeKeeps, KeepsTrans
<1>7. QED
  BY <1>5, <1>6

LEMMA SniffKeeps ==
  ASSUME NEW n \in Nodes, NEW s, RouterOK(s), NEW p \in Packet
  PROVE  Keeps(s, Sniff(n, s, p))
<1> DEFINE a  == Acknowledge(n, s, p)
           s1 == IF p.to # n THEN s
                 ELSE IF p.req >= 0 THEN StopRetransmission(n, a, <<n, p.req>>) ELSE a
           r  == LearnRoute(n, s1, p)
           k  == <<p.to, p.req>>
           s2 == IF p.to = Broadcast THEN s1 ELSE StopForOthers(n, r, p)
<1>1. Sniff(n, s, p) = Rebroadcast(n, s2, p)
  BY DEF Sniff
<1>2. Keeps(s, a)
  <2>1. p.from \in Nodes /\ p.id \in Nat /\ 0 \in 0..HopLimit /\ HopLimitForResponse(p) \in 0..HopLimit
    BY RoutingAssumption, ResponseType DEF Packet
  <2>2. /\ Keeps(s, SendAckNak(n, s, FALSE, p.from, p.id, HopLimitForResponse(p), TRUE))
        /\ Keeps(s, SendAckNak(n, s, FALSE, p.from, p.id, 0, FALSE))
        /\ Keeps(s, s)
    BY <2>1, SendAckNakKeeps DEF Keeps
  <2>3. QED
    BY <2>2 DEF Acknowledge
<1> HIDE DEF a
<1>3. Keeps(s, s1)
  <2>1. RouterOK(a) /\ Keeps(s, s)
    BY <1>2 DEF Keeps
  <2>2. QED
    BY <1>2, <2>1, StopKeeps, KeepsTrans
<1> HIDE DEF s1
<1>4. Keeps(s1, r)
  <2>1. RouterOK(s1)
    BY <1>3 DEF Keeps
  <2>2. r = s1 \/ r = [s1 EXCEPT !.route[p.from] = RelayOf(p)]
    BY DEF LearnRoute
  <2>3. p.from \in Nodes /\ RelayOf(p) \in Hops
    BY DEF RelayOf, Packet, Hops
  <2> HIDE DEF r
  <2>4. QED
    BY <2>1, <2>2, <2>3 DEF Keeps, RouterOK, RouterType, Fields
<1> HIDE DEF r
<1>5. Keeps(r, StopForOthers(n, r, p))
  <2>1. RouterOK(r) /\ Keeps(r, r)
    BY <1>4 DEF Keeps
  <2>2. Keeps(r, Cancel(n, r, k))
    BY <2>1, CancelKeeps
  <2>3. Keeps(Cancel(n, r, k), StopRetransmission(n, Cancel(n, r, k), k))
    BY <2>2, StopKeeps DEF Keeps
  <2>4. QED
    BY <2>1, <2>2, <2>3, KeepsTrans DEF StopForOthers
<1>6. Keeps(s, s2)
  BY <1>3, <1>4, <1>5, KeepsTrans
<1> HIDE DEF s2
<1>7. QED
  BY <1>1, <1>6, RebroadcastKeeps, KeepsTrans DEF Keeps

-----------------------------------------------------------------------------
(* The actions.                                                             *)

(* What holds of every router: its record is well formed, and it knows the  *)
(* text if its modules got it in this boot.                                 *)
NodesInv ==
  /\ mesh \in Meshes
  /\ DOMAIN node = Nodes /\ \A n \in Nodes : RouterOK(node[n])
  /\ deliveries \in [Nodes -> Nat]
  /\ \A n \in Nodes : /\ deliveries[n] <= 1
                      /\ deliveries[n] > 0 => TextKey \in DOMAIN node[n].hist

LEMMA BootOK ==
  ASSUME NEW n \in Nodes, mesh \in Meshes
  PROVE  RouterOK(Boot(n)) /\ Text \in Packet
<1>1. mesh.route \in [Nodes -> [Nodes -> Hops]] /\ mesh.dest \in Nodes \cup {Broadcast}
  BY RoutingAssumption
<1>2. Text \in Packet
  BY <1>1, RoutingAssumption DEF Text, Packet, Hops, Dest
<1>3. DOMAIN Boot(n).pend = {} /\ DOMAIN Boot(n).hist = {}
  BY DEF Boot
<1>4. QED
  BY <1>1, <1>2, <1>3 DEF Boot, RouterOK, RouterType, Fields, Route

(* A packet leaves the queue of one node and is received by some others.    *)
LEMMA TransmitMoves ==
  ASSUME NodesInv, NEW n \in Nodes, Transmit(n)
  PROVE  /\ DOMAIN node' = Nodes
         /\ \A m \in Nodes : RouterOK(node'[m]) /\ node'[m].hist = node[m].hist
<1>1. PICK i \in DOMAIN node[n].queue, Deaf \in SUBSET Neighbours[n] :
        node' = [m \in Nodes |->
          IF m = n THEN [node[n] EXCEPT !.queue = DropAt(@, i)]
          ELSE IF m \in Neighbours[n] \ Deaf
          THEN [node[m] EXCEPT !.rx = Append(@, node[n].queue[i])] ELSE node[m]]
  BY DEF Transmit
<1>2. RouterOK(node[n]) /\ node[n].queue \in Seq(Packet)
  BY DEF NodesInv, RouterOK, RouterType
<1>3. DropAt(node[n].queue, i) \in Seq(Packet) /\ node[n].queue[i] \in Packet
  BY <1>2, DropAtType
<1>4. ASSUME NEW m \in Nodes PROVE RouterOK(node'[m]) /\ node'[m].hist = node[m].hist
  <2>1. RouterOK(node[m])
    BY DEF NodesInv
  <2>2. Append(node[m].rx, node[n].queue[i]) \in Seq(Packet)
    BY <1>3, <2>1 DEF RouterOK, RouterType
  <2>3. CASE m = n
    BY <1>1, <1>2, <1>3, <2>3 DEF RouterOK, RouterType, Fields
  <2>4. CASE m # n /\ m \in Neighbours[n] \ Deaf
    <3>1. node'[m] = [node[m] EXCEPT !.rx = Append(@, node[n].queue[i])]
      BY <1>1, <2>4
    <3>2. QED
      BY <2>1, <2>2, <3>1 DEF RouterOK, RouterType, Fields
  <2>5. CASE m # n /\ m \notin Neighbours[n] \ Deaf
    BY <1>1, <2>1, <2>5
  <2>6. QED
    BY <2>3, <2>4, <2>5
<1>5. QED
  BY <1>1, <1>4

(* A received packet is taken out of the queue and handled.                 *)
LEMMA HandleReceivedMoves ==
  ASSUME NodesInv, NEW n \in Nodes, HandleReceived(n),
         NEW p, p = Head(node[n].rx),
         NEW s0, s0 = [node[n] EXCEPT !.rx = Tail(@)],
         NEW s, s = OverhearOwn(n, s0, p)
  PROVE  /\ p \in Packet /\ RouterOK(s0) /\ Keeps(s0, s)
         /\ s0.hist = node[n].hist
         /\ DOMAIN node' = Nodes /\ \A m \in Nodes \ {n} : node'[m] = node[m]
         /\ node'[n] = IF Known(s, p) THEN Duplicate(n, s, p) ELSE Sniff(n, Saw(n, s, p), p)
         /\ Keeps(s, node'[n]) /\ Key(p) \in DOMAIN node'[n].hist
<1>1. RouterOK(node[n]) /\ node[n].rx \in Seq(Packet) /\ node[n].rx # <<>> /\ DOMAIN node = Nodes
  BY DEF NodesInv, RouterOK, RouterType, HandleReceived
<1>2. p \in Packet /\ Tail(node[n].rx) \in Seq(Packet)
  BY <1>1
<1>3. RouterOK(s0) /\ s0.hist = node[n].hist
  BY <1>1, <1>2 DEF RouterOK, RouterType, Fields
<1>4. Keeps(s0, s) /\ RouterOK(s)
  BY <1>2, <1>3, OverhearOwnKeeps DEF Keeps
<1>5. node' = [node EXCEPT ![n] = IF Known(s, p) THEN Duplicate(n, s, p)
                                  ELSE Sniff(n, Saw(n, s, p), p)]
  BY DEF HandleReceived
<1>6. /\ node'[n] = IF Known(s, p) THEN Duplicate(n, s, p) ELSE Sniff(n, Saw(n, s, p), p)
      /\ DOMAIN node' = Nodes /\ \A m \in Nodes \ {n} : node'[m] = node[m]
  BY <1>1, <1>5
<1>7. CASE Known(s, p)
  <2>1. Keeps(s, Duplicate(n, s, p))
    BY <1>2, <1>4, DuplicateKeeps
  <2>2. QED
    BY <1>2, <1>3, <1>4, <1>6, <1>7, <2>1 DEF Keeps, Known
<1>8. CASE ~Known(s, p)
  <2>1. Keeps(s, Saw(n, s, p)) /\ Known(Saw(n, s, p), p)
    BY <1>2, <1>4, SawKeeps
  <2>2. Keeps(Saw(n, s, p), Sniff(n, Saw(n, s, p), p))
    BY <1>2, <2>1, SniffKeeps DEF Keeps
  <2>3. QED
    BY <1>2, <1>3, <1>4, <1>6, <1>8, <2>1, <2>2 DEF Keeps, Known
<1>9. QED
  BY <1>7, <1>8

(* A retransmission record is replaced by one for the same packet.          *)
LEMMA RetryRecordKeeps ==
  ASSUME NEW s, RouterOK(s), NEW k, NEW e, e.pkt \in Packet, Key(e.pkt) = k,
         e.left \in 0..NUM_RELIABLE_RETX - 1, NEW r \in [Nodes -> Hops]
  PROVE  Keeps(s, [s EXCEPT !.pend[k] = e, !.route = r])
BY DEF Keeps, RouterOK, RouterType, Fields

(* A retransmission or the end of one.                                      *)
LEMMA DoRetransmissionMoves ==
  ASSUME NodesInv, NEW n \in Nodes, NEW k, DoRetransmission(n, k)
  PROVE  /\ DOMAIN node' = Nodes /\ \A m \in Nodes \ {n} : node'[m] = node[m]
         /\ Keeps(node[n], node'[n])
<1> DEFINE s == node[n]
           e == s.pend[k]
           fallback == e.pkt.to # Broadcast /\ e.left = 1
           p == IF fallback THEN [e.pkt EXCEPT !.next = NoNode] ELSE e.pkt
           s1 == [s EXCEPT !.pend[k] = [pkt |-> p, left |-> e.left - 1],
                           !.route = IF fallback THEN [@ EXCEPT ![p.to] = NoNode] ELSE @]
           nak == IF k[1] = n THEN SendAckNak(n, s, TRUE, n, k[2], HopLimit, FALSE) ELSE s
           t == CASE e.left = 0 -> StopRetransmission(n, nak, k)
                  [] e.left > 0 /\ (fallback \/ p.to = Broadcast) -> FloodSend(n, s1, p)
                  [] OTHER -> NextHopSend(n, s1, p)
<1>1. node' = [node EXCEPT ![n] = t] /\ k \in DOMAIN s.pend
  BY DEF DoRetransmission, Due
<1>2. DOMAIN node = Nodes /\ RouterOK(s)
  BY DEF NodesInv
<1>3. /\ e.pkt \in Packet /\ Key(e.pkt) = k /\ e.left \in 0..NUM_RELIABLE_RETX - 1
  BY <1>1, <1>2 DEF RouterOK, RouterType
<1>4. p \in Packet /\ Key(p) = k
  BY <1>3 DEF Packet, Key, Hops
<1>5. ASSUME e.left # 0 PROVE Keeps(s, s1)
  <2> DEFINE e1 == [pkt |-> p, left |-> e.left - 1]
             r1 == IF fallback THEN [s.route EXCEPT ![p.to] = NoNode] ELSE s.route
  <2>1. e.left - 1 \in 0..NUM_RELIABLE_RETX - 1
    BY <1>3, <1>5, RoutingAssumption
  <2>2. r1 \in [Nodes -> Hops]
    BY <1>2 DEF RouterOK, RouterType, Hops
  <2>3. s1 = [s EXCEPT !.pend[k] = e1, !.route = r1]
    OBVIOUS
  <2>4. e1.pkt = p /\ e1.left = e.left - 1
    OBVIOUS
  <2> HIDE DEF e1, r1, s1, s, p, e
  <2>5. QED
    BY <1>2, <1>4, <2>1, <2>2, <2>3, <2>4, RetryRecordKeeps
<1>6. Keeps(s, nak)
  <2>1. k[2] \in Nat /\ HopLimit \in 0..HopLimit
    BY <1>3, RoutingAssumption DEF Key, Packet
  <2>2. QED
    BY <1>2, <2>1, SendAckNakKeeps DEF Keeps
<1>7. e.left \in Nat
  BY <1>3, RoutingAssumption
<1>8. Keeps(s, t)
  <2> HIDE DEF s1, p, nak, fallback, e, s
  <2>1. /\ e.left = 0 => t = StopRetransmission(n, nak, k)
        /\ e.left # 0 => t \in {FloodSend(n, s1, p), NextHopSend(n, s1, p)}
    BY <1>7
  <2> HIDE DEF t
  <2>2. QED
    BY <1>2, <1>4, <1>5, <1>6, <2>1, StopKeeps, FloodSendKeeps, NextHopSendKeeps, KeepsTrans
       DEF Keeps
<1> HIDE DEF t
<1>9. QED
  BY <1>1, <1>2, <1>8

(* After a restart the node knows nothing but its routes.                   *)
LEMMA RebootMoves ==
  ASSUME NodesInv, NEW n \in Nodes, Reboot(n)
  PROVE  /\ DOMAIN node' = Nodes /\ \A m \in Nodes \ {n} : node'[m] = node[m]
         /\ RouterOK(node'[n])
         /\ node'[n].hist = <<>> /\ node'[n].queue = <<>> /\ node'[n].rx = <<>>
         /\ node'[n].pend = <<>> /\ node'[n].ids = node[n].ids
<1> DEFINE b == [Boot(n) EXCEPT !.route = node[n].route, !.ids = node[n].ids]
<1>1. node' = [node EXCEPT ![n] = b] /\ DOMAIN node = Nodes /\ RouterOK(node[n])
  BY DEF Reboot, NodesInv
<1>2. RouterOK(Boot(n)) /\ Boot(n).hist = <<>> /\ Boot(n).queue = <<>> /\ Boot(n).rx = <<>>
      /\ Boot(n).pend = <<>>
  BY BootOK DEF NodesInv, Boot
<1>3. RouterOK(b) /\ b.hist = <<>> /\ b.queue = <<>> /\ b.rx = <<>> /\ b.pend = <<>>
      /\ b.ids = node[n].ids
  <2> HIDE DEF Boot
  <2>1. QED
    BY <1>1, <1>2 DEF RouterOK, RouterType, Fields
<1> HIDE DEF b
<1>4. QED
  BY <1>1, <1>3

(* The nodes at the start: the phone of Source has handed over the text.    *)
LEMMA InitNodes == Init => NodesInv
<1> SUFFICES ASSUME Init PROVE NodesInv
  OBVIOUS
<1>1. mesh \in Meshes /\ deliveries = [n \in Nodes |-> 0]
      /\ node = [n \in Nodes |-> IF n = Source THEN ReliableSend(n, Boot(n), Text) ELSE Boot(n)]
  BY DEF Init
<1>2. ASSUME NEW n \in Nodes PROVE RouterOK(node[n])
  <2>1. RouterOK(Boot(n)) /\ Text \in Packet
    BY <1>1, BootOK
  <2>2. RouterOK(ReliableSend(n, Boot(n), Text))
    BY <2>1, ReliableSendKeeps DEF Keeps
  <2>3. QED
    BY <1>1, <2>1, <2>2
<1>3. QED
  BY <1>1, <1>2 DEF NodesInv

(* A delivery needs a packet that is not known, and makes it known.         *)
LEMMA NextNodes == NodesInv /\ [Next]_vars => NodesInv'
<1> SUFFICES ASSUME NodesInv, [Next]_vars PROVE NodesInv'
  OBVIOUS
<1>1. ASSUME NEW n \in Nodes, Transmit(n) PROVE NodesInv'
  <2>1. UNCHANGED <<mesh, deliveries>>
    BY <1>1 DEF Transmit
  <2>2. QED
    BY <1>1, <2>1, TransmitMoves DEF NodesInv
<1>2. ASSUME NEW n \in Nodes, HandleReceived(n) PROVE NodesInv'
  <2> DEFINE p  == Head(node[n].rx)
             s0 == [node[n] EXCEPT !.rx = Tail(@)]
             s  == OverhearOwn(n, s0, p)
             up == ~Known(s, p) /\ p.to \in {n, Broadcast}
  <2>1. /\ UNCHANGED mesh
        /\ deliveries' = IF up /\ Key(p) = TextKey
                         THEN [deliveries EXCEPT ![n] = @ + 1] ELSE deliveries
    BY <1>2 DEF HandleReceived
  <2>2. /\ Keeps(s0, s) /\ s0.hist = node[n].hist /\ Keeps(s, node'[n])
        /\ DOMAIN node' = Nodes /\ \A m \in Nodes \ {n} : node'[m] = node[m]
        /\ Key(p) \in DOMAIN node'[n].hist
    BY <1>2, HandleReceivedMoves
  <2>3. ~Known(s, p) /\ Key(p) = TextKey => TextKey \notin DOMAIN node[n].hist
    BY <2>2 DEF Known, Keeps
  <2> HIDE DEF p, s0, s
  <2>4. \A m \in Nodes : RouterOK(node'[m])
    BY <2>2 DEF NodesInv, Keeps
  <2>5. deliveries' \in [Nodes -> Nat]
    BY <2>1 DEF NodesInv
  <2>6. ASSUME NEW m \in Nodes
        PROVE  /\ deliveries'[m] <= 1
               /\ deliveries'[m] > 0 => TextKey \in DOMAIN node'[m].hist
    BY <2>1, <2>2, <2>3 DEF NodesInv, Keeps
  <2>7. QED
    BY <2>1, <2>2, <2>4, <2>5, <2>6 DEF NodesInv
<1>3. ASSUME NEW n \in Nodes, NEW k, DoRetransmission(n, k) PROVE NodesInv'
  <2>1. UNCHANGED <<mesh, deliveries>>
    BY <1>3 DEF DoRetransmission
  <2>2. QED
    BY <1>3, <2>1, DoRetransmissionMoves DEF NodesInv, Keeps
<1>4. ASSUME NEW n \in Nodes, Reboot(n) PROVE NodesInv'
  <2>1. UNCHANGED mesh /\ deliveries' = [deliveries EXCEPT ![n] = 0]
    BY <1>4 DEF Reboot
  <2>2. QED
    BY <1>4, <2>1, RebootMoves DEF NodesInv
<1>5. CASE UNCHANGED vars
  BY <1>5 DEF vars, NodesInv
<1>6. QED
  BY <1>1, <1>2, <1>3, <1>4, <1>5 DEF Next

LEMMA NodesInvariant == Spec => []NodesInv
BY InitNodes, NextNodes, PTL DEF Spec

(* Every record of every router stays well formed, and no hop count leaves  *)
(* its range, in whatever mesh, however packets are lost or nodes restart.  *)
THEOREM TypeCorrect == Spec => []TypeOK
<1>1. NodesInv => TypeOK
  BY DEF NodesInv, TypeOK, RouterOK
<1>2. QED
  BY <1>1, NodesInvariant, PTL

(* The modules of a node get the text at most once per boot.                *)
THEOREM SeenOnce == Spec => []DeliveredOnce
<1>1. NodesInv => DeliveredOnce
  BY DEF NodesInv, DeliveredOnce
<1>2. QED
  BY <1>1, NodesInvariant, PTL

-----------------------------------------------------------------------------
(* Counting the copies of the text in a queue.                              *)

IsText(p)    == Key(p) = TextKey
TextCopies   == {p \in Packet : IsText(p)}
DirectCopies == {p \in Packet : IsText(p) /\ p.lim = p.start}
Where(q, S)  == {i \in DOMAIN q : q[i] \in S}
Count(q, S)  == Cardinality(Where(q, S))

LEMMA CountType ==
  ASSUME NEW X, NEW q \in Seq(X), NEW S
  PROVE  IsFiniteSet(Where(q, S)) /\ Count(q, S) \in Nat
<1>1. IsFiniteSet(1..Len(q)) /\ Where(q, S) \subseteq 1..Len(q)
  <2>1. Len(q) \in Nat /\ DOMAIN q = 1..Len(q)
    OBVIOUS
  <2>2. QED
    BY <2>1, FS_Interval DEF Where
<1>2. QED
  BY <1>1, FS_Subset, FS_CardinalityType DEF Count

LEMMA CountEmpty ==
  ASSUME NEW S
  PROVE  Count(<<>>, S) = 0
<1>1. Where(<<>>, S) = {}
  BY DEF Where
<1>2. QED
  BY <1>1, FS_EmptySet DEF Count

LEMMA CountAppend ==
  ASSUME NEW X, NEW q \in Seq(X), NEW e \in X, NEW S
  PROVE  Count(Append(q, e), S) = Count(q, S) + (IF e \in S THEN 1 ELSE 0)
<1>1. /\ DOMAIN Append(q, e) = DOMAIN q \cup {Len(q) + 1} /\ Len(q) + 1 \notin DOMAIN q
      /\ \A i \in DOMAIN q : Append(q, e)[i] = q[i]
      /\ Append(q, e)[Len(q) + 1] = e
  OBVIOUS
<1>2. CASE e \in S
  <2>1. Where(Append(q, e), S) = Where(q, S) \cup {Len(q) + 1} /\ Len(q) + 1 \notin Where(q, S)
    BY <1>1, <1>2 DEF Where
  <2>2. QED
    BY <1>2, <2>1, CountType, FS_AddElement DEF Count
<1>3. CASE e \notin S
  <2>1. Where(Append(q, e), S) = Where(q, S)
    BY <1>1, <1>3 DEF Where
  <2>2. QED
    BY <1>3, <2>1, CountType DEF Count
<1>4. QED
  BY <1>2, <1>3

(* The positions of a queue without its i-th element map to the others.     *)
LEMMA CountDrop ==
  ASSUME NEW X, NEW q \in Seq(X), NEW i \in DOMAIN q, NEW S
  PROVE  Count(DropAt(q, i), S) = Count(q, S) - (IF q[i] \in S THEN 1 ELSE 0)
<1> DEFINE r == DropAt(q, i)
           A == Where(r, S)
           B == Where(q, S) \ {i}
           f == [j \in A |-> IF j < i THEN j ELSE j + 1]
<1>1. /\ r \in Seq(X) /\ DOMAIN r = 1..Len(q) - 1 /\ Len(q) \in Nat /\ DOMAIN q = 1..Len(q)
      /\ \A j \in 1..Len(q) - 1 : r[j] = IF j < i THEN q[j] ELSE q[j + 1]
  BY DropAtType
<1> HIDE DEF r
<1>2. \A j \in A : j \in Nat /\ j \in 1..Len(q) - 1 /\ r[j] \in S
  BY <1>1 DEF Where
<1>3. ASSUME NEW j \in A PROVE f[j] \in B
  <2>1. CASE j < i
    BY <1>1, <1>2, <2>1 DEF Where
  <2>2. CASE ~(j < i)
    BY <1>1, <1>2, <2>2 DEF Where
  <2>3. QED
    BY <2>1, <2>2
<1>4. ASSUME NEW j \in A, NEW k \in A, f[j] = f[k] PROVE j = k
  BY <1>1, <1>2, <1>4
<1>5. ASSUME NEW k \in B PROVE \E j \in A : f[j] = k
  <2>1. k \in Nat /\ k \in 1..Len(q) /\ k # i /\ q[k] \in S /\ i \in 1..Len(q)
    BY <1>1 DEF Where
  <2>2. CASE k < i
    <3>1. k \in A
      BY <1>1, <2>1, <2>2 DEF Where
    <3>2. QED
      BY <2>2, <3>1
  <2>3. CASE k > i
    <3>1. k - 1 \in 1..Len(q) - 1 /\ ~(k - 1 < i) /\ (k - 1) + 1 = k
      BY <1>1, <2>1, <2>3
    <3>2. k - 1 \in A
      BY <1>1, <2>1, <3>1 DEF Where
    <3>3. QED
      BY <3>1, <3>2
  <2>4. QED
    BY <1>1, <2>1, <2>2, <2>3
<1>6. f \in Bijection(A, B)
  BY <1>3, <1>4, <1>5 DEF Bijection, Injection, IsInjective, Surjection
<1>7. IsFiniteSet(A) /\ Cardinality(A) = Cardinality(B)
  <2>1. IsFiniteSet(A)
    BY <1>1, CountType
  <2>2. ExistsBijection(A, B)
    BY <1>6 DEF ExistsBijection
  <2>3. QED
    BY <2>1, <2>2, FS_Bijection
<1>8. CASE q[i] \in S
  <2>1. i \in Where(q, S) /\ IsFiniteSet(Where(q, S)) /\ Count(q, S) \in Nat
    BY <1>8, CountType DEF Where
  <2>2. Cardinality(B) = Cardinality(Where(q, S)) - 1
    BY <2>1, FS_RemoveElement
  <2>3. QED
    BY <1>7, <1>8, <2>2 DEF Count, r
<1>9. CASE q[i] \notin S
  <2>1. B = Where(q, S) /\ Count(q, S) \in Nat
    BY <1>9, CountType DEF Where
  <2>2. Count(r, S) = Count(q, S)
    BY <1>7, <2>1 DEF Count
  <2>3. QED
    BY <1>9, <2>1, <2>2 DEF r
<1>10. QED
  BY <1>8, <1>9

LEMMA CountTail ==
  ASSUME NEW X, NEW q \in Seq(X), q # <<>>, NEW S
  PROVE  Count(Tail(q), S) = Count(q, S) - (IF Head(q) \in S THEN 1 ELSE 0)
<1>1. 1 \in DOMAIN q /\ q[1] = Head(q) /\ Len(q) \in Nat
  OBVIOUS
<1>2. Tail(q) \in Seq(X) /\ Len(Tail(q)) = Len(q) - 1
      /\ \A j \in 1..Len(q) - 1 : Tail(q)[j] = q[j + 1]
  OBVIOUS
<1>3. /\ DropAt(q, 1) \in Seq(X) /\ Len(DropAt(q, 1)) = Len(q) - 1
      /\ \A j \in 1..Len(q) - 1 : DropAt(q, 1)[j] = q[j + 1]
  <2>1. \A j \in 1..Len(q) - 1 : ~(j < 1)
    BY <1>1
  <2>2. QED
    BY <1>1, <2>1, DropAtType
<1>4. Tail(q) = DropAt(q, 1)
  BY <1>1, <1>2, <1>3, SeqEqual
<1>5. Count(DropAt(q, 1), S) = Count(q, S) - (IF q[1] \in S THEN 1 ELSE 0)
  BY <1>1, CountDrop
<1>6. QED
  BY <1>1, <1>4, <1>5

-----------------------------------------------------------------------------
(* How often the text is sent.  d is whom it is for, n the node looked at.   *)

(* Copies of the text are as Source wrote them but for their hop limit; a    *)
(* node sends what it relays with a lower limit than Source.                 *)
Incoming(d) ==
  {p \in Packet : IsText(p) => /\ p.to = d /\ p.req = -1 /\ p.start = HopLimit
                               /\ d = Broadcast => p.next = NoNode}
Outgoing(d, n) ==
  {p \in Incoming(d) : IsText(p) => IF n = Source THEN p.lim = HopLimit
                                    ELSE p.lim < HopLimit}

(* Own packets are numbered from one, so that none is taken for the text,    *)
(* and no relay of a broadcast waits to repeat it.                           *)
TextOK(d, n, s) ==
  /\ RouterOK(s) /\ s.ids > 0
  /\ s.queue \in Seq(Outgoing(d, n)) /\ s.rx \in Seq(Incoming(d))
  /\ \A k \in DOMAIN s.pend : s.pend[k].pkt \in Outgoing(d, n)
  /\ TextKey \in DOMAIN s.pend => /\ n = Source => s.pend[TextKey].pkt.ack
                                  /\ d = Broadcast => n = Source

(* What a node will yet send of the text: copies in its queue, and tries.    *)
TriesLeft(s) == IF TextKey \in DOMAIN s.pend THEN s.pend[TextKey].left ELSE 0
Load(s)      == Count(s.queue, TextCopies) + TriesLeft(s)

SameCopies(a, b) == /\ Where(a, TextCopies) = Where(b, TextCopies)
                    /\ \A i \in Where(a, TextCopies) : a[i] = b[i]

(* An operator leaves the copies received alone and adds at most c to what   *)
(* will be sent; who relays a direct message is not looked at.               *)
Sends(d, n, s, t, c) ==
  /\ TextOK(d, n, t) /\ SameCopies(s.rx, t.rx)
  /\ n = Source \/ d = Broadcast => Load(t) <= Load(s) + c

Cost(p)         == IF IsText(p) THEN 1 ELSE 0
RelayCost(n, p) == IF IsText(p) /\ n # Source THEN 1 ELSE 0
AgainCost(n, p) == IF IsText(p) /\ n # Source /\ p.lim = p.start THEN 1 ELSE 0

LEMMA LoadType ==
  ASSUME NEW s, RouterOK(s)
  PROVE  Load(s) \in Nat /\ Count(s.queue, TextCopies) \in Nat /\ TriesLeft(s) \in Nat
<1>1. Count(s.queue, TextCopies) \in Nat
  BY CountType DEF RouterOK, RouterType
<1>2. TriesLeft(s) \in Nat
  <2>1. \A k \in DOMAIN s.pend : s.pend[k].left \in Nat
    BY RoutingAssumption DEF RouterOK, RouterType
  <2>2. QED
    BY <2>1 DEF TriesLeft
<1>3. QED
  BY <1>1, <1>2 DEF Load

LEMMA SendsNothing ==
  ASSUME NEW d, NEW n, NEW s, TextOK(d, n, s)
  PROVE  Sends(d, n, s, s, 0)
<1>1. Load(s) \in Nat
  BY LoadType DEF TextOK
<1>2. QED
  BY <1>1 DEF Sends, SameCopies

LEMMA SendsTrans ==
  ASSUME NEW d, NEW n, NEW s, NEW t, NEW u, NEW b \in Nat, NEW c \in Nat, RouterOK(s),
         Sends(d, n, s, t, b), Sends(d, n, t, u, c)
  PROVE  Sends(d, n, s, u, b + c)
<1>1. Load(s) \in Nat /\ Load(t) \in Nat /\ Load(u) \in Nat
  BY LoadType DEF Sends, TextOK
<1>2. SameCopies(s.rx, u.rx)
  BY DEF Sends, SameCopies
<1>3. QED
  BY <1>1, <1>2 DEF Sends

(* The cost may be overstated, and does not matter for a direct message.     *)
LEMMA SendsMore ==
  ASSUME NEW d, NEW n, NEW s, NEW t, NEW b \in Nat, NEW c \in Nat, RouterOK(s),
         Sends(d, n, s, t, b), n = Source \/ d = Broadcast => b <= c
  PROVE  Sends(d, n, s, t, c)
<1>1. Load(s) \in Nat /\ Load(t) \in Nat
  BY LoadType DEF Sends, TextOK
<1>2. QED
  BY <1>1 DEF Sends

(* Where only the history, the routes or the numbering change.               *)
LEMMA SendsAside ==
  ASSUME NEW d, NEW n, NEW s, NEW t, TextOK(d, n, s), RouterOK(t), t.queue = s.queue,
         t.rx = s.rx, t.pend = s.pend, t.ids >= s.ids
  PROVE  Sends(d, n, s, t, 0)
<1>1. Load(s) \in Nat /\ Load(t) = Load(s)
  BY LoadType DEF TextOK, Load, TriesLeft
<1>2. s.ids \in Nat /\ t.ids \in Nat
  BY DEF TextOK, RouterOK, RouterType
<1>3. QED
  BY <1>1, <1>2 DEF Sends, SameCopies, TextOK

LEMMA SawSends ==
  ASSUME NEW d, NEW n \in Nodes, NEW s, TextOK(d, n, s), NEW p \in Packet
  PROVE  Sends(d, n, s, Saw(n, s, p), 0)
<1>1. RouterOK(s) /\ RouterOK(Saw(n, s, p)) /\ s.ids \in Nat
  BY SawKeeps DEF TextOK, Keeps, RouterOK, RouterType
<1>2. /\ Saw(n, s, p).queue = s.queue /\ Saw(n, s, p).rx = s.rx
      /\ Saw(n, s, p).pend = s.pend /\ Saw(n, s, p).ids = s.ids
  BY <1>1 DEF Saw, RouterOK, Fields
<1>3. QED
  BY <1>1, <1>2, SendsAside

LEMMA EnqueueSends ==
  ASSUME NEW d, NEW n \in Nodes, NEW s, TextOK(d, n, s), NEW p \in Outgoing(d, n)
  PROVE  Sends(d, n, s, Enqueue(s, p), Cost(p))
<1> DEFINE t == Enqueue(s, p)
<1>1. p \in Packet /\ s.queue \in Seq(Packet) /\ (p \in TextCopies <=> IsText(p))
  BY DEF Outgoing, Incoming, TextOK, RouterOK, RouterType, TextCopies
<1>2. RouterOK(s) /\ RouterOK(t) /\ Load(s) \in Nat
  BY <1>1, EnqueueKeeps, LoadType DEF Keeps, TextOK
<1>3. t.queue = Append(s.queue, p) /\ t.rx = s.rx /\ t.pend = s.pend /\ t.ids = s.ids
  BY <1>2 DEF Enqueue, RouterOK, Fields
<1>4. Count(t.queue, TextCopies) = Count(s.queue, TextCopies) + Cost(p)
  BY <1>1, <1>3, CountAppend DEF Cost
<1>5. TriesLeft(t) = TriesLeft(s)
  BY <1>3 DEF TriesLeft
<1>6. t.queue \in Seq(Outgoing(d, n))
  BY <1>3 DEF TextOK
<1>7. TextOK(d, n, t)
  <2> HIDE DEF t
  <2>1. QED
    BY <1>2, <1>3, <1>6 DEF TextOK
<1>8. Load(t) = Load(s) + Cost(p)
  <2>1. Cost(p) \in Nat
    BY DEF Cost
  <2>2. QED
    BY <1>2, <1>4, <1>5, <2>1, LoadType DEF Load
<1> HIDE DEF t
<1>9. Sends(d, n, s, t, Cost(p))
  <2>1. Cost(p) \in Nat
    BY DEF Cost
  <2>2. QED
    BY <1>2, <1>3, <1>7, <1>8, <2>1 DEF Sends, SameCopies
<1>10. QED
  BY <1>9 DEF t

LEMMA DropSends ==
  ASSUME NEW d, NEW n, NEW s, NEW t, TextOK(d, n, s), RouterOK(t),
         NEW i \in DOMAIN s.queue, t.queue = DropAt(s.queue, i),
         t.rx = s.rx, t.pend = s.pend, t.ids = s.ids
  PROVE  /\ Sends(d, n, s, t, 0)
         /\ Load(t) = Load(s) - Cost(s.queue[i])
<1>1. s.queue \in Seq(Packet) /\ s.queue \in Seq(Outgoing(d, n)) /\ RouterOK(s)
  BY DEF TextOK, RouterOK, RouterType
<1>2. t.queue \in Seq(Outgoing(d, n))
  BY <1>1, DropAtType
<1>3. s.queue[i] \in TextCopies <=> IsText(s.queue[i])
  BY <1>1 DEF TextCopies
<1>4. Count(t.queue, TextCopies) = Count(s.queue, TextCopies) - Cost(s.queue[i])
  BY <1>1, <1>3, CountDrop DEF Cost
<1>5. TriesLeft(t) = TriesLeft(s) /\ Cost(s.queue[i]) \in Nat
  BY DEF TriesLeft, Cost
<1>6. /\ Load(s) \in Nat /\ Load(t) \in Nat
      /\ Count(s.queue, TextCopies) \in Nat /\ TriesLeft(s) \in Nat
  BY <1>1, LoadType
<1>7. Load(t) = Load(s) - Cost(s.queue[i])
  BY <1>4, <1>5, <1>6 DEF Load
<1>8. TextOK(d, n, t)
  BY <1>2 DEF TextOK
<1>9. QED
  BY <1>5, <1>6, <1>7, <1>8 DEF Sends, SameCopies

LEMMA CancelSends ==
  ASSUME NEW d, NEW n \in Nodes, NEW s, TextOK(d, n, s), NEW k
  PROVE  Sends(d, n, s, Cancel(n, s, k), 0) /\ Cancel(n, s, k).pend = s.pend
<1> DEFINE found == {i \in DOMAIN s.queue : Key(s.queue[i]) = k}
           j == FirstIn(s.queue, found)
           h == IF k \in DOMAIN s.hist THEN [s.hist EXCEPT ![k].by = @ \ {n}] ELSE s.hist
           t == Cancel(n, s, k)
<1>1. RouterOK(s) /\ RouterOK(t)
  BY CancelKeeps DEF Keeps, TextOK
<1>2. CASE found = {}
  BY <1>2, SendsNothing DEF Cancel
<1>3. CASE found # {}
  <2>1. j \in DOMAIN s.queue
    <3>1. s.queue \in Seq(Packet)
      BY <1>1 DEF RouterOK, RouterType
    <3>2. QED
      BY <1>3, <3>1, FirstInType
  <2>2. t = [s EXCEPT !.queue = DropAt(s.queue, j), !.hist = h]
    BY <1>3 DEF Cancel
  <2> HIDE DEF t, h, j
  <2>3. t.queue = DropAt(s.queue, j) /\ t.rx = s.rx /\ t.pend = s.pend /\ t.ids = s.ids
    BY <1>1, <2>2 DEF RouterOK, Fields
  <2>4. Sends(d, n, s, t, 0)
    BY <1>1, <2>1, <2>3, DropSends
  <2>5. QED
    BY <2>3, <2>4 DEF t
<1>4. QED
  BY <1>2, <1>3

(* A record less: of the text, with the tries it had left.                   *)
LEMMA StopSends ==
  ASSUME NEW d, NEW n \in Nodes, NEW s, TextOK(d, n, s), NEW k
  PROVE  /\ Sends(d, n, s, StopRetransmission(n, s, k), 0)
         /\ DOMAIN StopRetransmission(n, s, k).pend = DOMAIN s.pend \ {k}
<1> DEFINE s1 == IF s.pend[k].left < NUM_RELIABLE_RETX - 1
                    /\ (k[1] = n \/ AllowsCanceling(n))
                 THEN Cancel(n, s, k) ELSE s
           t == StopRetransmission(n, s, k)
<1>1. CASE k \notin DOMAIN s.pend
  <2>1. t = s /\ DOMAIN s.pend = DOMAIN s.pend \ {k}
    BY <1>1 DEF StopRetransmission
  <2> HIDE DEF t
  <2>2. QED
    BY <2>1, SendsNothing DEF t
<1>2. CASE k \in DOMAIN s.pend
  <2>1. t = [s1 EXCEPT !.pend = [j \in DOMAIN @ \ {k} |-> @[j]]]
    BY <1>2 DEF StopRetransmission
  <2>2. Sends(d, n, s, s1, 0) /\ s1.pend = s.pend
    BY CancelSends, SendsNothing
  <2>3. RouterOK(s) /\ RouterOK(s1) /\ TextOK(d, n, s1)
    BY <2>2 DEF TextOK, Sends
  <2>4. RouterOK(t)
    BY <2>3, StopKeeps DEF Keeps
  <2> HIDE DEF s1, t
  <2>5. /\ t.queue = s1.queue /\ t.rx = s1.rx /\ t.ids = s1.ids
        /\ t.pend = [j \in DOMAIN s1.pend \ {k} |-> s1.pend[j]]
    BY <2>1, <2>3 DEF RouterOK, Fields
  <2>6. /\ DOMAIN t.pend = DOMAIN s.pend \ {k}
        /\ \A j \in DOMAIN t.pend : j \in DOMAIN s1.pend /\ t.pend[j] = s1.pend[j]
    BY <2>2, <2>5
  <2>7. TextOK(d, n, t)
    BY <2>3, <2>4, <2>5, <2>6 DEF TextOK
  <2>8. Load(t) <= Load(s1)
    <3>1. TriesLeft(t) <= TriesLeft(s1)
      <4>1. TriesLeft(t) \in {TriesLeft(s1), 0} /\ TriesLeft(s1) \in Nat
        BY <2>3, <2>6, LoadType DEF TriesLeft
      <4>2. QED
        BY <4>1
    <3>2. QED
      BY <2>3, <2>4, <2>5, <3>1, LoadType DEF Load
  <2>9. Sends(d, n, s1, t, 0)
    <3>1. Load(t) \in Nat /\ Load(s1) \in Nat
      BY <2>3, <2>4, LoadType
    <3>2. QED
      BY <2>5, <2>7, <2>8, <3>1 DEF Sends, SameCopies
  <2>10. Sends(d, n, s, t, 0)
    BY <2>2, <2>3, <2>9, SendsTrans
  <2>11. QED
    BY <2>6, <2>10 DEF t
<1>3. QED
  BY <1>1, <1>2

LEMMA StartSends ==
  ASSUME NEW d, NEW n \in Nodes, NEW s, TextOK(d, n, s), NEW p \in Outgoing(d, n),
         NEW tries \in 1..NUM_RELIABLE_RETX,
         IsText(p) => (n = Source => p.ack) /\ (d = Broadcast => n = Source)
  PROVE  Sends(d, n, s, StartRetransmission(n, s, p, tries),
               IF IsText(p) THEN tries - 1 ELSE 0)
<1> DEFINE s1 == StopRetransmission(n, s, Key(p))
           t  == StartRetransmission(n, s, p, tries)
           c  == IF IsText(p) THEN tries - 1 ELSE 0
           e  == [pkt |-> p, left |-> tries - 1]
<1>1. /\ Sends(d, n, s, s1, 0) /\ RouterOK(s1) /\ TextOK(d, n, s1) /\ RouterOK(s)
      /\ DOMAIN s1.pend = DOMAIN s.pend \ {Key(p)}
  BY StopSends DEF Sends, TextOK
<1>2. RouterOK(t)
  BY <1>1, StartKeeps DEF Keeps, Outgoing, Incoming
<1>3. t = [s1 EXCEPT !.pend = [k \in DOMAIN @ \cup {Key(p)} |->
                                 IF k = Key(p) THEN e ELSE @[k]]]
  BY DEF StartRetransmission
<1>4. tries - 1 \in Nat /\ c \in Nat /\ e.pkt = p /\ e.left = tries - 1
  BY RoutingAssumption
<1> HIDE DEF t, s1, e
<1>5. /\ t.queue = s1.queue /\ t.rx = s1.rx /\ t.ids = s1.ids
      /\ DOMAIN t.pend = DOMAIN s1.pend \cup {Key(p)}
      /\ t.pend[Key(p)] = e
      /\ \A k \in DOMAIN s1.pend \ {Key(p)} : t.pend[k] = s1.pend[k]
  BY <1>1, <1>3 DEF RouterOK, Fields
<1>6. \A k \in DOMAIN t.pend : t.pend[k].pkt \in Outgoing(d, n)
  BY <1>1, <1>4, <1>5 DEF TextOK
<1>7. TextKey \in DOMAIN t.pend => /\ n = Source => t.pend[TextKey].pkt.ack
                                   /\ d = Broadcast => n = Source
  <2>1. CASE IsText(p)
    BY <1>4, <1>5, <2>1 DEF IsText
  <2>2. CASE ~IsText(p)
    BY <1>1, <1>5, <2>2 DEF IsText, TextOK
  <2>3. QED
    BY <2>1, <2>2
<1>8. TextOK(d, n, t)
  BY <1>1, <1>2, <1>5, <1>6, <1>7 DEF TextOK
<1>9. TriesLeft(t) <= TriesLeft(s1) + c
  <2>1. TriesLeft(s1) \in Nat
    BY <1>1, LoadType
  <2>2. CASE IsText(p)
    BY <1>4, <1>5, <2>1, <2>2 DEF IsText, TriesLeft
  <2>3. CASE ~IsText(p)
    BY <1>4, <1>5, <2>1, <2>3 DEF IsText, TriesLeft
  <2>4. QED
    BY <2>2, <2>3
<1> HIDE DEF c
<1>10. Sends(d, n, s1, t, c)
  <2>1. /\ Load(t) \in Nat /\ Load(s1) \in Nat /\ TriesLeft(t) \in Nat /\ TriesLeft(s1) \in Nat
        /\ Count(t.queue, TextCopies) \in Nat
    BY <1>1, <1>2, LoadType
  <2>2. Load(t) <= Load(s1) + c
    BY <1>4, <1>5, <1>9, <2>1 DEF Load
  <2>3. QED
    BY <1>5, <1>8, <2>2 DEF Sends, SameCopies
<1>11. Sends(d, n, s, t, 0 + c) /\ 0 + c = c
  BY <1>1, <1>4, <1>10, SendsTrans
<1>12. QED
  BY <1>11 DEF c, t

(* Sending.                                                                  *)
LEMMA RouterSendSends ==
  ASSUME NEW d, NEW n \in Nodes, NEW s, TextOK(d, n, s), NEW p \in Outgoing(d, n)
  PROVE  Sends(d, n, s, RouterSend(n, s, p), Cost(p))
<1> DEFINE q == [p EXCEPT !.ack = @ /\ p.to # Broadcast, !.relay = n,
                          !.start = IF p.from = n THEN p.lim ELSE @]
<1>1. p \in Packet
  BY DEF Outgoing, Incoming
<1>2. q \in Packet /\ Key(q) = Key(p)
  BY <1>1 DEF Packet, Key
<1>3. IsText(p) => p.from = Source
  BY DEF IsText, Key, TextKey
<1>4. q \in Outgoing(d, n) /\ Cost(q) = Cost(p)
  <2>1. /\ q.to = p.to /\ q.req = p.req /\ q.next = p.next /\ q.lim = p.lim
        /\ q.start = IF p.from = n THEN p.lim ELSE p.start
    BY <1>1 DEF Packet
  <2> HIDE DEF q
  <2>2. QED
    BY <1>2, <1>3, <2>1 DEF Outgoing, Incoming, IsText, Cost
<1>5. RouterSend(n, s, p) = Enqueue(s, q)
  BY DEF RouterSend
<1> HIDE DEF q
<1>6. QED
  BY <1>4, <1>5, EnqueueSends

(* The relay is not told apart from the packet it passes on.                 *)
LEMMA RelaySame ==
  ASSUME NEW d, NEW n \in Nodes, NEW p \in Outgoing(d, n)
  PROVE  /\ [p EXCEPT !.relay = n] \in Outgoing(d, n)
         /\ Cost([p EXCEPT !.relay = n]) = Cost(p)
<1> DEFINE q == [p EXCEPT !.relay = n]
<1>1. p \in Packet
  BY DEF Outgoing, Incoming
<1>2. /\ q \in Packet /\ Key(q) = Key(p) /\ q.to = p.to /\ q.req = p.req
      /\ q.next = p.next /\ q.lim = p.lim /\ q.start = p.start
  BY <1>1 DEF Packet, Key
<1> HIDE DEF q
<1>3. q \in Outgoing(d, n) /\ Cost(q) = Cost(p)
  BY <1>2 DEF Outgoing, Incoming, IsText, Cost
<1>4. QED
  BY <1>3 DEF q

LEMMA FloodSendSends ==
  ASSUME NEW d, NEW n \in Nodes, NEW s, TextOK(d, n, s), NEW p \in Outgoing(d, n)
  PROVE  Sends(d, n, s, FloodSend(n, s, p), Cost(p))
<1> DEFINE q  == [p EXCEPT !.relay = n]
           s1 == Saw(n, s, q)
<1>1. q \in Outgoing(d, n) /\ Cost(q) = Cost(p)
  BY RelaySame
<1>2. FloodSend(n, s, p) = RouterSend(n, s1, q)
  BY DEF FloodSend
<1> HIDE DEF q
<1>3. q \in Packet /\ RouterOK(s) /\ Cost(p) \in Nat
  BY <1>1 DEF Outgoing, Incoming, TextOK, Cost
<1>4. Sends(d, n, s, s1, 0)
  BY <1>3, SawSends
<1> HIDE DEF s1
<1>5. TextOK(d, n, s1)
  BY <1>4 DEF Sends
<1>6. Sends(d, n, s1, RouterSend(n, s1, q), Cost(p))
  BY <1>1, <1>5, RouterSendSends
<1>7. QED
  BY <1>2, <1>3, <1>4, <1>6, SendsTrans

(* The text waits for an answer at Source, whose record counts its tries;    *)
(* of a direct message relays may keep one too.                              *)
LEMMA NextHopSendSends ==
  ASSUME NEW d, NEW n \in Nodes, NEW s, TextOK(d, n, s), NEW p \in Outgoing(d, n),
         IsText(p) => d # Broadcast /\ (n = Source => p.ack)
  PROVE  Sends(d, n, s, NextHopSend(n, s, p), Cost(p))
<1> DEFINE r  == [p EXCEPT !.relay = n]
           q  == [p EXCEPT !.relay = n, !.next = GetNextHop(n, s, p.to)]
           s1 == Saw(n, s, r)
           again == /\ p.from # n \/ ~p.ack
                    /\ q.next # NoNode
                    /\ p.lim > 0 \/ p.ack
           s2 == IF again THEN StartRetransmission(n, s1, q, NUM_INTERMEDIATE_RETX) ELSE s1
           c  == IF IsText(q) THEN NUM_INTERMEDIATE_RETX - 1 ELSE 0
<1>1. p \in Packet /\ r \in Packet /\ RouterOK(s)
  BY RelaySame DEF Outgoing, Incoming, TextOK
<1>2. GetNextHop(n, s, p.to) \in Hops
  BY <1>1, RoutingAssumption DEF GetNextHop, Hops, Packet, RouterOK, RouterType
<1>3. q \in Packet /\ Key(q) = Key(p)
  BY <1>1, <1>2 DEF Packet, Key
<1>4. q \in Outgoing(d, n) /\ Cost(q) = Cost(p) /\ q.ack = p.ack
  <2>1. /\ q.to = p.to /\ q.req = p.req /\ q.lim = p.lim /\ q.start = p.start /\ q.ack = p.ack
    BY <1>1 DEF Packet
  <2> HIDE DEF q
  <2>2. QED
    BY <1>3, <2>1 DEF Outgoing, Incoming, IsText, Cost
<1>5. NextHopSend(n, s, p) = RouterSend(n, s2, q)
  BY DEF NextHopSend
<1>6. IsText(p) <=> IsText(q)
  BY <1>3 DEF IsText
<1>7. Sends(d, n, s, s1, 0)
  BY <1>1, SawSends
<1>8. NUM_INTERMEDIATE_RETX \in 1..NUM_RELIABLE_RETX /\ c \in Nat /\ Cost(p) \in Nat
  BY RoutingAssumption DEF Cost
<1>9. again /\ IsText(p) => n # Source
  BY DEF IsText, Key, TextKey
<1> HIDE DEF q, s1, again
<1>10. Sends(d, n, s, s2, 0)
  <2>1. CASE again
    <3>1. TextOK(d, n, s1)
      BY <1>7 DEF Sends
    <3>2. IsText(q) => (n = Source => q.ack) /\ (d = Broadcast => n = Source)
      BY <1>4, <1>6
    <3>3. Sends(d, n, s1, s2, c)
      BY <1>4, <1>8, <2>1, <3>1, <3>2, StartSends
    <3>4. Sends(d, n, s, s2, c)
      <4>1. Sends(d, n, s, s2, 0 + c) /\ 0 + c = c
        BY <1>1, <1>7, <1>8, <3>3, SendsTrans
      <4>2. QED
        BY <4>1
    <3>5. n = Source \/ d = Broadcast => c <= 0
      BY <1>6, <1>9, <2>1
    <3> HIDE DEF c, s2
    <3>6. QED
      BY <1>1, <1>8, <3>4, <3>5, SendsMore
  <2>2. CASE ~again
    BY <1>7, <2>2
  <2>3. QED
    BY <2>1, <2>2
<1> HIDE DEF s2
<1>11. TextOK(d, n, s2)
  BY <1>10 DEF Sends
<1>12. Sends(d, n, s2, RouterSend(n, s2, q), Cost(p))
  BY <1>4, <1>11, RouterSendSends
<1>13. QED
  BY <1>1, <1>5, <1>8, <1>10, <1>12, SendsTrans

LEMMA ReliableSendSends ==
  ASSUME NEW d, NEW n \in Nodes, NEW s, TextOK(d, n, s), NEW p \in Outgoing(d, n),
         ~IsText(p)
  PROVE  Sends(d, n, s, ReliableSend(n, s, p), 0)
<1> DEFINE s1 == IF p.ack THEN StartRetransmission(n, s, p, NUM_RELIABLE_RETX) ELSE s
<1>1. NUM_RELIABLE_RETX \in 1..NUM_RELIABLE_RETX /\ RouterOK(s) /\ Cost(p) = 0
  BY RoutingAssumption DEF TextOK, Cost
<1>2. Sends(d, n, s, StartRetransmission(n, s, p, NUM_RELIABLE_RETX), 0)
  BY <1>1, StartSends
<1>3. Sends(d, n, s, s1, 0)
  BY <1>2, SendsNothing
<1>4. ReliableSend(n, s, p) = IF p.to = Broadcast THEN FloodSend(n, s1, p)
                                                  ELSE NextHopSend(n, s1, p)
  BY DEF ReliableSend
<1> HIDE DEF s1
<1>5. TextOK(d, n, s1)
  BY <1>3 DEF Sends
<1>6. /\ Sends(d, n, s1, FloodSend(n, s1, p), 0)
      /\ Sends(d, n, s1, NextHopSend(n, s1, p), 0)
  BY <1>1, <1>5, FloodSendSends, NextHopSendSends
<1>7. Sends(d, n, s1, ReliableSend(n, s, p), 0)
  BY <1>4, <1>6
<1>8. QED
  BY <1>1, <1>3, <1>7, SendsTrans

(* An answer is never taken for the text, and leaves its copies alone.       *)
LEMMA SendAckNakSends ==
  ASSUME NEW d, NEW n \in Nodes, NEW s, TextOK(d, n, s), NEW err \in BOOLEAN,
         NEW to \in Nodes, NEW id \in Nat, NEW lim \in 0..HopLimit, NEW wantsAck \in BOOLEAN
  PROVE  Sends(d, n, s, SendAckNak(n, s, err, to, id, lim, wantsAck), 0)
<1> DEFINE p == [from |-> n, id |-> s.ids, to |-> to, req |-> id, err |-> err,
                 ack |-> wantsAck, lim |-> lim, start |-> lim,
                 next |-> NoNode, relay |-> n]
           s1 == [s EXCEPT !.ids = @ + 1]
           s2 == [s1 EXCEPT !.rx = Append(@, p)]
<1>1. RouterOK(s) /\ s.ids \in Nat /\ s.ids > 0
  BY DEF TextOK, RouterOK, RouterType
<1>2. p \in Packet /\ ~IsText(p)
  BY <1>1 DEF Packet, Hops, IsText, Key, TextKey
<1>3. SendAckNak(n, s, err, to, id, lim, wantsAck)
        = IF to = n THEN s2 ELSE ReliableSend(n, s1, p)
  BY DEF SendAckNak
<1> HIDE DEF p
<1>4. p \in Outgoing(d, n) /\ p \in Incoming(d)
  BY <1>2 DEF Outgoing, Incoming
<1>5. RouterOK(s1) /\ RouterOK(s2)
  <2>1. Append(s.rx, p) \in Seq(Packet)
    BY <1>1, <1>2 DEF RouterOK, RouterType
  <2>2. QED
    BY <1>1, <2>1 DEF RouterOK, RouterType, Fields
<1>6. /\ s1.queue = s.queue /\ s1.rx = s.rx /\ s1.pend = s.pend /\ s1.ids = s.ids + 1
      /\ s2.queue = s.queue /\ s2.rx = Append(s.rx, p) /\ s2.pend = s.pend
      /\ s2.ids = s.ids + 1
  BY <1>1 DEF RouterOK, Fields
<1> HIDE DEF s1, s2
<1>7. Sends(d, n, s, s1, 0)
  BY <1>1, <1>5, <1>6, SendsAside
<1>8. Sends(d, n, s, s2, 0)
  <2>1. s.rx \in Seq(Packet)
    BY <1>1 DEF RouterOK, RouterType
  <2>2. /\ DOMAIN s2.rx = DOMAIN s.rx \cup {Len(s.rx) + 1}
        /\ \A i \in DOMAIN s.rx : s2.rx[i] = s.rx[i]
        /\ s2.rx[Len(s.rx) + 1] = p
    BY <1>6, <2>1
  <2>3. p \notin TextCopies
    BY <1>2 DEF TextCopies
  <2>4. SameCopies(s.rx, s2.rx)
    BY <2>2, <2>3 DEF SameCopies, Where
  <2>5. s2.rx \in Seq(Incoming(d))
    BY <1>4, <1>6 DEF TextOK
  <2>6. TextOK(d, n, s2)
    BY <1>1, <1>5, <1>6, <2>5 DEF TextOK
  <2>7. Load(s2) = Load(s) /\ Load(s) \in Nat
    BY <1>1, <1>6, LoadType DEF Load, TriesLeft
  <2>8. QED
    BY <2>4, <2>6, <2>7 DEF Sends
<1>9. Sends(d, n, s, ReliableSend(n, s1, p), 0)
  <2>1. TextOK(d, n, s1)
    BY <1>7 DEF Sends
  <2>2. Sends(d, n, s1, ReliableSend(n, s1, p), 0)
    BY <1>2, <1>4, <2>1, ReliableSendSends
  <2>3. QED
    BY <1>1, <1>7, <2>2, SendsTrans
<1>10. QED
  BY <1>3, <1>8, <1>9

(* Source does not relay its own text; every relay of it counts a hop, the   *)
(* first one whatever its role.                                              *)
LEMMA RelayedCopy ==
  ASSUME NEW d, NEW n \in Nodes, NEW p \in Incoming(d), MayRelay(n, p),
         NEW q, q = [p EXCEPT !.lim = IF Decrements(n, p) THEN @ - 1 ELSE @]
  PROVE  /\ q \in Outgoing(d, n) /\ Key(q) = Key(p) /\ q.to = p.to /\ q.from = p.from
         /\ q.req = p.req /\ q.err = p.err /\ q.next = p.next /\ q.ack = p.ack
         /\ q.lim <= p.lim /\ Cost(q) = RelayCost(n, p)
         /\ IsText(p) => n # Source /\ q.lim < HopLimit
<1> DEFINE l == IF Decrements(n, p) THEN p.lim - 1 ELSE p.lim
<1>1. IsText(p) => n # Source
  BY DEF MayRelay, IsText, Key, TextKey
<1>2. /\ p \in Packet /\ p.lim \in 0..HopLimit /\ p.lim > 0 /\ p.start \in 0..HopLimit
      /\ HopLimit \in Nat \ {0}
  BY RoutingAssumption DEF MayRelay, Packet, Incoming
<1>3. l \in 0..HopLimit /\ l <= p.lim
  BY <1>2
<1>4. IsText(p) => l < HopLimit
  <2>1. SUFFICES ASSUME IsText(p) PROVE l < HopLimit
    OBVIOUS
  <2>2. p.start = HopLimit
    BY <2>1 DEF Incoming
  <2>3. CASE p.lim = HopLimit
    <3>1. HopsAway(p) = 0
      BY <1>2, <2>2, <2>3 DEF HopsAway
    <3>2. QED
      BY <1>2, <2>3, <3>1 DEF Decrements
  <2>4. CASE p.lim # HopLimit
    BY <1>2, <2>4
  <2>5. QED
    BY <2>3, <2>4
<1>5. /\ q \in Packet /\ Key(q) = Key(p) /\ q.to = p.to /\ q.from = p.from /\ q.req = p.req
      /\ q.err = p.err /\ q.next = p.next /\ q.start = p.start /\ q.ack = p.ack /\ q.lim = l
  BY <1>2, <1>3 DEF Packet, Key
<1> HIDE DEF l
<1>6. q \in Outgoing(d, n) /\ Cost(q) = RelayCost(n, p)
  BY <1>1, <1>4, <1>5 DEF Outgoing, Incoming, IsText, Cost, RelayCost
<1>7. QED
  BY <1>1, <1>3, <1>4, <1>5, <1>6

LEMMA RebroadcastSends ==
  ASSUME NEW d, NEW n \in Nodes, NEW s, TextOK(d, n, s), NEW p \in Incoming(d)
  PROVE  Sends(d, n, s, Rebroadcast(n, s, p), RelayCost(n, p))
<1> DEFINE q == [p EXCEPT !.lim = IF Decrements(n, p) THEN @ - 1 ELSE @]
<1>1. RouterOK(s) /\ RelayCost(n, p) \in Nat
  BY DEF TextOK, RelayCost
<1>2. CASE ~MayRelay(n, p)
  <2>1. Sends(d, n, s, s, RelayCost(n, p))
    BY <1>1, SendsNothing, SendsMore
  <2>2. QED
    BY <1>2, <2>1 DEF Rebroadcast
<1>3. CASE MayRelay(n, p)
  <2>1. Rebroadcast(n, s, p) = IF p.next = NoNode THEN FloodSend(n, s, q)
                                                  ELSE NextHopSend(n, s, q)
    BY <1>3 DEF Rebroadcast
  <2>2. /\ q \in Outgoing(d, n) /\ Key(q) = Key(p) /\ Cost(q) = RelayCost(n, p)
        /\ IsText(p) => n # Source
    BY <1>3, RelayedCopy
  <2> HIDE DEF q
  <2>3. CASE p.next = NoNode
    BY <2>1, <2>2, <2>3, FloodSendSends
  <2>4. CASE p.next # NoNode
    <3>1. IsText(q) => d # Broadcast /\ n # Source
      BY <2>2, <2>4 DEF Incoming, IsText
    <3>2. QED
      BY <2>1, <2>2, <2>4, <3>1, NextHopSendSends
  <2>5. QED
    BY <2>3, <2>4
<1>4. QED
  BY <1>2, <1>3

(* Receiving.  A copy in the queue is replaced by the better one.            *)
LEMMA UpgradeSends ==
  ASSUME NEW d, NEW n \in Nodes, NEW s, TextOK(d, n, s), NEW p \in Incoming(d),
         Worse(s, p) # {}
  PROVE  Sends(d, n, s, Upgrade(n, s, p), 0)
<1> DEFINE j  == FirstIn(s.queue, Worse(s, p))
           s1 == [s EXCEPT !.queue = DropAt(s.queue, j)]
<1>1. RouterOK(s) /\ s.queue \in Seq(Packet) /\ Worse(s, p) \subseteq DOMAIN s.queue
  BY DEF TextOK, RouterOK, RouterType, Worse
<1>2. j \in Worse(s, p) /\ j \in DOMAIN s.queue
  BY <1>1, FirstInType
<1>3. Key(s.queue[j]) = Key(p)
  BY <1>2 DEF Worse
<1>4. Upgrade(n, s, p) = Rebroadcast(n, s1, p)
  BY DEF Upgrade
<1> HIDE DEF j
<1>5. DropAt(s.queue, j) \in Seq(Packet)
  BY <1>1, <1>2, DropAtType
<1>6. RouterOK(s1) /\ s1.queue = DropAt(s.queue, j) /\ s1.rx = s.rx /\ s1.pend = s.pend
      /\ s1.ids = s.ids
  BY <1>1, <1>5 DEF RouterOK, RouterType, Fields
<1> HIDE DEF s1
<1>7. Sends(d, n, s, s1, 0) /\ Load(s1) = Load(s) - Cost(s.queue[j])
  BY <1>1, <1>2, <1>6, DropSends
<1>8. /\ Cost(s.queue[j]) = Cost(p) /\ RelayCost(n, p) <= Cost(p) /\ Cost(p) \in Nat
      /\ RelayCost(n, p) \in Nat
  BY <1>3 DEF Cost, IsText, RelayCost
<1>9. TextOK(d, n, s1)
  BY <1>7 DEF Sends
<1> DEFINE t == Rebroadcast(n, s1, p)
<1>10. Sends(d, n, s1, t, RelayCost(n, p))
  BY <1>9, RebroadcastSends
<1> HIDE DEF t
<1>11. RouterOK(t) /\ Load(s) \in Nat /\ Load(s1) \in Nat /\ Load(t) \in Nat
  BY <1>1, <1>6, <1>10, LoadType DEF Sends, TextOK
<1>12. n = Source \/ d = Broadcast => Load(t) <= Load(s)
  BY <1>7, <1>8, <1>10, <1>11 DEF Sends
<1>13. Sends(d, n, s, t, 0)
  BY <1>7, <1>10, <1>11, <1>12 DEF Sends, SameCopies
<1>14. QED
  BY <1>4, <1>13 DEF t

LEMMA CancelDupeSends ==
  ASSUME NEW d, NEW n \in Nodes, NEW s, TextOK(d, n, s), NEW p
  PROVE  Sends(d, n, s, CancelDupe(n, s, p), 0)
BY CancelSends, SendsNothing DEF CancelDupe

LEMMA AgainSends ==
  ASSUME NEW d, NEW n \in Nodes, NEW s, TextOK(d, n, s), NEW p \in Incoming(d)
  PROVE  /\ Sends(d, n, s, Again(n, s, p), RelayCost(n, p))
         /\ Sends(d, n, s, AckAgain(n, s, p), RelayCost(n, p))
<1>1. /\ RelayCost(n, p) \in Nat /\ RelayCost(n, p) >= 0 /\ RouterOK(s)
      /\ p.from \in Nodes /\ p.id \in Nat /\ 0 \in 0..HopLimit
  BY RoutingAssumption DEF RelayCost, TextOK, Incoming, Packet
<1>2. Sends(d, n, s, s, RelayCost(n, p))
  BY <1>1, SendsNothing, SendsMore
<1>3. Sends(d, n, s, SendAckNak(n, s, FALSE, p.from, p.id, 0, FALSE), RelayCost(n, p))
  BY <1>1, SendAckNakSends, SendsMore
<1>4. QED
  BY <1>2, <1>3, RebroadcastSends DEF Again, AckAgain

LEMMA FloodDupeSends ==
  ASSUME NEW d, NEW n \in Nodes, NEW s, TextOK(d, n, s), NEW p \in Incoming(d)
  PROVE  Sends(d, n, s, FloodDupe(n, s, p), AgainCost(n, p))
<1>1. AgainCost(n, p) \in Nat /\ AgainCost(n, p) >= 0 /\ RouterOK(s)
  BY DEF AgainCost, TextOK
<1>2. CASE p.start > 0 /\ p.start = p.lim
  <2>1. AgainCost(n, p) = RelayCost(n, p)
    BY <1>2 DEF AgainCost, RelayCost
  <2>2. Sends(d, n, s, Again(n, s, p), AgainCost(n, p))
    BY <2>1, AgainSends
  <2>3. QED
    BY <1>2, <2>2 DEF FloodDupe
<1>3. CASE ~(p.start > 0 /\ p.start = p.lim)
  <2>1. Sends(d, n, s, CancelDupe(n, s, p), AgainCost(n, p))
    BY <1>1, CancelDupeSends, SendsMore
  <2>2. QED
    BY <1>3, <2>1 DEF FloodDupe
<1>4. QED
  BY <1>2, <1>3

LEMMA NextHopDupeSends ==
  ASSUME NEW d, NEW n \in Nodes, NEW old, NEW s, TextOK(d, n, s), NEW p \in Incoming(d)
  PROVE  Sends(d, n, s, NextHopDupe(n, old, s, p), RelayCost(n, p))
<1> DEFINE s1 == StopRetransmission(n, s, Key(p))
           c  == RelayCost(n, p)
<1>1. c \in Nat /\ c >= 0 /\ RouterOK(s)
  BY DEF RelayCost, TextOK
<1>2. Sends(d, n, s, s1, 0)
  BY StopSends
<1>3. NextHopDupe(n, old, s, p) \in {Again(n, s1, p), AckAgain(n, s1, p), s1, CancelDupe(n, s1, p)}
  BY DEF NextHopDupe
<1> HIDE DEF s1
<1>4. TextOK(d, n, s1) /\ RouterOK(s1)
  BY <1>2 DEF Sends, TextOK
<1>5. Sends(d, n, s1, Again(n, s1, p), c) /\ Sends(d, n, s1, AckAgain(n, s1, p), c)
  BY <1>4, AgainSends
<1>6. Sends(d, n, s1, s1, 0) /\ Sends(d, n, s1, CancelDupe(n, s1, p), 0)
  BY <1>4, SendsNothing, CancelDupeSends
<1> HIDE DEF c
<1>7. Sends(d, n, s1, s1, c) /\ Sends(d, n, s1, CancelDupe(n, s1, p), c)
  BY <1>1, <1>4, <1>6, SendsMore
<1>8. Sends(d, n, s1, NextHopDupe(n, old, s, p), c)
  BY <1>3, <1>5, <1>7
<1>9. Sends(d, n, s, NextHopDupe(n, old, s, p), 0 + c) /\ 0 + c = c
  BY <1>1, <1>2, <1>8, SendsTrans
<1>10. QED
  BY <1>9 DEF c

LEMMA OverhearOwnSends ==
  ASSUME NEW d, NEW n \in Nodes, NEW s, TextOK(d, n, s), NEW p \in Packet
  PROVE  Sends(d, n, s, OverhearOwn(n, s, p), 0)
<1> DEFINE s1 == SendAckNak(n, s, FALSE, n, p.id, HopLimit, FALSE)
<1>1. p.id \in Nat /\ HopLimit \in 0..HopLimit /\ RouterOK(s)
  BY RoutingAssumption DEF Packet, TextOK
<1>2. Sends(d, n, s, s1, 0) /\ Sends(d, n, s, s, 0)
  BY <1>1, SendAckNakSends, SendsNothing
<1>3. OverhearOwn(n, s, p) \in {s, StopRetransmission(n, s1, Key(p))}
  BY DEF OverhearOwn
<1> HIDE DEF s1
<1>4. TextOK(d, n, s1)
  BY <1>2 DEF Sends
<1>5. Sends(d, n, s1, StopRetransmission(n, s1, Key(p)), 0)
  BY <1>4, StopSends
<1>6. Sends(d, n, s, StopRetransmission(n, s1, Key(p)), 0)
  BY <1>1, <1>2, <1>5, SendsTrans
<1>7. QED
  BY <1>2, <1>3, <1>6

(* A known packet is relayed again only if it came from its sender.          *)
LEMMA DuplicateSends ==
  ASSUME NEW d, NEW n \in Nodes, NEW s, TextOK(d, n, s), NEW p \in Incoming(d)
  PROVE  Sends(d, n, s, Duplicate(n, s, p), AgainCost(n, p))
<1> DEFINE s1 == Saw(n, s, p)
           c  == AgainCost(n, p)
<1>1. p \in Packet /\ RouterOK(s) /\ c \in Nat /\ c >= 0 /\ RelayCost(n, p) \in Nat
  BY DEF Incoming, TextOK, AgainCost, RelayCost
<1>2. Sends(d, n, s, s1, 0)
  BY <1>1, SawSends
<1>3. Worse(s1, p) = Worse(s, p)
  BY <1>1 DEF Worse, Saw, RouterOK, Fields
<1>4. /\ Upgrades(n, s, p) => Duplicate(n, s, p) = Upgrade(n, s1, p)
      /\ ~Upgrades(n, s, p) /\ p.to = Broadcast => Duplicate(n, s, p) = FloodDupe(n, s1, p)
      /\ ~Upgrades(n, s, p) /\ p.to # Broadcast => Duplicate(n, s, p) = NextHopDupe(n, s, s1, p)
  BY DEF Duplicate
<1> HIDE DEF s1
<1>5. TextOK(d, n, s1) /\ RouterOK(s1)
  BY <1>2 DEF Sends, TextOK
<1> HIDE DEF c
<1>6. ASSUME Upgrades(n, s, p)
      PROVE  Sends(d, n, s1, Duplicate(n, s, p), c)
  <2>1. Worse(s1, p) # {}
    BY <1>3, <1>6 DEF Upgrades
  <2>2. Sends(d, n, s1, Upgrade(n, s1, p), 0)
    BY <1>5, <2>1, UpgradeSends
  <2>3. Sends(d, n, s1, Upgrade(n, s1, p), c)
    BY <1>1, <1>5, <2>2, SendsMore
  <2>4. QED
    BY <1>4, <1>6, <2>3
<1>7. ASSUME ~Upgrades(n, s, p) /\ p.to = Broadcast
      PROVE  Sends(d, n, s1, Duplicate(n, s, p), c)
  <2>1. Sends(d, n, s1, FloodDupe(n, s1, p), c)
    BY <1>5, FloodDupeSends DEF c
  <2>2. QED
    BY <1>4, <1>7, <2>1
<1>8. ASSUME ~Upgrades(n, s, p) /\ p.to # Broadcast
      PROVE  Sends(d, n, s1, Duplicate(n, s, p), c)
  <2>1. Sends(d, n, s1, NextHopDupe(n, s, s1, p), RelayCost(n, p))
    BY <1>5, NextHopDupeSends
  <2>2. n = Source \/ d = Broadcast => RelayCost(n, p) <= c
    BY <1>8 DEF RelayCost, AgainCost, Incoming, c
  <2>3. Sends(d, n, s1, NextHopDupe(n, s, s1, p), c)
    BY <1>1, <1>5, <2>1, <2>2, SendsMore
  <2>4. QED
    BY <1>4, <1>8, <2>3

<1>9. Sends(d, n, s1, Duplicate(n, s, p), c)
  BY <1>6, <1>7, <1>8
<1>10. Sends(d, n, s, Duplicate(n, s, p), 0 + c) /\ 0 + c = c
  BY <1>1, <1>2, <1>9, SendsTrans
<1>11. QED
  BY <1>10 DEF c

(* A packet seen for the first time is answered and relayed.                 *)
LEMMA SniffSends ==
  ASSUME NEW d, NEW n \in Nodes, NEW s, TextOK(d, n, s), NEW p \in Incoming(d)
  PROVE  Sends(d, n, s, Sniff(n, s, p), RelayCost(n, p))
<1> DEFINE a  == Acknowledge(n, s, p)
           s1 == IF p.to # n THEN s
                 ELSE IF p.req >= 0 THEN StopRetransmission(n, a, <<n, p.req>>) ELSE a
           r  == LearnRoute(n, s1, p)
           k  == <<p.to, p.req>>
           s2 == IF p.to = Broadcast THEN s1 ELSE StopForOthers(n, r, p)
           c  == RelayCost(n, p)
<1>1. /\ p \in Packet /\ RouterOK(s) /\ c \in Nat
      /\ Sniff(n, s, p) = Rebroadcast(n, s2, p)
  BY DEF Incoming, TextOK, RelayCost, Sniff
<1>2. Sends(d, n, s, a, 0)
  <2>1. p.from \in Nodes /\ p.id \in Nat /\ 0 \in 0..HopLimit /\ HopLimitForResponse(p) \in 0..HopLimit
    BY <1>1, RoutingAssumption, ResponseType DEF Packet
  <2>2. /\ Sends(d, n, s, SendAckNak(n, s, FALSE, p.from, p.id, HopLimitForResponse(p), TRUE), 0)
        /\ Sends(d, n, s, SendAckNak(n, s, FALSE, p.from, p.id, 0, FALSE), 0)
        /\ Sends(d, n, s, s, 0)
    BY <2>1, SendAckNakSends, SendsNothing
  <2>3. QED
    BY <2>2 DEF Acknowledge
<1> HIDE DEF a
<1>3. Sends(d, n, s, s1, 0)
  <2>1. TextOK(d, n, a) /\ Sends(d, n, s, s, 0)
    BY <1>2, SendsNothing DEF Sends
  <2>2. Sends(d, n, a, StopRetransmission(n, a, <<n, p.req>>), 0)
    BY <2>1, StopSends
  <2>3. Sends(d, n, s, StopRetransmission(n, a, <<n, p.req>>), 0)
    BY <1>1, <1>2, <2>2, SendsTrans
  <2>4. QED
    BY <1>2, <2>1, <2>3
<1> HIDE DEF s1
<1>4. Sends(d, n, s1, r, 0)
  <2>1. TextOK(d, n, s1) /\ RouterOK(s1)
    BY <1>3 DEF Sends, TextOK
  <2>2. r = s1 \/ r = [s1 EXCEPT !.route[p.from] = RelayOf(p)]
    BY DEF LearnRoute
  <2>3. p.from \in Nodes /\ RelayOf(p) \in Hops /\ s1.ids \in Nat
    BY <1>1, <2>1 DEF RelayOf, Packet, Hops, RouterOK, RouterType
  <2> HIDE DEF r
  <2>4. RouterOK(r) /\ r.queue = s1.queue /\ r.rx = s1.rx /\ r.pend = s1.pend /\ r.ids = s1.ids
    BY <2>1, <2>2, <2>3 DEF RouterOK, RouterType, Fields
  <2>5. QED
    BY <2>1, <2>3, <2>4, SendsAside
<1> HIDE DEF r
<1>5. Sends(d, n, s, r, 0)
  BY <1>1, <1>3, <1>4, SendsTrans
<1>6. Sends(d, n, r, StopForOthers(n, r, p), 0)
  <2>1. TextOK(d, n, r) /\ RouterOK(r) /\ Sends(d, n, r, r, 0)
    BY <1>5, SendsNothing DEF Sends, TextOK
  <2>2. Sends(d, n, r, Cancel(n, r, k), 0)
    BY <2>1, CancelSends
  <2>3. Sends(d, n, Cancel(n, r, k), StopRetransmission(n, Cancel(n, r, k), k), 0)
    BY <2>2, StopSends DEF Sends
  <2>4. Sends(d, n, r, StopRetransmission(n, Cancel(n, r, k), k), 0)
    BY <2>1, <2>2, <2>3, SendsTrans
  <2>5. QED
    BY <2>1, <2>4 DEF StopForOthers
<1>7. Sends(d, n, s, s2, 0)
  BY <1>1, <1>3, <1>5, <1>6, SendsTrans
<1> HIDE DEF s2, c
<1>8. TextOK(d, n, s2)
  BY <1>7 DEF Sends
<1>9. Sends(d, n, s2, Rebroadcast(n, s2, p), c)
  BY <1>8, RebroadcastSends DEF c
<1>10. Sends(d, n, s, Sniff(n, s, p), 0 + c) /\ 0 + c = c
  BY <1>1, <1>7, <1>9, SendsTrans
<1>11. QED
  BY <1>10 DEF c

-----------------------------------------------------------------------------
(* The copies of a broadcast that a node has received and not handled.       *)

(* The first copy to be handled is one that Source sent.                     *)
FirstDirect(q) == \A i \in Where(q, TextCopies) :
  q[i] \in DirectCopies \/ \E j \in Where(q, DirectCopies) : j < i

LEMMA SameCounts ==
  ASSUME NEW a, NEW b, SameCopies(a, b)
  PROVE  /\ Count(a, DirectCopies) = Count(b, DirectCopies)
         /\ FirstDirect(a) <=> FirstDirect(b)
<1>1. DirectCopies \subseteq TextCopies
  BY DEF DirectCopies, TextCopies
<1>2. Where(a, DirectCopies) = Where(b, DirectCopies)
  BY <1>1 DEF SameCopies, Where
<1>3. FirstDirect(a) <=> FirstDirect(b)
  BY <1>2 DEF FirstDirect, SameCopies
<1>4. QED
  BY <1>2, <1>3 DEF Count

LEMMA FirstDirectAppend ==
  ASSUME NEW q \in Seq(Packet), NEW p \in Packet, FirstDirect(q),
         p \in TextCopies => p \in DirectCopies \/ Count(q, DirectCopies) # 0
  PROVE  FirstDirect(Append(q, p))
<1> DEFINE r == Append(q, p)
<1>1. /\ DOMAIN r = DOMAIN q \cup {Len(q) + 1} /\ Len(q) + 1 \notin DOMAIN q
      /\ \A i \in DOMAIN q : r[i] = q[i] /\ i \in Nat /\ i < Len(q) + 1
      /\ r[Len(q) + 1] = p
  OBVIOUS
<1> HIDE DEF r
<1>2. \A i \in Where(q, DirectCopies) : i \in Where(r, DirectCopies) /\ i < Len(q) + 1
  BY <1>1 DEF Where
<1>3. ASSUME NEW i \in Where(q, TextCopies)
      PROVE  r[i] \in DirectCopies \/ \E j \in Where(r, DirectCopies) : j < i
  BY <1>1, <1>2, <1>3 DEF FirstDirect, Where
<1>4. ASSUME p \in TextCopies, p \notin DirectCopies
      PROVE  \E j \in Where(r, DirectCopies) : j < Len(q) + 1
  <2>1. Where(q, DirectCopies) # {}
    BY <1>4, FS_EmptySet DEF Count
  <2>2. QED
    BY <1>2, <2>1
<1>5. ASSUME NEW i \in Where(r, TextCopies)
      PROVE  r[i] \in DirectCopies \/ \E j \in Where(r, DirectCopies) : j < i
  <2>1. CASE i \in DOMAIN q
    BY <1>1, <1>3, <1>5, <2>1 DEF Where
  <2>2. CASE i = Len(q) + 1
    BY <1>1, <1>4, <1>5, <2>2 DEF Where
  <2>3. QED
    BY <1>1, <1>5, <2>1, <2>2 DEF Where
<1>6. QED
  BY <1>5 DEF FirstDirect, r

LEMMA FirstDirectTail ==
  ASSUME NEW q \in Seq(Packet), q # <<>>, FirstDirect(q)
  PROVE  /\ Head(q) \notin TextCopies => FirstDirect(Tail(q))
         /\ Head(q) \in TextCopies => Head(q) \in DirectCopies
<1> DEFINE r == Tail(q)
<1>1. /\ 1 \in DOMAIN q /\ q[1] = Head(q) /\ Len(q) \in Nat /\ DOMAIN q = 1..Len(q)
      /\ DOMAIN r = 1..Len(q) - 1 /\ \A i \in DOMAIN r : r[i] = q[i + 1]
  OBVIOUS
<1> HIDE DEF r
<1>2. \A S : \A i \in Where(r, S) : i \in Nat /\ i + 1 \in Where(q, S)
  BY <1>1 DEF Where
<1>3. ASSUME Head(q) \notin TextCopies PROVE FirstDirect(r)
  <2>1. SUFFICES ASSUME NEW i \in Where(r, TextCopies), r[i] \notin DirectCopies
                 PROVE  \E j \in Where(r, DirectCopies) : j < i
    BY DEF FirstDirect
  <2>2. i + 1 \in Where(q, TextCopies) /\ q[i + 1] = r[i] /\ i \in Nat
    BY <1>1, <1>2, <2>1 DEF Where
  <2>3. PICK j \in Where(q, DirectCopies) : j < i + 1
    BY <2>1, <2>2 DEF FirstDirect
  <2>4. j # 1 /\ j \in 1..Len(q)
    BY <1>1, <1>3, <2>3 DEF Where, DirectCopies, TextCopies
  <2>5. j - 1 \in 1..Len(q) - 1 /\ (j - 1) + 1 = j /\ j - 1 < i
    BY <1>1, <2>2, <2>3, <2>4
  <2>6. j - 1 \in Where(r, DirectCopies)
    BY <1>1, <2>3, <2>5 DEF Where
  <2>7. QED
    BY <2>5, <2>6
<1>4. ASSUME Head(q) \in TextCopies PROVE Head(q) \in DirectCopies
  <2>1. 1 \in Where(q, TextCopies)
    BY <1>1, <1>4 DEF Where
  <2>2. \A j \in Where(q, DirectCopies) : ~(j < 1)
    BY <1>1 DEF Where
  <2>3. QED
    BY <1>1, <2>1, <2>2 DEF FirstDirect
<1>5. QED
  BY <1>3, <1>4 DEF r

(* For every transmission of a node that has the text there was one of       *)
(* Source that it has heard and need not answer any more; b and bs are the   *)
(* numbers of times that it and Source have sent.  A node that does not have *)
(* it yet will relay the first copy it handles, whoever sent that one.       *)
Budget(s, b, bs) ==
  LET direct == Count(s.rx, DirectCopies) IN
  IF TextKey \in DOMAIN s.hist THEN b + Load(s) + direct <= bs
  ELSE /\ b = 0 /\ Load(s) = 0 /\ direct <= bs
       /\ FirstDirect(s.rx) \/ direct < bs

LEMMA BudgetKept ==
  ASSUME NEW n \in Nodes \ {Source}, NEW s, RouterOK(s), NEW t,
         Sends(Broadcast, n, s, t, 0), DOMAIN s.hist \subseteq DOMAIN t.hist,
         NEW b \in Nat, NEW bs \in Nat, Budget(s, b, bs)
  PROVE  Budget(t, b, bs)
<1>1. /\ Load(s) \in Nat /\ Load(t) \in Nat /\ Load(t) <= Load(s)
      /\ Count(s.rx, DirectCopies) \in Nat
  BY LoadType, CountType DEF Sends, TextOK, RouterOK, RouterType
<1>2. /\ Count(t.rx, DirectCopies) = Count(s.rx, DirectCopies)
      /\ FirstDirect(t.rx) <=> FirstDirect(s.rx)
  BY SameCounts DEF Sends
<1>3. QED
  BY <1>1, <1>2 DEF Budget

(* A packet is taken out of the receive queue: it is relayed when it is new, *)
(* and again only when it is a copy from Source.                             *)
LEMMA BudgetHandles ==
  ASSUME NEW n \in Nodes \ {Source}, NEW s, RouterOK(s), s.rx # <<>>,
         NEW p, p = Head(s.rx), NEW s0, s0 = [s EXCEPT !.rx = Tail(@)],
         NEW t, NEW c \in Nat, Sends(Broadcast, n, s0, t, c), c <= RelayCost(n, p),
         TextKey \in DOMAIN s.hist => c <= AgainCost(n, p),
         DOMAIN s.hist \subseteq DOMAIN t.hist, Key(p) \in DOMAIN t.hist,
         NEW b \in Nat, NEW bs \in Nat, Budget(s, b, bs)
  PROVE  Budget(t, b, bs)
<1> DEFINE direct == Count(s.rx, DirectCopies)
           left   == Count(t.rx, DirectCopies)
<1>1. s.rx \in Seq(Packet) /\ p \in Packet
  BY DEF RouterOK, RouterType
<1>2. s0.rx = Tail(s.rx) /\ s0.queue = s.queue /\ s0.pend = s.pend
  BY DEF RouterOK, Fields
<1>3. /\ Load(s) \in Nat /\ Load(s0) = Load(s) /\ Load(t) \in Nat /\ Load(t) <= Load(s) + c
      /\ direct \in Nat
  BY <1>1, <1>2, LoadType, CountType DEF Sends, TextOK, Load, TriesLeft
<1>4. /\ p \in TextCopies <=> IsText(p)
      /\ p \in DirectCopies <=> IsText(p) /\ p.lim = p.start
  BY <1>1 DEF TextCopies, DirectCopies
<1>5. left = direct - (IF p \in DirectCopies THEN 1 ELSE 0)
  <2>1. Count(Tail(s.rx), DirectCopies) = direct - (IF p \in DirectCopies THEN 1 ELSE 0)
    BY <1>1, CountTail
  <2>2. QED
    BY <1>2, <2>1, SameCounts DEF Sends
<1>6. /\ FirstDirect(s.rx) /\ ~IsText(p) => FirstDirect(t.rx)
      /\ FirstDirect(s.rx) /\ IsText(p) => p \in DirectCopies
  BY <1>1, <1>2, <1>4, FirstDirectTail, SameCounts DEF Sends
<1>7. /\ RelayCost(n, p) = IF IsText(p) THEN 1 ELSE 0
      /\ AgainCost(n, p) = IF p \in DirectCopies THEN 1 ELSE 0
  BY <1>4 DEF RelayCost, AgainCost
<1>8. CASE TextKey \in DOMAIN s.hist
  <2>1. b + Load(s) + direct <= bs /\ c <= IF p \in DirectCopies THEN 1 ELSE 0
    BY <1>7, <1>8 DEF Budget
  <2>2. b + Load(t) + left <= bs
    <3> HIDE DEF direct, left
    <3>1. QED
      BY <1>3, <1>5, <2>1
  <2>3. QED
    BY <1>8, <2>2 DEF Budget
<1>9. CASE TextKey \notin DOMAIN s.hist /\ IsText(p)
  <2>1. /\ b = 0 /\ Load(s) = 0 /\ direct <= bs /\ c <= 1
        /\ p \notin DirectCopies => direct < bs
    BY <1>6, <1>7, <1>9 DEF Budget
  <2>2. b + Load(t) + left <= bs
    <3> HIDE DEF direct, left
    <3>1. QED
      BY <1>3, <1>5, <2>1
  <2>3. TextKey \in DOMAIN t.hist
    BY <1>9 DEF IsText
  <2>4. QED
    BY <2>2, <2>3 DEF Budget
<1>10. CASE TextKey \notin DOMAIN s.hist /\ ~IsText(p)
  <2>1. b = 0 /\ Load(s) = 0 /\ direct <= bs /\ c = 0 /\ left = direct
    BY <1>4, <1>5, <1>3, <1>7, <1>10 DEF Budget
  <2>2. Load(t) = 0 /\ b + Load(t) + left <= bs /\ left <= bs
    <3> HIDE DEF direct, left
    <3>1. QED
      BY <1>3, <2>1
  <2>3. FirstDirect(t.rx) \/ left < bs
    BY <1>6, <1>10, <2>1 DEF Budget
  <2>4. QED
    BY <2>1, <2>2, <2>3 DEF Budget
<1>11. QED
  BY <1>8, <1>9, <1>10

(* A packet is heard: of Source, who has then sent one more, or of a relay,  *)
(* who must have had a transmission of Source to relay.                      *)
LEMMA BudgetHears ==
  ASSUME NEW s, RouterOK(s), NEW p \in Packet, NEW t,
         t = [s EXCEPT !.rx = Append(@, p)],
         NEW b \in Nat, NEW bs \in Nat, NEW more \in Nat, Budget(s, b, bs),
         p \in DirectCopies => more > 0, p \in TextCopies => bs + more > 0
  PROVE  Budget(t, b, bs + more)
<1> DEFINE direct == Count(s.rx, DirectCopies)
           got    == Count(t.rx, DirectCopies)
<1>1. s.rx \in Seq(Packet)
  BY DEF RouterOK, RouterType
<1>2. t.rx = Append(s.rx, p) /\ t.queue = s.queue /\ t.pend = s.pend /\ t.hist = s.hist
  BY DEF RouterOK, Fields
<1>3. Load(s) \in Nat /\ Load(t) = Load(s) /\ direct \in Nat
  BY <1>1, <1>2, LoadType, CountType DEF Load, TriesLeft
<1>4. got = direct + (IF p \in DirectCopies THEN 1 ELSE 0)
  BY <1>1, <1>2, CountAppend
<1>5. CASE TextKey \in DOMAIN s.hist
  <2>1. b + Load(s) + direct <= bs
    BY <1>5 DEF Budget
  <2>2. b + Load(t) + got <= bs + more
    <3> HIDE DEF direct, got
    <3>1. QED
      BY <1>3, <1>4, <2>1
  <2>3. QED
    BY <1>2, <1>5, <2>2 DEF Budget
<1>6. CASE TextKey \notin DOMAIN s.hist
  <2>1. b = 0 /\ Load(s) = 0 /\ direct <= bs /\ (FirstDirect(s.rx) \/ direct < bs)
    BY <1>6 DEF Budget
  <2>2. got <= bs + more
    <3> HIDE DEF direct, got
    <3>1. QED
      BY <1>3, <1>4, <2>1
  <2>3. FirstDirect(t.rx) \/ got < bs + more
    <3>1. CASE direct < bs
      <4> HIDE DEF direct, got
      <4>1. QED
        BY <1>3, <1>4, <3>1
    <3>2. CASE FirstDirect(s.rx) /\ (p \in TextCopies => p \in DirectCopies \/ direct # 0)
      BY <1>1, <1>2, <3>2, FirstDirectAppend
    <3>3. CASE p \in TextCopies /\ p \notin DirectCopies /\ direct = 0
      <4> HIDE DEF direct, got
      <4>1. QED
        BY <1>4, <3>3
    <3>4. QED
      BY <2>1, <3>1, <3>2, <3>3
  <2>4. QED
    BY <1>2, <1>3, <1>6, <2>1, <2>2, <2>3 DEF Budget
<1>7. QED
  BY <1>5, <1>6

(* What a node sends of the text it has counted on.                          *)
LEMMA BudgetSpends ==
  ASSUME NEW s, NEW t, NEW c, Load(t) = Load(s) - c, c \in {0, 1}, Load(s) \in Nat, Load(t) \in Nat,
         t.hist = s.hist, t.rx = s.rx, NEW b \in Nat, NEW bs \in Nat,
         Count(s.rx, DirectCopies) \in Nat, Budget(s, b, bs)
  PROVE  Budget(t, b + c, bs) /\ (c = 1 => bs > 0)
<1>1. CASE TextKey \in DOMAIN s.hist
  BY <1>1 DEF Budget
<1>2. CASE TextKey \notin DOMAIN s.hist
  <2>1. Load(s) = 0 /\ c = 0
    BY <1>2 DEF Budget
  <2>2. QED
    BY <1>2, <2>1 DEF Budget
<1>3. QED
  BY <1>1, <1>2

-----------------------------------------------------------------------------
(* The invariant of the transmissions, and the actions.                      *)

TextInv ==
  /\ NodesInv /\ sentBy \in [Nodes -> Nat]
  /\ \A n \in Nodes : TextOK(Dest, n, node[n])
  /\ sentBy[Source] + Load(node[Source]) <= NUM_RELIABLE_RETX
  /\ Dest = Broadcast =>
       \A n \in Nodes \ {Source} : Budget(node[n], sentBy[n], sentBy[Source])

LEMMA BootSends ==
  ASSUME NEW d, NEW n \in Nodes, NEW s, RouterOK(s), s.queue = <<>>, s.rx = <<>>,
         s.pend = <<>>, s.ids > 0
  PROVE  /\ TextOK(d, n, s) /\ Load(s) = 0
         /\ s.hist = <<>> => \A bs \in Nat : Budget(s, 0, bs)
<1>1. Count(<<>>, TextCopies) = 0 /\ Count(<<>>, DirectCopies) = 0
  BY CountEmpty
<1>2. DOMAIN s.pend = {}
  OBVIOUS
<1>3. Load(s) = 0
  BY <1>1, <1>2 DEF Load, TriesLeft
<1>4. FirstDirect(<<>>)
  BY DEF FirstDirect, Where
<1>5. TextOK(d, n, s)
  BY <1>2 DEF TextOK
<1>6. s.hist = <<>> => TextKey \notin DOMAIN s.hist
  OBVIOUS
<1>7. QED
  BY <1>1, <1>3, <1>4, <1>5, <1>6 DEF Budget

(* The text with all its tries.                                              *)
LEMMA InitText == Init => TextInv
<1> SUFFICES ASSUME Init PROVE TextInv
  OBVIOUS
<1>1. /\ mesh \in Meshes /\ sentBy = [n \in Nodes |-> 0] /\ NodesInv
      /\ node = [n \in Nodes |-> IF n = Source THEN ReliableSend(n, Boot(n), Text) ELSE Boot(n)]
  BY InitNodes DEF Init
<1>2. /\ Source \in Nodes /\ Dest \in (Nodes \ {Source}) \cup {Broadcast}
      /\ Broadcast \notin Nodes /\ NUM_RELIABLE_RETX \in 1..NUM_RELIABLE_RETX
      /\ HopLimit \in Nat
  BY <1>1, RoutingAssumption DEF Dest
<1>3. ASSUME NEW n \in Nodes
      PROVE  /\ TextOK(Dest, n, Boot(n)) /\ Load(Boot(n)) = 0
             /\ \A bs \in Nat : Budget(Boot(n), 0, bs)
  <2>1. /\ RouterOK(Boot(n)) /\ Boot(n).queue = <<>> /\ Boot(n).rx = <<>>
        /\ Boot(n).pend = <<>> /\ Boot(n).ids = 1 /\ Boot(n).hist = <<>>
    BY <1>1, BootOK DEF Boot
  <2> DEFINE b == Boot(n)
  <2>2. b.ids > 0 /\ b.hist = <<>>
    BY <2>1
  <2> HIDE DEF b
  <2>3. TextOK(Dest, n, b) /\ Load(b) = 0 /\ \A bs \in Nat : Budget(b, 0, bs)
    BY <2>1, <2>2, BootSends DEF b
  <2>4. QED
    BY <2>3 DEF b
<1> DEFINE s  == Boot(Source)
           s1 == StartRetransmission(Source, s, Text, NUM_RELIABLE_RETX)
           t  == ReliableSend(Source, s, Text)
<1>4. /\ Text \in Outgoing(Dest, Source) /\ IsText(Text) /\ Text.ack /\ Cost(Text) = 1
      /\ Text.to = Dest
  <2>1. Text \in Packet
    BY <1>1, <1>2, BootOK
  <2>2. QED
    BY <2>1 DEF Text, Outgoing, Incoming, IsText, Key, TextKey, Cost
<1>5. t = IF Dest = Broadcast THEN FloodSend(Source, s1, Text) ELSE NextHopSend(Source, s1, Text)
  BY <1>4 DEF ReliableSend
<1>6. Sends(Dest, Source, s, s1, NUM_RELIABLE_RETX - 1)
  BY <1>2, <1>3, <1>4, StartSends
<1>7. TextOK(Dest, Source, s) /\ Load(s) = 0
  BY <1>2, <1>3
<1> HIDE DEF s, s1
<1>8. TextOK(Dest, Source, s1)
  BY <1>6 DEF Sends
<1>9. Sends(Dest, Source, s1, t, 1)
  <2>1. CASE Dest = Broadcast
    <3>1. Sends(Dest, Source, s1, FloodSend(Source, s1, Text), 1)
      BY <1>2, <1>4, <1>8, FloodSendSends
    <3> HIDE DEF t
    <3>2. QED
      BY <1>5, <2>1, <3>1
  <2>2. CASE Dest # Broadcast
    <3>1. Sends(Dest, Source, s1, NextHopSend(Source, s1, Text), 1)
      BY <1>2, <1>4, <1>8, <2>2, NextHopSendSends
    <3> HIDE DEF t
    <3>2. QED
      BY <1>5, <2>2, <3>1
  <2>3. QED
    BY <2>1, <2>2
<1> HIDE DEF t
<1>10. TextOK(Dest, Source, t) /\ 0 + Load(t) <= NUM_RELIABLE_RETX
  <2>1. Load(s1) \in Nat /\ Load(t) \in Nat /\ TextOK(Dest, Source, t)
    BY <1>8, <1>9, LoadType DEF TextOK, Sends
  <2>2. Load(s1) <= NUM_RELIABLE_RETX - 1 /\ Load(t) <= Load(s1) + 1
    BY <1>2, <1>6, <1>7, <1>9 DEF Sends
  <2>3. QED
    BY <1>2, <2>1, <2>2
<1>11. /\ sentBy[Source] = 0 /\ node[Source] = t /\ sentBy \in [Nodes -> Nat]
       /\ \A n \in Nodes \ {Source} : sentBy[n] = 0 /\ node[n] = Boot(n)
  BY <1>1, <1>2 DEF t, s
<1>12. QED
  BY <1>1, <1>3, <1>10, <1>11 DEF TextInv

(* A packet is sent and heard.                                               *)
LEMMA TransmitText ==
  ASSUME TextInv, NEW n \in Nodes, Transmit(n)
  PROVE  TextInv'
<1> DEFINE d == Dest
<1>1. PICK i \in DOMAIN node[n].queue, Deaf \in SUBSET Neighbours[n] :
        /\ node' = [m \in Nodes |->
             IF m = n THEN [node[n] EXCEPT !.queue = DropAt(@, i)]
             ELSE IF m \in Neighbours[n] \ Deaf
             THEN [node[m] EXCEPT !.rx = Append(@, node[n].queue[i])] ELSE node[m]]
        /\ sentBy' = IF Key(node[n].queue[i]) = TextKey
                     THEN [sentBy EXCEPT ![n] = @ + 1] ELSE sentBy
  BY DEF Transmit
<1> DEFINE p == node[n].queue[i]
           s == node[n]
           t == [s EXCEPT !.queue = DropAt(@, i)]
<1>2. /\ mesh' = mesh /\ Dest' = d /\ NodesInv' /\ Source \in Nodes
      /\ sentBy \in [Nodes -> Nat]
  BY NextNodes, RoutingAssumption DEF TextInv, Transmit, Next, Dest
<1>3. \A m \in Nodes : RouterOK(node[m]) /\ TextOK(d, m, node[m]) /\ RouterOK(node'[m])
  BY <1>2 DEF TextInv, NodesInv
<1>4. /\ p \in Outgoing(d, n) /\ p \in Incoming(d) /\ p \in Packet
      /\ (p \in TextCopies <=> IsText(p)) /\ (IsText(p) <=> Key(p) = TextKey)
      /\ p = s.queue[i] /\ i \in DOMAIN s.queue
  <2>1. s.queue \in Seq(Outgoing(d, n))
    BY <1>3 DEF TextOK
  <2>2. p \in Outgoing(d, n)
    BY <2>1
  <2> HIDE DEF d
  <2>3. QED
    BY <2>2 DEF Outgoing, Incoming, TextCopies, IsText
<1>5. node'[n] = t /\ RouterOK(t)
  BY <1>1, <1>3
<1>6. /\ t.queue = DropAt(s.queue, i) /\ t.rx = s.rx /\ t.pend = s.pend /\ t.ids = s.ids
      /\ t.hist = s.hist
  BY <1>3 DEF RouterOK, Fields
<1> HIDE DEF t
<1>7. /\ TextOK(d, n, t) /\ Load(t) = Load(s) - Cost(p)
      /\ Load(t) \in Nat /\ Load(s) \in Nat /\ Count(s.rx, DirectCopies) \in Nat
  <2>1. Sends(d, n, s, t, 0) /\ Load(t) = Load(s) - Cost(p)
    <3>1. TextOK(d, n, s)
      BY <1>3
    <3>2. /\ i \in DOMAIN s.queue /\ RouterOK(t) /\ t.queue = DropAt(s.queue, i)
          /\ t.rx = s.rx /\ t.pend = s.pend /\ t.ids = s.ids
      BY <1>4, <1>5, <1>6
    <3> HIDE DEF d, s, p
    <3>3. Sends(d, n, s, t, 0) /\ Load(t) = Load(s) - Cost(s.queue[i])
      BY <3>1, <3>2, DropSends
    <3>4. QED
      BY <1>4, <3>3
  <2>2. Count(s.rx, DirectCopies) \in Nat
    BY <1>3, CountType DEF RouterOK, RouterType
  <2>3. QED
    BY <1>3, <1>5, <2>1, <2>2, LoadType DEF Sends
<1>8. ASSUME NEW m \in Nodes \ {n}
      PROVE  node'[m] = node[m] \/ node'[m] = [node[m] EXCEPT !.rx = Append(@, p)]
  BY <1>1
<1>9. ASSUME NEW m \in Nodes \ {n}
      PROVE  TextOK(d, m, node'[m]) /\ Load(node'[m]) = Load(node[m])
  <2>1. CASE node'[m] = node[m]
    BY <1>3, <2>1
  <2>2. CASE node'[m] = [node[m] EXCEPT !.rx = Append(@, p)]
    <3> DEFINE u == node'[m]
    <3>1. /\ u.queue = node[m].queue /\ u.pend = node[m].pend /\ u.ids = node[m].ids
          /\ u.rx = Append(node[m].rx, p)
      BY <1>3, <2>2 DEF RouterOK, Fields
    <3>2. RouterOK(u) /\ TextOK(d, m, node[m]) /\ p \in Incoming(d)
      BY <1>3, <1>4
    <3> HIDE DEF u, p, d
    <3>3. TextOK(d, m, u)
      BY <3>1, <3>2 DEF TextOK
    <3>4. Load(u) = Load(node[m])
      BY <3>1 DEF Load, TriesLeft
    <3>5. QED
      BY <3>3, <3>4 DEF u
  <2>3. QED
    BY <1>8, <2>1, <2>2
<1> HIDE DEF p
<1>10. sentBy' = [sentBy EXCEPT ![n] = @ + Cost(p)] /\ Cost(p) \in {0, 1}
  <2>1. CASE IsText(p)
    BY <1>1, <1>4, <2>1 DEF Cost, p
  <2>2. CASE ~IsText(p)
    <3>1. sentBy' = sentBy /\ Cost(p) = 0
      BY <1>1, <1>4, <2>2 DEF Cost, p
    <3>2. sentBy[n] + 0 = sentBy[n] /\ sentBy = [sentBy EXCEPT ![n] = sentBy[n]]
      BY <1>2
    <3>3. QED
      BY <3>1, <3>2
  <2>3. QED
    BY <2>1, <2>2
<1>11. /\ sentBy' \in [Nodes -> Nat] /\ sentBy'[n] = sentBy[n] + Cost(p)
       /\ \A m \in Nodes \ {n} : sentBy'[m] = sentBy[m]
  BY <1>2, <1>10
<1>12. sentBy'[Source] + Load(node'[Source]) <= NUM_RELIABLE_RETX
  <2>1. sentBy[Source] + Load(node[Source]) <= NUM_RELIABLE_RETX /\ sentBy[Source] \in Nat
        /\ NUM_RELIABLE_RETX \in Nat
    BY <1>2, RoutingAssumption DEF TextInv
  <2>2. CASE n = Source
    BY <1>5, <1>7, <1>10, <1>11, <2>1, <2>2
  <2>3. CASE n # Source
    BY <1>2, <1>9, <1>11, <2>1, <2>3
  <2>4. QED
    BY <2>2, <2>3
<1>13. ASSUME d = Broadcast, NEW m \in Nodes \ {Source}
       PROVE  Budget(node'[m], sentBy'[m], sentBy'[Source])
  <2> DEFINE bs == sentBy[Source]
             more == sentBy'[Source] - bs
  <2>1. /\ \A o \in Nodes \ {Source} : Budget(node[o], sentBy[o], bs)
        /\ bs \in Nat /\ sentBy[m] \in Nat /\ sentBy[n] \in Nat
    BY <1>2, <1>13 DEF TextInv
  <2>2. more = (IF n = Source THEN Cost(p) ELSE 0) /\ more \in Nat
        /\ sentBy'[Source] = bs + more
    BY <1>2, <1>10, <1>11, <2>1
  <2>3. n # Source => Budget(t, sentBy[n] + Cost(p), bs) /\ (Cost(p) = 1 => bs > 0)
    BY <1>6, <1>7, <1>10, <2>1, BudgetSpends
  <2>4. CASE m = n
    <3>1. more = 0 /\ bs + 0 = bs
      BY <1>13, <2>1, <2>2, <2>4
    <3>2. sentBy'[Source] = bs
      BY <2>2, <3>1
    <3> HIDE DEF bs, more
    <3>3. QED
      BY <1>5, <1>11, <1>13, <2>3, <2>4, <3>2
  <2>5. CASE m # n
    <3>1. sentBy'[m] = sentBy[m]
      BY <1>11, <2>5
    <3>2. p \in DirectCopies => n = Source /\ IsText(p)
      <4>1. p.lim \in Int /\ HopLimit \in Int
        BY <1>4, RoutingAssumption DEF Packet
      <4> HIDE DEF d
      <4>2. QED
        BY <1>4, <1>13, <4>1 DEF DirectCopies, Outgoing, Incoming
    <3>3. IsText(p) => Cost(p) = 1
      BY DEF Cost
    <3>4. p \in DirectCopies => more > 0
      BY <2>2, <3>2, <3>3
    <3>5. p \in TextCopies => bs + more > 0
      BY <1>4, <2>1, <2>2, <2>3, <3>3
    <3>6. CASE node'[m] = [node[m] EXCEPT !.rx = Append(@, p)]
      <4> HIDE DEF more, bs
      <4>1. Budget(node'[m], sentBy[m], bs + more)
        BY <1>3, <1>4, <2>1, <2>2, <3>4, <3>5, <3>6, BudgetHears
      <4>2. QED
        BY <2>2, <3>1, <4>1
    <3>7. CASE node'[m] = node[m]
      <4>1. Count(node[m].rx, DirectCopies) \in Nat /\ Load(node[m]) \in Nat
        BY <1>3, CountType, LoadType DEF RouterOK, RouterType
      <4>2. Budget(node[m], sentBy[m], bs)
        BY <2>1
      <4>3. Budget(node[m], sentBy[m], bs + more)
        <5> HIDE DEF bs, more
        <5>1. QED
          BY <2>1, <2>2, <4>1, <4>2 DEF Budget
      <4>4. QED
        BY <2>2, <3>1, <3>7, <4>3
    <3>8. QED
      BY <1>8, <2>5, <3>6, <3>7
  <2>6. QED
    BY <2>4, <2>5
<1>14. \A m \in Nodes : TextOK(d, m, node'[m])
  BY <1>5, <1>7, <1>9
<1>15. QED
  BY <1>2, <1>11, <1>12, <1>13, <1>14 DEF TextInv

(* The record of one node changes and nothing is sent.                       *)
LEMMA OneNodeText ==
  ASSUME TextInv, NodesInv', mesh' = mesh, NEW n \in Nodes,
         \A m \in Nodes \ {n} : node'[m] = node[m] /\ sentBy'[m] = sentBy[m],
         sentBy' \in [Nodes -> Nat], TextOK(Dest, n, node'[n]),
         n = Source => sentBy'[n] = sentBy[n] /\ Load(node'[n]) <= Load(node[n]),
         Dest = Broadcast /\ n # Source => Budget(node'[n], sentBy'[n], sentBy[Source])
  PROVE  TextInv'
<1>1. Dest' = Dest /\ Source \in Nodes /\ NUM_RELIABLE_RETX \in Nat
  BY RoutingAssumption DEF Dest
<1>2. sentBy'[Source] = sentBy[Source] /\ sentBy[Source] \in Nat
  BY <1>1 DEF TextInv
<1>3. Load(node'[Source]) <= Load(node[Source])
      /\ Load(node'[Source]) \in Nat /\ Load(node[Source]) \in Nat
  <2>1. RouterOK(node[Source]) /\ RouterOK(node'[Source])
    BY <1>1 DEF TextInv, NodesInv
  <2>2. Load(node'[Source]) \in Nat /\ Load(node[Source]) \in Nat
    BY <2>1, LoadType
  <2>3. CASE n = Source
    BY <2>2, <2>3
  <2>4. CASE n # Source
    <3>1. node'[Source] = node[Source]
      BY <1>1, <2>4
    <3>2. QED
      BY <2>2, <3>1
  <2>5. QED
    BY <2>3, <2>4
<1>4. sentBy'[Source] + Load(node'[Source]) <= NUM_RELIABLE_RETX
  <2>1. sentBy[Source] + Load(node[Source]) <= NUM_RELIABLE_RETX
    BY DEF TextInv
  <2>2. QED
    BY <1>1, <1>2, <1>3, <2>1
<1>5. ASSUME NEW m \in Nodes PROVE TextOK(Dest, m, node'[m])
  BY DEF TextInv
<1>6. ASSUME Dest = Broadcast, NEW m \in Nodes \ {Source}
      PROVE  Budget(node'[m], sentBy'[m], sentBy'[Source])
  BY <1>2, <1>6 DEF TextInv
<1>7. QED
  BY <1>1, <1>4, <1>5, <1>6 DEF TextInv

(* A node handles what it received.                                          *)
LEMMA HandleReceivedText ==
  ASSUME TextInv, NEW n \in Nodes, HandleReceived(n)
  PROVE  TextInv'
<1> DEFINE d  == Dest
           p  == Head(node[n].rx)
           s0 == [node[n] EXCEPT !.rx = Tail(@)]
           s  == OverhearOwn(n, s0, p)
           t  == node'[n]
<1>1. /\ NodesInv /\ NodesInv' /\ mesh' = mesh /\ sentBy' = sentBy
      /\ node[n].rx # <<>> /\ TextOK(d, n, node[n]) /\ RouterOK(node[n])
  BY NextNodes DEF TextInv, HandleReceived, Next, NodesInv
<1>2. /\ p \in Packet /\ RouterOK(s0) /\ Keeps(s0, s)
      /\ s0.hist = node[n].hist
      /\ DOMAIN node' = Nodes /\ \A m \in Nodes \ {n} : node'[m] = node[m]
      /\ t = IF Known(s, p) THEN Duplicate(n, s, p) ELSE Sniff(n, Saw(n, s, p), p)
      /\ Keeps(s, t) /\ Key(p) \in DOMAIN t.hist
  BY <1>1, HandleReceivedMoves
<1>3. p \in Incoming(d) /\ Tail(node[n].rx) \in Seq(Incoming(d))
  BY <1>1 DEF TextOK
<1>4. TextOK(d, n, s0)
  <2>1. /\ s0.rx = Tail(node[n].rx) /\ s0.queue = node[n].queue /\ s0.pend = node[n].pend
        /\ s0.ids = node[n].ids
    BY <1>1 DEF RouterOK, Fields
  <2> HIDE DEF s0, d
  <2>2. QED
    BY <1>1, <1>2, <1>3, <2>1 DEF TextOK
<1> HIDE DEF s0, p
<1>5. Sends(d, n, s0, s, 0)
  BY <1>2, <1>4, OverhearOwnSends
<1> HIDE DEF s
<1>6. TextOK(d, n, s) /\ RouterOK(s)
  BY <1>5 DEF Sends, TextOK
<1> DEFINE c == IF Known(s, p) THEN AgainCost(n, p) ELSE RelayCost(n, p)
<1>7. c \in Nat /\ c <= RelayCost(n, p) /\ AgainCost(n, p) \in Nat
  BY DEF AgainCost, RelayCost
<1>8. Sends(d, n, s, t, c)
  <2> HIDE DEF d
  <2>1. CASE Known(s, p)
    <3>1. Sends(d, n, s, Duplicate(n, s, p), AgainCost(n, p))
      BY <1>3, <1>6, DuplicateSends
    <3> HIDE DEF t
    <3>2. QED
      BY <1>2, <2>1, <3>1
  <2>2. CASE ~Known(s, p)
    <3> DEFINE s1 == Saw(n, s, p)
    <3>1. Sends(d, n, s, s1, 0)
      BY <1>2, <1>6, SawSends
    <3> HIDE DEF s1
    <3>2. TextOK(d, n, s1)
      BY <3>1 DEF Sends
    <3>3. Sends(d, n, s1, Sniff(n, s1, p), RelayCost(n, p))
      BY <1>3, <3>2, SniffSends
    <3>4. t = Sniff(n, s1, p) /\ c = RelayCost(n, p)
      BY <1>2, <2>2 DEF s1
    <3> HIDE DEF t, c
    <3>5. Sends(d, n, s, t, 0 + c) /\ 0 + c = c
      BY <1>6, <1>7, <3>1, <3>3, <3>4, SendsTrans
    <3>6. QED
      BY <3>5
  <2>3. QED
    BY <2>1, <2>2
<1>9. TextKey \in DOMAIN node[n].hist => c <= AgainCost(n, p)
  <2>1. CASE IsText(p)
    BY <1>2, <1>7, <2>1 DEF Known, Keeps, IsText
  <2>2. CASE ~IsText(p)
    BY <2>2 DEF AgainCost, RelayCost
  <2>3. QED
    BY <2>1, <2>2
<1> HIDE DEF c, t, d
<1>10. Sends(d, n, s0, t, c) /\ TextOK(d, n, t) /\ RouterOK(t)
  <2>1. Sends(d, n, s0, t, 0 + c) /\ 0 + c = c
    BY <1>2, <1>5, <1>7, <1>8, SendsTrans
  <2>2. QED
    BY <2>1 DEF Sends, TextOK
<1>11. n = Source => Load(t) <= Load(node[n])
  <2>1. SUFFICES ASSUME n = Source PROVE Load(t) <= Load(node[n])
    OBVIOUS
  <2>2. c = 0
    BY <1>7, <2>1 DEF RelayCost
  <2>3. Load(s0) = Load(node[n])
    <3>1. s0.queue = node[n].queue /\ s0.pend = node[n].pend
      BY <1>1 DEF s0, RouterOK, Fields
    <3>2. QED
      BY <3>1 DEF Load, TriesLeft
  <2>4. Load(t) <= Load(s0) + 0 /\ Load(s0) \in Nat /\ Load(t) \in Nat
    BY <1>2, <1>10, <2>1, <2>2, LoadType DEF Sends
  <2>5. QED
    BY <2>3, <2>4
<1>12. ASSUME d = Broadcast, n # Source PROVE Budget(t, sentBy[n], sentBy[Source])
  <2>1. Budget(node[n], sentBy[n], sentBy[Source]) /\ sentBy[n] \in Nat /\ sentBy[Source] \in Nat
    BY <1>12, RoutingAssumption DEF TextInv, d
  <2>2. DOMAIN node[n].hist \subseteq DOMAIN t.hist
    BY <1>2 DEF Keeps
  <2>3. Sends(Broadcast, n, s0, t, c)
    BY <1>10, <1>12
  <2>4. p = Head(node[n].rx) /\ s0 = [node[n] EXCEPT !.rx = Tail(@)] /\ n \in Nodes \ {Source}
    BY <1>12 DEF p, s0
  <2>5. QED
    BY <1>1, <1>2, <1>7, <1>9, <2>1, <2>2, <2>3, <2>4, BudgetHandles
<1>13. sentBy' \in [Nodes -> Nat]
  BY <1>1 DEF TextInv
<1>14. QED
  BY <1>1, <1>2, <1>10, <1>11, <1>12, <1>13, OneNodeText DEF d, t

(* A retransmission record with one try less.                                *)
LEMMA RetryRecordSends ==
  ASSUME NEW d, NEW n \in Nodes, NEW s, TextOK(d, n, s), NEW k \in DOMAIN s.pend,
         NEW p \in Outgoing(d, n), Key(p) = k, p.ack = s.pend[k].pkt.ack,
         s.pend[k].left > 0, NEW e, e.pkt = p, e.left = s.pend[k].left - 1,
         NEW t, RouterOK(t), t.queue = s.queue, t.rx = s.rx, t.ids = s.ids,
         t.pend = [s.pend EXCEPT ![k] = e]
  PROVE  TextOK(d, n, t) /\ t.rx = s.rx /\ Load(t) = Load(s) - Cost(p)
<1>1. RouterOK(s) /\ s.pend[k].left \in 0..NUM_RELIABLE_RETX - 1
      /\ p \in Packet /\ NUM_RELIABLE_RETX \in Nat
  BY RoutingAssumption DEF TextOK, RouterOK, RouterType, Outgoing, Incoming
<1>2. /\ DOMAIN t.pend = DOMAIN s.pend
      /\ t.pend[k] = e /\ \A j \in DOMAIN s.pend \ {k} : t.pend[j] = s.pend[j]
  OBVIOUS
<1>3. TextOK(d, n, t)
  BY <1>2 DEF TextOK
<1>4. TriesLeft(t) = TriesLeft(s) - Cost(p) /\ TriesLeft(s) \in Nat
  <2>1. TriesLeft(s) \in Nat
    BY <1>1, LoadType
  <2>2. CASE k = TextKey
    BY <1>2, <2>1, <2>2 DEF TriesLeft, Cost, IsText
  <2>3. CASE k # TextKey
    BY <1>2, <2>1, <2>3 DEF TriesLeft, Cost, IsText
  <2>4. QED
    BY <2>1, <2>2, <2>3
<1>5. Load(t) = Load(s) - Cost(p)
  <2>1. Count(s.queue, TextCopies) \in Nat /\ Cost(p) \in Nat
    BY <1>1, LoadType DEF Cost
  <2>2. QED
    BY <1>2, <1>4, <2>1 DEF Load
<1>6. QED
  BY <1>2, <1>3, <1>5

(* A try of Source is one of those counted; a relay repeats no broadcast.    *)
LEMMA DoRetransmissionText ==
  ASSUME TextInv, NEW n \in Nodes, NEW k, DoRetransmission(n, k)
  PROVE  TextInv'
<1> DEFINE d == Dest
           s == node[n]
           e == s.pend[k]
           fallback == e.pkt.to # Broadcast /\ e.left = 1
           p == IF fallback THEN [e.pkt EXCEPT !.next = NoNode] ELSE e.pkt
           e1 == [pkt |-> p, left |-> e.left - 1]
           r1 == IF fallback THEN [s.route EXCEPT ![p.to] = NoNode] ELSE s.route
           s1 == [s EXCEPT !.pend[k] = e1, !.route = r1]
           nak == IF k[1] = n THEN SendAckNak(n, s, TRUE, n, k[2], HopLimit, FALSE) ELSE s
           t == node'[n]
<1>1. /\ NodesInv /\ NodesInv' /\ mesh' = mesh /\ sentBy' = sentBy
      /\ k \in DOMAIN s.pend /\ TextOK(d, n, s) /\ RouterOK(s) /\ DOMAIN node = Nodes
      /\ node' = [node EXCEPT ![n] =
           CASE e.left = 0 -> StopRetransmission(n, nak, k)
             [] e.left > 0 /\ (fallback \/ p.to = Broadcast) -> FloodSend(n, s1, p)
             [] OTHER -> NextHopSend(n, s1, p)]
  <2>1. \E j \in Keys : j = k
    BY DEF DoRetransmission, Due, Keys
  <2>2. Next /\ NodesInv
    BY <2>1 DEF Next, TextInv
  <2>3. NodesInv'
    BY <2>2, NextNodes
  <2>4. QED
    BY <2>2, <2>3 DEF TextInv, NodesInv, DoRetransmission, Due
<1>2. /\ DOMAIN node' = Nodes /\ \A m \in Nodes \ {n} : node'[m] = node[m]
      /\ Keeps(s, t)
  BY <1>1, DoRetransmissionMoves
<1>3. /\ e.left \in Nat /\ Key(e.pkt) = k /\ e.pkt \in Outgoing(d, n)
  BY <1>1, RoutingAssumption DEF RouterOK, RouterType, TextOK

<1>4. ASSUME e.left = 0 PROVE Sends(d, n, s, t, 0)
  <2>1. t = StopRetransmission(n, nak, k)
    BY <1>1, <1>4
  <2>2. Sends(d, n, s, nak, 0)
    <3>1. k[2] \in Nat /\ HopLimit \in 0..HopLimit
      BY <1>3, RoutingAssumption DEF Key, Packet, Outgoing, Incoming
    <3>2. QED
      BY <1>1, <3>1, SendAckNakSends, SendsNothing
  <2> HIDE DEF nak, t, s
  <2>3. TextOK(d, n, nak)
    BY <2>2 DEF Sends
  <2>4. Sends(d, n, nak, t, 0)
    BY <2>1, <2>3, StopSends
  <2>5. QED
    BY <1>1, <2>2, <2>4, SendsTrans
<1>5. ASSUME e.left # 0 PROVE Sends(d, n, s, t, 0)
  <2>1. /\ p \in Outgoing(d, n) /\ Key(p) = k /\ p.ack = e.pkt.ack
        /\ r1 \in [Nodes -> Hops] /\ p \in Packet
    <3>1. e.pkt \in Packet /\ s.route \in [Nodes -> Hops] /\ NoNode \in Hops
      BY <1>1, <1>3 DEF Outgoing, Incoming, RouterOK, RouterType, Hops
    <3>2. /\ p \in Packet /\ Key(p) = Key(e.pkt) /\ p.to = e.pkt.to /\ p.req = e.pkt.req
          /\ p.ack = e.pkt.ack /\ p.lim = e.pkt.lim /\ p.start = e.pkt.start
          /\ p.next \in {NoNode, e.pkt.next}
      BY <3>1 DEF Packet, Key
    <3> HIDE DEF p, s, e, d
    <3>3. p \in Outgoing(d, n)
      BY <1>3, <3>2 DEF Outgoing, Incoming, IsText
    <3>4. r1 \in [Nodes -> Hops]
      BY <3>1
    <3>5. QED
      BY <1>3, <3>2, <3>3, <3>4
  <2>2. /\ t \in {FloodSend(n, s1, p), NextHopSend(n, s1, p)}
        /\ p.to = Broadcast => t = FloodSend(n, s1, p)
    <3>1. e.left > 0
      BY <1>3, <1>5
    <3> HIDE DEF s1, p, fallback, e, nak, s
    <3>2. QED
      BY <1>1, <1>5, <3>1
  <2>3. e1.pkt = p /\ e1.left = e.left - 1 /\ e.left > 0
    BY <1>3, <1>5
  <2>4. IsText(p) /\ n = Source => p.ack
    BY <1>1, <2>1 DEF TextOK, IsText
  <2>5. IsText(p) => p.to = d
    <3> HIDE DEF p, d
    <3>1. QED
      BY <2>1 DEF Outgoing, Incoming
  <2> HIDE DEF p, r1, e1, d, fallback
  <2>6. TextOK(d, n, s1) /\ s1.rx = s.rx /\ Load(s1) = Load(s) - Cost(p)
    <3> DEFINE u == s1
    <3>1. /\ RouterOK(u) /\ u.queue = s.queue /\ u.rx = s.rx /\ u.ids = s.ids
          /\ u.pend = [s.pend EXCEPT ![k] = e1]
      <4>1. e1.left \in 0..NUM_RELIABLE_RETX - 1
        BY <1>1, <2>3, RoutingAssumption DEF RouterOK, RouterType
      <4>2. RouterOK(u)
        BY <1>1, <2>1, <2>3, <4>1, RetryRecordKeeps DEF Keeps
      <4>3. QED
        BY <1>1, <4>2 DEF RouterOK, Fields
    <3> HIDE DEF u
    <3>2. TextOK(d, n, u) /\ u.rx = s.rx /\ Load(u) = Load(s) - Cost(p)
      <4>1. s.pend[k].left > 0 /\ e1.left = s.pend[k].left - 1 /\ p.ack = s.pend[k].pkt.ack
        BY <2>1, <2>3
      <4>2. TextOK(d, n, s) /\ k \in DOMAIN s.pend
        BY <1>1
      <4> HIDE DEF s, e
      <4>3. QED
        BY <2>1, <2>3, <3>1, <4>1, <4>2, RetryRecordSends
    <3>3. QED
      BY <3>2 DEF u
  <2> HIDE DEF s1, t, s, e
  <2>7. Sends(d, n, s1, t, Cost(p))
    <3>1. Sends(d, n, s1, FloodSend(n, s1, p), Cost(p))
      BY <2>1, <2>6, FloodSendSends
    <3>2. CASE p.to = Broadcast
      BY <2>2, <3>1, <3>2
    <3>3. CASE p.to # Broadcast
      <4>1. IsText(p) => d # Broadcast /\ (n = Source => p.ack)
        BY <2>4, <2>5, <3>3
      <4>2. Sends(d, n, s1, NextHopSend(n, s1, p), Cost(p))
        BY <2>1, <2>6, <4>1, NextHopSendSends
      <4>3. QED
        BY <2>2, <3>1, <4>2
    <3>4. QED
      BY <3>2, <3>3
  <2>8. Load(s) \in Nat /\ Load(s1) \in Nat /\ Load(t) \in Nat /\ Cost(p) \in Nat
    BY <1>1, <2>6, <2>7, LoadType DEF TextOK, Sends, Cost
  <2>9. QED
    BY <2>6, <2>7, <2>8 DEF Sends
<1>6. Sends(d, n, s, t, 0) /\ TextOK(d, n, t) /\ RouterOK(t)
  BY <1>4, <1>5 DEF Sends, TextOK
<1>7. Load(t) <= Load(s) \/ ~(n = Source)
  <2>1. Load(s) \in Nat /\ Load(t) \in Nat
    BY <1>1, <1>6, LoadType
  <2> HIDE DEF t, s, d
  <2>2. QED
    BY <1>6, <2>1 DEF Sends
<1>8. ASSUME d = Broadcast, n # Source PROVE Budget(t, sentBy[n], sentBy[Source])
  <2>1. /\ Budget(s, sentBy[n], sentBy[Source]) /\ sentBy[n] \in Nat /\ sentBy[Source] \in Nat
    BY <1>8, RoutingAssumption DEF TextInv
  <2>2. DOMAIN s.hist \subseteq DOMAIN t.hist /\ Sends(Broadcast, n, s, t, 0)
    BY <1>2, <1>6, <1>8 DEF Keeps
  <2> HIDE DEF t, s, d
  <2>3. QED
    BY <1>1, <1>8, <2>1, <2>2, BudgetKept
<1>9. sentBy' \in [Nodes -> Nat]
  BY <1>1 DEF TextInv
<1>10. QED
  BY <1>1, <1>2, <1>6, <1>7, <1>8, <1>9, OneNodeText

LEMMA RebootText ==
  ASSUME TextInv, NEW n \in Nodes, Reboot(n)
  PROVE  TextInv'
<1>1. /\ NodesInv /\ NodesInv' /\ mesh' = mesh /\ n # Source
      /\ sentBy' = [sentBy EXCEPT ![n] = 0] /\ sentBy \in [Nodes -> Nat]
  BY NextNodes DEF TextInv, Reboot, Next
<1>2. /\ \A m \in Nodes \ {n} : node'[m] = node[m]
      /\ RouterOK(node'[n])
      /\ node'[n].hist = <<>> /\ node'[n].queue = <<>> /\ node'[n].rx = <<>>
      /\ node'[n].pend = <<>> /\ node'[n].ids > 0
  BY <1>1, RebootMoves DEF TextInv, TextOK
<1>3. /\ TextOK(Dest, n, node'[n])
      /\ \A bs \in Nat : Budget(node'[n], 0, bs)
  BY <1>2, BootSends
<1>4. /\ sentBy' \in [Nodes -> Nat] /\ sentBy'[n] = 0 /\ sentBy[Source] \in Nat
      /\ \A m \in Nodes \ {n} : sentBy'[m] = sentBy[m]
  BY <1>1, RoutingAssumption
<1>5. QED
  BY <1>1, <1>2, <1>3, <1>4, OneNodeText

LEMMA NextText == TextInv /\ [Next]_vars => TextInv'
<1> SUFFICES ASSUME TextInv, [Next]_vars PROVE TextInv'
  OBVIOUS
<1>1. CASE UNCHANGED vars
  BY <1>1 DEF vars, TextInv, NodesInv, Dest
<1>2. QED
  BY <1>1, TransmitText, HandleReceivedText, DoRetransmissionText, RebootText DEF Next

LEMMA TextInvariant == Spec => []TextInv
BY InitText, NextText, PTL DEF Spec

(* No node relays a broadcast more often than its sender has sent it,        *)
(* whatever is lost, however the copies cross and whoever restarts.          *)
THEOREM FloodLimited == Spec => []RelayBudget
<1>1. TextInv => RelayBudget
  <2>1. SUFFICES ASSUME TextInv, Dest = Broadcast, NEW n \in Nodes
                 PROVE  sentBy[n] <= sentBy[Source] + Cardinality({i \in DOMAIN
                          node[Source].queue : Key(node[Source].queue[i]) = TextKey})
    BY DEF RelayBudget
  <2>2. RouterOK(node[Source]) /\ RouterOK(node[n]) /\ sentBy[Source] \in Nat /\ sentBy[n] \in Nat
    BY <2>1, RoutingAssumption DEF TextInv, NodesInv
  <2>3. {i \in DOMAIN node[Source].queue : Key(node[Source].queue[i]) = TextKey}
          = Where(node[Source].queue, TextCopies)
    BY <2>2 DEF Where, TextCopies, IsText, RouterOK, RouterType
  <2>4. Count(node[Source].queue, TextCopies) \in Nat
    BY <2>2, LoadType
  <2>5. sentBy[n] <= sentBy[Source]
    <3>1. Load(node[n]) \in Nat /\ Count(node[n].rx, DirectCopies) \in Nat
      BY <2>2, LoadType, CountType DEF RouterOK, RouterType
    <3>2. n # Source => Budget(node[n], sentBy[n], sentBy[Source])
      BY <2>1 DEF TextInv
    <3>3. QED
      BY <2>2, <3>1, <3>2 DEF Budget
  <2>6. QED
    BY <2>2, <2>3, <2>4, <2>5 DEF Count
<1>2. QED
  BY <1>1, TextInvariant, PTL

(* The sender's own transmissions: each uses up a try.                       *)
THEOREM TriesLimited == Spec => []TriesBounded
<1>1. TextInv => TriesBounded
  <2>1. SUFFICES ASSUME TextInv PROVE sentBy[Source] <= NUM_RELIABLE_RETX
    BY DEF TriesBounded
  <2>2. /\ RouterOK(node[Source]) /\ sentBy[Source] \in Nat /\ NUM_RELIABLE_RETX \in Nat
        /\ sentBy[Source] + Load(node[Source]) <= NUM_RELIABLE_RETX
    BY <2>1, RoutingAssumption DEF TextInv, NodesInv
  <2>3. Load(node[Source]) \in Nat
    BY <2>2, LoadType
  <2>4. QED
    BY <2>2, <2>3
<1>2. QED
  BY <1>1, TextInvariant, PTL

=============================================================================
