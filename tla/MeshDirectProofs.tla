--------------------------- MODULE MeshDirectProofs ---------------------------
(***************************************************************************)
(* Proofs about the direct messages of MeshRouting, for every mesh: what    *)
(* the sender of a message that failed keeps of its next hop, and how often *)
(* any node transmits the message.                                          *)
(***************************************************************************)
EXTENDS MeshRoutingProofs

-----------------------------------------------------------------------------
(* Until the sender is told of an answer, all that travels is the text, its  *)
(* answers from d, and what the nodes tell themselves.                       *)

Answers(d, p) == p.from = d /\ p.to = Source /\ p.req = 0
Carried(d)    == {p \in Incoming(d) : ~p.err /\ (IsText(p) \/ Answers(d, p))}
Kept(d, n)    == {p \in Outgoing(d, n) : p \in Carried(d) /\ (n = Source => IsText(p))}

(* What sendAckNak puts into the node's own receive queue.                   *)
Own(n) == {p \in Packet : /\ p.from = n /\ p.to = n /\ p.id > 0
                          /\ p.next = NoNode /\ ~p.ack /\ (n = Source => p.req = 0)}

(* What a node gets to handle; an answer at Source ends the wait.            *)
Handled(d, n) == {p \in Carried(d) : n = Source => IsText(p)} \cup Own(n)

Only(d, n, s) ==
  /\ s.queue \in Seq(Kept(d, n)) /\ s.rx \in Seq(Carried(d) \cup Own(n))
  /\ \A k \in DOMAIN s.pend : s.pend[k].pkt \in Kept(d, n)
  /\ n = Source => \A k \in DOMAIN s.hist : k[1] = Source

(* The sender has given up, or will without a further flood.                 *)
Doomed(s) == \/ TextKey \in DOMAIN s.pend /\ s.pend[TextKey].left = 0
             \/ \E i \in DOMAIN s.rx : s.rx[i].err

(* An operator keeps to that, and the sender's route; its giving up is not   *)
(* decided in passing.                                                       *)
Stays(d, n, s, t) ==
  /\ Only(d, n, t)
  /\ n = Source => t.route = s.route /\ (Doomed(t) => Doomed(s))

LEMMA StaysTrans ==
  ASSUME NEW d, NEW n, NEW s, NEW t, NEW u, Stays(d, n, s, t), Stays(d, n, t, u)
  PROVE  Stays(d, n, s, u)
BY DEF Stays

LEMMA StaysSame ==
  ASSUME NEW d, NEW n, NEW s, Only(d, n, s)
  PROVE  Stays(d, n, s, s)
BY DEF Stays

(* Kept packets are told apart from what a node tells itself.                *)
LEMMA KeptKind ==
  ASSUME NEW d \in Nodes, NEW n \in Nodes, NEW p \in Kept(d, n)
  PROVE  /\ p \in Packet /\ p \in Outgoing(d, n) /\ p \in Incoming(d) /\ p \in Carried(d)
         /\ p \in Handled(d, n) /\ ~p.err /\ p.to # Broadcast
         /\ IsText(p) => p.to = d /\ p.req = -1 /\ p.from = Source /\ p.id = 0
         /\ n = Source => IsText(p) /\ p.from = Source
<1>1. Broadcast \notin Nodes /\ Source \in Nodes
  BY RoutingAssumption
<1>2. p \in Packet /\ p \in Outgoing(d, n) /\ p \in Incoming(d) /\ p \in Carried(d) /\ ~p.err
      /\ (n = Source => IsText(p))
  BY DEF Kept, Outgoing, Incoming, Carried
<1>3. IsText(p) => p.to = d /\ p.req = -1 /\ p.from = Source /\ p.id = 0
  BY <1>2 DEF Incoming, IsText, Key, TextKey
<1>4. p.to # Broadcast
  BY <1>1, <1>2, <1>3 DEF Carried, Answers
<1>5. QED
  BY <1>2, <1>3, <1>4 DEF Handled

(* Where the routes, the retransmissions and what was received stay.         *)
LEMMA SawStays ==
  ASSUME NEW d, NEW n \in Nodes, NEW s, RouterOK(s), Only(d, n, s), NEW p \in Packet,
         n = Source => p.from = Source
  PROVE  Stays(d, n, s, Saw(n, s, p))
<1> DEFINE t == Saw(n, s, p)
<1>1. /\ t.queue = s.queue /\ t.rx = s.rx /\ t.pend = s.pend /\ t.route = s.route
      /\ DOMAIN t.hist = DOMAIN s.hist \cup {Key(p)}
  BY DEF Saw, RouterOK, Fields
<1>2. Key(p)[1] = p.from
  BY DEF Key
<1> HIDE DEF t
<1>3. Stays(d, n, s, t)
  BY <1>1, <1>2 DEF Stays, Only, Doomed
<1>4. QED
  BY <1>3 DEF t

LEMMA EnqueueStays ==
  ASSUME NEW d, NEW n \in Nodes, NEW s, RouterOK(s), Only(d, n, s), NEW p \in Kept(d, n)
  PROVE  Stays(d, n, s, Enqueue(s, p))
<1> DEFINE t == Enqueue(s, p)
<1>1. /\ t.queue = Append(s.queue, p) /\ t.rx = s.rx /\ t.pend = s.pend /\ t.route = s.route
      /\ t.hist = s.hist
  BY DEF Enqueue, RouterOK, Fields
<1>2. Append(s.queue, p) \in Seq(Kept(d, n))
  BY DEF Only
<1> HIDE DEF t
<1>3. Stays(d, n, s, t)
  BY <1>1, <1>2 DEF Stays, Only, Doomed
<1>4. QED
  BY <1>3 DEF t

(* A packet leaves the queue.                                                *)
LEMMA DropStays ==
  ASSUME NEW d, NEW n, NEW s, Only(d, n, s), NEW i \in DOMAIN s.queue,
         NEW t, t.queue = DropAt(s.queue, i), t.rx = s.rx, t.pend = s.pend,
         t.route = s.route, DOMAIN t.hist = DOMAIN s.hist
  PROVE  Stays(d, n, s, t)
<1>1. t.queue \in Seq(Kept(d, n))
  BY DropAtType DEF Only
<1>2. QED
  BY <1>1 DEF Stays, Only, Doomed

LEMMA CancelStays ==
  ASSUME NEW d, NEW n \in Nodes, NEW s, RouterOK(s), Only(d, n, s), NEW k
  PROVE  Stays(d, n, s, Cancel(n, s, k))
<1> DEFINE found == {i \in DOMAIN s.queue : Key(s.queue[i]) = k}
           j == FirstIn(s.queue, found)
           h == IF k \in DOMAIN s.hist THEN [s.hist EXCEPT ![k].by = @ \ {n}] ELSE s.hist
           t == Cancel(n, s, k)
<1>1. CASE found = {}
  BY <1>1, StaysSame DEF Cancel
<1>2. CASE found # {}
  <2>1. j \in DOMAIN s.queue
    <3>1. s.queue \in Seq(Packet)
      BY DEF RouterOK, RouterType
    <3>2. QED
      BY <1>2, <3>1, FirstInType
  <2>2. t = [s EXCEPT !.queue = DropAt(s.queue, j), !.hist = h] /\ DOMAIN h = DOMAIN s.hist
    BY <1>2 DEF Cancel
  <2> HIDE DEF t, h, j
  <2>3. /\ t.queue = DropAt(s.queue, j) /\ t.rx = s.rx /\ t.pend = s.pend
        /\ t.route = s.route /\ DOMAIN t.hist = DOMAIN s.hist
    BY <2>2 DEF RouterOK, Fields
  <2>4. Stays(d, n, s, t)
    BY <2>1, <2>3, DropStays
  <2>5. QED
    BY <2>4 DEF t
<1>3. QED
  BY <1>1, <1>2

LEMMA StopStays ==
  ASSUME NEW d, NEW n \in Nodes, NEW s, RouterOK(s), Only(d, n, s), NEW k
  PROVE  Stays(d, n, s, StopRetransmission(n, s, k))
<1> DEFINE s1 == IF s.pend[k].left < NUM_RELIABLE_RETX - 1
                    /\ (k[1] = n \/ AllowsCanceling(n))
                 THEN Cancel(n, s, k) ELSE s
           t == StopRetransmission(n, s, k)
<1>1. CASE k \notin DOMAIN s.pend
  BY <1>1, StaysSame DEF StopRetransmission
<1>2. CASE k \in DOMAIN s.pend
  <2>1. Stays(d, n, s, s1) /\ RouterOK(s1)
    BY CancelStays, CancelKeeps, StaysSame DEF Keeps
  <2>2. t = [s1 EXCEPT !.pend = [j \in DOMAIN @ \ {k} |-> @[j]]]
    BY <1>2 DEF StopRetransmission
  <2> HIDE DEF t, s1
  <2>3. /\ t.queue = s1.queue /\ t.rx = s1.rx /\ t.route = s1.route /\ t.hist = s1.hist
        /\ DOMAIN t.pend = DOMAIN s1.pend \ {k}
        /\ \A j \in DOMAIN t.pend : t.pend[j] = s1.pend[j]
    BY <2>1, <2>2 DEF RouterOK, Fields
  <2>4. Stays(d, n, s1, t)
    BY <2>1, <2>3 DEF Stays, Only, Doomed
  <2>5. Stays(d, n, s, t)
    BY <2>1, <2>4, StaysTrans
  <2>6. QED
    BY <2>5 DEF t
<1>3. QED
  BY <1>1, <1>2

(* A new record of Source has more than one try.                             *)
LEMMA StartStays ==
  ASSUME NEW d, NEW n \in Nodes, NEW s, RouterOK(s), Only(d, n, s), NEW p \in Kept(d, n),
         NEW tries \in 1..NUM_RELIABLE_RETX, n = Source => tries >= 2
  PROVE  Stays(d, n, s, StartRetransmission(n, s, p, tries))
<1> DEFINE s1 == StopRetransmission(n, s, Key(p))
           t  == StartRetransmission(n, s, p, tries)
           e  == [pkt |-> p, left |-> tries - 1]
<1>1. Stays(d, n, s, s1) /\ RouterOK(s1)
  BY StopStays, StopKeeps DEF Keeps
<1>2. t = [s1 EXCEPT !.pend = [k \in DOMAIN @ \cup {Key(p)} |->
                                 IF k = Key(p) THEN e ELSE @[k]]]
  BY DEF StartRetransmission
<1>3. e.pkt = p /\ (n = Source => e.left # 0)
  BY RoutingAssumption
<1> HIDE DEF t, s1, e
<1>4. /\ t.queue = s1.queue /\ t.rx = s1.rx /\ t.route = s1.route /\ t.hist = s1.hist
      /\ DOMAIN t.pend = DOMAIN s1.pend \cup {Key(p)} /\ t.pend[Key(p)] = e
      /\ \A j \in DOMAIN s1.pend \ {Key(p)} : t.pend[j] = s1.pend[j]
  BY <1>1, <1>2 DEF RouterOK, Fields
<1>5. n = Source /\ Doomed(t) => Doomed(s1)
  <2>1. SUFFICES ASSUME n = Source, TextKey \in DOMAIN t.pend, t.pend[TextKey].left = 0
                 PROVE  Doomed(s1)
    BY <1>4 DEF Doomed
  <2>2. TextKey # Key(p)
    BY <1>3, <1>4, <2>1
  <2>3. QED
    BY <1>4, <2>1, <2>2 DEF Doomed
<1>6. Stays(d, n, s1, t)
  BY <1>1, <1>3, <1>4, <1>5 DEF Stays, Only
<1>7. Stays(d, n, s, t)
  BY <1>1, <1>6, StaysTrans
<1>8. QED
  BY <1>7 DEF t

(* What sending changes of a packet does not matter here.                    *)
LEMMA KeptLike ==
  ASSUME NEW d \in Nodes, NEW n \in Nodes, NEW p \in Kept(d, n), NEW q \in Packet,
         Key(q) = Key(p), q.to = p.to, q.req = p.req, q.err = p.err, q.lim = p.lim,
         q.start = p.start \/ (p.from = n /\ q.start = p.lim)
  PROVE  q \in Kept(d, n)
<1>1. d # Broadcast /\ Source \in Nodes
  BY RoutingAssumption
<1>2. /\ p \in Outgoing(d, n) /\ ~p.err /\ (IsText(p) \/ Answers(d, p))
      /\ (n = Source => IsText(p)) /\ (IsText(p) => p.from = Source /\ p.start = HopLimit)
  BY KeptKind DEF Kept, Carried, Incoming
<1>3. q.from = p.from /\ (IsText(q) <=> IsText(p))
  BY DEF Key, IsText
<1>4. IsText(p) => q.start = HopLimit
  BY <1>2 DEF Outgoing
<1>5. q \in Incoming(d) /\ q \in Outgoing(d, n)
  BY <1>1, <1>2, <1>3, <1>4 DEF Outgoing, Incoming
<1>6. QED
  BY <1>2, <1>3, <1>5 DEF Kept, Carried, Answers

LEMMA RouterSendStays ==
  ASSUME NEW d \in Nodes, NEW n \in Nodes, NEW s, RouterOK(s), Only(d, n, s), NEW p \in Kept(d, n)
  PROVE  Stays(d, n, s, RouterSend(n, s, p))
<1> DEFINE q == [p EXCEPT !.ack = @ /\ p.to # Broadcast, !.relay = n,
                          !.start = IF p.from = n THEN p.lim ELSE @]
<1>1. p \in Packet
  BY KeptKind
<1>2. /\ q \in Packet /\ Key(q) = Key(p) /\ q.to = p.to /\ q.req = p.req /\ q.err = p.err
      /\ q.lim = p.lim /\ (q.start = p.start \/ (p.from = n /\ q.start = p.lim))
  BY <1>1 DEF Packet, Key
<1>3. RouterSend(n, s, p) = Enqueue(s, q)
  BY DEF RouterSend
<1> HIDE DEF q
<1>4. q \in Kept(d, n)
  BY <1>2, KeptLike
<1>5. QED
  BY <1>3, <1>4, EnqueueStays

LEMMA FloodSendStays ==
  ASSUME NEW d \in Nodes, NEW n \in Nodes, NEW s, RouterOK(s), Only(d, n, s), NEW p \in Kept(d, n)
  PROVE  Stays(d, n, s, FloodSend(n, s, p))
<1> DEFINE q  == [p EXCEPT !.relay = n]
           s1 == Saw(n, s, q)
<1>1. p \in Packet /\ (n = Source => p.from = Source)
  BY KeptKind
<1>2. /\ q \in Packet /\ Key(q) = Key(p) /\ q.to = p.to /\ q.req = p.req /\ q.err = p.err
      /\ q.lim = p.lim /\ q.start = p.start /\ q.from = p.from
  BY <1>1 DEF Packet, Key
<1>3. FloodSend(n, s, p) = RouterSend(n, s1, q)
  BY DEF FloodSend
<1> HIDE DEF q
<1>4. q \in Kept(d, n)
  BY <1>2, KeptLike
<1>5. Stays(d, n, s, s1) /\ RouterOK(s1)
  BY <1>1, <1>2, SawStays, SawKeeps DEF Keeps
<1> HIDE DEF s1
<1>6. Stays(d, n, s1, RouterSend(n, s1, q))
  BY <1>4, <1>5, RouterSendStays DEF Stays
<1>7. QED
  BY <1>3, <1>5, <1>6, StaysTrans

(* Source does not start a record anew for a text that wants an answer.      *)
LEMMA NextHopSendStays ==
  ASSUME NEW d \in Nodes, NEW n \in Nodes, NEW s, RouterOK(s), Only(d, n, s), NEW p \in Kept(d, n),
         n = Source => p.ack
  PROVE  Stays(d, n, s, NextHopSend(n, s, p))
<1> DEFINE r  == [p EXCEPT !.relay = n]
           q  == [p EXCEPT !.relay = n, !.next = GetNextHop(n, s, p.to)]
           s1 == Saw(n, s, r)
           again == /\ p.from # n \/ ~p.ack
                    /\ q.next # NoNode
                    /\ p.lim > 0 \/ p.ack
           s2 == IF again THEN StartRetransmission(n, s1, q, NUM_INTERMEDIATE_RETX) ELSE s1
<1>1. p \in Packet /\ (n = Source => p.from = Source)
  BY KeptKind
<1>2. GetNextHop(n, s, p.to) \in Hops
  BY <1>1, RoutingAssumption DEF GetNextHop, Hops, Packet, RouterOK, RouterType
<1>3. /\ q \in Packet /\ Key(q) = Key(p) /\ q.to = p.to /\ q.req = p.req /\ q.err = p.err
      /\ q.lim = p.lim /\ q.start = p.start /\ r \in Packet /\ r.from = p.from
  BY <1>1, <1>2 DEF Packet, Key
<1>4. NextHopSend(n, s, p) = RouterSend(n, s2, q)
  BY DEF NextHopSend
<1>5. again => n # Source
  BY <1>1
<1> HIDE DEF q, again, r
<1>6. q \in Kept(d, n)
  BY <1>3, KeptLike
<1>7. Stays(d, n, s, s1) /\ RouterOK(s1) /\ Only(d, n, s1)
  BY <1>1, <1>3, SawStays, SawKeeps DEF Keeps, Stays
<1>8. NUM_INTERMEDIATE_RETX \in 1..NUM_RELIABLE_RETX /\ q \in Packet
  BY <1>3, RoutingAssumption
<1> HIDE DEF s1
<1>9. Stays(d, n, s1, s2) /\ RouterOK(s2)
  <2>1. CASE again
    <3> DEFINE u == StartRetransmission(n, s1, q, NUM_INTERMEDIATE_RETX)
    <3>1. Stays(d, n, s1, u)
      BY <1>5, <1>6, <1>7, <1>8, <2>1, StartStays
    <3>2. RouterOK(u)
      BY <1>7, <1>8, StartKeeps DEF Keeps
    <3>3. QED
      BY <2>1, <3>1, <3>2
  <2>2. CASE ~again
    BY <1>7, <2>2, StaysSame
  <2>3. QED
    BY <2>1, <2>2
<1> HIDE DEF s2
<1>10. Stays(d, n, s2, RouterSend(n, s2, q))
  BY <1>6, <1>9, RouterSendStays DEF Stays
<1>11. QED
  BY <1>4, <1>7, <1>9, <1>10, StaysTrans

(* A node other than Source sends an answer of its own with all its tries.   *)
LEMMA ReliableSendStays ==
  ASSUME NEW d \in Nodes, NEW n \in Nodes, NEW s, RouterOK(s), Only(d, n, s), NEW p \in Kept(d, n),
         n = Source => p.ack
  PROVE  Stays(d, n, s, ReliableSend(n, s, p))
<1> DEFINE s1 == IF p.ack THEN StartRetransmission(n, s, p, NUM_RELIABLE_RETX) ELSE s
<1>1. NUM_RELIABLE_RETX \in 1..NUM_RELIABLE_RETX /\ NUM_RELIABLE_RETX >= 2
      /\ p \in Packet /\ p.to # Broadcast
  BY KeptKind, RoutingAssumption
<1>2. Stays(d, n, s, s1) /\ RouterOK(s1)
  BY <1>1, StartStays, StartKeeps, StaysSame DEF Keeps
<1>3. ReliableSend(n, s, p) = NextHopSend(n, s1, p)
  BY <1>1 DEF ReliableSend
<1> HIDE DEF s1
<1>4. Stays(d, n, s1, NextHopSend(n, s1, p))
  BY <1>2, NextHopSendStays DEF Stays
<1>5. QED
  BY <1>2, <1>3, <1>4, StaysTrans

(* A node tells itself something, or d answers the text.                     *)
LEMMA SendAckNakStays ==
  ASSUME NEW d \in Nodes \ {Source}, NEW n \in Nodes, NEW s, RouterOK(s), s.ids > 0, Only(d, n, s),
         NEW err \in BOOLEAN, NEW to \in Nodes, NEW id \in Nat, NEW lim \in 0..HopLimit,
         NEW wantsAck \in BOOLEAN,
         to = n => /\ ~wantsAck
                   /\ n = Source => id = 0 /\ (err => Doomed(s)),
         to # n => n = d /\ to = Source /\ id = 0 /\ ~err
  PROVE  Stays(d, n, s, SendAckNak(n, s, err, to, id, lim, wantsAck))
<1> DEFINE p == [from |-> n, id |-> s.ids, to |-> to, req |-> id, err |-> err,
                 ack |-> wantsAck, lim |-> lim, start |-> lim,
                 next |-> NoNode, relay |-> n]
           s1 == [s EXCEPT !.ids = @ + 1]
           s2 == [s1 EXCEPT !.rx = Append(@, p)]
<1>1. s.ids \in Nat
  BY DEF RouterOK, RouterType
<1>2. /\ p \in Packet /\ ~IsText(p) /\ p.from = n /\ p.to = to /\ p.req = id /\ p.err = err
      /\ p.ack = wantsAck /\ p.next = NoNode /\ p.id = s.ids
  BY <1>1 DEF Packet, Hops, IsText, Key, TextKey
<1>3. SendAckNak(n, s, err, to, id, lim, wantsAck)
        = IF to = n THEN s2 ELSE ReliableSend(n, s1, p)
  BY DEF SendAckNak
<1> HIDE DEF p
<1>4. CASE to = n
  <2>1. p \in Own(n)
    BY <1>2, <1>4 DEF Own
  <2>2. /\ s2.queue = s.queue /\ s2.pend = s.pend /\ s2.route = s.route /\ s2.hist = s.hist
        /\ s2.rx = Append(s.rx, p)
    BY DEF RouterOK, Fields
  <2> HIDE DEF s2
  <2>3. s.rx \in Seq(Carried(d) \cup Own(n))
    BY DEF Only
  <2>4. /\ s2.rx \in Seq(Carried(d) \cup Own(n))
        /\ \A i \in DOMAIN s2.rx : (i \in DOMAIN s.rx /\ s2.rx[i] = s.rx[i]) \/ s2.rx[i] = p
    BY <2>1, <2>2, <2>3
  <2>5. n = Source /\ Doomed(s2) => Doomed(s)
    BY <1>2, <1>4, <2>2, <2>4 DEF Doomed
  <2>6. Stays(d, n, s, s2)
    BY <2>2, <2>4, <2>5 DEF Stays, Only
  <2>7. QED
    BY <1>3, <1>4, <2>6
<1>5. CASE to # n
  <2>1. p \in Kept(d, n) /\ n # Source
    BY <1>2, <1>5 DEF Kept, Outgoing, Incoming, Carried, Answers
  <2>2. /\ s1.queue = s.queue /\ s1.pend = s.pend /\ s1.route = s.route /\ s1.hist = s.hist
        /\ s1.rx = s.rx /\ RouterOK(s1)
    BY DEF RouterOK, RouterType, Fields
  <2> HIDE DEF s1
  <2>3. Stays(d, n, s, s1) /\ Only(d, n, s1)
    BY <2>2 DEF Stays, Only, Doomed
  <2>4. Stays(d, n, s1, ReliableSend(n, s1, p))
    BY <2>1, <2>2, <2>3, ReliableSendStays
  <2>5. QED
    BY <1>3, <1>5, <2>3, <2>4, StaysTrans
<1>6. QED
  BY <1>4, <1>5

(* Source relays nothing it handles, and nobody what is its own.             *)
LEMMA RebroadcastStays ==
  ASSUME NEW d \in Nodes, NEW n \in Nodes, NEW s, RouterOK(s), Only(d, n, s), NEW p \in Handled(d, n)
  PROVE  /\ Stays(d, n, s, Rebroadcast(n, s, p))
         /\ n = Source => ~MayRelay(n, p)
<1>1. n = Source => p.from = Source
  BY DEF Handled, IsText, Key, TextKey, Own
<1>2. CASE ~MayRelay(n, p)
  BY <1>2, StaysSame DEF Rebroadcast
<1>3. CASE MayRelay(n, p)
  <2> DEFINE q == [p EXCEPT !.lim = IF Decrements(n, p) THEN @ - 1 ELSE @]
  <2>1. n # p.from /\ n # Source /\ p \in Carried(d) /\ p \in Incoming(d)
    BY <1>1, <1>3 DEF MayRelay, Handled, Own, Carried
  <2>2. Rebroadcast(n, s, p) = IF p.next = NoNode THEN FloodSend(n, s, q)
                                                  ELSE NextHopSend(n, s, q)
    BY <1>3 DEF Rebroadcast
  <2>3. /\ q \in Outgoing(d, n) /\ Key(q) = Key(p) /\ q.to = p.to /\ q.from = p.from
        /\ q.req = p.req /\ q.err = p.err
    BY <1>3, <2>1, RelayedCopy
  <2> HIDE DEF q
  <2>4. q \in Kept(d, n)
    BY <2>1, <2>3 DEF Kept, Carried, Outgoing, IsText, Answers
  <2>5. QED
    BY <2>1, <2>2, <2>4, FloodSendStays, NextHopSendStays
<1>4. QED
  BY <1>1, <1>2, <1>3 DEF MayRelay

(* What a node may have to answer is the text, at its destination.           *)
LEMMA HandledKind ==
  ASSUME NEW d \in Nodes \ {Source}, NEW n \in Nodes, NEW p \in Handled(d, n)
  PROVE  /\ p \in Packet /\ p \in Incoming(d) /\ p.to # Broadcast
         /\ n = Source => p.from = Source /\ (p.req < 0 \/ p.from = n)
                          /\ (p.req >= 0 => p \in Own(n))
         /\ p.to = n /\ (p.ack \/ p.next = n) => n = d /\ p.from = Source /\ p.id = 0
<1>1. Broadcast \notin Nodes /\ NoNode \notin Nodes /\ Source \in Nodes
  BY RoutingAssumption
<1>2. CASE p \in Own(n)
  <2>1. p \in Packet /\ ~IsText(p) /\ p.to = n /\ ~p.ack /\ p.next = NoNode /\ p.from = n
    BY <1>2 DEF Own, IsText, Key, TextKey
  <2>2. QED
    BY <1>1, <1>2, <2>1 DEF Incoming
<1>3. CASE p \in Carried(d) /\ (n = Source => IsText(p))
  <2>1. p \in Packet /\ p \in Incoming(d) /\ (IsText(p) \/ Answers(d, p))
    BY <1>3 DEF Carried, Incoming
  <2>2. IsText(p) => p.to = d /\ p.req = -1 /\ p.from = Source /\ p.id = 0
    BY <2>1 DEF Incoming, IsText, Key, TextKey
  <2>3. QED
    BY <1>1, <1>3, <2>1, <2>2 DEF Answers
<1>4. QED
  BY <1>2, <1>3 DEF Handled

LEMMA UpgradeStays ==
  ASSUME NEW d \in Nodes \ {Source}, NEW n \in Nodes, NEW s, RouterOK(s), Only(d, n, s),
         NEW p \in Handled(d, n), Worse(s, p) # {}
  PROVE  Stays(d, n, s, Upgrade(n, s, p))
<1> DEFINE j  == FirstIn(s.queue, Worse(s, p))
           s1 == [s EXCEPT !.queue = DropAt(s.queue, j)]
<1>1. s.queue \in Seq(Packet) /\ Worse(s, p) \subseteq DOMAIN s.queue
  BY DEF RouterOK, RouterType, Worse
<1>2. j \in DOMAIN s.queue
  BY <1>1, FirstInType
<1>3. Upgrade(n, s, p) = Rebroadcast(n, s1, p)
  BY DEF Upgrade
<1> HIDE DEF j
<1>4. DropAt(s.queue, j) \in Seq(Packet)
  BY <1>1, <1>2, DropAtType
<1>5. /\ RouterOK(s1) /\ s1.queue = DropAt(s.queue, j) /\ s1.rx = s.rx /\ s1.pend = s.pend
      /\ s1.route = s.route /\ s1.hist = s.hist
  BY <1>4 DEF RouterOK, RouterType, Fields
<1> HIDE DEF s1
<1>6. Stays(d, n, s, s1)
  BY <1>2, <1>5, DropStays
<1>7. Stays(d, n, s1, Rebroadcast(n, s1, p))
  BY <1>5, <1>6, RebroadcastStays DEF Stays
<1>8. QED
  BY <1>3, <1>6, <1>7, StaysTrans

LEMMA AgainStays ==
  ASSUME NEW d \in Nodes \ {Source}, NEW n \in Nodes, NEW s, TextOK(d, n, s), Only(d, n, s),
         NEW p \in Handled(d, n)
  PROVE  Stays(d, n, s, Again(n, s, p)) /\ Stays(d, n, s, AckAgain(n, s, p))
<1>1. /\ RouterOK(s) /\ s.ids > 0 /\ 0 \in 0..HopLimit /\ p.from \in Nodes /\ p.id \in Nat
      /\ p.to = n /\ p.ack => n = d /\ p.from = Source /\ p.id = 0
  BY HandledKind, RoutingAssumption DEF TextOK, Packet
<1>2. Stays(d, n, s, s) /\ Stays(d, n, s, Rebroadcast(n, s, p))
  BY <1>1, RebroadcastStays, StaysSame
<1>3. p.to = n /\ p.ack => Stays(d, n, s, SendAckNak(n, s, FALSE, p.from, p.id, 0, FALSE))
  <2>1. SUFFICES ASSUME p.to = n, p.ack
                 PROVE  Stays(d, n, s, SendAckNak(n, s, FALSE, p.from, p.id, 0, FALSE))
    OBVIOUS
  <2>2. n = d /\ p.from = Source /\ p.id = 0 /\ p.from # n
    BY <1>1, <2>1
  <2>3. QED
    BY <1>1, <2>2, SendAckNakStays
<1>4. QED
  BY <1>2, <1>3 DEF Again, AckAgain

LEMMA NextHopDupeStays ==
  ASSUME NEW d \in Nodes \ {Source}, NEW n \in Nodes, NEW old, NEW s, TextOK(d, n, s),
         Only(d, n, s), NEW p \in Handled(d, n)
  PROVE  Stays(d, n, s, NextHopDupe(n, old, s, p))
<1> DEFINE s1 == StopRetransmission(n, s, Key(p))
<1>1. Stays(d, n, s, s1) /\ TextOK(d, n, s1) /\ RouterOK(s1)
  <2>1. RouterOK(s) /\ Sends(d, n, s, s1, 0)
    BY StopSends DEF TextOK
  <2>2. QED
    BY <2>1, StopStays DEF Sends, TextOK
<1>2. NextHopDupe(n, old, s, p) \in {Again(n, s1, p), AckAgain(n, s1, p), s1, CancelDupe(n, s1, p)}
  BY DEF NextHopDupe
<1> HIDE DEF s1
<1>3. Only(d, n, s1)
  BY <1>1 DEF Stays
<1>4. Stays(d, n, s1, Again(n, s1, p)) /\ Stays(d, n, s1, AckAgain(n, s1, p))
  BY <1>1, <1>3, AgainStays
<1>5. Stays(d, n, s1, s1) /\ Stays(d, n, s1, CancelDupe(n, s1, p))
  BY <1>1, <1>3, StaysSame, CancelStays DEF CancelDupe
<1>6. Stays(d, n, s1, NextHopDupe(n, old, s, p))
  BY <1>2, <1>4, <1>5
<1>7. QED
  BY <1>1, <1>6, StaysTrans

LEMMA OverhearOwnStays ==
  ASSUME NEW d \in Nodes \ {Source}, NEW n \in Nodes, NEW s, TextOK(d, n, s), Only(d, n, s),
         NEW p \in Packet
  PROVE  Stays(d, n, s, OverhearOwn(n, s, p))
<1> DEFINE s1 == SendAckNak(n, s, FALSE, n, p.id, HopLimit, FALSE)
           t  == OverhearOwn(n, s, p)
<1>1. CASE ~(p.from = n /\ Key(p) \in DOMAIN s.pend)
  BY <1>1, StaysSame DEF OverhearOwn
<1>2. CASE p.from = n /\ Key(p) \in DOMAIN s.pend
  <2>1. RouterOK(s) /\ s.ids > 0 /\ p.id \in Nat /\ HopLimit \in 0..HopLimit
    BY RoutingAssumption DEF TextOK, Packet
  <2>2. n = Source => p.id = 0
    <3>1. SUFFICES ASSUME n = Source PROVE p.id = 0
      OBVIOUS
    <3>2. s.pend[Key(p)].pkt \in Kept(d, n) /\ Key(s.pend[Key(p)].pkt) = Key(p)
      BY <1>2, <2>1 DEF Only, RouterOK, RouterType
    <3>3. IsText(s.pend[Key(p)].pkt)
      BY <3>1, <3>2 DEF Kept
    <3>4. QED
      BY <3>2, <3>3 DEF IsText, Key, TextKey
  <2>3. Stays(d, n, s, s1) /\ RouterOK(s1)
    BY <2>1, <2>2, SendAckNakStays, SendAckNakKeeps DEF Keeps
  <2>4. t = StopRetransmission(n, s1, Key(p))
    BY <1>2 DEF OverhearOwn
  <2> HIDE DEF s1, t
  <2>5. Stays(d, n, s1, t)
    BY <2>3, <2>4, StopStays DEF Stays
  <2>6. Stays(d, n, s, t)
    BY <2>3, <2>5, StaysTrans
  <2>7. QED
    BY <2>6 DEF t
<1>3. QED
  BY <1>1, <1>2

LEMMA DuplicateStays ==
  ASSUME NEW d \in Nodes \ {Source}, NEW n \in Nodes, NEW s, TextOK(d, n, s), Only(d, n, s),
         NEW p \in Handled(d, n)
  PROVE  Stays(d, n, s, Duplicate(n, s, p))
<1> DEFINE s1 == Saw(n, s, p)
<1>1. p \in Packet /\ p.to # Broadcast /\ RouterOK(s) /\ (n = Source => p.from = Source)
  BY HandledKind DEF TextOK
<1>2. Sends(d, n, s, s1, 0) /\ Stays(d, n, s, s1)
  BY <1>1, SawSends, SawStays
<1>3. Worse(s1, p) = Worse(s, p)
  BY <1>1 DEF Worse, Saw, RouterOK, Fields
<1>4. /\ Upgrades(n, s, p) => Duplicate(n, s, p) = Upgrade(n, s1, p)
      /\ ~Upgrades(n, s, p) => Duplicate(n, s, p) = NextHopDupe(n, s, s1, p)
  BY <1>1 DEF Duplicate
<1> HIDE DEF s1
<1>5. TextOK(d, n, s1) /\ RouterOK(s1) /\ Only(d, n, s1)
  BY <1>2 DEF Sends, TextOK, Stays
<1>6. Upgrades(n, s, p) => Worse(s1, p) # {}
  BY <1>3 DEF Upgrades
<1>7. Stays(d, n, s1, Duplicate(n, s, p))
  BY <1>4, <1>5, <1>6, UpgradeStays, NextHopDupeStays
<1>8. QED
  BY <1>2, <1>7, StaysTrans

(* What Source handles teaches it no route.                                  *)
LEMMA SniffStays ==
  ASSUME NEW d \in Nodes \ {Source}, NEW n \in Nodes, NEW s, TextOK(d, n, s), Only(d, n, s),
         NEW p \in Handled(d, n)
  PROVE  Stays(d, n, s, Sniff(n, s, p))
<1> DEFINE a  == Acknowledge(n, s, p)
           s1 == IF p.to # n THEN s
                 ELSE IF p.req >= 0 THEN StopRetransmission(n, a, <<n, p.req>>) ELSE a
           r  == LearnRoute(n, s1, p)
           k  == <<p.to, p.req>>
           u  == StopForOthers(n, r, p)
<1>1. /\ p \in Packet /\ p.to # Broadcast /\ RouterOK(s) /\ s.ids > 0
      /\ n = Source => p.req < 0 \/ p.from = n
      /\ p.to = n /\ (p.ack \/ p.next = n) => n = d /\ p.from = Source /\ p.id = 0
  BY HandledKind DEF TextOK
<1>2. Sniff(n, s, p) = Rebroadcast(n, u, p)
  BY <1>1 DEF Sniff
<1>3. p.to = n => Stays(d, n, s, a) /\ RouterOK(a)
  <2>1. SUFFICES ASSUME p.to = n PROVE Stays(d, n, s, a) /\ RouterOK(a)
    OBVIOUS
  <2>2. p.from \in Nodes /\ p.id \in Nat /\ 0 \in 0..HopLimit /\ HopLimitForResponse(p) \in 0..HopLimit
    BY <1>1, RoutingAssumption, ResponseType DEF Packet
  <2>3. CASE p.ack \/ p.next = n
    <3>1. n = d /\ p.from = Source /\ p.id = 0 /\ p.from # n
      BY <1>1, <2>1, <2>3
    <3>2. /\ Stays(d, n, s, SendAckNak(n, s, FALSE, p.from, p.id, HopLimitForResponse(p), TRUE))
          /\ Stays(d, n, s, SendAckNak(n, s, FALSE, p.from, p.id, 0, FALSE))
          /\ Stays(d, n, s, s)
      BY <1>1, <2>2, <3>1, SendAckNakStays, StaysSame
    <3>3. /\ Keeps(s, SendAckNak(n, s, FALSE, p.from, p.id, HopLimitForResponse(p), TRUE))
          /\ Keeps(s, SendAckNak(n, s, FALSE, p.from, p.id, 0, FALSE))
          /\ Keeps(s, s)
      BY <1>1, <2>2, SendAckNakKeeps DEF Keeps
    <3>4. QED
      BY <3>2, <3>3 DEF Acknowledge, Keeps
  <2>4. CASE ~p.ack /\ p.next # n
    <3>1. a = s
      BY <2>4 DEF Acknowledge
    <3>2. QED
      BY <1>1, <3>1, StaysSame
  <2>5. QED
    BY <2>3, <2>4
<1> HIDE DEF a
<1>4. Stays(d, n, s, s1) /\ RouterOK(s1)
  <2>1. CASE p.to # n
    BY <1>1, <2>1, StaysSame
  <2>2. CASE p.to = n
    <3>1. Stays(d, n, s, a) /\ RouterOK(a) /\ Only(d, n, a)
      BY <1>3, <2>2 DEF Stays
    <3>2. /\ Stays(d, n, a, StopRetransmission(n, a, <<n, p.req>>))
          /\ RouterOK(StopRetransmission(n, a, <<n, p.req>>))
      BY <3>1, StopStays, StopKeeps DEF Keeps
    <3>3. Stays(d, n, s, StopRetransmission(n, a, <<n, p.req>>))
      BY <3>1, <3>2, StaysTrans
    <3>4. QED
      BY <2>2, <3>1, <3>2, <3>3
  <2>3. QED
    BY <2>1, <2>2
<1> HIDE DEF s1
<1>5. Stays(d, n, s1, r) /\ RouterOK(r)
  <2>1. r = s1 \/ (n # Source /\ r = [s1 EXCEPT !.route[p.from] = RelayOf(p)])
    BY <1>1 DEF LearnRoute, Packet
  <2>2. p.from \in Nodes /\ RelayOf(p) \in Hops
    BY <1>1 DEF RelayOf, Packet, Hops
  <2> HIDE DEF r
  <2>3. /\ RouterOK(r) /\ r.queue = s1.queue /\ r.rx = s1.rx /\ r.pend = s1.pend /\ r.hist = s1.hist
        /\ n = Source => r.route = s1.route
    BY <1>4, <2>1, <2>2 DEF RouterOK, RouterType, Fields
  <2>4. QED
    BY <1>4, <2>3 DEF Stays, Only, Doomed
<1> HIDE DEF r
<1>6. Stays(d, n, r, u) /\ RouterOK(u)
  <2> DEFINE c == Cancel(n, r, k)
  <2>1. Only(d, n, r)
    BY <1>5 DEF Stays
  <2>2. Stays(d, n, r, c) /\ RouterOK(c) /\ Only(d, n, c)
    BY <1>5, <2>1, CancelStays, CancelKeeps DEF Stays, Keeps
  <2>3. u = IF p.req < 0 \/ p.to = n THEN r ELSE StopRetransmission(n, c, k)
    BY DEF StopForOthers
  <2> HIDE DEF c, u
  <2>4. Stays(d, n, c, StopRetransmission(n, c, k)) /\ RouterOK(StopRetransmission(n, c, k))
    BY <2>2, StopStays, StopKeeps DEF Keeps
  <2>5. Stays(d, n, r, StopRetransmission(n, c, k)) /\ Stays(d, n, r, r)
    BY <2>1, <2>2, <2>4, StaysTrans, StaysSame
  <2>6. QED
    BY <1>5, <2>3, <2>4, <2>5
<1>7. Stays(d, n, s, u)
  BY <1>4, <1>5, <1>6, StaysTrans
<1> HIDE DEF u
<1>8. Stays(d, n, u, Rebroadcast(n, u, p))
  BY <1>6, <1>7, RebroadcastStays DEF Stays
<1>9. QED
  BY <1>2, <1>7, <1>8, StaysTrans

-----------------------------------------------------------------------------
(* The next hop that the sender keeps.                                       *)

(* A direct message whose sender has not been told of an answer.             *)
Quiet == Dest # Broadcast /\ \A i \in DOMAIN outcomes : outcomes[i] # "ack"

HopInv ==
  /\ TextInv /\ outcomes \in Seq({"ack", "nak"})
  /\ Quiet => /\ \A n \in Nodes : Only(Dest, n, node[n])
              /\ Doomed(node[Source]) \/ outcomes # <<>> => node[Source].route[Dest] = NoNode

LEMMA QuietDest ==
  ASSUME TextInv, Dest # Broadcast
  PROVE  Dest \in Nodes \ {Source} /\ Source \in Nodes
BY RoutingAssumption DEF TextInv, NodesInv, Dest

LEMMA BootStays ==
  ASSUME NEW d, NEW n, NEW s, s.queue = <<>>, s.rx = <<>>, s.pend = <<>>, s.hist = <<>>
  PROVE  Only(d, n, s) /\ ~Doomed(s)
<1>1. DOMAIN s.pend = {} /\ DOMAIN s.rx = {} /\ DOMAIN s.hist = {}
  OBVIOUS
<1>2. QED
  BY <1>1 DEF Only, Doomed

LEMMA InitHop == Init => HopInv
<1> SUFFICES ASSUME Init PROVE HopInv
  OBVIOUS
<1>1. /\ TextInv /\ outcomes = <<>> /\ mesh \in Meshes
      /\ node = [n \in Nodes |-> IF n = Source THEN ReliableSend(n, Boot(n), Text) ELSE Boot(n)]
  BY InitText DEF Init
<1>2. outcomes \in Seq({"ack", "nak"})
  BY <1>1
<1>3. ASSUME Dest # Broadcast
      PROVE  /\ \A n \in Nodes : Only(Dest, n, node[n])
             /\ ~Doomed(node[Source])
  <2> DEFINE d == Dest
             s == Boot(Source)
  <2>1. d \in Nodes \ {Source} /\ Source \in Nodes
    BY <1>1, <1>3, QuietDest
  <2>2. ASSUME NEW n \in Nodes
        PROVE  Only(d, n, Boot(n)) /\ ~Doomed(Boot(n)) /\ RouterOK(Boot(n)) /\ Text \in Packet
    <3>1. /\ Boot(n).queue = <<>> /\ Boot(n).rx = <<>> /\ Boot(n).pend = <<>>
          /\ Boot(n).hist = <<>>
      BY DEF Boot
    <3>2. QED
      BY <1>1, <3>1, BootStays, BootOK
  <2>3. Text \in Kept(d, Source) /\ Text.ack
    <3>1. Text \in Packet
      BY <2>1, <2>2
    <3>2. QED
      BY <2>1, <3>1 DEF Text, Kept, Carried, Outgoing, Incoming, IsText, Key, TextKey
  <2> HIDE DEF d, s
  <2>4. Stays(d, Source, s, ReliableSend(Source, s, Text))
    BY <2>1, <2>2, <2>3, ReliableSendStays DEF s
  <2>5. node[Source] = ReliableSend(Source, s, Text)
        /\ \A n \in Nodes \ {Source} : node[n] = Boot(n)
    BY <1>1, <2>1 DEF s
  <2>6. Only(d, Source, node[Source]) /\ ~Doomed(node[Source])
    BY <2>1, <2>2, <2>4, <2>5 DEF Stays, s
  <2>7. QED
    BY <2>2, <2>5, <2>6 DEF d
<1>4. QED
  BY <1>1, <1>2, <1>3 DEF HopInv, Quiet

LEMMA OneNodeHop ==
  ASSUME HopInv, TextInv', mesh' = mesh, NEW n \in Nodes,
         \A m \in Nodes \ {n} : node'[m] = node[m],
         outcomes' \in Seq({"ack", "nak"}), Quiet' => Quiet, n # Source => outcomes' = outcomes,
         Quiet' => Only(Dest, n, node'[n]),
         Quiet' /\ n = Source /\ (Doomed(node'[n]) \/ outcomes' # <<>>)
           => node'[n].route[Dest] = NoNode
  PROVE  HopInv'
<1>1. Dest' = Dest /\ Source \in Nodes
  BY RoutingAssumption DEF Dest
<1>2. SUFFICES ASSUME Quiet'
               PROVE  /\ \A m \in Nodes : Only(Dest, m, node'[m])
                      /\ Doomed(node'[Source]) \/ outcomes' # <<>>
                           => node'[Source].route[Dest] = NoNode
  BY <1>1 DEF HopInv
<1>3. Quiet /\ \A m \in Nodes : Only(Dest, m, node[m])
  BY <1>2 DEF HopInv
<1>4. \A m \in Nodes : Only(Dest, m, node'[m])
  BY <1>2, <1>3
<1>5. CASE n = Source
  BY <1>2, <1>4, <1>5
<1>6. CASE n # Source
  BY <1>1, <1>2, <1>3, <1>4, <1>6 DEF HopInv
<1>7. QED
  BY <1>5, <1>6

(* A packet on the air carries no failure.                                   *)
LEMMA TransmitHop ==
  ASSUME HopInv, NEW n \in Nodes, Transmit(n)
  PROVE  HopInv'
<1>1. PICK i \in DOMAIN node[n].queue, Deaf \in SUBSET Neighbours[n] :
        node' = [m \in Nodes |->
          IF m = n THEN [node[n] EXCEPT !.queue = DropAt(@, i)]
          ELSE IF m \in Neighbours[n] \ Deaf
          THEN [node[m] EXCEPT !.rx = Append(@, node[n].queue[i])] ELSE node[m]]
  BY DEF Transmit
<1>2. /\ TextInv /\ TextInv' /\ mesh' = mesh /\ Dest' = Dest /\ outcomes' = outcomes
      /\ Source \in Nodes /\ (Quiet' <=> Quiet)
  BY TransmitText, RoutingAssumption DEF HopInv, Transmit, Dest, Quiet
<1>3. SUFFICES ASSUME Quiet
               PROVE  \A m \in Nodes : Stays(Dest, m, node[m], node'[m])
  BY <1>2 DEF HopInv, Stays
<1> DEFINE d == Dest
           p == node[n].queue[i]
<1>4. \A m \in Nodes : RouterOK(node[m]) /\ Only(d, m, node[m])
  BY <1>2, <1>3 DEF HopInv, TextInv, NodesInv
<1>5. p \in Carried(d) /\ ~p.err
  <2>1. node[n].queue \in Seq(Kept(d, n)) /\ i \in DOMAIN node[n].queue
    BY <1>4 DEF Only
  <2>2. p \in Kept(d, n)
    BY <2>1
  <2>3. QED
    BY <2>2 DEF Kept, Carried
<1>6. SUFFICES ASSUME NEW m \in Nodes PROVE Stays(d, m, node[m], node'[m])
  OBVIOUS
<1>7. RouterOK(node[m]) /\ Only(d, m, node[m])
  BY <1>4
<1>8. CASE m = n
  <2> DEFINE t == [node[n] EXCEPT !.queue = DropAt(@, i)]
  <2>1. node'[m] = t
    BY <1>1, <1>8
  <2>2. /\ t.queue = DropAt(node[n].queue, i) /\ t.rx = node[n].rx /\ t.pend = node[n].pend
        /\ t.route = node[n].route /\ t.hist = node[n].hist
    BY <1>7, <1>8 DEF RouterOK, Fields
  <2> HIDE DEF t
  <2>3. QED
    BY <1>7, <1>8, <2>1, <2>2, DropStays
<1>9. CASE m # n /\ m \in Neighbours[n] \ Deaf
  <2> DEFINE s == node[m]
             t == [s EXCEPT !.rx = Append(@, p)]
  <2>1. node'[m] = t
    BY <1>1, <1>9
  <2>2. /\ t.rx = Append(s.rx, p) /\ t.queue = s.queue /\ t.pend = s.pend
        /\ t.route = s.route /\ t.hist = s.hist
    BY <1>7 DEF RouterOK, Fields
  <2> HIDE DEF p, d, t, s
  <2>3. s.rx \in Seq(Carried(d) \cup Own(m))
    BY <1>7 DEF Only, s
  <2>4. /\ t.rx \in Seq(Carried(d) \cup Own(m))
        /\ \A j \in DOMAIN t.rx : (j \in DOMAIN s.rx /\ t.rx[j] = s.rx[j]) \/ t.rx[j] = p
    BY <1>5, <2>2, <2>3
  <2>5. Doomed(t) => Doomed(s)
    BY <1>5, <2>2, <2>4 DEF Doomed
  <2>6. Stays(d, m, s, t)
    BY <1>7, <2>2, <2>4, <2>5 DEF Stays, Only, s
  <2>7. QED
    BY <2>1, <2>6 DEF s
<1>10. CASE m # n /\ m \notin Neighbours[n] \ Deaf
  BY <1>1, <1>7, <1>10, StaysSame
<1>11. QED
  BY <1>8, <1>9, <1>10

(* An answer ends the wait; a failure is handled after the flood.            *)
LEMMA HandleReceivedHop ==
  ASSUME HopInv, NEW n \in Nodes, HandleReceived(n)
  PROVE  HopInv'
<1> DEFINE d  == Dest
           p  == Head(node[n].rx)
           s0 == [node[n] EXCEPT !.rx = Tail(@)]
           s  == OverhearOwn(n, s0, p)
           t  == node'[n]
           up == ~Known(s, p) /\ p.to \in {n, Broadcast}
<1>1. /\ TextInv /\ TextInv' /\ NodesInv /\ mesh' = mesh /\ Dest' = d
      /\ node[n].rx # <<>> /\ TextOK(d, n, node[n]) /\ RouterOK(node[n])
      /\ outcomes \in Seq({"ack", "nak"})
  BY HandleReceivedText DEF HopInv, TextInv, NodesInv, HandleReceived, Dest
<1>2. outcomes' = IF up /\ n = Source /\ p.req = 0
                  THEN Append(outcomes, IF p.err THEN "nak" ELSE "ack") ELSE outcomes
  BY DEF HandleReceived
<1>3. /\ p \in Packet /\ RouterOK(s0) /\ s0.hist = node[n].hist
      /\ \A m \in Nodes \ {n} : node'[m] = node[m]
      /\ t = IF Known(s, p) THEN Duplicate(n, s, p) ELSE Sniff(n, Saw(n, s, p), p)
  BY <1>1, HandleReceivedMoves
<1>4. /\ s0.rx = Tail(node[n].rx) /\ s0.queue = node[n].queue /\ s0.pend = node[n].pend
      /\ s0.route = node[n].route /\ s0.ids = node[n].ids
  BY <1>1 DEF RouterOK, Fields
<1>5. TextOK(d, n, s0)
  <2>1. Tail(node[n].rx) \in Seq(Incoming(d))
    BY <1>1 DEF TextOK
  <2> HIDE DEF s0, d
  <2>2. QED
    BY <1>1, <1>3, <1>4, <2>1 DEF TextOK
<1>6. /\ outcomes' \in Seq({"ack", "nak"}) /\ (n # Source => outcomes' = outcomes)
      /\ Quiet' => Quiet
      /\ outcomes' # outcomes /\ Quiet' => p.err
  <2> DEFINE o == IF p.err THEN "nak" ELSE "ack"
  <2>1. CASE outcomes' = outcomes
    BY <1>1, <1>2, <2>1 DEF Quiet
  <2>2. CASE outcomes' # outcomes
    <3>1. outcomes' = Append(outcomes, o) /\ n = Source /\ o \in {"ack", "nak"}
      BY <1>2, <2>2
    <3> HIDE DEF o
    <3>2. /\ outcomes' \in Seq({"ack", "nak"})
          /\ DOMAIN outcomes \subseteq DOMAIN outcomes'
          /\ \A i \in DOMAIN outcomes : outcomes'[i] = outcomes[i]
          /\ Len(outcomes) + 1 \in DOMAIN outcomes' /\ outcomes'[Len(outcomes) + 1] = o
      BY <1>1, <3>1
    <3>3. Quiet' => Quiet /\ o # "ack"
      BY <1>1, <3>2 DEF Quiet
    <3>4. QED
      BY <3>1, <3>2, <3>3 DEF o
  <2>3. QED
    BY <2>1, <2>2
<1>7. SUFFICES ASSUME Quiet', Quiet
               PROVE  /\ Only(d, n, t)
                      /\ n = Source /\ (Doomed(t) \/ outcomes' # <<>>) => t.route[d] = NoNode
  <2> HIDE DEF t, d
  <2>1. QED
    BY <1>1, <1>3, <1>6, OneNodeHop DEF t, d
<1>8. /\ Only(d, n, node[n]) /\ d \in Nodes \ {Source}
      /\ n = Source /\ (Doomed(node[n]) \/ outcomes # <<>>) => node[n].route[d] = NoNode
  BY <1>1, <1>7, QuietDest DEF HopInv, Quiet
<1>9. Stays(d, n, node[n], s0)
  <2>1. node[n].rx \in Seq(Carried(d) \cup Own(n))
    BY <1>8 DEF Only
  <2>2. /\ Tail(node[n].rx) \in Seq(Carried(d) \cup Own(n))
        /\ \A i \in DOMAIN Tail(node[n].rx) : /\ i + 1 \in DOMAIN node[n].rx
                                              /\ Tail(node[n].rx)[i] = node[n].rx[i + 1]
    BY <1>1, <2>1
  <2> HIDE DEF s0, d
  <2>3. Doomed(s0) => Doomed(node[n])
    BY <1>4, <2>2 DEF Doomed
  <2>4. QED
    BY <1>3, <1>4, <1>8, <2>2, <2>3 DEF Stays, Only
<1>10. p \in Carried(d) \cup Own(n) /\ (p.err => Doomed(node[n]))
  <2>1. node[n].rx \in Seq(Carried(d) \cup Own(n))
    BY <1>8 DEF Only
  <2>2. 1 \in DOMAIN node[n].rx /\ p = node[n].rx[1] /\ p \in Carried(d) \cup Own(n)
    BY <1>1, <2>1
  <2>3. QED
    BY <2>2 DEF Doomed
<1>11. CASE p \in Handled(d, n)
  <2> HIDE DEF s0, p, d
  <2>1. Only(d, n, s0)
    BY <1>9 DEF Stays
  <2>2. Stays(d, n, s0, s) /\ Sends(d, n, s0, s, 0)
    BY <1>3, <1>5, <1>8, <2>1, OverhearOwnStays, OverhearOwnSends
  <2> HIDE DEF s
  <2>3. TextOK(d, n, s) /\ Only(d, n, s) /\ RouterOK(s)
    BY <2>2 DEF Sends, Stays, TextOK
  <2>4. Stays(d, n, s, Duplicate(n, s, p))
    BY <1>8, <1>11, <2>3, DuplicateStays
  <2>5. Stays(d, n, s, Sniff(n, Saw(n, s, p), p))
    <3> DEFINE s1 == Saw(n, s, p)
    <3>1. p \in Packet /\ (n = Source => p.from = Source)
      BY <1>8, <1>11, HandledKind
    <3>2. Stays(d, n, s, s1) /\ Sends(d, n, s, s1, 0)
      BY <2>3, <3>1, SawStays, SawSends
    <3> HIDE DEF s1
    <3>3. Stays(d, n, s1, Sniff(n, s1, p))
      BY <1>8, <1>11, <3>2, SniffStays DEF Stays, Sends
    <3>4. Stays(d, n, s, Sniff(n, s1, p))
      BY <3>2, <3>3, StaysTrans
    <3>5. QED
      BY <3>4 DEF s1
  <2>6. Stays(d, n, s, t)
    BY <1>3, <2>4, <2>5
  <2>7. Stays(d, n, node[n], t)
    BY <1>9, <2>2, <2>6, StaysTrans
  <2> HIDE DEF t
  <2>8. n = Source /\ (Doomed(t) \/ outcomes' # <<>>) => t.route[d] = NoNode
    BY <1>6, <1>7, <1>8, <1>10, <2>7 DEF Stays
  <2>9. QED
    BY <2>7, <2>8 DEF Stays
<1>12. CASE p \notin Handled(d, n)
  <2>1. n = Source /\ p.from = d /\ p.to = n /\ p.req = 0 /\ ~p.err /\ p.from # n
    BY <1>8, <1>10, <1>12 DEF Handled, Carried, Answers
  <2>2. s = s0 /\ ~Known(s, p)
    <3>1. s = s0
      BY <2>1 DEF OverhearOwn
    <3>2. Key(p)[1] = p.from
      BY DEF Key
    <3>3. \A k \in DOMAIN s0.hist : k[1] = Source
      BY <1>3, <1>8, <2>1 DEF Only
    <3> HIDE DEF s, s0, p
    <3>4. QED
      BY <2>1, <3>1, <3>2, <3>3 DEF Known
  <2>3. outcomes' = Append(outcomes, "ack")
    <3> HIDE DEF s, p
    <3>1. QED
      BY <1>2, <2>1, <2>2
  <2>4. outcomes' # outcomes
    BY <1>1, <2>3
  <2>5. QED
    BY <1>6, <1>7, <2>1, <2>4
<1>13. QED
  BY <1>11, <1>12

(* The last try resets the hop; what fails after it has nothing to forget.   *)
LEMMA DoRetransmissionHop ==
  ASSUME HopInv, NEW n \in Nodes, NEW k, DoRetransmission(n, k)
  PROVE  HopInv'
<1> DEFINE d == Dest
           s == node[n]
           e == s.pend[k]
           fallback == e.pkt.to # Broadcast /\ e.left = 1
           p == IF fallback THEN [e.pkt EXCEPT !.next = NoNode] ELSE e.pkt
           e1 == [pkt |-> p, left |-> e.left - 1]
           r1 == IF fallback THEN [s.route EXCEPT ![p.to] = NoNode] ELSE s.route
           s1 == [s EXCEPT !.pend[k] = e1, !.route = r1]
           nak == IF k[1] = n THEN SendAckNak(n, s, TRUE, n, k[2], HopLimit, FALSE) ELSE s
           t == node'[n]
<1>1. /\ TextInv /\ TextInv' /\ mesh' = mesh /\ Dest' = d /\ outcomes' = outcomes
      /\ outcomes \in Seq({"ack", "nak"}) /\ (Quiet' <=> Quiet)
      /\ k \in DOMAIN s.pend /\ TextOK(d, n, s) /\ RouterOK(s) /\ DOMAIN node = Nodes
      /\ node' = [node EXCEPT ![n] =
           CASE e.left = 0 -> StopRetransmission(n, nak, k)
             [] e.left > 0 /\ (fallback \/ p.to = Broadcast) -> FloodSend(n, s1, p)
             [] OTHER -> NextHopSend(n, s1, p)]
  BY DoRetransmissionText DEF HopInv, TextInv, NodesInv, DoRetransmission, Due, Dest, Quiet
<1>2. \A m \in Nodes \ {n} : node'[m] = node[m]
  BY <1>1
<1>3. SUFFICES ASSUME Quiet
               PROVE  /\ Only(d, n, t)
                      /\ n = Source /\ (Doomed(t) \/ outcomes # <<>>) => t.route[d] = NoNode
  <2> HIDE DEF t, d
  <2>1. QED
    BY <1>1, <1>2, OneNodeHop DEF t, d
<1>4. /\ Only(d, n, s) /\ d \in Nodes \ {Source}
      /\ n = Source /\ (Doomed(s) \/ outcomes # <<>>) => s.route[d] = NoNode
  BY <1>1, <1>3, QuietDest DEF HopInv, Quiet
<1>5. /\ e.left \in Nat /\ Key(e.pkt) = k /\ e.pkt \in Kept(d, n) /\ e.pkt \in Packet
      /\ e.pkt.to # Broadcast /\ e.left \in 0..NUM_RELIABLE_RETX - 1
      /\ n = Source => IsText(e.pkt) /\ k = TextKey /\ e.pkt.to = d /\ e.pkt.ack
  <2>1. e.left \in Nat /\ Key(e.pkt) = k /\ e.pkt \in Kept(d, n) /\ e.left \in 0..NUM_RELIABLE_RETX - 1
    BY <1>1, <1>4, RoutingAssumption DEF RouterOK, RouterType, Only
  <2> HIDE DEF e, s, d
  <2>2. /\ e.pkt \in Packet /\ e.pkt.to # Broadcast
        /\ n = Source => IsText(e.pkt) /\ e.pkt.to = d
    BY <1>4, <2>1, KeptKind
  <2>3. n = Source => k = TextKey
    BY <2>1, <2>2 DEF IsText
  <2>4. n = Source => e.pkt.ack
    BY <1>1, <2>3 DEF TextOK, e
  <2>5. QED
    BY <2>1, <2>2, <2>3, <2>4
<1>6. CASE e.left = 0
  <2>1. t = StopRetransmission(n, nak, k)
    BY <1>1, <1>6
  <2>2. n = Source => k[2] = 0 /\ Doomed(s)
    BY <1>1, <1>5, <1>6 DEF Doomed, TextKey
  <2>3. k[2] \in Nat /\ HopLimit \in 0..HopLimit /\ s.ids > 0
    BY <1>1, <1>5, RoutingAssumption DEF Key, Packet, TextOK
  <2>4. Stays(d, n, s, nak) /\ RouterOK(nak)
    <3> HIDE DEF s, d
    <3>1. QED
      BY <1>1, <1>4, <2>2, <2>3, SendAckNakStays, SendAckNakKeeps, StaysSame DEF Keeps
  <2> HIDE DEF nak, t, s, d
  <2>5. Stays(d, n, nak, t)
    BY <2>1, <2>4, StopStays DEF Stays
  <2>6. Stays(d, n, s, t)
    BY <2>4, <2>5, StaysTrans
  <2>7. QED
    BY <1>4, <2>6 DEF Stays
<1>7. CASE e.left # 0
  <2>1. e1.pkt = p /\ e1.left = e.left - 1 /\ e1.left \in 0..NUM_RELIABLE_RETX - 1
    <3>1. e1.pkt = p /\ e1.left = e.left - 1
      OBVIOUS
    <3> HIDE DEF e1, e
    <3>2. QED
      BY <1>5, <1>7, <3>1, RoutingAssumption
  <2>2. /\ p \in Packet /\ Key(p) = k /\ p.to = e.pkt.to /\ p.req = e.pkt.req /\ p.err = e.pkt.err
        /\ p.ack = e.pkt.ack /\ p.lim = e.pkt.lim /\ p.start = e.pkt.start
    BY <1>5 DEF Packet, Key, Hops
  <2>3. r1 \in [Nodes -> Hops] /\ (e.left # 1 => r1 = s.route)
        /\ (n = Source /\ e.left = 1 => r1[d] = NoNode)
    BY <1>1, <1>4, <1>5, <2>2 DEF RouterOK, RouterType, Hops
  <2>4. t \in {FloodSend(n, s1, p), NextHopSend(n, s1, p)}
    <3>1. e.left > 0
      BY <1>5, <1>7
    <3> HIDE DEF s1, p, fallback, e, nak, s
    <3>2. QED
      BY <1>1, <1>7, <3>1
  <2> HIDE DEF p, r1, e1, d, fallback
  <2>5. p \in Kept(d, n) /\ (n = Source => p.ack)
    BY <1>4, <1>5, <2>2, KeptLike
  <2>6. /\ RouterOK(s1) /\ s1.queue = s.queue /\ s1.rx = s.rx /\ s1.hist = s.hist
        /\ s1.route = r1 /\ DOMAIN s1.pend = DOMAIN s.pend /\ s1.pend[k] = e1
        /\ \A j \in DOMAIN s.pend \ {k} : s1.pend[j] = s.pend[j]
    <3>1. RouterOK(s1)
      BY <1>1, <2>1, <2>2, <2>3, RetryRecordKeeps DEF Keeps
    <3>2. QED
      BY <1>1, <3>1 DEF RouterOK, Fields
  <2> HIDE DEF s1, e, s, t
  <2>7. Only(d, n, s1)
    BY <1>4, <2>1, <2>5, <2>6 DEF Only
  <2>8. Stays(d, n, s1, t)
    BY <1>4, <2>4, <2>5, <2>6, <2>7, FloodSendStays, NextHopSendStays
  <2>9. n = Source /\ (Doomed(s1) \/ outcomes # <<>>) => s1.route[d] = NoNode
    <3>1. SUFFICES ASSUME n = Source, Doomed(s1) \/ outcomes # <<>>, e.left # 1
                   PROVE  s.route[d] = NoNode
      BY <2>3, <2>6
    <3>2. s1.pend[TextKey].left # 0
      BY <1>5, <1>7, <2>1, <2>6, <3>1
    <3>3. Doomed(s1) => Doomed(s)
      BY <2>6, <3>2 DEF Doomed
    <3>4. QED
      BY <1>4, <3>1, <3>3
  <2>10. QED
    BY <2>8, <2>9 DEF Stays
<1>8. QED
  BY <1>6, <1>7

LEMMA RebootHop ==
  ASSUME HopInv, NEW n \in Nodes, Reboot(n)
  PROVE  HopInv'
<1>1. /\ TextInv /\ TextInv' /\ NodesInv /\ mesh' = mesh /\ outcomes' = outcomes /\ n # Source
      /\ (Quiet' <=> Quiet) /\ outcomes \in Seq({"ack", "nak"})
  BY RebootText DEF HopInv, TextInv, Reboot, Quiet, Dest
<1>2. /\ \A m \in Nodes \ {n} : node'[m] = node[m]
      /\ node'[n].queue = <<>> /\ node'[n].rx = <<>> /\ node'[n].pend = <<>> /\ node'[n].hist = <<>>
  BY <1>1, RebootMoves
<1>3. Only(Dest, n, node'[n])
  BY <1>2, BootStays
<1>4. QED
  BY <1>1, <1>2, <1>3, OneNodeHop

LEMMA NextHop == HopInv /\ [Next]_vars => HopInv'
<1> SUFFICES ASSUME HopInv, [Next]_vars PROVE HopInv'
  OBVIOUS
<1>1. CASE UNCHANGED vars
  <2>1. TextInv'
    BY <1>1, NextText DEF HopInv
  <2>2. QED
    BY <1>1, <2>1 DEF vars, HopInv, Quiet, Dest
<1>2. QED
  BY <1>1, TransmitHop, HandleReceivedHop, DoRetransmissionHop, RebootHop DEF Next

(* A sender that is told of a failure, and of nothing else, keeps no next    *)
(* hop for the destination, whatever answers are still on their way.         *)
THEOREM FailedHopForgotten == Spec => []FailedForgetsHop
<1>1. HopInv => FailedForgetsHop
  <2>1. SUFFICES ASSUME HopInv, Dest # Broadcast, outcomes = <<"nak">>
                 PROVE  node[Source].route[Dest] = NoNode
    BY DEF FailedForgetsHop
  <2>2. Quiet
    BY <2>1 DEF Quiet
  <2>3. outcomes # <<>>
    BY <2>1
  <2>4. QED
    BY <2>1, <2>2, <2>3 DEF HopInv
<1>2. Spec => []HopInv
  BY InitHop, NextHop, PTL DEF Spec
<1>3. QED
  BY <1>1, <1>2, PTL

-----------------------------------------------------------------------------
(* Counting over all nodes: pairs of a node and one of its positions.        *)

Row(m, A) == {<<m, x>> : x \in A}
Pairs(F)  == UNION {Row(m, F[m]) : m \in Nodes}

LEMMA RowCount ==
  ASSUME NEW m, NEW A, IsFiniteSet(A)
  PROVE  IsFiniteSet(Row(m, A)) /\ Cardinality(Row(m, A)) = Cardinality(A)
<1> DEFINE f == [x \in A |-> <<m, x>>]
<1>1. f \in Bijection(A, Row(m, A))
  BY DEF Row, Bijection, Injection, IsInjective, Surjection
<1>2. ExistsBijection(A, Row(m, A))
  BY <1>1 DEF ExistsBijection
<1>3. QED
  BY <1>2, FS_Bijection

LEMMA PairsFinite ==
  ASSUME NEW F, \A m \in Nodes : IsFiniteSet(F[m])
  PROVE  IsFiniteSet(Pairs(F))
<1> DEFINE R == {Row(m, F[m]) : m \in Nodes}
           g == [m \in Nodes |-> Row(m, F[m])]
<1>1. g \in Surjection(Nodes, R)
  BY DEF Surjection
<1>2. IsFiniteSet(R)
  BY <1>1, RoutingAssumption, FS_Surjection
<1>3. \A T \in R : IsFiniteSet(T)
  BY RowCount
<1> HIDE DEF R
<1>4. IsFiniteSet(UNION R)
  BY <1>2, <1>3, FS_UNION
<1>5. QED
  BY <1>4 DEF Pairs, R

(* One node's row is exchanged.                                              *)
LEMMA PairsChange ==
  ASSUME NEW F, NEW G, \A m \in Nodes : IsFiniteSet(F[m]) /\ IsFiniteSet(G[m]),
         NEW n \in Nodes, \A m \in Nodes \ {n} : G[m] = F[m]
  PROVE  /\ Cardinality(Pairs(F)) \in Nat /\ Cardinality(Pairs(G)) \in Nat
         /\ Cardinality(F[n]) \in Nat /\ Cardinality(G[n]) \in Nat
         /\ Cardinality(F[n]) <= Cardinality(Pairs(F))
         /\ Cardinality(Pairs(G)) + Cardinality(F[n]) = Cardinality(Pairs(F)) + Cardinality(G[n])
<1> DEFINE R == UNION {Row(m, F[m]) : m \in Nodes \ {n}}
<1>1. IsFiniteSet(Pairs(F)) /\ IsFiniteSet(Pairs(G))
  BY PairsFinite
<1>2. /\ IsFiniteSet(Row(n, F[n])) /\ Cardinality(Row(n, F[n])) = Cardinality(F[n])
      /\ IsFiniteSet(Row(n, G[n])) /\ Cardinality(Row(n, G[n])) = Cardinality(G[n])
  BY RowCount
<1>3. Pairs(F) = R \cup Row(n, F[n]) /\ Pairs(G) = R \cup Row(n, G[n])
  BY DEF Pairs
<1>4. R \cap Row(n, F[n]) = {} /\ R \cap Row(n, G[n]) = {}
  BY DEF Row
<1>5. IsFiniteSet(R)
  BY <1>1, <1>3, FS_Subset
<1> HIDE DEF R
<1>6. Cardinality({}) = 0
  BY FS_EmptySet
<1>7. /\ Cardinality(R \cup Row(n, F[n])) = Cardinality(R) + Cardinality(Row(n, F[n])) - 0
      /\ Cardinality(R \cup Row(n, G[n])) = Cardinality(R) + Cardinality(Row(n, G[n])) - 0
  BY <1>2, <1>4, <1>5, <1>6, FS_Union
<1>8. /\ Cardinality(R) \in Nat /\ Cardinality(F[n]) \in Nat /\ Cardinality(G[n]) \in Nat
      /\ Cardinality(Pairs(F)) \in Nat /\ Cardinality(Pairs(G)) \in Nat
  BY <1>1, <1>2, <1>5, FS_CardinalityType
<1>9. QED
  BY <1>2, <1>3, <1>7, <1>8

-----------------------------------------------------------------------------
(* Directed copies.  A relay that is named as the next hop sends a copy and  *)
(* may repeat it; the name goes with the copy, so there are no more directed *)
(* copies than tries of the sender.  Those that count for a node whose       *)
(* history has hop limit h are the ones it would still relay: with a higher  *)
(* limit, or straight from the sender.                                       *)

Fresh(h)     == {p \in TextCopies : p.lim > h \/ p.lim = HopLimit}
LiveOut(h)   == {p \in Fresh(h) : p.next # NoNode}
LiveIn(m, h) == {p \in Fresh(h) : p.next = m}
LiveAt(m, s, h) == Count(s.queue, LiveOut(h)) + Count(s.rx, LiveIn(m, h))

Tokens(N, h) ==
  Cardinality(Pairs([m \in Nodes |-> Where(N[m].queue, LiveOut(h))]))
    + Cardinality(Pairs([m \in Nodes |-> Where(N[m].rx, LiveIn(m, h))]))

LEMMA LiveType ==
  ASSUME NEW m, NEW s, RouterOK(s), NEW h
  PROVE  /\ LiveAt(m, s, h) \in Nat
         /\ Count(s.queue, LiveOut(h)) \in Nat /\ Count(s.rx, LiveIn(m, h)) \in Nat
         /\ IsFiniteSet(Where(s.queue, LiveOut(h))) /\ IsFiniteSet(Where(s.rx, LiveIn(m, h)))
<1>1. s.queue \in Seq(Packet) /\ s.rx \in Seq(Packet)
  BY DEF RouterOK, RouterType
<1>2. QED
  BY <1>1, CountType DEF LiveAt

(* One router changes.                                                       *)
LEMMA TokensOne ==
  ASSUME NEW N, NEW M, \A m \in Nodes : RouterOK(N[m]) /\ RouterOK(M[m]),
         NEW n \in Nodes, \A m \in Nodes \ {n} : M[m] = N[m], NEW h
  PROVE  /\ Tokens(N, h) \in Nat /\ Tokens(M, h) \in Nat
         /\ LiveAt(n, N[n], h) \in Nat /\ LiveAt(n, M[n], h) \in Nat
         /\ LiveAt(n, N[n], h) <= Tokens(N, h)
         /\ Tokens(M, h) + LiveAt(n, N[n], h) = Tokens(N, h) + LiveAt(n, M[n], h)
<1> DEFINE F == [m \in Nodes |-> Where(N[m].queue, LiveOut(h))]
           G == [m \in Nodes |-> Where(M[m].queue, LiveOut(h))]
           A == [m \in Nodes |-> Where(N[m].rx, LiveIn(m, h))]
           B == [m \in Nodes |-> Where(M[m].rx, LiveIn(m, h))]
<1>1. \A m \in Nodes : IsFiniteSet(F[m]) /\ IsFiniteSet(G[m]) /\ IsFiniteSet(A[m]) /\ IsFiniteSet(B[m])
  BY LiveType
<1>2. \A m \in Nodes \ {n} : G[m] = F[m] /\ B[m] = A[m]
  OBVIOUS
<1>3. /\ Cardinality(F[n]) = Count(N[n].queue, LiveOut(h))
      /\ Cardinality(G[n]) = Count(M[n].queue, LiveOut(h))
      /\ Cardinality(A[n]) = Count(N[n].rx, LiveIn(n, h))
      /\ Cardinality(B[n]) = Count(M[n].rx, LiveIn(n, h))
  BY DEF Count
<1>4. /\ Tokens(N, h) = Cardinality(Pairs(F)) + Cardinality(Pairs(A))
      /\ Tokens(M, h) = Cardinality(Pairs(G)) + Cardinality(Pairs(B))
  BY DEF Tokens
<1> HIDE DEF F, G, A, B
<1>5. /\ Cardinality(Pairs(F)) \in Nat /\ Cardinality(Pairs(G)) \in Nat
      /\ Cardinality(F[n]) \in Nat /\ Cardinality(G[n]) \in Nat
      /\ Cardinality(F[n]) <= Cardinality(Pairs(F))
      /\ Cardinality(Pairs(G)) + Cardinality(F[n]) = Cardinality(Pairs(F)) + Cardinality(G[n])
  BY <1>1, <1>2, PairsChange
<1>6. /\ Cardinality(Pairs(A)) \in Nat /\ Cardinality(Pairs(B)) \in Nat
      /\ Cardinality(A[n]) \in Nat /\ Cardinality(B[n]) \in Nat
      /\ Cardinality(A[n]) <= Cardinality(Pairs(A))
      /\ Cardinality(Pairs(B)) + Cardinality(A[n]) = Cardinality(Pairs(A)) + Cardinality(B[n])
  BY <1>1, <1>2, PairsChange
<1>7. QED
  BY <1>3, <1>4, <1>5, <1>6 DEF LiveAt

(* A higher limit in the history leaves fewer that count, elsewhere too.     *)
LEMMA TokensHigher ==
  ASSUME NEW N, \A m \in Nodes : RouterOK(N[m]), NEW h \in Int, NEW g \in Int, h <= g
  PROVE  Tokens(N, g) <= Tokens(N, h) /\ Tokens(N, g) \in Nat /\ Tokens(N, h) \in Nat
<1> DEFINE Q(x) == [m \in Nodes |-> Where(N[m].queue, LiveOut(x))]
           R(x) == [m \in Nodes |-> Where(N[m].rx, LiveIn(m, x))]
<1>1. Fresh(g) \subseteq Fresh(h)
  BY RoutingAssumption DEF Fresh, TextCopies, Packet
<1>2. \A m \in Nodes : Q(g)[m] \subseteq Q(h)[m] /\ R(g)[m] \subseteq R(h)[m]
  BY <1>1 DEF Where, LiveOut, LiveIn
<1>3. \A x : \A m \in Nodes : IsFiniteSet(Q(x)[m]) /\ IsFiniteSet(R(x)[m])
  BY LiveType
<1>4. \A x : Tokens(N, x) = Cardinality(Pairs(Q(x))) + Cardinality(Pairs(R(x)))
  BY DEF Tokens
<1> HIDE DEF Q, R
<1>5. Pairs(Q(g)) \subseteq Pairs(Q(h)) /\ Pairs(R(g)) \subseteq Pairs(R(h))
  BY <1>2 DEF Pairs, Row
<1>6. \A x : IsFiniteSet(Pairs(Q(x))) /\ IsFiniteSet(Pairs(R(x)))
  BY <1>3, PairsFinite
<1>7. /\ Cardinality(Pairs(Q(g))) <= Cardinality(Pairs(Q(h)))
      /\ Cardinality(Pairs(R(g))) <= Cardinality(Pairs(R(h)))
      /\ \A x : Cardinality(Pairs(Q(x))) \in Nat /\ Cardinality(Pairs(R(x))) \in Nat
  BY <1>5, <1>6, FS_Subset, FS_CardinalityType
<1>8. QED
  BY <1>4, <1>7

-----------------------------------------------------------------------------
(* What a node other than Source may yet send: its load and, where others    *)
(* are known to have relayed the text but not the node itself, one relay     *)
(* more (the next hop's flood after its tries makes it relay in its turn).   *)

HighOf(s)    == IF TextKey \in DOMAIN s.hist THEN s.hist[TextKey].high ELSE -1
Slack(n, s)  == IF TextKey \in DOMAIN s.hist /\ s.hist[TextKey].by # {}
                   /\ n \notin s.hist[TextKey].by THEN 1 ELSE 0
Effort(n, s) == Load(s) + Slack(n, s)

Fewer(s, t) == /\ \A S \in SUBSET TextCopies : Count(t.queue, S) <= Count(s.queue, S)
               /\ TriesLeft(t) <= TriesLeft(s)

(* An operator that relays no text, at most cancels or stops it.             *)
Lightens(n, s, t) ==
  /\ RouterOK(t) /\ Fewer(s, t)
  /\ n # Source => Effort(n, t) <= Effort(n, s) /\ HighOf(t) = HighOf(s)

LEMMA EffortType ==
  ASSUME NEW n, NEW s, RouterOK(s)
  PROVE  /\ Effort(n, s) \in Nat /\ Slack(n, s) \in {0, 1} /\ HighOf(s) \in -1..HopLimit
         /\ \A S : Count(s.queue, S) \in Nat
         /\ TriesLeft(s) \in Nat /\ Load(s) \in Nat
<1>1. Load(s) \in Nat /\ TriesLeft(s) \in Nat
  BY LoadType
<1>2. Slack(n, s) \in {0, 1}
  BY DEF Slack
<1>3. HighOf(s) \in -1..HopLimit
  <2>1. \A k \in DOMAIN s.hist : s.hist[k].high \in 0..HopLimit
    BY DEF RouterOK, RouterType, Seen
  <2>2. QED
    BY <2>1, RoutingAssumption DEF HighOf
<1>4. \A S : Count(s.queue, S) \in Nat
  BY CountType DEF RouterOK, RouterType
<1>5. QED
  BY <1>1, <1>2, <1>3, <1>4 DEF Effort

LEMMA LightensTrans ==
  ASSUME NEW n, NEW s, NEW t, NEW u, RouterOK(s), Lightens(n, s, t), Lightens(n, t, u)
  PROVE  Lightens(n, s, u)
<1>1. RouterOK(t) /\ RouterOK(u)
  BY DEF Lightens
<1>2. Fewer(s, u)
  <2>1. ASSUME NEW S \in SUBSET TextCopies PROVE Count(u.queue, S) <= Count(s.queue, S)
    <3>1. Count(u.queue, S) <= Count(t.queue, S) /\ Count(t.queue, S) <= Count(s.queue, S)
      BY DEF Lightens, Fewer
    <3>2. Count(s.queue, S) \in Nat /\ Count(t.queue, S) \in Nat /\ Count(u.queue, S) \in Nat
      BY <1>1, EffortType
    <3>3. QED
      BY <3>1, <3>2
  <2>2. TriesLeft(u) <= TriesLeft(s)
    <3>1. TriesLeft(u) <= TriesLeft(t) /\ TriesLeft(t) <= TriesLeft(s)
      BY DEF Lightens, Fewer
    <3>2. TriesLeft(s) \in Nat /\ TriesLeft(t) \in Nat /\ TriesLeft(u) \in Nat
      BY <1>1, EffortType
    <3>3. QED
      BY <3>1, <3>2
  <2>3. QED
    BY <2>1, <2>2 DEF Fewer
<1>3. n # Source => Effort(n, u) <= Effort(n, s) /\ HighOf(u) = HighOf(s)
  <2>1. Effort(n, s) \in Nat /\ Effort(n, t) \in Nat /\ Effort(n, u) \in Nat
    BY <1>1, EffortType
  <2>2. QED
    BY <2>1 DEF Lightens
<1>4. QED
  BY <1>1, <1>2, <1>3 DEF Lightens

(* Where neither the queue nor the tries change.                             *)
LEMMA LightensAside ==
  ASSUME NEW n, NEW s, RouterOK(s), NEW t, RouterOK(t), t.queue = s.queue,
         TriesLeft(t) = TriesLeft(s),
         n # Source => /\ TextKey \in DOMAIN t.hist <=> TextKey \in DOMAIN s.hist
                       /\ TextKey \in DOMAIN s.hist => t.hist[TextKey] = s.hist[TextKey]
  PROVE  Lightens(n, s, t)
<1>1. \A S : Count(s.queue, S) \in Nat
  BY EffortType
<1>2. TriesLeft(s) \in Nat /\ Effort(n, s) \in Nat
  BY EffortType
<1>3. Fewer(s, t)
  BY <1>1, <1>2 DEF Fewer
<1>4. n # Source => Effort(n, t) = Effort(n, s) /\ HighOf(t) = HighOf(s)
  BY DEF Effort, Load, Slack, HighOf
<1>5. QED
  BY <1>2, <1>3, <1>4 DEF Lightens

LEMMA LightensSame ==
  ASSUME NEW n, NEW s, RouterOK(s)
  PROVE  Lightens(n, s, s)
BY LightensAside

LEMMA SawLightens ==
  ASSUME NEW n \in Nodes, NEW s, RouterOK(s), NEW p \in Packet, IsText(p) => n = Source
  PROVE  Lightens(n, s, Saw(n, s, p))
<1> DEFINE t == Saw(n, s, p)
<1>1. RouterOK(t)
  BY SawKeeps DEF Keeps
<1>2. /\ t.queue = s.queue /\ t.pend = s.pend /\ DOMAIN t.hist = DOMAIN s.hist \cup {Key(p)}
      /\ \A k \in DOMAIN s.hist : k # Key(p) => t.hist[k] = s.hist[k]
  BY DEF Saw, RouterOK, Fields
<1> HIDE DEF t
<1>3. TriesLeft(t) = TriesLeft(s)
  BY <1>2 DEF TriesLeft
<1>4. Lightens(n, s, t)
  BY <1>1, <1>2, <1>3, LightensAside DEF IsText
<1>5. QED
  BY <1>4 DEF t

LEMMA EnqueueLightens ==
  ASSUME NEW n, NEW s, RouterOK(s), NEW p \in Packet, ~IsText(p)
  PROVE  Lightens(n, s, Enqueue(s, p))
<1> DEFINE t == Enqueue(s, p)
<1>1. RouterOK(t) /\ s.queue \in Seq(Packet)
  BY EnqueueKeeps DEF Keeps, RouterOK, RouterType
<1>2. t.queue = Append(s.queue, p) /\ t.pend = s.pend /\ t.hist = s.hist
  BY DEF Enqueue, RouterOK, Fields
<1> HIDE DEF t
<1>3. ASSUME NEW S \in SUBSET TextCopies
      PROVE  Count(t.queue, S) = Count(s.queue, S) /\ Count(s.queue, S) \in Nat
  <2>1. Count(s.queue, S) \in Nat
    BY EffortType
  <2>2. p \notin S
    BY DEF TextCopies
  <2>3. QED
    BY <1>1, <1>2, <2>1, <2>2, CountAppend
<1>4. TriesLeft(t) = TriesLeft(s) /\ TriesLeft(s) \in Nat
  BY <1>2, EffortType DEF TriesLeft
<1>5. Fewer(s, t)
  BY <1>3, <1>4 DEF Fewer
<1>6. Effort(n, t) = Effort(n, s) /\ HighOf(t) = HighOf(s) /\ Effort(n, s) \in Nat
  BY <1>2, <1>3, <1>4, EffortType DEF Effort, Load, Slack, HighOf
<1>7. QED
  BY <1>1, <1>5, <1>6 DEF Lightens, t

(* A packet leaves the queue.                                                *)
LEMMA DropFewer ==
  ASSUME NEW s, RouterOK(s), NEW i \in DOMAIN s.queue, NEW t,
         t.queue = DropAt(s.queue, i), t.pend = s.pend
  PROVE  /\ Fewer(s, t) /\ Load(t) = Load(s) - Cost(s.queue[i]) /\ Cost(s.queue[i]) \in {0, 1}
         /\ \A S : Count(t.queue, S) = Count(s.queue, S) - (IF s.queue[i] \in S THEN 1 ELSE 0)
<1>1. s.queue \in Seq(Packet) /\ s.queue[i] \in Packet
  BY DEF RouterOK, RouterType
<1>2. \A S : /\ Count(t.queue, S) = Count(s.queue, S) - (IF s.queue[i] \in S THEN 1 ELSE 0)
             /\ Count(s.queue, S) \in Nat
  BY <1>1, CountDrop, EffortType
<1>3. TriesLeft(t) = TriesLeft(s) /\ TriesLeft(s) \in Nat
  BY EffortType DEF TriesLeft
<1>4. Fewer(s, t)
  BY <1>2, <1>3 DEF Fewer
<1>5. Cost(s.queue[i]) = IF s.queue[i] \in TextCopies THEN 1 ELSE 0
  BY <1>1 DEF Cost, TextCopies
<1>6. Load(t) = Load(s) - Cost(s.queue[i])
  <2> DEFINE c == Count(s.queue, TextCopies)
  <2>1. Count(t.queue, TextCopies) = c - Cost(s.queue[i]) /\ c \in Nat /\ Cost(s.queue[i]) \in Nat
    BY <1>2, <1>5
  <2>2. Load(s) = c + TriesLeft(s) /\ Load(t) = Count(t.queue, TextCopies) + TriesLeft(s)
    BY <1>3 DEF Load
  <2> HIDE DEF c
  <2>3. QED
    BY <1>3, <2>1, <2>2
<1>7. QED
  BY <1>2, <1>4, <1>5, <1>6

(* Cancelling takes a copy away; for that, the node is a relayer no more.    *)
LEMMA CancelLightens ==
  ASSUME NEW n \in Nodes, NEW s, RouterOK(s), NEW k
  PROVE  Lightens(n, s, Cancel(n, s, k))
<1> DEFINE found == {i \in DOMAIN s.queue : Key(s.queue[i]) = k}
           j == FirstIn(s.queue, found)
           h == IF k \in DOMAIN s.hist THEN [s.hist EXCEPT ![k].by = @ \ {n}] ELSE s.hist
           t == Cancel(n, s, k)
<1>1. RouterOK(t)
  BY CancelKeeps DEF Keeps
<1>2. CASE found = {}
  BY <1>2, LightensSame DEF Cancel
<1>3. CASE found # {}
  <2>1. s.queue \in Seq(Packet)
    BY DEF RouterOK, RouterType
  <2>2. j \in found /\ j \in DOMAIN s.queue
    BY <1>3, <2>1, FirstInType
  <2>3. t = [s EXCEPT !.queue = DropAt(s.queue, j), !.hist = h]
    BY <1>3 DEF Cancel
  <2>4. /\ DOMAIN h = DOMAIN s.hist /\ (k # TextKey /\ TextKey \in DOMAIN h => h[TextKey] = s.hist[TextKey])
        /\ TextKey \in DOMAIN h => h[TextKey].high = s.hist[TextKey].high
    <3>1. \A x \in DOMAIN s.hist : s.hist[x] \in Seen
      BY DEF RouterOK, RouterType
    <3>2. QED
      BY <3>1 DEF Seen
  <2>5. Cost(s.queue[j]) = IF k = TextKey THEN 1 ELSE 0
    BY <2>2 DEF Cost, IsText
  <2> HIDE DEF t, h, j, found
  <2>6. t.queue = DropAt(s.queue, j) /\ t.pend = s.pend /\ t.hist = h
    BY <2>3 DEF RouterOK, Fields
  <2>7. Fewer(s, t) /\ Load(t) = Load(s) - Cost(s.queue[j])
    BY <2>2, <2>6, DropFewer
  <2>8. HighOf(t) = HighOf(s)
    BY <2>4, <2>6 DEF HighOf
  <2>9. Slack(n, s) \in {0, 1} /\ Slack(n, t) \in {0, 1} /\ Load(s) \in Nat /\ Load(t) \in Nat
    BY <1>1, EffortType
  <2>10. Effort(n, t) <= Effort(n, s)
    <3>1. CASE k = TextKey
      BY <2>5, <2>7, <2>9, <3>1 DEF Effort
    <3>2. CASE k # TextKey
      <4>1. Slack(n, t) = Slack(n, s)
        BY <2>4, <2>6, <3>2 DEF Slack
      <4>2. QED
        BY <2>5, <2>7, <2>9, <3>2, <4>1 DEF Effort
    <3>3. QED
      BY <3>1, <3>2
  <2>11. Lightens(n, s, t)
    BY <1>1, <2>7, <2>8, <2>10 DEF Lightens
  <2>12. QED
    BY <2>11 DEF t
<1>4. QED
  BY <1>2, <1>3

LEMMA StopLightens ==
  ASSUME NEW n \in Nodes, NEW s, RouterOK(s), NEW k
  PROVE  Lightens(n, s, StopRetransmission(n, s, k))
<1> DEFINE s1 == IF s.pend[k].left < NUM_RELIABLE_RETX - 1
                    /\ (k[1] = n \/ AllowsCanceling(n))
                 THEN Cancel(n, s, k) ELSE s
           t == StopRetransmission(n, s, k)
<1>1. RouterOK(t)
  BY StopKeeps DEF Keeps
<1>2. CASE k \notin DOMAIN s.pend
  BY <1>2, LightensSame DEF StopRetransmission
<1>3. CASE k \in DOMAIN s.pend
  <2>1. Lightens(n, s, s1)
    BY CancelLightens, LightensSame
  <2>2. t = [s1 EXCEPT !.pend = [j \in DOMAIN @ \ {k} |-> @[j]]]
    BY <1>3 DEF StopRetransmission
  <2> HIDE DEF t, s1
  <2>3. RouterOK(s1)
    BY <2>1 DEF Lightens
  <2>4. /\ t.queue = s1.queue /\ t.hist = s1.hist /\ DOMAIN t.pend = DOMAIN s1.pend \ {k}
        /\ \A j \in DOMAIN t.pend : t.pend[j] = s1.pend[j]
    BY <2>2, <2>3 DEF RouterOK, Fields
  <2>5. /\ TriesLeft(t) \in {TriesLeft(s1), 0} /\ TriesLeft(s1) \in Nat /\ TriesLeft(t) \in Nat
        /\ TriesLeft(t) <= TriesLeft(s1)
    <3>1. TriesLeft(t) \in {TriesLeft(s1), 0}
      BY <2>4 DEF TriesLeft
    <3>2. TriesLeft(s1) \in Nat
      BY <2>3, EffortType
    <3>3. QED
      BY <3>1, <3>2
  <2>6. Fewer(s1, t)
    <3>1. \A S : Count(s1.queue, S) \in Nat
      BY <2>3, EffortType
    <3>2. QED
      BY <2>4, <2>5, <3>1 DEF Fewer
  <2>7. Effort(n, t) <= Effort(n, s1) /\ HighOf(t) = HighOf(s1)
    <3>1. Slack(n, t) = Slack(n, s1) /\ HighOf(t) = HighOf(s1)
      BY <2>4 DEF Slack, HighOf
    <3>2. Slack(n, s1) \in {0, 1} /\ Count(s1.queue, TextCopies) \in Nat
      BY <2>3, EffortType
    <3>3. QED
      BY <2>4, <2>5, <3>1, <3>2 DEF Effort, Load
  <2>8. Lightens(n, s1, t)
    BY <1>1, <2>6, <2>7 DEF Lightens, t
  <2>9. Lightens(n, s, t)
    BY <2>1, <2>8, LightensTrans
  <2>10. QED
    BY <2>9 DEF t
<1>4. QED
  BY <1>2, <1>3

LEMMA StartLightens ==
  ASSUME NEW n \in Nodes, NEW s, RouterOK(s), NEW p \in Packet, ~IsText(p),
         NEW tries \in 1..NUM_RELIABLE_RETX
  PROVE  Lightens(n, s, StartRetransmission(n, s, p, tries))
<1> DEFINE s1 == StopRetransmission(n, s, Key(p))
           t  == StartRetransmission(n, s, p, tries)
           e  == [pkt |-> p, left |-> tries - 1]
<1>1. Lightens(n, s, s1)
  BY StopLightens
<1>2. RouterOK(t)
  BY StartKeeps DEF Keeps
<1>3. t = [s1 EXCEPT !.pend = [k \in DOMAIN @ \cup {Key(p)} |->
                                 IF k = Key(p) THEN e ELSE @[k]]]
  BY DEF StartRetransmission
<1> HIDE DEF t, s1, e
<1>4. RouterOK(s1)
  BY <1>1 DEF Lightens
<1>5. /\ t.queue = s1.queue /\ t.hist = s1.hist
      /\ DOMAIN t.pend = DOMAIN s1.pend \cup {Key(p)}
      /\ \A k \in DOMAIN s1.pend \ {Key(p)} : t.pend[k] = s1.pend[k]
  BY <1>3, <1>4 DEF RouterOK, Fields
<1>6. TriesLeft(t) = TriesLeft(s1)
  BY <1>5 DEF TriesLeft, IsText
<1>7. Lightens(n, s1, t)
  BY <1>2, <1>4, <1>5, <1>6, LightensAside
<1>8. Lightens(n, s, t)
  BY <1>1, <1>7, LightensTrans
<1>9. QED
  BY <1>8 DEF t

LEMMA RouterSendLightens ==
  ASSUME NEW n \in Nodes, NEW s, RouterOK(s), NEW p \in Packet, ~IsText(p)
  PROVE  Lightens(n, s, RouterSend(n, s, p))
<1> DEFINE q == [p EXCEPT !.ack = @ /\ p.to # Broadcast, !.relay = n,
                          !.start = IF p.from = n THEN p.lim ELSE @]
<1>1. q \in Packet /\ Key(q) = Key(p)
  BY DEF Packet, Key
<1>2. RouterSend(n, s, p) = Enqueue(s, q)
  BY DEF RouterSend
<1> HIDE DEF q
<1>3. ~IsText(q)
  BY <1>1 DEF IsText
<1>4. QED
  BY <1>1, <1>2, <1>3, EnqueueLightens

LEMMA FloodSendLightens ==
  ASSUME NEW n \in Nodes, NEW s, RouterOK(s), NEW p \in Packet, ~IsText(p)
  PROVE  Lightens(n, s, FloodSend(n, s, p))
<1> DEFINE q  == [p EXCEPT !.relay = n]
           s1 == Saw(n, s, q)
<1>1. q \in Packet /\ Key(q) = Key(p)
  BY DEF Packet, Key
<1>2. FloodSend(n, s, p) = RouterSend(n, s1, q)
  BY DEF FloodSend
<1> HIDE DEF q
<1>3. ~IsText(q)
  BY <1>1 DEF IsText
<1>4. Lightens(n, s, s1) /\ RouterOK(s1)
  BY <1>1, <1>3, SawLightens DEF Lightens
<1> HIDE DEF s1
<1>5. Lightens(n, s1, RouterSend(n, s1, q))
  BY <1>1, <1>3, <1>4, RouterSendLightens
<1>6. QED
  BY <1>2, <1>4, <1>5, LightensTrans

LEMMA NextHopSendLightens ==
  ASSUME NEW n \in Nodes, NEW s, RouterOK(s), NEW p \in Packet, ~IsText(p)
  PROVE  Lightens(n, s, NextHopSend(n, s, p))
<1> DEFINE r  == [p EXCEPT !.relay = n]
           q  == [p EXCEPT !.relay = n, !.next = GetNextHop(n, s, p.to)]
           s1 == Saw(n, s, r)
           again == /\ p.from # n \/ ~p.ack
                    /\ q.next # NoNode
                    /\ p.lim > 0 \/ p.ack
           s2 == IF again THEN StartRetransmission(n, s1, q, NUM_INTERMEDIATE_RETX) ELSE s1
<1>1. GetNextHop(n, s, p.to) \in Hops
  BY RoutingAssumption DEF GetNextHop, Hops, Packet, RouterOK, RouterType
<1>2. q \in Packet /\ Key(q) = Key(p) /\ r \in Packet /\ Key(r) = Key(p)
  BY <1>1 DEF Packet, Key
<1>3. NextHopSend(n, s, p) = RouterSend(n, s2, q)
  BY DEF NextHopSend
<1>4. NUM_INTERMEDIATE_RETX \in 1..NUM_RELIABLE_RETX
  BY RoutingAssumption
<1> HIDE DEF q, r, again
<1>5. ~IsText(q) /\ ~IsText(r)
  BY <1>2 DEF IsText
<1>6. Lightens(n, s, s1) /\ RouterOK(s1)
  BY <1>2, <1>5, SawLightens DEF Lightens
<1> HIDE DEF s1
<1>7. Lightens(n, s1, s2)
  <2>1. Lightens(n, s1, StartRetransmission(n, s1, q, NUM_INTERMEDIATE_RETX))
    BY <1>2, <1>4, <1>5, <1>6, StartLightens
  <2>2. QED
    BY <1>6, <2>1, LightensSame
<1>8. RouterOK(s2) /\ Lightens(n, s, s2)
  BY <1>6, <1>7, LightensTrans DEF Lightens
<1> HIDE DEF s2
<1>9. Lightens(n, s2, RouterSend(n, s2, q))
  BY <1>2, <1>5, <1>8, RouterSendLightens
<1>10. QED
  BY <1>3, <1>8, <1>9, LightensTrans

LEMMA ReliableSendLightens ==
  ASSUME NEW n \in Nodes, NEW s, RouterOK(s), NEW p \in Packet, ~IsText(p)
  PROVE  Lightens(n, s, ReliableSend(n, s, p))
<1> DEFINE s1 == IF p.ack THEN StartRetransmission(n, s, p, NUM_RELIABLE_RETX) ELSE s
<1>1. NUM_RELIABLE_RETX \in 1..NUM_RELIABLE_RETX
  BY RoutingAssumption
<1>2. Lightens(n, s, s1)
  BY <1>1, StartLightens, LightensSame
<1>3. ReliableSend(n, s, p) = IF p.to = Broadcast THEN FloodSend(n, s1, p)
                                                  ELSE NextHopSend(n, s1, p)
  BY DEF ReliableSend
<1> HIDE DEF s1
<1>4. RouterOK(s1)
  BY <1>2 DEF Lightens
<1>5. Lightens(n, s1, FloodSend(n, s1, p)) /\ Lightens(n, s1, NextHopSend(n, s1, p))
  BY <1>4, FloodSendLightens, NextHopSendLightens
<1>6. Lightens(n, s1, ReliableSend(n, s, p))
  BY <1>3, <1>5
<1>7. QED
  BY <1>2, <1>6, LightensTrans

LEMMA SendAckNakLightens ==
  ASSUME NEW n \in Nodes, NEW s, RouterOK(s), s.ids > 0, NEW err \in BOOLEAN,
         NEW to \in Nodes, NEW id \in Nat, NEW lim \in 0..HopLimit, NEW wantsAck \in BOOLEAN
  PROVE  Lightens(n, s, SendAckNak(n, s, err, to, id, lim, wantsAck))
<1> DEFINE p == [from |-> n, id |-> s.ids, to |-> to, req |-> id, err |-> err,
                 ack |-> wantsAck, lim |-> lim, start |-> lim,
                 next |-> NoNode, relay |-> n]
           s1 == [s EXCEPT !.ids = @ + 1]
           s2 == [s1 EXCEPT !.rx = Append(@, p)]
<1>1. s.ids \in Nat
  BY DEF RouterOK, RouterType
<1>2. p \in Packet /\ ~IsText(p)
  BY <1>1 DEF Packet, Hops, IsText, Key, TextKey
<1>3. SendAckNak(n, s, err, to, id, lim, wantsAck)
        = IF to = n THEN s2 ELSE ReliableSend(n, s1, p)
  BY DEF SendAckNak
<1> HIDE DEF p
<1>4. RouterOK(s1) /\ RouterOK(s2)
  <2>1. Append(s.rx, p) \in Seq(Packet)
    BY <1>2 DEF RouterOK, RouterType
  <2>2. QED
    BY <1>1, <2>1 DEF RouterOK, RouterType, Fields
<1>5. /\ s1.queue = s.queue /\ s1.pend = s.pend /\ s1.hist = s.hist
      /\ s2.queue = s.queue /\ s2.pend = s.pend /\ s2.hist = s.hist
  BY DEF RouterOK, Fields
<1> HIDE DEF s1, s2
<1>6. Lightens(n, s, s1) /\ Lightens(n, s, s2)
  <2>1. TriesLeft(s1) = TriesLeft(s) /\ TriesLeft(s2) = TriesLeft(s)
    BY <1>5 DEF TriesLeft
  <2>2. QED
    BY <1>4, <1>5, <2>1, LightensAside
<1>7. Lightens(n, s, ReliableSend(n, s1, p))
  <2>1. Lightens(n, s1, ReliableSend(n, s1, p))
    BY <1>2, <1>4, ReliableSendLightens
  <2>2. QED
    BY <1>6, <2>1, LightensTrans
<1>8. QED
  BY <1>3, <1>6, <1>7

(* Source does not relay its own text.                                       *)
LEMMA RebroadcastLightens ==
  ASSUME NEW n \in Nodes, NEW s, RouterOK(s), NEW p \in Packet, IsText(p) => n = Source
  PROVE  Lightens(n, s, Rebroadcast(n, s, p))
<1> DEFINE q == [p EXCEPT !.lim = IF Decrements(n, p) THEN @ - 1 ELSE @]
<1>1. CASE ~MayRelay(n, p)
  BY <1>1, LightensSame DEF Rebroadcast
<1>2. CASE MayRelay(n, p)
  <2>1. ~IsText(p)
    BY <1>2 DEF MayRelay, IsText, Key, TextKey
  <2>2. p \in Incoming(Broadcast)
    BY <2>1 DEF Incoming
  <2>3. Rebroadcast(n, s, p) = IF p.next = NoNode THEN FloodSend(n, s, q)
                                                  ELSE NextHopSend(n, s, q)
    BY <1>2 DEF Rebroadcast
  <2>4. q \in Outgoing(Broadcast, n) /\ Key(q) = Key(p)
    BY <1>2, <2>2, RelayedCopy
  <2> HIDE DEF q
  <2>5. q \in Packet /\ ~IsText(q)
    BY <2>1, <2>4 DEF Outgoing, Incoming, IsText
  <2>6. QED
    BY <2>3, <2>5, FloodSendLightens, NextHopSendLightens
<1>3. QED
  BY <1>1, <1>2

LEMMA DropLightens ==
  ASSUME NEW n, NEW s, RouterOK(s), NEW i \in DOMAIN s.queue, NEW t, RouterOK(t),
         t.queue = DropAt(s.queue, i), t.pend = s.pend, t.hist = s.hist
  PROVE  Lightens(n, s, t)
<1>1. Fewer(s, t) /\ Load(t) = Load(s) - Cost(s.queue[i]) /\ Cost(s.queue[i]) \in {0, 1}
  BY DropFewer
<1>2. Slack(n, t) = Slack(n, s) /\ HighOf(t) = HighOf(s)
  BY DEF Slack, HighOf
<1>3. Load(s) \in Nat /\ Slack(n, s) \in {0, 1}
  BY EffortType
<1>4. Effort(n, t) <= Effort(n, s)
  BY <1>1, <1>2, <1>3 DEF Effort
<1>5. QED
  BY <1>1, <1>2, <1>4 DEF Lightens

LEMMA UpgradeLightens ==
  ASSUME NEW n \in Nodes, NEW s, RouterOK(s), NEW p \in Packet, IsText(p) => n = Source,
         Worse(s, p) # {}
  PROVE  Lightens(n, s, Upgrade(n, s, p))
<1> DEFINE j  == FirstIn(s.queue, Worse(s, p))
           s1 == [s EXCEPT !.queue = DropAt(s.queue, j)]
<1>1. s.queue \in Seq(Packet) /\ Worse(s, p) \subseteq DOMAIN s.queue
  BY DEF RouterOK, RouterType, Worse
<1>2. j \in DOMAIN s.queue
  BY <1>1, FirstInType
<1>3. Upgrade(n, s, p) = Rebroadcast(n, s1, p)
  BY DEF Upgrade
<1> HIDE DEF j
<1>4. DropAt(s.queue, j) \in Seq(Packet)
  BY <1>1, <1>2, DropAtType
<1>5. RouterOK(s1) /\ s1.queue = DropAt(s.queue, j) /\ s1.pend = s.pend /\ s1.hist = s.hist
  BY <1>4 DEF RouterOK, RouterType, Fields
<1> HIDE DEF s1
<1>6. Lightens(n, s, s1)
  BY <1>2, <1>5, DropLightens
<1>7. Lightens(n, s1, Rebroadcast(n, s1, p))
  BY <1>5, RebroadcastLightens
<1>8. QED
  BY <1>3, <1>6, <1>7, LightensTrans

LEMMA AckAgainLightens ==
  ASSUME NEW n \in Nodes, NEW s, RouterOK(s), s.ids > 0, NEW p \in Packet
  PROVE  Lightens(n, s, AckAgain(n, s, p))
<1>1. p.from \in Nodes /\ p.id \in Nat /\ 0 \in 0..HopLimit
  BY RoutingAssumption DEF Packet
<1>2. Lightens(n, s, SendAckNak(n, s, FALSE, p.from, p.id, 0, FALSE))
  BY <1>1, SendAckNakLightens
<1>3. QED
  BY <1>2, LightensSame DEF AckAgain

LEMMA AgainLightens ==
  ASSUME NEW n \in Nodes, NEW s, RouterOK(s), NEW p \in Packet, IsText(p) => n = Source
  PROVE  Lightens(n, s, Again(n, s, p)) /\ Lightens(n, s, FloodDupe(n, s, p))
<1>1. Lightens(n, s, Again(n, s, p))
  BY RebroadcastLightens, LightensSame DEF Again
<1>2. Lightens(n, s, CancelDupe(n, s, p))
  BY CancelLightens, LightensSame DEF CancelDupe
<1>3. QED
  BY <1>1, <1>2 DEF FloodDupe

LEMMA NextHopDupeLightens ==
  ASSUME NEW d, NEW n \in Nodes, NEW old, NEW s, TextOK(d, n, s), NEW p \in Packet,
         IsText(p) => n = Source
  PROVE  Lightens(n, s, NextHopDupe(n, old, s, p))
<1> DEFINE s1 == StopRetransmission(n, s, Key(p))
<1>1. RouterOK(s) /\ Sends(d, n, s, s1, 0)
  BY StopSends DEF TextOK
<1>2. Lightens(n, s, s1)
  BY <1>1, StopLightens
<1>3. NextHopDupe(n, old, s, p) \in {Again(n, s1, p), AckAgain(n, s1, p), s1, CancelDupe(n, s1, p)}
  BY DEF NextHopDupe
<1> HIDE DEF s1
<1>4. RouterOK(s1) /\ s1.ids > 0
  BY <1>1 DEF Sends, TextOK
<1>5. Lightens(n, s1, Again(n, s1, p)) /\ Lightens(n, s1, AckAgain(n, s1, p))
  BY <1>4, AgainLightens, AckAgainLightens
<1>6. Lightens(n, s1, s1) /\ Lightens(n, s1, CancelDupe(n, s1, p))
  BY <1>4, LightensSame, CancelLightens DEF CancelDupe
<1>7. Lightens(n, s1, NextHopDupe(n, old, s, p))
  BY <1>3, <1>5, <1>6
<1>8. QED
  BY <1>1, <1>2, <1>7, LightensTrans

LEMMA OverhearOwnLightens ==
  ASSUME NEW n \in Nodes, NEW s, RouterOK(s), s.ids > 0, NEW p \in Packet
  PROVE  Lightens(n, s, OverhearOwn(n, s, p))
<1> DEFINE s1 == SendAckNak(n, s, FALSE, n, p.id, HopLimit, FALSE)
<1>1. p.id \in Nat /\ HopLimit \in 0..HopLimit
  BY RoutingAssumption DEF Packet
<1>2. Lightens(n, s, s1)
  BY <1>1, SendAckNakLightens
<1>3. OverhearOwn(n, s, p) \in {s, StopRetransmission(n, s1, Key(p))}
  BY DEF OverhearOwn
<1> HIDE DEF s1
<1>4. Lightens(n, s1, StopRetransmission(n, s1, Key(p)))
  BY <1>2, StopLightens DEF Lightens
<1>5. Lightens(n, s, StopRetransmission(n, s1, Key(p)))
  BY <1>2, <1>4, LightensTrans
<1>6. QED
  BY <1>3, <1>5, LightensSame

LEMMA DuplicateLightens ==
  ASSUME NEW d, NEW n \in Nodes, NEW s, TextOK(d, n, s), NEW p \in Packet,
         IsText(p) => n = Source
  PROVE  Lightens(n, s, Duplicate(n, s, p))
<1> DEFINE s1 == Saw(n, s, p)
<1>1. RouterOK(s) /\ Sends(d, n, s, s1, 0) /\ Lightens(n, s, s1)
  BY SawSends, SawLightens DEF TextOK
<1>2. Worse(s1, p) = Worse(s, p)
  BY <1>1 DEF Worse, Saw, RouterOK, Fields
<1>3. /\ Upgrades(n, s, p) => Duplicate(n, s, p) = Upgrade(n, s1, p)
      /\ ~Upgrades(n, s, p) =>
           Duplicate(n, s, p) \in {FloodDupe(n, s1, p), NextHopDupe(n, s, s1, p)}
  BY DEF Duplicate
<1> HIDE DEF s1
<1>4. TextOK(d, n, s1) /\ RouterOK(s1)
  BY <1>1 DEF Sends, TextOK
<1>5. Upgrades(n, s, p) => Lightens(n, s1, Upgrade(n, s1, p))
  BY <1>2, <1>4, UpgradeLightens DEF Upgrades
<1>6. Lightens(n, s1, FloodDupe(n, s1, p)) /\ Lightens(n, s1, NextHopDupe(n, s, s1, p))
  BY <1>4, AgainLightens, NextHopDupeLightens
<1>7. Lightens(n, s1, Duplicate(n, s, p))
  BY <1>3, <1>5, <1>6
<1>8. QED
  BY <1>1, <1>7, LightensTrans

(* What is done of a new packet before it is relayed.                        *)
LEMMA AcknowledgeLightens ==
  ASSUME NEW d, NEW n \in Nodes, NEW s, TextOK(d, n, s), NEW p \in Packet
  PROVE  Lightens(n, s, Acknowledge(n, s, p)) /\ Sends(d, n, s, Acknowledge(n, s, p), 0)
<1>1. p.from \in Nodes /\ p.id \in Nat /\ 0 \in 0..HopLimit /\ HopLimitForResponse(p) \in 0..HopLimit
  BY RoutingAssumption, ResponseType DEF Packet
<1>2. RouterOK(s) /\ s.ids > 0
  BY DEF TextOK
<1>3. /\ Lightens(n, s, SendAckNak(n, s, FALSE, p.from, p.id, HopLimitForResponse(p), TRUE))
      /\ Lightens(n, s, SendAckNak(n, s, FALSE, p.from, p.id, 0, FALSE))
      /\ Lightens(n, s, s)
  BY <1>1, <1>2, SendAckNakLightens, LightensSame
<1>4. /\ Sends(d, n, s, SendAckNak(n, s, FALSE, p.from, p.id, HopLimitForResponse(p), TRUE), 0)
      /\ Sends(d, n, s, SendAckNak(n, s, FALSE, p.from, p.id, 0, FALSE), 0)
      /\ Sends(d, n, s, s, 0)
  BY <1>1, SendAckNakSends, SendsNothing
<1>5. QED
  BY <1>3, <1>4 DEF Acknowledge

LEMMA SniffLightens ==
  ASSUME NEW d, NEW n \in Nodes, NEW s, TextOK(d, n, s), NEW p \in Packet,
         IsText(p) => n = Source
  PROVE  Lightens(n, s, Sniff(n, s, p))
<1> DEFINE a  == Acknowledge(n, s, p)
           s1 == IF p.to # n THEN s
                 ELSE IF p.req >= 0 THEN StopRetransmission(n, a, <<n, p.req>>) ELSE a
           r  == LearnRoute(n, s1, p)
           k  == <<p.to, p.req>>
           s2 == IF p.to = Broadcast THEN s1 ELSE StopForOthers(n, r, p)
<1>1. RouterOK(s) /\ Sniff(n, s, p) = Rebroadcast(n, s2, p)
  BY DEF TextOK, Sniff
<1>2. Lightens(n, s, a) /\ RouterOK(a)
  BY AcknowledgeLightens DEF Lightens
<1> HIDE DEF a
<1>3. Lightens(n, s, s1)
  <2>1. Lightens(n, a, StopRetransmission(n, a, <<n, p.req>>))
    BY <1>2, StopLightens
  <2>2. Lightens(n, s, StopRetransmission(n, a, <<n, p.req>>))
    BY <1>1, <1>2, <2>1, LightensTrans
  <2>3. QED
    BY <1>1, <1>2, <2>2, LightensSame
<1>4. RouterOK(s1)
  BY <1>3 DEF Lightens
<1> HIDE DEF s1
<1>5. Lightens(n, s1, r)
  <2>1. r = s1 \/ r = [s1 EXCEPT !.route[p.from] = RelayOf(p)]
    BY DEF LearnRoute
  <2>2. p.from \in Nodes /\ RelayOf(p) \in Hops
    BY DEF RelayOf, Packet, Hops
  <2> HIDE DEF r
  <2>3. RouterOK(r) /\ r.queue = s1.queue /\ r.pend = s1.pend /\ r.hist = s1.hist
    BY <1>4, <2>1, <2>2 DEF RouterOK, RouterType, Fields
  <2>4. TriesLeft(r) = TriesLeft(s1)
    BY <2>3 DEF TriesLeft
  <2>5. QED
    BY <1>4, <2>3, <2>4, LightensAside
<1> HIDE DEF r
<1>6. Lightens(n, s, r) /\ RouterOK(r)
  BY <1>1, <1>3, <1>5, LightensTrans DEF Lightens
<1>7. Lightens(n, r, StopForOthers(n, r, p))
  <2>1. Lightens(n, r, Cancel(n, r, k)) /\ RouterOK(Cancel(n, r, k)) /\ Lightens(n, r, r)
    BY <1>6, CancelLightens, LightensSame DEF Lightens
  <2>2. Lightens(n, Cancel(n, r, k), StopRetransmission(n, Cancel(n, r, k), k))
    BY <2>1, StopLightens
  <2>3. Lightens(n, r, StopRetransmission(n, Cancel(n, r, k), k))
    BY <1>6, <2>1, <2>2, LightensTrans
  <2>4. QED
    BY <2>1, <2>3 DEF StopForOthers
<1>8. Lightens(n, s, s2)
  BY <1>1, <1>3, <1>6, <1>7, LightensTrans
<1> HIDE DEF s2
<1>9. Lightens(n, s2, Rebroadcast(n, s2, p))
  BY <1>8, RebroadcastLightens DEF Lightens
<1>10. QED
  BY <1>1, <1>8, <1>9, LightensTrans

-----------------------------------------------------------------------------
(* Relaying the text.                                                        *)

Floods     == {p \in TextCopies : p.next = NoNode}
FullFloods == {p \in Floods : p.lim = HopLimit}

OutCost(p, h) == IF p.next # NoNode /\ (p.lim > h \/ p.lim = HopLimit) THEN 1 ELSE 0

Higher(a, b) == IF a > b THEN a ELSE b

(* What the history keeps of a copy: the highest limit, and who relayed.     *)
LEMMA SawText ==
  ASSUME NEW n \in Nodes, NEW s, RouterOK(s), NEW p \in Packet, IsText(p),
         NEW t, t = Saw(n, s, p)
  PROVE  /\ RouterOK(t) /\ t.queue = s.queue /\ t.pend = s.pend /\ t.rx = s.rx /\ t.ids = s.ids
         /\ HighOf(t) = Higher(HighOf(s), p.lim) /\ Slack(n, t) <= Slack(n, s)
         /\ TextKey \in DOMAIN t.hist /\ Load(t) = Load(s) /\ TriesLeft(t) = TriesLeft(s)
         /\ p.relay = n => Slack(n, t) = 0
         /\ p.relay # n /\ Slack(n, s) = 1 => Slack(n, t) = 1
<1> DEFINE r == Record(n, s, p)
<1>1. RouterOK(t) /\ Key(p) = TextKey /\ p.lim \in 0..HopLimit /\ HopLimit \in Nat
  BY SawKeeps, RoutingAssumption DEF Keeps, IsText, Packet
<1>2. /\ t.queue = s.queue /\ t.pend = s.pend /\ t.rx = s.rx /\ t.ids = s.ids
      /\ TextKey \in DOMAIN t.hist /\ t.hist[TextKey] = r
  BY <1>1 DEF Saw, RouterOK, Fields
<1>3. Slack(n, t) = IF r.by # {} /\ n \notin r.by THEN 1 ELSE 0
  BY <1>2 DEF Slack
<1>4. HighOf(t) = r.high
  BY <1>2 DEF HighOf
<1>5. CASE TextKey \notin DOMAIN s.hist
  <2>1. r.high = p.lim /\ r.by = IF p.relay = n THEN {n} ELSE {}
    BY <1>1, <1>5 DEF Record, Known
  <2>2. HighOf(s) = -1 /\ Slack(n, s) = 0
    BY <1>5 DEF HighOf, Slack
  <2>3. Higher(HighOf(s), p.lim) = p.lim
    BY <1>1, <2>2 DEF Higher
  <2>4. Slack(n, t) = 0
    BY <1>3, <2>1
  <2>5. QED
    BY <1>1, <1>2, <1>4, <2>1, <2>2, <2>3, <2>4 DEF Load, TriesLeft
<1>6. CASE TextKey \in DOMAIN s.hist
  <2> DEFINE old == s.hist[TextKey]
             heardUs == n \in old.by /\ p.lim \in {old.ours, old.ours - 1}
  <2>1. /\ r.high = Higher(old.high, p.lim)
        /\ r.by = old.by \cup (IF p.relay = n THEN {n} ELSE IF heardUs THEN {p.relay} ELSE {})
    BY <1>1, <1>6 DEF Record, Known, Higher
  <2>2. HighOf(s) = old.high /\ Slack(n, s) = IF old.by # {} /\ n \notin old.by THEN 1 ELSE 0
    BY <1>6 DEF HighOf, Slack
  <2>3. heardUs => n \in old.by
    OBVIOUS
  <2> HIDE DEF old, r, heardUs
  <2>4. Slack(n, t) <= Slack(n, s) /\ (p.relay = n => Slack(n, t) = 0)
        /\ (p.relay # n /\ Slack(n, s) = 1 => Slack(n, t) = 1)
    BY <1>3, <2>1, <2>2, <2>3
  <2>5. QED
    BY <1>1, <1>2, <1>4, <2>1, <2>2, <2>4 DEF Load, TriesLeft
<1>7. QED
  BY <1>5, <1>6

LEMMA RouterSendText ==
  ASSUME NEW n \in Nodes, NEW s, RouterOK(s), NEW p \in Packet, IsText(p),
         NEW t, t = RouterSend(n, s, p)
  PROVE  /\ RouterOK(t) /\ t.hist = s.hist /\ t.pend = s.pend
         /\ TriesLeft(t) = TriesLeft(s) /\ Load(t) = Load(s) + 1
         /\ \A h : Count(t.queue, LiveOut(h)) = Count(s.queue, LiveOut(h)) + OutCost(p, h)
         /\ Count(t.queue, Floods) = Count(s.queue, Floods) + (IF p.next = NoNode THEN 1 ELSE 0)
<1> DEFINE q == [p EXCEPT !.ack = @ /\ p.to # Broadcast, !.relay = n,
                          !.start = IF p.from = n THEN p.lim ELSE @]
<1>1. q \in Packet /\ Key(q) = Key(p) /\ q.next = p.next /\ q.lim = p.lim
  BY DEF Packet, Key
<1>2. t = Enqueue(s, q)
  BY DEF RouterSend
<1> HIDE DEF q
<1>3. IsText(q) /\ q \in TextCopies
  BY <1>1 DEF IsText, TextCopies
<1>4. RouterOK(t) /\ s.queue \in Seq(Packet)
  BY <1>1, <1>2, EnqueueKeeps DEF Keeps, RouterOK, RouterType
<1>5. t.queue = Append(s.queue, q) /\ t.pend = s.pend /\ t.hist = s.hist
  BY <1>2 DEF Enqueue, RouterOK, Fields
<1>6. \A S : /\ Count(t.queue, S) = Count(s.queue, S) + (IF q \in S THEN 1 ELSE 0)
             /\ Count(s.queue, S) \in Nat
  BY <1>1, <1>4, <1>5, CountAppend, CountType
<1>7. TriesLeft(t) = TriesLeft(s) /\ TriesLeft(s) \in Nat
  BY <1>5, LoadType DEF TriesLeft
<1>8. Load(t) = Load(s) + 1
  BY <1>3, <1>6, <1>7 DEF Load
<1>9. /\ \A h : q \in LiveOut(h) <=> p.next # NoNode /\ (p.lim > h \/ p.lim = HopLimit)
      /\ q \in Floods <=> p.next = NoNode
  BY <1>1, <1>3 DEF LiveOut, Fresh, Floods
<1>10. \A h : (IF q \in LiveOut(h) THEN 1 ELSE 0) = OutCost(p, h)
  BY <1>9 DEF OutCost
<1>11. QED
  BY <1>4, <1>5, <1>6, <1>7, <1>8, <1>9, <1>10

(* A flood: one copy more, and the node is a relayer.                        *)
LEMMA FloodText ==
  ASSUME NEW n \in Nodes, NEW s, RouterOK(s), NEW p \in Packet, IsText(p), p.next = NoNode,
         NEW t, t = FloodSend(n, s, p)
  PROVE  /\ RouterOK(t) /\ TriesLeft(t) = TriesLeft(s) /\ Load(t) = Load(s) + 1
         /\ Slack(n, t) = 0 /\ HighOf(t) = Higher(HighOf(s), p.lim)
         /\ \A h : Count(t.queue, LiveOut(h)) = Count(s.queue, LiveOut(h))
         /\ Count(t.queue, Floods) = Count(s.queue, Floods) + 1
<1> DEFINE q  == [p EXCEPT !.relay = n]
           s1 == Saw(n, s, q)
<1>1. q \in Packet /\ Key(q) = Key(p) /\ q.next = NoNode /\ q.lim = p.lim /\ q.relay = n
  BY DEF Packet, Key
<1>2. t = RouterSend(n, s1, q)
  BY DEF FloodSend
<1> HIDE DEF q
<1>3. IsText(q)
  BY <1>1 DEF IsText
<1>4. /\ RouterOK(s1) /\ s1.queue = s.queue /\ HighOf(s1) = Higher(HighOf(s), p.lim)
      /\ Slack(n, s1) = 0 /\ Load(s1) = Load(s) /\ TriesLeft(s1) = TriesLeft(s)
  BY <1>1, <1>3, SawText
<1> HIDE DEF s1
<1>5. /\ RouterOK(t) /\ t.hist = s1.hist /\ TriesLeft(t) = TriesLeft(s1) /\ Load(t) = Load(s1) + 1
      /\ \A h : Count(t.queue, LiveOut(h)) = Count(s1.queue, LiveOut(h)) + OutCost(q, h)
      /\ Count(t.queue, Floods) = Count(s1.queue, Floods) + 1
  BY <1>1, <1>2, <1>3, <1>4, RouterSendText
<1>6. \A h : Count(s1.queue, LiveOut(h)) \in Nat /\ OutCost(q, h) = 0
  BY <1>1, <1>4, EffortType DEF OutCost
<1>7. Slack(n, t) = 0 /\ HighOf(t) = HighOf(s1)
  BY <1>4, <1>5 DEF Slack, HighOf
<1>8. QED
  BY <1>4, <1>5, <1>6, <1>7

(* A directed copy: it may be repeated once.                                 *)
LEMMA NextHopText ==
  ASSUME NUM_INTERMEDIATE_RETX = 2,
         NEW n \in Nodes \ {Source}, NEW s, RouterOK(s), NEW p \in Packet, IsText(p),
         p.lim < HopLimit, NEW t, t = NextHopSend(n, s, p)
  PROVE  /\ RouterOK(t) /\ (TriesLeft(s) <= 1 => TriesLeft(t) <= 1)
         /\ Effort(n, t) <= Effort(n, s) + 2 /\ HighOf(t) = Higher(HighOf(s), p.lim)
         /\ \A h : Count(t.queue, LiveOut(h))
                     <= Count(s.queue, LiveOut(h)) + (IF p.lim > h THEN 1 ELSE 0)
<1> DEFINE r  == [p EXCEPT !.relay = n]
           q  == [p EXCEPT !.relay = n, !.next = GetNextHop(n, s, p.to)]
           s1 == Saw(n, s, r)
           again == /\ p.from # n \/ ~p.ack
                    /\ q.next # NoNode
                    /\ p.lim > 0 \/ p.ack
           u  == StartRetransmission(n, s1, q, NUM_INTERMEDIATE_RETX)
           s2 == IF again THEN u ELSE s1
<1>1. GetNextHop(n, s, p.to) \in Hops
  BY RoutingAssumption DEF GetNextHop, Hops, Packet, RouterOK, RouterType
<1>2. /\ q \in Packet /\ Key(q) = Key(p) /\ q.lim = p.lim
      /\ r \in Packet /\ Key(r) = Key(p) /\ r.relay = n /\ r.lim = p.lim
  BY <1>1 DEF Packet, Key
<1>3. t = RouterSend(n, s2, q)
  BY DEF NextHopSend
<1> HIDE DEF q, r, again
<1>4. IsText(q) /\ IsText(r) /\ Key(q) = TextKey
  BY <1>2 DEF IsText
<1>5. /\ RouterOK(s1) /\ s1.queue = s.queue /\ HighOf(s1) = Higher(HighOf(s), p.lim)
      /\ Slack(n, s1) = 0 /\ Load(s1) = Load(s) /\ TriesLeft(s1) = TriesLeft(s)
  BY <1>2, <1>4, SawText
<1> HIDE DEF s1
<1>6. /\ RouterOK(u) /\ TriesLeft(u) = 1 /\ Effort(n, u) <= Effort(n, s1) + 1
      /\ HighOf(u) = HighOf(s1)
      /\ \A h : Count(u.queue, LiveOut(h)) <= Count(s1.queue, LiveOut(h))
  <2> DEFINE v == StopRetransmission(n, s1, Key(q))
             e == [pkt |-> q, left |-> NUM_INTERMEDIATE_RETX - 1]
  <2>1. Lightens(n, s1, v)
    BY <1>5, StopLightens
  <2>2. RouterOK(u)
    BY <1>2, <1>5, StartKeeps, RoutingAssumption DEF Keeps
  <2>3. u = [v EXCEPT !.pend = [k \in DOMAIN @ \cup {Key(q)} |->
                                  IF k = Key(q) THEN e ELSE @[k]]]
    BY DEF StartRetransmission
  <2>4. e.left = 1
    OBVIOUS
  <2> HIDE DEF u, v, e
  <2>5. RouterOK(v) /\ Fewer(s1, v)
    BY <2>1 DEF Lightens
  <2>6. /\ u.queue = v.queue /\ u.hist = v.hist /\ Key(q) \in DOMAIN u.pend
        /\ u.pend[Key(q)] = e
    BY <2>3, <2>5 DEF RouterOK, Fields
  <2>7. TriesLeft(u) = 1
    BY <1>4, <2>4, <2>6 DEF TriesLeft
  <2>8. \A h : Count(u.queue, LiveOut(h)) <= Count(s1.queue, LiveOut(h))
    <3>1. \A h : LiveOut(h) \in SUBSET TextCopies
      BY DEF LiveOut, Fresh
    <3>2. QED
      BY <2>5, <2>6, <3>1 DEF Fewer
  <2>9. Effort(n, u) <= Effort(n, s1) + 1
    <3>1. Effort(n, v) <= Effort(n, s1)
      BY <2>1 DEF Lightens
    <3>2. Slack(n, u) = Slack(n, v) /\ Count(u.queue, TextCopies) = Count(v.queue, TextCopies)
      BY <2>6 DEF Slack
    <3>3. /\ Effort(n, s1) \in Nat /\ Slack(n, v) \in {0, 1} /\ TriesLeft(v) \in Nat
          /\ Count(v.queue, TextCopies) \in Nat
      BY <1>5, <2>5, EffortType
    <3>4. QED
      BY <2>7, <3>1, <3>2, <3>3 DEF Effort, Load
  <2>10. HighOf(u) = HighOf(s1)
    BY <2>1, <2>6 DEF HighOf, Lightens
  <2>11. QED
    BY <2>2, <2>7, <2>8, <2>9, <2>10
<1> HIDE DEF u
<1>7. /\ RouterOK(s2) /\ (TriesLeft(s) <= 1 => TriesLeft(s2) <= 1)
      /\ Effort(n, s2) <= Effort(n, s) + 1 /\ HighOf(s2) = Higher(HighOf(s), p.lim)
      /\ \A h : Count(s2.queue, LiveOut(h)) <= Count(s.queue, LiveOut(h))
  <2>1. Slack(n, s) \in {0, 1} /\ Load(s) \in Nat /\ \A h : Count(s.queue, LiveOut(h)) \in Nat
    BY EffortType
  <2>2. Effort(n, s1) <= Effort(n, s) /\ Effort(n, s1) \in Nat /\ Effort(n, s) \in Nat
    BY <1>5, <2>1 DEF Effort
  <2>3. CASE again
    <3>1. s2 = u
      BY <2>3
    <3>2. RouterOK(u) /\ TriesLeft(u) = 1 /\ HighOf(u) = Higher(HighOf(s), p.lim)
      BY <1>5, <1>6
    <3>3. Effort(n, u) <= Effort(n, s) + 1
      <4>1. Effort(n, u) \in Nat
        BY <1>6, EffortType
      <4>2. QED
        BY <1>6, <2>2, <4>1
    <3>4. \A h : Count(u.queue, LiveOut(h)) <= Count(s.queue, LiveOut(h))
      BY <1>5, <1>6
    <3> HIDE DEF s2
    <3>5. QED
      BY <3>1, <3>2, <3>3, <3>4
  <2>4. CASE ~again
    BY <1>5, <2>1, <2>2, <2>4
  <2>5. QED
    BY <2>3, <2>4
<1> HIDE DEF s2
<1>8. /\ RouterOK(t) /\ t.hist = s2.hist /\ TriesLeft(t) = TriesLeft(s2) /\ Load(t) = Load(s2) + 1
      /\ \A h : Count(t.queue, LiveOut(h)) = Count(s2.queue, LiveOut(h)) + OutCost(q, h)
  <2>1. RouterOK(s2) /\ n \in Nodes
    BY <1>7
  <2>2. q \in Packet /\ IsText(q)
    BY <1>2, <1>4
  <2>3. QED
    BY <1>3, <2>1, <2>2, RouterSendText
<1>9. Slack(n, t) = Slack(n, s2) /\ HighOf(t) = HighOf(s2)
  BY <1>8 DEF Slack, HighOf
<1>10. Effort(n, t) <= Effort(n, s) + 2
  <2>1. Slack(n, s2) \in {0, 1} /\ Load(s2) \in Nat /\ Effort(n, s) \in Nat
    BY <1>7, EffortType
  <2>2. QED
    BY <1>7, <1>8, <1>9, <2>1 DEF Effort
<1>11. \A h : Count(t.queue, LiveOut(h))
                <= Count(s.queue, LiveOut(h)) + (IF p.lim > h THEN 1 ELSE 0)
  <2>1. SUFFICES ASSUME NEW h PROVE Count(t.queue, LiveOut(h))
                <= Count(s.queue, LiveOut(h)) + (IF p.lim > h THEN 1 ELSE 0)
    OBVIOUS
  <2>2. Count(s2.queue, LiveOut(h)) \in Nat /\ Count(s.queue, LiveOut(h)) \in Nat
    BY <1>7, EffortType
  <2>3. q.lim = p.lim /\ p.lim # HopLimit
    BY <1>2, RoutingAssumption DEF Packet
  <2>4. OutCost(q, h) \in {0, 1} /\ OutCost(q, h) <= IF p.lim > h THEN 1 ELSE 0
    BY <2>3 DEF OutCost
  <2>5. /\ Count(t.queue, LiveOut(h)) = Count(s2.queue, LiveOut(h)) + OutCost(q, h)
        /\ Count(s2.queue, LiveOut(h)) <= Count(s.queue, LiveOut(h))
    BY <1>7, <1>8
  <2>6. QED
    BY <2>2, <2>4, <2>5
<1>12. QED
  BY <1>7, <1>8, <1>9, <1>10, <1>11

(* A relay sends on what names it as the next hop or names none; a copy it   *)
(* sends to a next hop was itself directed, and stays below its own limit.   *)
DirectCost(n, p, h) == IF p.next = n /\ p.lim > h THEN 1 ELSE 0

Relays(n, p, s, t) ==
  /\ RouterOK(t) /\ HighOf(t) = HighOf(s) /\ (TriesLeft(s) <= 1 => TriesLeft(t) <= 1)
  /\ \A h \in Int : Count(t.queue, LiveOut(h)) <= Count(s.queue, LiveOut(h)) + DirectCost(n, p, h)
  /\ \/ Effort(n, t) <= Effort(n, s)
     \/ p.next = NoNode /\ Effort(n, t) <= Load(s) + 1
     \/ p.next = n /\ Effort(n, t) <= Effort(n, s) + 2

LEMMA RelayNothing ==
  ASSUME NEW n, NEW p, NEW s, RouterOK(s)
  PROVE  Relays(n, p, s, s)
<1>1. Effort(n, s) \in Nat /\ \A h : Count(s.queue, LiveOut(h)) \in Nat
  BY EffortType
<1>2. \A h : DirectCost(n, p, h) \in {0, 1}
  BY DEF DirectCost
<1>3. \A h : Count(s.queue, LiveOut(h)) <= Count(s.queue, LiveOut(h)) + DirectCost(n, p, h)
  BY <1>1, <1>2
<1>4. QED
  BY <1>1, <1>3 DEF Relays

LEMMA RelayText ==
  ASSUME NUM_INTERMEDIATE_RETX = 2,
         NEW n \in Nodes \ {Source}, NEW s, RouterOK(s), NEW d, NEW p \in Incoming(d), IsText(p),
         HighOf(s) >= p.lim
  PROVE  Relays(n, p, s, Rebroadcast(n, s, p))
<1> DEFINE q == [p EXCEPT !.lim = IF Decrements(n, p) THEN @ - 1 ELSE @]
           t == Rebroadcast(n, s, p)
<1>1. CASE ~MayRelay(n, p)
  BY <1>1, RelayNothing DEF Rebroadcast
<1>2. CASE MayRelay(n, p)
  <2>1. /\ q \in Outgoing(d, n) /\ Key(q) = Key(p) /\ q.next = p.next
        /\ q.lim <= p.lim /\ q.lim < HopLimit
    <3>1. n \in Nodes /\ MayRelay(n, p) /\ p \in Incoming(d)
      BY <1>2
    <3>2. q \in Outgoing(d, n) /\ Key(q) = Key(p)
      BY <3>1, RelayedCopy
    <3>3. q.next = p.next
      BY <3>1, RelayedCopy
    <3>4. q.lim <= p.lim
      BY <3>1, RelayedCopy
    <3>5. q.lim < HopLimit
      BY <3>1, RelayedCopy
    <3> HIDE DEF q
    <3>6. QED
      BY <3>2, <3>3, <3>4, <3>5
  <2>2. t = IF p.next = NoNode THEN FloodSend(n, s, q) ELSE NextHopSend(n, s, q)
    BY <1>2 DEF Rebroadcast
  <2> HIDE DEF t, q
  <2>3. q \in Packet /\ IsText(q) /\ p \in Packet
    BY <2>1 DEF Outgoing, Incoming, IsText
  <2>4. /\ HighOf(s) \in -1..HopLimit /\ Effort(n, s) \in Nat /\ Load(s) \in Nat
        /\ q.lim \in 0..HopLimit /\ p.lim \in 0..HopLimit /\ HopLimit \in Nat
        /\ \A h : Count(s.queue, LiveOut(h)) \in Nat
    BY <2>3, EffortType, RoutingAssumption DEF Packet
  <2>5. Higher(HighOf(s), q.lim) = HighOf(s)
    BY <2>1, <2>4 DEF Higher
  <2>6. CASE p.next = NoNode
    <3>1. t = FloodSend(n, s, q)
      BY <2>2, <2>6
    <3>2. /\ RouterOK(t) /\ TriesLeft(t) = TriesLeft(s) /\ Load(t) = Load(s) + 1
          /\ Slack(n, t) = 0 /\ HighOf(t) = Higher(HighOf(s), q.lim)
          /\ \A h : Count(t.queue, LiveOut(h)) = Count(s.queue, LiveOut(h))
      BY <2>1, <2>3, <2>6, <3>1, FloodText
    <3>3. Effort(n, t) <= Load(s) + 1
      BY <2>4, <3>2 DEF Effort
    <3>4. \A h : DirectCost(n, p, h) \in {0, 1}
      BY DEF DirectCost
    <3>5. \A h : Count(t.queue, LiveOut(h)) <= Count(s.queue, LiveOut(h)) + DirectCost(n, p, h)
      BY <2>4, <3>2, <3>4
    <3>6. RouterOK(t) /\ HighOf(t) = HighOf(s) /\ (TriesLeft(s) <= 1 => TriesLeft(t) <= 1)
      BY <2>5, <3>2
    <3>7. Relays(n, p, s, t)
      BY <2>6, <3>3, <3>5, <3>6 DEF Relays
    <3>8. QED
      BY <3>7 DEF t
  <2>7. CASE p.next # NoNode
    <3>1. t = NextHopSend(n, s, q) /\ p.next = n
      BY <1>2, <2>2, <2>7 DEF MayRelay
    <3>2. /\ RouterOK(t) /\ (TriesLeft(s) <= 1 => TriesLeft(t) <= 1)
          /\ Effort(n, t) <= Effort(n, s) + 2 /\ HighOf(t) = Higher(HighOf(s), q.lim)
          /\ \A h : Count(t.queue, LiveOut(h))
                      <= Count(s.queue, LiveOut(h)) + (IF q.lim > h THEN 1 ELSE 0)
      BY <2>1, <2>3, <3>1, NextHopText
    <3>3. ASSUME NEW h \in Int
          PROVE  Count(t.queue, LiveOut(h)) <= Count(s.queue, LiveOut(h)) + DirectCost(n, p, h)
      <4>1. Count(t.queue, LiveOut(h)) <= Count(s.queue, LiveOut(h)) + (IF q.lim > h THEN 1 ELSE 0)
        BY <3>2
      <4>2. Count(t.queue, LiveOut(h)) \in Nat /\ Count(s.queue, LiveOut(h)) \in Nat
        BY <2>4, <3>2, EffortType
      <4>3. CASE q.lim > h
        <5>1. p.lim > h
          BY <2>1, <2>4, <4>3
        <5>2. QED
          BY <3>1, <4>1, <4>3, <5>1 DEF DirectCost
      <4>4. CASE ~(q.lim > h)
        BY <4>1, <4>2, <4>4 DEF DirectCost
      <4>5. QED
        BY <4>3, <4>4
    <3>4. HighOf(t) = HighOf(s)
      BY <2>5, <3>2
    <3>5. Relays(n, p, s, t)
      BY <3>1, <3>2, <3>3, <3>4 DEF Relays
    <3>6. QED
      BY <3>5 DEF t
  <2>8. QED
    BY <2>6, <2>7
<1>3. QED
  BY <1>1, <1>2

-----------------------------------------------------------------------------
(* What a relay has sent and may yet send, and how that is paid for: a       *)
(* first copy is relayed once; another flood only for a flood of Source      *)
(* itself, or where the node has stopped to be a relayer; a directed copy    *)
(* takes one of the tries of Source along.                                   *)

Ready(n, s, b) == /\ TriesLeft(s) <= 1
                  /\ HighOf(s) = -1 => b = 0 /\ Effort(n, s) = 0

Spent(n, s, b) == (IF b + Effort(n, s) > 0 THEN b + Effort(n, s) ELSE 1) + Count(s.rx, FullFloods)

(* A step of a relay that leaves it and the other nodes no more to send.     *)
Eases(n, s, t, b) ==
  /\ RouterOK(t) /\ Ready(n, t, b) /\ HighOf(t) >= HighOf(s)
  /\ \A h \in Int : LiveAt(n, t, h) <= LiveAt(n, s, h)
  /\ Spent(n, t, b) + 2 * LiveAt(n, t, HighOf(t)) <= Spent(n, s, b) + 2 * LiveAt(n, s, HighOf(s))

(* What handling a copy of the text may do.                                  *)
Takes(n, p, s, t) ==
  /\ RouterOK(t) /\ TriesLeft(t) <= 1 /\ HighOf(t) = Higher(HighOf(s), p.lim)
  /\ \A h \in Int : Count(t.queue, LiveOut(h)) <= Count(s.queue, LiveOut(h)) + DirectCost(n, p, h)
  /\ \/ Effort(n, t) <= Effort(n, s)
     \/ HighOf(s) = -1 /\ Effort(n, t) <= 1
     \/ p \in FullFloods /\ Effort(n, t) <= Effort(n, s) + 1
     \/ p \in LiveIn(n, HighOf(s)) /\ Effort(n, t) <= Effort(n, s) + 2

LEMMA CountSubset ==
  ASSUME NEW X, NEW q \in Seq(X), NEW A, NEW B, A \subseteq B
  PROVE  Count(q, A) <= Count(q, B) /\ Count(q, A) \in Nat /\ Count(q, B) \in Nat
<1>1. Where(q, A) \subseteq Where(q, B)
  BY DEF Where
<1>2. IsFiniteSet(Where(q, B)) /\ Count(q, A) \in Nat /\ Count(q, B) \in Nat
  BY CountType
<1>3. QED
  BY <1>1, <1>2, FS_Subset DEF Count

(* A lower limit counts more.                                                *)
LEMMA LiveHigher ==
  ASSUME NEW n, NEW s, RouterOK(s), NEW h \in Int, NEW g \in Int, h <= g
  PROVE  /\ Count(s.queue, LiveOut(g)) <= Count(s.queue, LiveOut(h))
         /\ Count(s.rx, LiveIn(n, g)) <= Count(s.rx, LiveIn(n, h))
         /\ Count(s.queue, LiveOut(g)) \in Nat /\ Count(s.queue, LiveOut(h)) \in Nat
         /\ Count(s.rx, LiveIn(n, g)) \in Nat /\ Count(s.rx, LiveIn(n, h)) \in Nat
<1>1. Fresh(g) \subseteq Fresh(h)
  BY RoutingAssumption DEF Fresh, TextCopies, Packet
<1>2. LiveOut(g) \subseteq LiveOut(h) /\ LiveIn(n, g) \subseteq LiveIn(n, h)
  BY <1>1 DEF LiveOut, LiveIn
<1>3. s.queue \in Seq(Packet) /\ s.rx \in Seq(Packet)
  BY DEF RouterOK, RouterType
<1>4. QED
  BY <1>2, <1>3, CountSubset

(* Nothing is added, and the history may grow.                               *)
LEMMA EasesBy ==
  ASSUME NEW n \in Nodes, NEW s, RouterOK(s), NEW t, RouterOK(t),
         Effort(n, t) <= Effort(n, s), HighOf(t) >= HighOf(s),
         \A h \in Int : Count(t.queue, LiveOut(h)) <= Count(s.queue, LiveOut(h)),
         \A S \in SUBSET TextCopies : Count(t.rx, S) <= Count(s.rx, S),
         NEW b \in Nat, Ready(n, t, b)
  PROVE  Eases(n, s, t, b)
<1>1. /\ Effort(n, t) \in Nat /\ Effort(n, s) \in Nat /\ HighOf(s) \in Int /\ HighOf(t) \in Int
  <2>1. HighOf(s) \in -1..HopLimit /\ HighOf(t) \in -1..HopLimit
    BY EffortType
  <2>2. QED
    BY <2>1, EffortType, RoutingAssumption
<1>2. ASSUME NEW h \in Int
      PROVE  LiveAt(n, t, h) <= LiveAt(n, s, h) /\ LiveAt(n, t, h) \in Nat /\ LiveAt(n, s, h) \in Nat
  <2>1. LiveIn(n, h) \in SUBSET TextCopies
    BY DEF LiveIn, Fresh
  <2>2. /\ Count(t.queue, LiveOut(h)) \in Nat /\ Count(s.queue, LiveOut(h)) \in Nat
        /\ Count(t.rx, LiveIn(n, h)) \in Nat /\ Count(s.rx, LiveIn(n, h)) \in Nat
    BY LiveType
  <2>3. /\ Count(t.queue, LiveOut(h)) <= Count(s.queue, LiveOut(h))
        /\ Count(t.rx, LiveIn(n, h)) <= Count(s.rx, LiveIn(n, h))
    BY <2>1
  <2>4. QED
    BY <2>2, <2>3 DEF LiveAt
<1>3. /\ LiveAt(n, t, HighOf(t)) <= LiveAt(n, s, HighOf(s))
      /\ LiveAt(n, t, HighOf(t)) \in Nat /\ LiveAt(n, s, HighOf(s)) \in Nat
  <2>1. /\ LiveAt(n, t, HighOf(t)) <= LiveAt(n, s, HighOf(t))
        /\ LiveAt(n, t, HighOf(t)) \in Nat /\ LiveAt(n, s, HighOf(t)) \in Nat
        /\ LiveAt(n, s, HighOf(s)) \in Nat
    BY <1>1, <1>2
  <2>2. LiveAt(n, s, HighOf(t)) <= LiveAt(n, s, HighOf(s))
    <3>1. HighOf(s) <= HighOf(t)
      BY <1>1
    <3>2. /\ Count(s.queue, LiveOut(HighOf(t))) <= Count(s.queue, LiveOut(HighOf(s)))
          /\ Count(s.rx, LiveIn(n, HighOf(t))) <= Count(s.rx, LiveIn(n, HighOf(s)))
          /\ Count(s.queue, LiveOut(HighOf(t))) \in Nat /\ Count(s.queue, LiveOut(HighOf(s))) \in Nat
          /\ Count(s.rx, LiveIn(n, HighOf(t))) \in Nat /\ Count(s.rx, LiveIn(n, HighOf(s))) \in Nat
      BY <1>1, <3>1, LiveHigher
    <3>3. QED
      BY <3>2 DEF LiveAt
  <2>3. QED
    BY <2>1, <2>2
<1>4. Spent(n, t, b) <= Spent(n, s, b) /\ Spent(n, t, b) \in Nat /\ Spent(n, s, b) \in Nat
  <2>1. FullFloods \in SUBSET TextCopies
    BY DEF FullFloods, Floods
  <2>2. Count(t.rx, FullFloods) \in Nat /\ Count(s.rx, FullFloods) \in Nat
    BY CountType DEF RouterOK, RouterType
  <2>3. Count(t.rx, FullFloods) <= Count(s.rx, FullFloods)
    BY <2>1
  <2>4. QED
    BY <1>1, <2>2, <2>3 DEF Spent
<1>5. Spent(n, t, b) + 2 * LiveAt(n, t, HighOf(t)) <= Spent(n, s, b) + 2 * LiveAt(n, s, HighOf(s))
  BY <1>3, <1>4
<1>6. QED
  BY <1>2, <1>5 DEF Eases

LEMMA LightensEases ==
  ASSUME NEW n \in Nodes \ {Source}, NEW s, RouterOK(s), NEW t, Lightens(n, s, t),
         \A S \in SUBSET TextCopies : Count(t.rx, S) <= Count(s.rx, S),
         NEW b \in Nat, Ready(n, s, b)
  PROVE  Eases(n, s, t, b)
<1>1. /\ RouterOK(t) /\ Effort(n, t) <= Effort(n, s) /\ HighOf(t) = HighOf(s)
      /\ \A S \in SUBSET TextCopies : Count(t.queue, S) <= Count(s.queue, S)
      /\ TriesLeft(t) <= TriesLeft(s)
  BY DEF Lightens, Fewer
<1>2. /\ Effort(n, t) \in Nat /\ Effort(n, s) \in Nat /\ HighOf(s) \in -1..HopLimit
      /\ TriesLeft(t) \in Nat /\ TriesLeft(s) \in Nat
  BY <1>1, EffortType
<1>3. Ready(n, t, b)
  BY <1>1, <1>2 DEF Ready
<1>4. \A h \in Int : LiveOut(h) \in SUBSET TextCopies
  BY DEF LiveOut, Fresh
<1>5. HighOf(t) >= HighOf(s)
  BY <1>1, <1>2, RoutingAssumption
<1>6. \A h \in Int : Count(t.queue, LiveOut(h)) <= Count(s.queue, LiveOut(h))
  BY <1>1, <1>4
<1>7. QED
  BY <1>1, <1>3, <1>5, <1>6, EasesBy

LEMMA TakesEases ==
  ASSUME NEW n \in Nodes, NEW s, RouterOK(s), NEW p \in Packet, IsText(p), NEW t, Takes(n, p, s, t),
         \A S \in SUBSET TextCopies : Count(t.rx, S) = Count(s.rx, S) - (IF p \in S THEN 1 ELSE 0),
         NEW b \in Nat, Ready(n, s, b)
  PROVE  Eases(n, s, t, b)
<1> DEFINE h0 == HighOf(s)
           g == HighOf(t)
<1>1. /\ RouterOK(t) /\ TriesLeft(t) <= 1 /\ g = Higher(h0, p.lim)
      /\ Effort(n, t) \in Nat /\ Effort(n, s) \in Nat
      /\ h0 \in Int /\ g \in Int /\ p.lim \in Nat
  <2>1. p.lim \in Nat
    BY RoutingAssumption DEF Packet
  <2>2. RouterOK(t) /\ TriesLeft(t) <= 1 /\ g = Higher(h0, p.lim)
    BY DEF Takes
  <2>3. /\ Effort(n, t) \in Nat /\ Effort(n, s) \in Nat /\ h0 \in -1..HopLimit /\ g \in -1..HopLimit
    BY <2>2, EffortType
  <2>4. QED
    BY <2>1, <2>2, <2>3, RoutingAssumption
<1> HIDE DEF h0, g
<1>2. g >= h0 /\ g >= p.lim /\ g # -1
  BY <1>1 DEF Higher
<1>3. p \in TextCopies
  BY DEF TextCopies
<1>4. \A h \in Int : p \in LiveIn(n, h) <=> p.next = n /\ (p.lim > h \/ p.lim = HopLimit)
  BY <1>3 DEF LiveIn, Fresh
<1>5. \A h \in Int : /\ LiveIn(n, h) \in SUBSET TextCopies
                     /\ DirectCost(n, p, h) \in {0, 1}
                     /\ DirectCost(n, p, h) = 1 => p \in LiveIn(n, h)
  BY <1>4 DEF LiveIn, Fresh, DirectCost
<1>6. \A h \in Int : /\ Count(t.queue, LiveOut(h)) \in Nat /\ Count(s.queue, LiveOut(h)) \in Nat
                     /\ Count(t.rx, LiveIn(n, h)) \in Nat /\ Count(s.rx, LiveIn(n, h)) \in Nat
  BY <1>1, LiveType
<1>7. \A h \in Int : /\ Count(t.queue, LiveOut(h)) <= Count(s.queue, LiveOut(h)) + DirectCost(n, p, h)
                     /\ Count(t.rx, LiveIn(n, h))
                          = Count(s.rx, LiveIn(n, h)) - (IF p \in LiveIn(n, h) THEN 1 ELSE 0)
  BY <1>5 DEF Takes
<1>8. ASSUME NEW h \in Int PROVE LiveAt(n, t, h) <= LiveAt(n, s, h)
  BY <1>5, <1>6, <1>7 DEF LiveAt
<1>9. /\ LiveAt(n, t, g) <= LiveAt(n, s, h0) - (IF p \in LiveIn(n, h0) THEN 1 ELSE 0)
      /\ LiveAt(n, t, g) \in Nat /\ LiveAt(n, s, h0) \in Nat
  <2>1. DirectCost(n, p, g) = 0
    BY <1>1, <1>2 DEF DirectCost
  <2>2. Count(t.queue, LiveOut(g)) <= Count(s.queue, LiveOut(g))
    BY <1>1, <1>6, <1>7, <2>1
  <2>3. /\ Count(s.queue, LiveOut(g)) <= Count(s.queue, LiveOut(h0))
        /\ Count(t.rx, LiveIn(n, g)) <= Count(t.rx, LiveIn(n, h0))
    BY <1>1, <1>2, LiveHigher
  <2>4. Count(t.rx, LiveIn(n, h0)) = Count(s.rx, LiveIn(n, h0)) - (IF p \in LiveIn(n, h0) THEN 1 ELSE 0)
    BY <1>1, <1>7
  <2>5. QED
    BY <1>1, <1>6, <2>2, <2>3, <2>4 DEF LiveAt
<1>10. /\ Count(t.rx, FullFloods) = Count(s.rx, FullFloods) - (IF p \in FullFloods THEN 1 ELSE 0)
       /\ Count(t.rx, FullFloods) \in Nat /\ Count(s.rx, FullFloods) \in Nat
  <2>1. FullFloods \in SUBSET TextCopies
    BY DEF FullFloods, Floods
  <2>2. QED
    BY <1>1, <2>1, CountType DEF RouterOK, RouterType
<1>11. h0 = -1 => b = 0 /\ Effort(n, s) = 0
  BY DEF Ready, h0
<1>12. \/ Effort(n, t) <= Effort(n, s)
       \/ h0 = -1 /\ Effort(n, t) <= 1
       \/ p \in FullFloods /\ Effort(n, t) <= Effort(n, s) + 1
       \/ p \in LiveIn(n, h0) /\ Effort(n, t) <= Effort(n, s) + 2
  BY DEF Takes, h0
<1>13. Spent(n, t, b) + 2 * LiveAt(n, t, g) <= Spent(n, s, b) + 2 * LiveAt(n, s, h0)
  <2> DEFINE x == Effort(n, s)
             y == Effort(n, t)
             lt == LiveAt(n, t, g)
             ls == LiveAt(n, s, h0)
             ft == Count(t.rx, FullFloods)
             fs == Count(s.rx, FullFloods)
             Most(e) == IF b + e > 0 THEN b + e ELSE 1
  <2>1. Spent(n, t, b) = Most(y) + ft /\ Spent(n, s, b) = Most(x) + fs
    BY DEF Spent
  <2>2. x \in Nat /\ y \in Nat /\ lt \in Nat /\ ls \in Nat /\ ft \in Nat /\ fs \in Nat
    BY <1>1, <1>9, <1>10
  <2>3. lt <= ls /\ (p \in LiveIn(n, h0) => lt <= ls - 1)
        /\ ft <= fs /\ (p \in FullFloods => ft <= fs - 1)
    BY <1>9, <1>10
  <2>4. /\ h0 = -1 => b = 0 /\ x = 0
        /\ \/ y <= x
           \/ h0 = -1 /\ y <= 1
           \/ p \in FullFloods /\ y <= x + 1
           \/ p \in LiveIn(n, h0) /\ y <= x + 2
    BY <1>11, <1>12
  <2> HIDE DEF x, y, lt, ls, ft, fs
  <2>5. Most(y) + ft + 2 * lt <= Most(x) + fs + 2 * ls
    <3>1. CASE y <= x
      BY <2>2, <2>3, <3>1
    <3>2. CASE h0 = -1 /\ y <= 1
      BY <2>2, <2>3, <2>4, <3>2
    <3>3. CASE p \in FullFloods /\ y <= x + 1
      BY <2>2, <2>3, <3>3
    <3>4. CASE p \in LiveIn(n, h0) /\ y <= x + 2
      BY <2>2, <2>3, <3>4
    <3>5. QED
      BY <2>4, <3>1, <3>2, <3>3, <3>4
  <2> HIDE DEF Most
  <2>6. QED
    BY <2>1, <2>5 DEF lt, ls
<1>14. Ready(n, t, b)
  BY <1>1, <1>2 DEF Ready, g
<1>15. QED
  BY <1>1, <1>2, <1>8, <1>13, <1>14 DEF Eases, g, h0

(* Cancelling does not make a relayer of a node.                             *)
LEMMA StopSlack ==
  ASSUME NEW n \in Nodes, NEW s, RouterOK(s), NEW k, Slack(n, s) = 1
  PROVE  Slack(n, StopRetransmission(n, s, k)) = 1
<1> DEFINE c  == Cancel(n, s, k)
           s1 == IF s.pend[k].left < NUM_RELIABLE_RETX - 1
                    /\ (k[1] = n \/ AllowsCanceling(n))
                 THEN c ELSE s
           t  == StopRetransmission(n, s, k)
           found == {i \in DOMAIN s.queue : Key(s.queue[i]) = k}
           h == IF k \in DOMAIN s.hist THEN [s.hist EXCEPT ![k].by = @ \ {n}] ELSE s.hist
<1>1. RouterOK(c)
  BY CancelKeeps DEF Keeps
<1>2. /\ TextKey \in DOMAIN s.hist /\ s.hist[TextKey].by # {} /\ n \notin s.hist[TextKey].by
  BY DEF Slack
<1>3. c.hist = s.hist \/ c.hist = h
  <2>1. c = s \/ c = [s EXCEPT !.queue = DropAt(@, FirstIn(s.queue, found)), !.hist = h]
    BY DEF Cancel
  <2> HIDE DEF c, h, found
  <2>2. QED
    BY <2>1 DEF RouterOK, Fields
<1>4. /\ TextKey \in DOMAIN h /\ h[TextKey].by # {} /\ n \notin h[TextKey].by
  <2>1. s.hist[TextKey] \in Seen
    BY <1>2 DEF RouterOK, RouterType
  <2>2. QED
    BY <1>2, <2>1 DEF Seen
<1> HIDE DEF c, h
<1>5. Slack(n, c) = 1
  BY <1>2, <1>3, <1>4 DEF Slack
<1>6. t = s \/ t = [s1 EXCEPT !.pend = [j \in DOMAIN @ \ {k} |-> @[j]]]
  BY DEF StopRetransmission, c
<1>7. RouterOK(s1) /\ Slack(n, s1) = 1
  BY <1>1, <1>5
<1> HIDE DEF t, s1
<1>8. t = s \/ t.hist = s1.hist
  BY <1>6, <1>7 DEF RouterOK, Fields
<1>9. Slack(n, t) = 1
  BY <1>7, <1>8 DEF Slack
<1>10. QED
  BY <1>9 DEF t

LEMMA TakesAside ==
  ASSUME NEW n \in Nodes \ {Source}, NEW s, RouterOK(s), TriesLeft(s) <= 1,
         NEW p \in Packet, IsText(p), NEW t, Lightens(n, Saw(n, s, p), t)
  PROVE  Takes(n, p, s, t)
<1> DEFINE s1 == Saw(n, s, p)
<1>1. /\ RouterOK(s1) /\ s1.queue = s.queue /\ HighOf(s1) = Higher(HighOf(s), p.lim)
      /\ Slack(n, s1) <= Slack(n, s) /\ Load(s1) = Load(s) /\ TriesLeft(s1) = TriesLeft(s)
  BY SawText
<1>2. Lightens(n, s1, t)
  OBVIOUS
<1> HIDE DEF s1
<1>3. /\ RouterOK(t) /\ Effort(n, t) <= Effort(n, s1) /\ HighOf(t) = HighOf(s1)
      /\ \A S \in SUBSET TextCopies : Count(t.queue, S) <= Count(s1.queue, S)
      /\ TriesLeft(t) <= TriesLeft(s1)
  BY <1>2 DEF Lightens, Fewer
<1>4. Effort(n, s1) <= Effort(n, s)
  <2>1. Slack(n, s) \in {0, 1} /\ Slack(n, s1) \in {0, 1} /\ Load(s) \in Nat
    BY <1>1, EffortType
  <2>2. QED
    BY <1>1, <2>1 DEF Effort
<1>5. /\ Effort(n, t) \in Nat /\ Effort(n, s1) \in Nat /\ Effort(n, s) \in Nat
      /\ TriesLeft(t) \in Nat /\ TriesLeft(s) \in Nat
  BY <1>1, <1>3, EffortType
<1>6. ASSUME NEW h \in Int
      PROVE  Count(t.queue, LiveOut(h)) <= Count(s.queue, LiveOut(h)) + DirectCost(n, p, h)
  <2>1. LiveOut(h) \in SUBSET TextCopies
    BY DEF LiveOut, Fresh
  <2>2. Count(t.queue, LiveOut(h)) <= Count(s.queue, LiveOut(h))
    BY <1>1, <1>3, <2>1
  <2>3. /\ Count(t.queue, LiveOut(h)) \in Nat /\ Count(s.queue, LiveOut(h)) \in Nat
        /\ DirectCost(n, p, h) \in {0, 1}
    BY <1>3, EffortType DEF DirectCost
  <2>4. QED
    BY <2>2, <2>3
<1>7. Effort(n, t) <= Effort(n, s) /\ TriesLeft(t) <= 1
  BY <1>1, <1>3, <1>4, <1>5
<1>8. QED
  BY <1>1, <1>3, <1>6, <1>7 DEF Takes

(* The copy is relayed, after steps that only lighten.                       *)
LEMMA TakesRelay ==
  ASSUME NEW n \in Nodes \ {Source}, NEW s, RouterOK(s), TriesLeft(s) <= 1,
         NEW p \in Packet, IsText(p), NEW v, Lightens(n, Saw(n, s, p), v),
         NEW t, Relays(n, p, v, t),
         p.next = NoNode => \/ p \in FullFloods
                            \/ Load(v) + 1 <= Effort(n, s)
                            \/ HighOf(s) = -1 /\ Load(v) = 0,
         p.next = n => p \in LiveIn(n, HighOf(s))
  PROVE  Takes(n, p, s, t)
<1>1. Takes(n, p, s, v)
  BY TakesAside
<1>2. /\ RouterOK(v) /\ TriesLeft(v) <= 1 /\ HighOf(v) = Higher(HighOf(s), p.lim)
  BY <1>1 DEF Takes
<1>3. /\ RouterOK(t) /\ HighOf(t) = Higher(HighOf(s), p.lim) /\ TriesLeft(t) <= 1
  BY <1>2 DEF Relays
<1>4. Effort(n, v) <= Effort(n, s)
  <2>1. Lightens(n, Saw(n, s, p), v) /\ Effort(n, Saw(n, s, p)) <= Effort(n, s)
    <3>1. Slack(n, s) \in {0, 1} /\ Load(s) \in Nat
      BY EffortType
    <3>2. /\ Slack(n, Saw(n, s, p)) <= Slack(n, s) /\ Load(Saw(n, s, p)) = Load(s)
          /\ RouterOK(Saw(n, s, p))
      BY SawText
    <3>3. Slack(n, Saw(n, s, p)) \in {0, 1}
      BY <3>2, EffortType
    <3>4. QED
      BY <3>1, <3>2, <3>3 DEF Effort
  <2>2. Effort(n, v) <= Effort(n, Saw(n, s, p))
    BY <2>1 DEF Lightens
  <2>3. Effort(n, v) \in Nat /\ Effort(n, s) \in Nat /\ Effort(n, Saw(n, s, p)) \in Nat
    BY <1>2, SawText, EffortType
  <2>4. QED
    BY <2>1, <2>2, <2>3
<1>5. /\ Effort(n, v) \in Nat /\ Effort(n, s) \in Nat /\ Effort(n, t) \in Nat
      /\ Load(v) \in Nat /\ Load(v) <= Effort(n, v)
  <2>1. /\ Effort(n, v) \in Nat /\ Effort(n, s) \in Nat /\ Effort(n, t) \in Nat
        /\ Load(v) \in Nat /\ Slack(n, v) \in {0, 1}
    BY <1>2, <1>3, EffortType
  <2>2. QED
    BY <2>1 DEF Effort
<1>6. ASSUME NEW h \in Int
      PROVE  Count(t.queue, LiveOut(h)) <= Count(s.queue, LiveOut(h)) + DirectCost(n, p, h)
  <2>1. LiveOut(h) \in SUBSET TextCopies
    BY DEF LiveOut, Fresh
  <2>2. Count(v.queue, LiveOut(h)) <= Count(s.queue, LiveOut(h))
    <3>1. Saw(n, s, p).queue = s.queue
      BY SawText
    <3>2. QED
      BY <2>1, <3>1 DEF Lightens, Fewer
  <2>3. Count(t.queue, LiveOut(h)) <= Count(v.queue, LiveOut(h)) + DirectCost(n, p, h)
    BY DEF Relays
  <2>4. /\ Count(t.queue, LiveOut(h)) \in Nat /\ Count(s.queue, LiveOut(h)) \in Nat
        /\ Count(v.queue, LiveOut(h)) \in Nat /\ DirectCost(n, p, h) \in {0, 1}
    BY <1>2, <1>3, EffortType DEF DirectCost
  <2>5. QED
    BY <2>2, <2>3, <2>4
<1>7. \/ Effort(n, t) <= Effort(n, s)
      \/ HighOf(s) = -1 /\ Effort(n, t) <= 1
      \/ p \in FullFloods /\ Effort(n, t) <= Effort(n, s) + 1
      \/ p \in LiveIn(n, HighOf(s)) /\ Effort(n, t) <= Effort(n, s) + 2
  <2>1. CASE Effort(n, t) <= Effort(n, v)
    BY <1>4, <1>5, <2>1
  <2>2. CASE p.next = NoNode /\ Effort(n, t) <= Load(v) + 1
    BY <1>4, <1>5, <2>2
  <2>3. CASE p.next = n /\ Effort(n, t) <= Effort(n, v) + 2
    BY <1>4, <1>5, <2>3
  <2>4. QED
    BY <2>1, <2>2, <2>3 DEF Relays
<1>8. QED
  BY <1>3, <1>6, <1>7 DEF Takes

LEMMA HighType ==
  ASSUME NEW s, RouterOK(s)
  PROVE  HighOf(s) \in Int
<1>1. HighOf(s) \in -1..HopLimit
  BY EffortType
<1>2. QED
  BY <1>1, RoutingAssumption

(* What is known of a copy of a direct message before it is relayed.         *)
LEMMA CopyTakes ==
  ASSUME NUM_INTERMEDIATE_RETX = 2,
         NEW n \in Nodes \ {Source}, NEW s, RouterOK(s), TriesLeft(s) <= 1,
         NEW d, NEW p \in Incoming(d), IsText(p), NEW v, Lightens(n, Saw(n, s, p), v),
         p.next = NoNode => \/ p \in FullFloods
                            \/ Load(v) + 1 <= Effort(n, s)
                            \/ HighOf(s) = -1 /\ Load(v) = 0,
         p.next = n => p \in LiveIn(n, HighOf(s))
  PROVE  Takes(n, p, s, Rebroadcast(n, v, p))
<1>1. n \in Nodes /\ p \in Packet /\ p.lim \in Nat
  BY RoutingAssumption DEF Incoming, Packet
<1>2. RouterOK(v) /\ HighOf(v) = Higher(HighOf(s), p.lim)
  BY <1>1, SawText DEF Lightens
<1>3. HighOf(s) \in Int
  BY HighType
<1>4. HighOf(v) >= p.lim
  BY <1>1, <1>2, <1>3 DEF Higher
<1>5. Relays(n, p, v, Rebroadcast(n, v, p))
  BY <1>2, <1>4, RelayText
<1>6. QED
  BY <1>1, <1>5, TakesRelay

(* Copies that count, and floods of Source.                                  *)
LEMMA FullCopy ==
  ASSUME NEW d, NEW p \in Incoming(d), IsText(p), NEW h
  PROVE  /\ p \in TextCopies
         /\ HopsAway(p) = 0 => p.lim = HopLimit
         /\ p.lim = HopLimit /\ p.next = NoNode => p \in FullFloods
         /\ \A m : p.next = m /\ (p.lim > h \/ p.lim = HopLimit) => p \in LiveIn(m, h)
<1>1. p \in Packet /\ p.start = HopLimit /\ p.lim \in 0..HopLimit /\ HopLimit \in Nat
  BY RoutingAssumption DEF Incoming, Packet
<1>2. p \in TextCopies
  BY <1>1 DEF TextCopies
<1>3. HopsAway(p) = 0 => p.lim = HopLimit
  BY <1>1 DEF HopsAway
<1>4. QED
  BY <1>2, <1>3 DEF FullFloods, Floods, LiveIn, Fresh

LEMMA DupeText ==
  ASSUME NUM_INTERMEDIATE_RETX = 2,
         NEW d \in Nodes, NEW n \in Nodes \ {Source}, NEW s, TextOK(d, n, s), TriesLeft(s) <= 1,
         NEW p \in Incoming(d), IsText(p), TextKey \in DOMAIN s.hist
  PROVE  Takes(n, p, s, NextHopDupe(n, s, Saw(n, s, p), p))
<1> DEFINE s1 == Saw(n, s, p)
           v  == StopRetransmission(n, s1, Key(p))
           t  == NextHopDupe(n, s, s1, p)
<1>1. RouterOK(s) /\ n \in Nodes /\ p \in Packet /\ Key(p) = TextKey
  BY DEF TextOK, Incoming, IsText
<1>2. /\ TextOK(d, n, s1) /\ RouterOK(s1)
  BY <1>1, SawSends DEF Sends, TextOK
<1>3. Lightens(n, s1, v) /\ TextOK(d, n, v)
  BY <1>2, StopLightens, StopSends DEF Sends
<1>4. \/ t = Again(n, v, p) /\ WasFallback(n, s, p)
      \/ t = Again(n, v, p) /\ HopsAway(p) = 0
      \/ t \in {AckAgain(n, v, p), v, CancelDupe(n, v, p)}
  BY DEF NextHopDupe
<1>5. ASSUME NEW u, Lightens(n, v, u) PROVE Takes(n, p, s, u)
  <2>1. Lightens(n, Saw(n, s, p), u)
    BY <1>2, <1>3, <1>5, LightensTrans
  <2>2. QED
    BY <1>1, <2>1, TakesAside
<1>6. CASE t = Again(n, v, p) /\ WasFallback(n, s, p)
  <2>1. /\ p.next = NoNode /\ p.next # n /\ p.relay # n /\ Slack(n, s) = 1
    BY <1>1, <1>6, RoutingAssumption DEF WasFallback, Slack
  <2>2. Slack(n, s1) = 1 /\ Effort(n, s1) <= Effort(n, s) /\ Effort(n, s1) \in Nat /\ Effort(n, s) \in Nat
    <3>1. Slack(n, s1) = 1 /\ Load(s1) = Load(s) /\ Load(s) \in Nat
      BY <1>1, <2>1, SawText, EffortType
    <3>2. QED
      BY <2>1, <3>1 DEF Effort
  <2> HIDE DEF s1
  <2>3. Slack(n, v) = 1
    BY <1>2, <2>2, StopSlack
  <2>4. Load(v) + 1 <= Effort(n, s)
    <3>1. Effort(n, v) <= Effort(n, s1) /\ Load(v) \in Nat
      BY <1>3, EffortType DEF Lightens
    <3>2. Effort(n, v) = Load(v) + 1
      BY <2>3 DEF Effort
    <3>3. QED
      BY <2>2, <3>1, <3>2
  <2>5. Lightens(n, Saw(n, s, p), v)
    BY <1>3 DEF s1
  <2> HIDE DEF v
  <2>6. Takes(n, p, s, Rebroadcast(n, v, p))
    BY <1>1, <2>1, <2>4, <2>5, CopyTakes
  <2>7. Takes(n, p, s, v)
    BY <1>3, <1>5, LightensSame DEF TextOK
  <2>8. Takes(n, p, s, Again(n, v, p))
    BY <2>6, <2>7 DEF Again
  <2>9. QED
    BY <1>6, <2>8 DEF s1
<1>7. CASE t = Again(n, v, p) /\ HopsAway(p) = 0
  <2>1. /\ p.next = NoNode => p \in FullFloods
        /\ p.next = n => p \in LiveIn(n, HighOf(s))
    BY <1>7, FullCopy
  <2>2. Lightens(n, Saw(n, s, p), v)
    BY <1>3
  <2> HIDE DEF v
  <2>3. Takes(n, p, s, Rebroadcast(n, v, p))
    BY <1>1, <2>1, <2>2, CopyTakes
  <2>4. Takes(n, p, s, v)
    BY <1>3, <1>5, LightensSame DEF TextOK
  <2>5. Takes(n, p, s, Again(n, v, p))
    BY <2>3, <2>4 DEF Again
  <2>6. QED
    BY <1>7, <2>5
<1>8. CASE t \in {AckAgain(n, v, p), v, CancelDupe(n, v, p)}
  <2> HIDE DEF v
  <2>1. RouterOK(v) /\ v.ids > 0
    BY <1>3 DEF TextOK
  <2>2. /\ Lightens(n, v, AckAgain(n, v, p)) /\ Lightens(n, v, v)
        /\ Lightens(n, v, CancelDupe(n, v, p))
    BY <1>1, <2>1, AckAgainLightens, LightensSame, CancelLightens DEF CancelDupe
  <2>3. QED
    BY <1>5, <1>8, <2>2
<1>9. QED
  BY <1>4, <1>6, <1>7, <1>8

LEMMA DuplicateText ==
  ASSUME NUM_INTERMEDIATE_RETX = 2,
         NEW d \in Nodes, NEW n \in Nodes \ {Source}, NEW s, TextOK(d, n, s), TriesLeft(s) <= 1,
         NEW p \in Incoming(d), IsText(p), TextKey \in DOMAIN s.hist
  PROVE  Takes(n, p, s, Duplicate(n, s, p))
<1> DEFINE s1 == Saw(n, s, p)
           j  == FirstIn(s1.queue, Worse(s1, p))
           v  == [s1 EXCEPT !.queue = DropAt(s1.queue, j)]
<1>1. /\ RouterOK(s) /\ n \in Nodes /\ p \in Packet /\ Key(p) = TextKey /\ p.to # Broadcast
      /\ p.lim \in Nat
  BY RoutingAssumption DEF TextOK, Incoming, IsText, Packet
<1>2. Duplicate(n, s, p) = IF Upgrades(n, s, p) THEN Upgrade(n, s1, p) ELSE NextHopDupe(n, s, s1, p)
  BY <1>1 DEF Duplicate
<1>3. CASE ~Upgrades(n, s, p)
  BY <1>2, <1>3, DupeText
<1>4. CASE Upgrades(n, s, p)
  <2>1. /\ RouterOK(s1) /\ s1.queue = s.queue /\ Load(s1) = Load(s)
    BY <1>1, SawText
  <2>2. Worse(s1, p) = Worse(s, p) /\ Worse(s, p) # {}
    BY <1>4, <2>1 DEF Worse, Upgrades
  <2>3. HighOf(s) < p.lim
    BY <1>1, <1>4 DEF Upgrades, WasUpgraded, Known, HighOf
  <2>4. Upgrade(n, s1, p) = Rebroadcast(n, v, p)
    BY DEF Upgrade
  <2> HIDE DEF s1
  <2>5. s1.queue \in Seq(Packet) /\ Worse(s1, p) \subseteq DOMAIN s1.queue
    BY <2>1 DEF RouterOK, RouterType, Worse
  <2>6. j \in Worse(s1, p) /\ j \in DOMAIN s1.queue
    BY <2>2, <2>5, FirstInType
  <2>7. Cost(s1.queue[j]) = 1
    BY <1>1, <2>6 DEF Worse, Cost, IsText
  <2> HIDE DEF j
  <2>8. DropAt(s1.queue, j) \in Seq(Packet)
    BY <2>5, <2>6, DropAtType
  <2>9. /\ RouterOK(v) /\ v.queue = DropAt(s1.queue, j) /\ v.pend = s1.pend /\ v.hist = s1.hist
    BY <2>1, <2>8 DEF RouterOK, RouterType, Fields
  <2> HIDE DEF v
  <2>10. Lightens(n, Saw(n, s, p), v)
    BY <2>1, <2>6, <2>9, DropLightens DEF s1
  <2>11. Load(v) + 1 <= Effort(n, s)
    <3>1. Load(v) = Load(s1) - 1
      BY <2>1, <2>6, <2>7, <2>9, DropFewer
    <3>2. Load(s) \in Nat /\ Slack(n, s) \in {0, 1}
      BY <1>1, EffortType
    <3>3. QED
      BY <2>1, <3>1, <3>2 DEF Effort
  <2>12. p.next = n => p \in LiveIn(n, HighOf(s))
    <3>1. HighOf(s) \in Int
      BY <1>1, HighType
    <3>2. p.lim > HighOf(s)
      BY <1>1, <2>3, <3>1
    <3>3. QED
      BY <3>2, FullCopy
  <2>13. Takes(n, p, s, Rebroadcast(n, v, p))
    BY <1>1, <2>10, <2>11, <2>12, CopyTakes
  <2>14. QED
    BY <1>2, <1>4, <2>4, <2>13 DEF s1
<1>5. QED
  BY <1>3, <1>4

LEMMA FirstText ==
  ASSUME NUM_INTERMEDIATE_RETX = 2,
         NEW d \in Nodes, NEW n \in Nodes \ {Source}, NEW s, TextOK(d, n, s), TriesLeft(s) <= 1,
         NEW p \in Incoming(d), IsText(p), HighOf(s) = -1, Effort(n, s) = 0
  PROVE  Takes(n, p, s, Sniff(n, Saw(n, s, p), p))
<1> DEFINE s1 == Saw(n, s, p)
           a  == Acknowledge(n, s1, p)
           v  == IF p.to # n THEN s1 ELSE a
<1>1. /\ RouterOK(s) /\ n \in Nodes /\ p \in Packet /\ p.to # Broadcast /\ p.req = -1
      /\ p.lim \in Nat
  BY RoutingAssumption DEF TextOK, Incoming, IsText, Packet
<1>2. /\ TextOK(d, n, s1) /\ RouterOK(s1)
  BY <1>1, SawSends DEF Sends, TextOK
<1>3. Sniff(n, s1, p) = Rebroadcast(n, v, p)
  <2>1. LearnRoute(n, v, p) = v /\ StopForOthers(n, v, p) = v
    BY <1>1 DEF LearnRoute, StopForOthers
  <2>2. QED
    BY <1>1, <2>1 DEF Sniff
<1>4. Lightens(n, s1, v)
  BY <1>1, <1>2, AcknowledgeLightens, LightensSame
<1> HIDE DEF v
<1>5. Load(v) = 0
  <2>1. Effort(n, v) <= Effort(n, s1)
    BY <1>4 DEF Lightens
  <2>2. /\ Load(s) \in Nat /\ Slack(n, s) \in {0, 1} /\ Slack(n, s1) \in {0, 1}
        /\ Slack(n, s1) <= Slack(n, s) /\ Load(s1) = Load(s)
    BY <1>1, <1>2, SawText, EffortType
  <2>3. Load(v) \in Nat /\ Slack(n, v) \in {0, 1}
    BY <1>4, EffortType DEF Lightens
  <2> HIDE DEF s1
  <2>4. QED
    BY <2>1, <2>2, <2>3 DEF Effort
<1>6. p.next = n => p \in LiveIn(n, HighOf(s))
  <2>1. p.lim > HighOf(s)
    BY <1>1
  <2>2. QED
    BY <2>1, FullCopy
<1>7. Takes(n, p, s, Rebroadcast(n, v, p))
  BY <1>1, <1>4, <1>5, <1>6, CopyTakes
<1>8. QED
  BY <1>3, <1>7

-----------------------------------------------------------------------------
(* The handlers at a relay and at Source.                                    *)

LEMMA SameRx ==
  ASSUME NEW a, NEW b, SameCopies(a, b), NEW S \in SUBSET TextCopies
  PROVE  Count(b, S) = Count(a, S)
<1>1. Where(b, S) = Where(a, S)
  BY DEF SameCopies, Where
<1>2. QED
  BY <1>1 DEF Count

(* The node has one packet fewer to handle.                                  *)
Took(s, p, t) == \A S \in SUBSET TextCopies :
  Count(t.rx, S) = Count(s.rx, S) - (IF p \in S THEN 1 ELSE 0)

(* A packet is taken out of the receive queue; a copy of the text is handled *)
(* as new or as a duplicate, the rest sends no text.                         *)
LEMMA HandleParts ==
  ASSUME TextInv, NEW n \in Nodes, HandleReceived(n),
         NEW p, p = Head(node[n].rx), NEW s, s = [node[n] EXCEPT !.rx = Tail(@)],
         NEW t, t = node'[n]
  PROVE  /\ p \in Incoming(Dest) /\ TextOK(Dest, n, s) /\ RouterOK(node[n])
         /\ s.queue = node[n].queue /\ s.pend = node[n].pend /\ s.hist = node[n].hist
         /\ Took(node[n], p, t)
         /\ (IsText(p) => n = Source) => Lightens(n, s, t)
         /\ IsText(p) /\ n # Source =>
              t = IF Known(s, p) THEN Duplicate(n, s, p) ELSE Sniff(n, Saw(n, s, p), p)
         /\ \A m \in Nodes \ {n} : node'[m] = node[m]
<1> DEFINE d == Dest
           v == OverhearOwn(n, s, p)
           s1 == Saw(n, v, p)
<1>1. /\ NodesInv /\ node[n].rx # <<>> /\ TextOK(d, n, node[n]) /\ RouterOK(node[n])
  BY DEF TextInv, HandleReceived, NodesInv
<1>2. /\ p \in Packet /\ RouterOK(s) /\ Keeps(s, v)
      /\ s.hist = node[n].hist /\ \A m \in Nodes \ {n} : node'[m] = node[m]
      /\ t = IF Known(v, p) THEN Duplicate(n, v, p) ELSE Sniff(n, s1, p)
  BY <1>1, HandleReceivedMoves
<1>3. p \in Incoming(d) /\ Tail(node[n].rx) \in Seq(Incoming(d)) /\ node[n].rx \in Seq(Packet)
  BY <1>1 DEF TextOK, RouterOK, RouterType
<1>4. /\ s.rx = Tail(node[n].rx) /\ s.queue = node[n].queue /\ s.pend = node[n].pend
      /\ s.ids = node[n].ids
  BY <1>1 DEF RouterOK, Fields
<1>5. TextOK(d, n, s)
  <2> HIDE DEF d
  <2>1. QED
    BY <1>1, <1>2, <1>3, <1>4 DEF TextOK
<1> HIDE DEF d
<1>6. Sends(d, n, s, v, 0) /\ Lightens(n, s, v)
  BY <1>2, <1>5, OverhearOwnSends, OverhearOwnLightens DEF TextOK
<1>7. IsText(p) /\ n # Source => v = s
  BY DEF OverhearOwn, IsText, Key, TextKey
<1> HIDE DEF v
<1>8. TextOK(d, n, v) /\ RouterOK(v)
  BY <1>6 DEF Sends, TextOK
<1>9. Sends(d, n, v, Duplicate(n, v, p), AgainCost(n, p))
  BY <1>3, <1>8, DuplicateSends
<1>10. Sends(d, n, v, s1, 0)
  BY <1>2, <1>8, SawSends
<1>11. (IsText(p) => n = Source) => Lightens(n, v, s1)
  BY <1>2, <1>8, SawLightens
<1>12. t = IF Known(v, p) THEN Duplicate(n, v, p) ELSE Sniff(n, s1, p)
  BY <1>2
<1>13. IsText(p) /\ n # Source =>
         t = IF Known(s, p) THEN Duplicate(n, s, p) ELSE Sniff(n, Saw(n, s, p), p)
  BY <1>7, <1>12
<1> HIDE DEF s1
<1>14. TextOK(d, n, s1)
  BY <1>10 DEF Sends
<1>15. Sends(d, n, s1, Sniff(n, s1, p), RelayCost(n, p))
  BY <1>3, <1>14, SniffSends
<1>16. SameCopies(s.rx, t.rx)
  <2>1. SameCopies(s.rx, v.rx) /\ SameCopies(v.rx, Duplicate(n, v, p).rx)
        /\ SameCopies(v.rx, s1.rx) /\ SameCopies(s1.rx, Sniff(n, s1, p).rx)
    BY <1>6, <1>9, <1>10, <1>15 DEF Sends
  <2>2. SameCopies(s.rx, Duplicate(n, v, p).rx) /\ SameCopies(s.rx, Sniff(n, s1, p).rx)
    BY <2>1 DEF SameCopies
  <2>3. QED
    BY <1>12, <2>2
<1>17. ASSUME NEW S \in SUBSET TextCopies
       PROVE  Count(t.rx, S) = Count(node[n].rx, S) - (IF p \in S THEN 1 ELSE 0)
  <2>1. Count(t.rx, S) = Count(s.rx, S)
    BY <1>16, SameRx
  <2>2. Count(s.rx, S) = Count(node[n].rx, S) - (IF p \in S THEN 1 ELSE 0)
    BY <1>1, <1>3, <1>4, CountTail
  <2>3. QED
    BY <2>1, <2>2
<1>18. ASSUME IsText(p) => n = Source PROVE Lightens(n, s, t)
  <2>1. Lightens(n, v, Duplicate(n, v, p))
    BY <1>2, <1>8, <1>18, DuplicateLightens
  <2>2. Lightens(n, s1, Sniff(n, s1, p))
    BY <1>2, <1>14, <1>18, SniffLightens
  <2>3. Lightens(n, v, Sniff(n, s1, p))
    BY <1>8, <1>11, <1>18, <2>2, LightensTrans
  <2>4. Lightens(n, v, t)
    BY <1>12, <2>1, <2>3
  <2>5. QED
    BY <1>2, <1>6, <2>4, LightensTrans
<1>19. QED
  BY <1>1, <1>2, <1>3, <1>4, <1>5, <1>13, <1>17, <1>18 DEF d, Took

LEMMA HandleEases ==
  ASSUME NUM_INTERMEDIATE_RETX = 2, TextInv, Dest # Broadcast, NEW n \in Nodes \ {Source},
         HandleReceived(n), NEW b \in Nat, Ready(n, node[n], b), RouterOK(node'[n])
  PROVE  Eases(n, node[n], node'[n], b)
<1> DEFINE s0 == node[n]
           p == Head(node[n].rx)
           s == [node[n] EXCEPT !.rx = Tail(@)]
           t == node'[n]
<1>1. n \in Nodes /\ Dest \in Nodes
  BY RoutingAssumption DEF TextInv, NodesInv, Dest
<1>2. /\ p \in Incoming(Dest) /\ TextOK(Dest, n, s) /\ RouterOK(s0)
      /\ s.queue = s0.queue /\ s.pend = s0.pend /\ s.hist = s0.hist
      /\ Took(s0, p, t)
      /\ ~IsText(p) => Lightens(n, s, t)
      /\ IsText(p) => t = IF Known(s, p) THEN Duplicate(n, s, p) ELSE Sniff(n, Saw(n, s, p), p)
  <2>1. /\ p = Head(node[n].rx) /\ s = [node[n] EXCEPT !.rx = Tail(@)] /\ t = node'[n]
        /\ s0 = node[n]
    OBVIOUS
  <2> HIDE DEF s, p, t, s0
  <2>2. /\ p \in Incoming(Dest) /\ TextOK(Dest, n, s) /\ RouterOK(s0)
        /\ s.queue = s0.queue /\ s.pend = s0.pend /\ s.hist = s0.hist
        /\ Took(s0, p, t)
        /\ (IsText(p) => n = Source) => Lightens(n, s, t)
        /\ IsText(p) /\ n # Source =>
             t = IF Known(s, p) THEN Duplicate(n, s, p) ELSE Sniff(n, Saw(n, s, p), p)
    BY <1>1, <2>1, HandleParts
  <2>3. QED
    BY <2>2
<1> HIDE DEF s, p, t, s0
<1>3. RouterOK(s) /\ p \in Packet
  BY <1>2 DEF TextOK, Incoming
<1>4. /\ TriesLeft(s) = TriesLeft(s0) /\ Load(s) = Load(s0) /\ HighOf(s) = HighOf(s0)
      /\ Slack(n, s) = Slack(n, s0) /\ Effort(n, s) = Effort(n, s0)
  BY <1>2 DEF TriesLeft, Load, HighOf, Slack, Effort
<1>5. Ready(n, s0, b)
  BY DEF s0
<1>6. CASE ~IsText(p)
  <2>1. Lightens(n, s0, s)
    BY <1>2, <1>3, <1>4, LightensAside
  <2>2. Lightens(n, s0, t)
    BY <1>2, <1>6, <2>1, LightensTrans
  <2>3. ASSUME NEW S \in SUBSET TextCopies PROVE Count(t.rx, S) <= Count(s0.rx, S)
    <3>1. p \notin S
      BY <1>6 DEF TextCopies
    <3>2. Count(s0.rx, S) \in Nat
      BY <1>2, CountType DEF RouterOK, RouterType
    <3>3. QED
      BY <1>2, <3>1, <3>2 DEF Took
  <2>4. Eases(n, s0, t, b)
    BY <1>2, <1>5, <2>2, <2>3, LightensEases
  <2>5. QED
    BY <2>4 DEF s0, t
<1>7. CASE IsText(p)
  <2>1. TriesLeft(s) <= 1 /\ (HighOf(s) = -1 => Effort(n, s) = 0) /\ Key(p) = TextKey
    BY <1>4, <1>5, <1>7 DEF Ready, IsText
  <2>2. ASSUME Known(s, p) PROVE Takes(n, p, s, t)
    <3>1. Takes(n, p, s, Duplicate(n, s, p))
      BY <1>1, <1>2, <1>7, <2>1, <2>2, DuplicateText DEF Known
    <3>2. QED
      BY <1>2, <1>7, <2>2, <3>1
  <2>3. ASSUME ~Known(s, p) PROVE Takes(n, p, s, t)
    <3>1. HighOf(s) = -1
      BY <2>1, <2>3 DEF Known, HighOf
    <3>2. Takes(n, p, s, Sniff(n, Saw(n, s, p), p))
      BY <1>1, <1>2, <1>7, <2>1, <3>1, FirstText
    <3>3. QED
      BY <1>2, <1>7, <2>3, <3>2
  <2>4. Takes(n, p, s, t)
    BY <1>2, <1>7, <2>2, <2>3
  <2>5. Takes(n, p, s0, t)
    BY <1>2, <1>4, <2>4 DEF Takes
  <2>6. Eases(n, s0, t, b)
    BY <1>1, <1>2, <1>3, <1>5, <1>7, <2>5, TakesEases DEF Took
  <2>7. QED
    BY <2>6 DEF s0, t
<1>8. QED
  BY <1>6, <1>7

(* A retransmission: either no text is involved or its end has come, or a    *)
(* try of the text is used up, the last one by a flood.                      *)
Tries(n, s, t) == \E u, p :
  /\ RouterOK(u) /\ u.queue = s.queue /\ u.hist = s.hist
  /\ TriesLeft(s) > 0 /\ TriesLeft(u) = TriesLeft(s) - 1
  /\ p \in Packet /\ IsText(p) /\ (n = Source => p.ack /\ p.lim = HopLimit)
  /\ IF TriesLeft(s) = 1 THEN p.next = NoNode /\ t = FloodSend(n, u, p)
                         ELSE t = NextHopSend(n, u, p)

LEMMA RetryParts ==
  ASSUME TextInv, Dest # Broadcast, NEW n \in Nodes, NEW k, DoRetransmission(n, k),
         NEW s, s = node[n], NEW t, t = node'[n]
  PROVE  /\ RouterOK(s) /\ TextOK(Dest, n, t) /\ SameCopies(s.rx, t.rx)
         /\ Lightens(n, s, t) \/ Tries(n, s, t)
         /\ \A m \in Nodes \ {n} : node'[m] = node[m]
<1> DEFINE d == Dest
           e == s.pend[k]
           fallback == e.pkt.to # Broadcast /\ e.left = 1
           p == IF fallback THEN [e.pkt EXCEPT !.next = NoNode] ELSE e.pkt
           e1 == [pkt |-> p, left |-> e.left - 1]
           r1 == IF fallback THEN [s.route EXCEPT ![p.to] = NoNode] ELSE s.route
           s1 == [s EXCEPT !.pend[k] = e1, !.route = r1]
           nak == IF k[1] = n THEN SendAckNak(n, s, TRUE, n, k[2], HopLimit, FALSE) ELSE s
<1>1. /\ NodesInv /\ k \in DOMAIN s.pend /\ TextOK(d, n, s) /\ RouterOK(s) /\ DOMAIN node = Nodes
      /\ s.ids > 0
      /\ t = CASE e.left = 0 -> StopRetransmission(n, nak, k)
               [] e.left > 0 /\ (fallback \/ p.to = Broadcast) -> FloodSend(n, s1, p)
               [] OTHER -> NextHopSend(n, s1, p)
  BY DEF DoRetransmission, Due, TextInv, NodesInv, TextOK
<1>2. \A m \in Nodes \ {n} : node'[m] = node[m]
  BY <1>1, DoRetransmissionMoves
<1>3. /\ e.left \in 0..NUM_RELIABLE_RETX - 1 /\ Key(e.pkt) = k /\ e.pkt \in Outgoing(d, n)
      /\ e.pkt \in Packet
  BY <1>1 DEF RouterOK, RouterType, TextOK
<1>4. k[2] \in Nat /\ HopLimit \in 0..HopLimit /\ e.left \in Nat
  BY <1>3, RoutingAssumption DEF Key, Packet
<1>5. CASE e.left = 0
  <2>1. t = StopRetransmission(n, nak, k)
    BY <1>1, <1>5
  <2>2. Sends(d, n, s, nak, 0) /\ Lightens(n, s, nak)
    BY <1>1, <1>4, SendAckNakSends, SendsNothing, SendAckNakLightens, LightensSame
  <2> HIDE DEF nak, s1, p, fallback, e1, r1, e, d
  <2>3. TextOK(d, n, nak) /\ RouterOK(nak)
    BY <2>2 DEF Sends, TextOK
  <2>4. Sends(d, n, nak, t, 0) /\ Lightens(n, nak, t)
    <3>1. Sends(d, n, nak, StopRetransmission(n, nak, k), 0)
      BY <2>3, StopSends
    <3>2. Lightens(n, nak, StopRetransmission(n, nak, k))
      BY <2>3, StopLightens
    <3>3. QED
      BY <2>1, <3>1, <3>2
  <2>5. Lightens(n, s, t)
    BY <1>1, <2>2, <2>4, LightensTrans
  <2>6. TextOK(d, n, t) /\ SameCopies(s.rx, t.rx)
    BY <2>2, <2>4 DEF Sends, SameCopies
  <2>7. QED
    BY <1>1, <1>2, <2>5, <2>6 DEF d
<1>6. CASE e.left # 0
  <2>1. /\ p \in Packet /\ Key(p) = k /\ p.to = e.pkt.to /\ p.req = e.pkt.req
        /\ p.ack = e.pkt.ack /\ p.lim = e.pkt.lim /\ p.start = e.pkt.start
        /\ p.next \in {NoNode, e.pkt.next} /\ (fallback => p.next = NoNode)
        /\ r1 \in [Nodes -> Hops]
    BY <1>1, <1>3 DEF Packet, Key, Hops, RouterOK, RouterType
  <2>2. /\ e1.pkt = p /\ e1.left = e.left - 1 /\ e1.left \in 0..NUM_RELIABLE_RETX - 1
        /\ e.left > 0
    BY <1>3, <1>4, <1>6, RoutingAssumption
  <2>3. t = IF fallback \/ p.to = Broadcast THEN FloodSend(n, s1, p) ELSE NextHopSend(n, s1, p)
    <3> HIDE DEF p, s1, e, nak, fallback
    <3>1. QED
      BY <1>1, <1>6, <2>2
  <2>4. fallback <=> p.to # Broadcast /\ e.left = 1
    BY <2>1
  <2> HIDE DEF p, r1, e1, nak, fallback
  <2>5. /\ RouterOK(s1) /\ s1.queue = s.queue /\ s1.rx = s.rx /\ s1.ids = s.ids /\ s1.hist = s.hist
        /\ s1.pend = [s.pend EXCEPT ![k] = e1]
    <3>1. RouterOK(s1)
      BY <1>1, <2>1, <2>2, RetryRecordKeeps DEF Keeps
    <3>2. QED
      BY <1>1, <3>1 DEF RouterOK, Fields
  <2>6. DOMAIN s1.pend = DOMAIN s.pend /\ s1.pend[k] = e1
        /\ \A j \in DOMAIN s.pend \ {k} : s1.pend[j] = s.pend[j]
    BY <1>1, <2>5
  <2> HIDE DEF s1
  <2>7. p \in Outgoing(d, n)
    BY <1>3, <2>1 DEF Outgoing, Incoming, IsText
  <2>8. TextOK(d, n, s1)
    <3>1. e1.pkt = p /\ e1.left = s.pend[k].left - 1 /\ p.ack = s.pend[k].pkt.ack /\ s.pend[k].left > 0
      BY <2>1, <2>2
    <3> HIDE DEF d, e
    <3>2. QED
      BY <1>1, <2>1, <2>5, <2>7, <3>1, RetryRecordSends
  <2>9. IsText(p) => p.to = d /\ (n = Source => p.ack /\ p.lim = HopLimit)
    BY <1>1, <2>1, <2>7 DEF Outgoing, Incoming, TextOK, IsText
  <2>10. TextOK(d, n, t) /\ SameCopies(s.rx, t.rx)
    <3>1. Sends(d, n, s1, FloodSend(n, s1, p), Cost(p))
      BY <2>7, <2>8, FloodSendSends
    <3>2. Sends(d, n, s1, NextHopSend(n, s1, p), Cost(p))
      BY <2>7, <2>8, <2>9, NextHopSendSends
    <3>3. QED
      BY <2>3, <2>5, <3>1, <3>2 DEF Sends
  <2>11. CASE ~IsText(p)
    <3>1. TriesLeft(s1) = TriesLeft(s)
      BY <2>1, <2>6, <2>11 DEF TriesLeft, IsText
    <3>2. Lightens(n, s, s1)
      BY <1>1, <2>5, <3>1, LightensAside
    <3>3. Lightens(n, s1, FloodSend(n, s1, p)) /\ Lightens(n, s1, NextHopSend(n, s1, p))
      BY <2>1, <2>5, <2>11, FloodSendLightens, NextHopSendLightens
    <3>4. Lightens(n, s, t)
      BY <1>1, <2>3, <3>2, <3>3, LightensTrans
    <3>5. QED
      BY <1>1, <1>2, <2>10, <3>4 DEF d
  <2>12. CASE IsText(p)
    <3>1. k = TextKey /\ TriesLeft(s) = e.left /\ TriesLeft(s1) = e.left - 1
      BY <1>1, <2>1, <2>2, <2>6, <2>12 DEF TriesLeft, IsText
    <3>2. p.to # Broadcast
      BY <2>9, <2>12
    <3> HIDE DEF d, e
    <3>3. Tries(n, s, t)
      <4>1. TriesLeft(s) > 0 /\ TriesLeft(s1) = TriesLeft(s) - 1
        BY <2>2, <3>1
      <4>2. IF TriesLeft(s) = 1 THEN p.next = NoNode /\ t = FloodSend(n, s1, p)
                                ELSE t = NextHopSend(n, s1, p)
        BY <2>1, <2>3, <2>4, <3>1, <3>2
      <4>3. n = Source => p.ack /\ p.lim = HopLimit
        BY <2>9, <2>12
      <4>4. QED
        BY <2>1, <2>5, <2>12, <4>1, <4>2, <4>3 DEF Tries
    <3>4. QED
      BY <1>1, <1>2, <2>10, <3>3 DEF d
  <2>13. QED
    BY <2>11, <2>12
<1>7. QED
  BY <1>5, <1>6

LEMMA RetryEases ==
  ASSUME TextInv, Dest # Broadcast, NEW n \in Nodes \ {Source}, NEW k, DoRetransmission(n, k),
         NEW b \in Nat, Ready(n, node[n], b)
  PROVE  Eases(n, node[n], node'[n], b)
<1> DEFINE s == node[n]
           t == node'[n]
<1>1. /\ RouterOK(s) /\ TextOK(Dest, n, t) /\ SameCopies(s.rx, t.rx)
      /\ Lightens(n, s, t) \/ Tries(n, s, t)
  BY RetryParts
<1>2. Ready(n, s, b)
  OBVIOUS
<1> HIDE DEF s, t
<1>3. RouterOK(t)
  BY <1>1 DEF TextOK
<1>4. ASSUME NEW S \in SUBSET TextCopies PROVE Count(t.rx, S) <= Count(s.rx, S)
  <2>1. Count(s.rx, S) \in Nat
    BY <1>1, CountType DEF RouterOK, RouterType
  <2>2. Count(t.rx, S) = Count(s.rx, S)
    BY <1>1, SameRx
  <2>3. QED
    BY <2>1, <2>2
<1>5. ASSUME Lightens(n, s, t) PROVE Eases(n, s, t, b)
  BY <1>1, <1>2, <1>4, <1>5, LightensEases
<1>6. ASSUME Tries(n, s, t) PROVE Eases(n, s, t, b)
  <2>1. PICK u, p :
          /\ RouterOK(u) /\ u.queue = s.queue /\ u.hist = s.hist
          /\ TriesLeft(s) > 0 /\ TriesLeft(u) = TriesLeft(s) - 1
          /\ p \in Packet /\ IsText(p)
          /\ IF TriesLeft(s) = 1 THEN p.next = NoNode /\ t = FloodSend(n, u, p)
                                 ELSE t = NextHopSend(n, u, p)
    BY <1>6 DEF Tries
  <2>2. TriesLeft(s) = 1 /\ TriesLeft(u) = 0
    <3>1. TriesLeft(s) \in Nat /\ TriesLeft(s) <= 1
      BY <1>1, <1>2, EffortType DEF Ready
    <3>2. QED
      BY <2>1, <3>1
  <2>3. p.next = NoNode /\ t = FloodSend(n, u, p)
    BY <2>1, <2>2
  <2>4. /\ TriesLeft(t) = 0 /\ Load(t) = Load(u) + 1 /\ Slack(n, t) = 0
        /\ HighOf(t) = Higher(HighOf(u), p.lim)
        /\ \A h : Count(t.queue, LiveOut(h)) = Count(u.queue, LiveOut(h))
    BY <2>1, <2>2, <2>3, FloodText
  <2>5. /\ Load(s) = Load(u) + 1 /\ HighOf(u) = HighOf(s) /\ Load(s) \in Nat
        /\ Slack(n, s) \in {0, 1} /\ Load(u) \in Nat /\ HighOf(s) \in Int /\ HighOf(t) \in Int
        /\ p.lim \in Nat /\ \A h : Count(s.queue, LiveOut(h)) \in Nat
    <3>1. Count(s.queue, TextCopies) \in Nat
      BY <1>1, LoadType
    <3>2. Load(s) = Load(u) + 1
      BY <2>1, <2>2, <3>1 DEF Load
    <3>3. HighOf(u) = HighOf(s)
      BY <2>1 DEF HighOf
    <3>4. p.lim \in Nat
      BY <2>1, RoutingAssumption DEF Packet
    <3>5. HighOf(s) \in Int /\ HighOf(t) \in Int
      BY <1>1, <1>3, HighType
    <3>6. /\ Load(s) \in Nat /\ Slack(n, s) \in {0, 1} /\ Load(u) \in Nat
          /\ \A h : Count(s.queue, LiveOut(h)) \in Nat
      BY <1>1, <2>1, EffortType
    <3>7. QED
      BY <3>2, <3>3, <3>4, <3>5, <3>6
  <2>6. Effort(n, t) <= Effort(n, s) /\ Effort(n, s) > 0
    BY <2>4, <2>5 DEF Effort
  <2>7. HighOf(s) # -1
    BY <1>2, <2>6 DEF Ready
  <2>8. HighOf(t) >= HighOf(s) /\ HighOf(t) # -1
    <3>1. HighOf(s) \in -1..HopLimit
      BY <1>1, EffortType
    <3>2. QED
      BY <2>4, <2>5, <2>7, <3>1, RoutingAssumption DEF Higher
  <2>9. Ready(n, t, b)
    BY <2>4, <2>8 DEF Ready
  <2>10. \A h \in Int : Count(t.queue, LiveOut(h)) <= Count(s.queue, LiveOut(h))
    BY <2>1, <2>4, <2>5
  <2>11. QED
    BY <1>1, <1>3, <1>4, <2>6, <2>8, <2>9, <2>10, EasesBy
<1>7. Eases(n, s, t, b)
  BY <1>1, <1>5, <1>6
<1>8. QED
  BY <1>7 DEF s, t

(* What the tries of Source may still bring: each but the last a directed    *)
(* copy, which counts twice, or a flood; the last one a flood.               *)
Reserve(s) == Count(s.queue, Floods) + (IF TriesLeft(s) >= 1 THEN 2 * TriesLeft(s) - 1 ELSE 0)

Backs(s, t) ==
  /\ RouterOK(t)
  /\ \A h \in Int :
       2 * LiveAt(Source, t, h) + Reserve(t) <= 2 * LiveAt(Source, s, h) + Reserve(s)

LEMMA ReserveType ==
  ASSUME NEW s, RouterOK(s)
  PROVE  Reserve(s) \in Nat /\ Count(s.queue, Floods) \in Nat
<1>1. TriesLeft(s) \in Nat /\ Count(s.queue, Floods) \in Nat
  BY EffortType
<1>2. QED
  BY <1>1 DEF Reserve

LEMMA LightensBacks ==
  ASSUME NEW n, NEW s, RouterOK(s), NEW t, Lightens(n, s, t),
         \A S \in SUBSET TextCopies : Count(t.rx, S) <= Count(s.rx, S)
  PROVE  Backs(s, t)
<1>1. /\ RouterOK(t) /\ TriesLeft(t) <= TriesLeft(s)
      /\ \A S \in SUBSET TextCopies : Count(t.queue, S) <= Count(s.queue, S)
  BY DEF Lightens, Fewer
<1>2. Reserve(t) <= Reserve(s)
  <2>1. Floods \in SUBSET TextCopies
    BY DEF Floods
  <2>2. Count(t.queue, Floods) <= Count(s.queue, Floods)
    BY <1>1, <2>1
  <2>3. /\ TriesLeft(t) \in Nat /\ TriesLeft(s) \in Nat
        /\ Count(t.queue, Floods) \in Nat /\ Count(s.queue, Floods) \in Nat
    BY <1>1, EffortType
  <2>4. QED
    BY <1>1, <2>2, <2>3 DEF Reserve
<1>3. ASSUME NEW h \in Int
      PROVE  2 * LiveAt(Source, t, h) + Reserve(t) <= 2 * LiveAt(Source, s, h) + Reserve(s)
  <2>1. LiveOut(h) \in SUBSET TextCopies /\ LiveIn(Source, h) \in SUBSET TextCopies
    BY DEF LiveOut, LiveIn, Fresh
  <2>2. /\ Count(t.queue, LiveOut(h)) \in Nat /\ Count(s.queue, LiveOut(h)) \in Nat
        /\ Count(t.rx, LiveIn(Source, h)) \in Nat /\ Count(s.rx, LiveIn(Source, h)) \in Nat
    BY <1>1, LiveType
  <2>3. /\ Count(t.queue, LiveOut(h)) <= Count(s.queue, LiveOut(h))
        /\ Count(t.rx, LiveIn(Source, h)) <= Count(s.rx, LiveIn(Source, h))
    BY <1>1, <2>1
  <2>4. Reserve(t) \in Nat /\ Reserve(s) \in Nat
    BY <1>1, ReserveType
  <2>5. QED
    BY <1>2, <2>2, <2>3, <2>4 DEF LiveAt
<1>4. QED
  BY <1>1, <1>3 DEF Backs

LEMMA HandleBacks ==
  ASSUME TextInv, HandleReceived(Source)
  PROVE  Backs(node[Source], node'[Source])
<1> DEFINE s0 == node[Source]
           p == Head(s0.rx)
           s == [s0 EXCEPT !.rx = Tail(@)]
           t == node'[Source]
<1>1. Source \in Nodes
  BY RoutingAssumption
<1>2. /\ p = Head(node[Source].rx) /\ s = [node[Source] EXCEPT !.rx = Tail(@)]
      /\ t = node'[Source] /\ s0 = node[Source]
  OBVIOUS
<1> HIDE DEF s, p, t, s0
<1>3. /\ TextOK(Dest, Source, s) /\ RouterOK(s0)
      /\ s.queue = s0.queue /\ s.pend = s0.pend /\ s.hist = s0.hist
      /\ Took(s0, p, t)
      /\ (IsText(p) => Source = Source) => Lightens(Source, s, t)
  BY <1>1, <1>2, HandleParts
<1>4. Lightens(Source, s0, t)
  <2>1. RouterOK(s) /\ TriesLeft(s) = TriesLeft(s0)
    BY <1>3 DEF TextOK, TriesLeft
  <2>2. Lightens(Source, s0, s)
    BY <1>3, <2>1, LightensAside
  <2>3. QED
    BY <1>3, <2>2, LightensTrans
<1>5. ASSUME NEW S \in SUBSET TextCopies PROVE Count(t.rx, S) <= Count(s0.rx, S)
  <2>1. Count(s0.rx, S) \in Nat
    BY <1>3, CountType DEF RouterOK, RouterType
  <2>2. QED
    BY <1>3, <2>1 DEF Took
<1>6. Backs(s0, t)
  BY <1>3, <1>4, <1>5, LightensBacks
<1>7. QED
  BY <1>2, <1>6

(* Source sends one of its tries: the last floods, the others may not.       *)
LEMMA SourceSends ==
  ASSUME NEW s, RouterOK(s), NEW p \in Packet, IsText(p), p.ack, p.lim = HopLimit,
         NEW t, t = NextHopSend(Source, s, p)
  PROVE  /\ RouterOK(t) /\ TriesLeft(t) = TriesLeft(s)
         /\ \/ /\ Count(t.queue, Floods) = Count(s.queue, Floods) + 1
               /\ \A h \in Int : Count(t.queue, LiveOut(h)) = Count(s.queue, LiveOut(h))
            \/ /\ Count(t.queue, Floods) = Count(s.queue, Floods)
               /\ \A h \in Int : Count(t.queue, LiveOut(h)) = Count(s.queue, LiveOut(h)) + 1
<1> DEFINE r  == [p EXCEPT !.relay = Source]
           q  == [p EXCEPT !.relay = Source, !.next = GetNextHop(Source, s, p.to)]
           s1 == Saw(Source, s, r)
<1>1. GetNextHop(Source, s, p.to) \in Hops /\ Source \in Nodes
  BY RoutingAssumption DEF GetNextHop, Hops, Packet, RouterOK, RouterType
<1>2. /\ q \in Packet /\ Key(q) = Key(p) /\ q.lim = p.lim
      /\ r \in Packet /\ Key(r) = Key(p) /\ r.lim = p.lim
  BY <1>1 DEF Packet, Key
<1>3. t = RouterSend(Source, s1, q)
  BY DEF NextHopSend, IsText, Key, TextKey
<1> HIDE DEF q, r
<1>4. IsText(q) /\ IsText(r)
  BY <1>2 DEF IsText
<1>5. RouterOK(s1) /\ s1.queue = s.queue /\ TriesLeft(s1) = TriesLeft(s)
  BY <1>1, <1>2, <1>4, SawText
<1> HIDE DEF s1
<1>6. /\ RouterOK(t) /\ TriesLeft(t) = TriesLeft(s1)
      /\ \A h : Count(t.queue, LiveOut(h)) = Count(s1.queue, LiveOut(h)) + OutCost(q, h)
      /\ Count(t.queue, Floods) = Count(s1.queue, Floods) + (IF q.next = NoNode THEN 1 ELSE 0)
  <2>1. /\ Source \in Nodes /\ RouterOK(s1) /\ q \in Packet /\ IsText(q)
        /\ t = RouterSend(Source, s1, q)
    BY <1>1, <1>2, <1>3, <1>4, <1>5
  <2>2. RouterOK(t) /\ TriesLeft(t) = TriesLeft(s1)
    BY <2>1, RouterSendText
  <2>3. ASSUME NEW h
        PROVE  Count(t.queue, LiveOut(h)) = Count(s1.queue, LiveOut(h)) + OutCost(q, h)
    BY <2>1, RouterSendText
  <2>4. Count(t.queue, Floods) = Count(s1.queue, Floods) + (IF q.next = NoNode THEN 1 ELSE 0)
    BY <2>1, RouterSendText
  <2>5. QED
    BY <2>2, <2>3, <2>4
<1>7. \A h : OutCost(q, h) = IF q.next = NoNode THEN 0 ELSE 1
  BY <1>2 DEF OutCost
<1>8. \A h : Count(s.queue, LiveOut(h)) \in Nat /\ Count(s.queue, Floods) \in Nat
  BY EffortType
<1>9. CASE q.next = NoNode
  <2>1. /\ Count(t.queue, Floods) = Count(s.queue, Floods) + 1
        /\ \A h \in Int : Count(t.queue, LiveOut(h)) = Count(s.queue, LiveOut(h))
    BY <1>5, <1>6, <1>7, <1>8, <1>9
  <2>2. QED
    BY <1>5, <1>6, <2>1
<1>10. CASE q.next # NoNode
  <2>1. /\ Count(t.queue, Floods) = Count(s.queue, Floods)
        /\ \A h \in Int : Count(t.queue, LiveOut(h)) = Count(s.queue, LiveOut(h)) + 1
    BY <1>5, <1>6, <1>7, <1>8, <1>10
  <2>2. QED
    BY <1>5, <1>6, <2>1
<1>11. QED
  BY <1>9, <1>10

LEMMA RetryBacks ==
  ASSUME TextInv, Dest # Broadcast, NEW k, DoRetransmission(Source, k)
  PROVE  Backs(node[Source], node'[Source])
<1> DEFINE s == node[Source]
           t == node'[Source]
<1>1. Source \in Nodes
  BY RoutingAssumption
<1>2. /\ RouterOK(s) /\ TextOK(Dest, Source, t) /\ SameCopies(s.rx, t.rx)
      /\ Lightens(Source, s, t) \/ Tries(Source, s, t)
  BY <1>1, RetryParts
<1> HIDE DEF s, t
<1>3. RouterOK(t)
  BY <1>2 DEF TextOK
<1>4. \A S \in SUBSET TextCopies : Count(t.rx, S) = Count(s.rx, S) /\ Count(s.rx, S) \in Nat
  BY <1>2, SameRx, CountType DEF RouterOK, RouterType
<1>5. ASSUME Lightens(Source, s, t) PROVE Backs(s, t)
  <2>1. \A S \in SUBSET TextCopies : Count(t.rx, S) <= Count(s.rx, S)
    BY <1>4
  <2>2. QED
    BY <1>2, <1>5, <2>1, LightensBacks
<1>6. ASSUME Tries(Source, s, t) PROVE Backs(s, t)
  <2>1. PICK u, p :
          /\ RouterOK(u) /\ u.queue = s.queue /\ u.hist = s.hist
          /\ TriesLeft(s) > 0 /\ TriesLeft(u) = TriesLeft(s) - 1
          /\ p \in Packet /\ IsText(p) /\ p.ack /\ p.lim = HopLimit
          /\ IF TriesLeft(s) = 1 THEN p.next = NoNode /\ t = FloodSend(Source, u, p)
                                 ELSE t = NextHopSend(Source, u, p)
    BY <1>6 DEF Tries
  <2>2. /\ TriesLeft(s) \in Nat /\ Count(s.queue, Floods) \in Nat
        /\ \A h \in Int : Count(s.queue, LiveOut(h)) \in Nat
    BY <1>2, EffortType
  <2>3. ASSUME NEW h \in Int
        PROVE  2 * Count(t.queue, LiveOut(h)) + Reserve(t)
                 <= 2 * Count(s.queue, LiveOut(h)) + Reserve(s)
    <3>1. CASE TriesLeft(s) = 1
      <4>1. /\ TriesLeft(t) = TriesLeft(u)
            /\ Count(t.queue, LiveOut(h)) = Count(u.queue, LiveOut(h))
            /\ Count(t.queue, Floods) = Count(u.queue, Floods) + 1
        BY <1>1, <2>1, <3>1, FloodText
      <4>2. TriesLeft(t) = 0
        BY <2>1, <3>1, <4>1
      <4>3. Reserve(t) = Count(s.queue, Floods) + 1 /\ Reserve(s) = Count(s.queue, Floods) + 1
        BY <2>1, <2>2, <3>1, <4>1, <4>2 DEF Reserve
      <4>4. QED
        BY <2>1, <2>2, <4>1, <4>3
    <3>2. CASE TriesLeft(s) # 1
      <4>1. /\ TriesLeft(t) = TriesLeft(u)
            /\ \/ /\ Count(t.queue, Floods) = Count(u.queue, Floods) + 1
                  /\ \A g \in Int : Count(t.queue, LiveOut(g)) = Count(u.queue, LiveOut(g))
               \/ /\ Count(t.queue, Floods) = Count(u.queue, Floods)
                  /\ \A g \in Int : Count(t.queue, LiveOut(g)) = Count(u.queue, LiveOut(g)) + 1
        BY <2>1, <3>2, SourceSends
      <4>2. TriesLeft(t) = TriesLeft(s) - 1 /\ TriesLeft(s) >= 2
        BY <2>1, <2>2, <3>2, <4>1
      <4>3. /\ Reserve(t) = Count(t.queue, Floods) + (2 * TriesLeft(s) - 3)
            /\ Reserve(s) = Count(s.queue, Floods) + (2 * TriesLeft(s) - 1)
        BY <2>2, <4>2 DEF Reserve
      <4>4. \/ /\ Count(t.queue, Floods) = Count(s.queue, Floods) + 1
               /\ Count(t.queue, LiveOut(h)) = Count(s.queue, LiveOut(h))
            \/ /\ Count(t.queue, Floods) = Count(s.queue, Floods)
               /\ Count(t.queue, LiveOut(h)) = Count(s.queue, LiveOut(h)) + 1
        BY <2>1, <4>1
      <4>5. Count(s.queue, LiveOut(h)) \in Nat
        BY <2>2
      <4>6. QED
        BY <2>2, <4>3, <4>4, <4>5
    <3>3. QED
      BY <3>1, <3>2
  <2>4. ASSUME NEW h \in Int
        PROVE  2 * LiveAt(Source, t, h) + Reserve(t) <= 2 * LiveAt(Source, s, h) + Reserve(s)
    <3>1. LiveIn(Source, h) \in SUBSET TextCopies
      BY DEF LiveIn, Fresh
    <3>2. Count(t.rx, LiveIn(Source, h)) = Count(s.rx, LiveIn(Source, h))
          /\ Count(s.rx, LiveIn(Source, h)) \in Nat
      BY <1>4, <3>1
    <3>3. /\ Count(t.queue, LiveOut(h)) \in Nat /\ Count(s.queue, LiveOut(h)) \in Nat
          /\ Reserve(t) \in Nat /\ Reserve(s) \in Nat
      BY <1>2, <1>3, EffortType, ReserveType
    <3>4. 2 * Count(t.queue, LiveOut(h)) + Reserve(t)
            <= 2 * Count(s.queue, LiveOut(h)) + Reserve(s)
      BY <2>3
    <3>5. QED
      BY <3>2, <3>3, <3>4 DEF LiveAt
  <2>5. QED
    BY <1>3, <2>4 DEF Backs
<1>7. Backs(s, t)
  BY <1>2, <1>5, <1>6
<1>8. QED
  BY <1>7 DEF s, t

-----------------------------------------------------------------------------
(* The account of a direct message: what a relay has sent and may send, the  *)
(* directed copies that count for it and the tries of Source together stay   *)
(* within twice the tries.  A node that restarts begins as one that never    *)
(* saw the text, hence the first part.                                       *)

Paid(N) == 2 * Tokens(N, -1) + Reserve(N[Source]) <= 2 * NUM_RELIABLE_RETX - 1

Covered(N, n, b) ==
  /\ Ready(n, N[n], b)
  /\ Spent(n, N[n], b) + 2 * Tokens(N, HighOf(N[n])) + Reserve(N[Source])
       <= 2 * NUM_RELIABLE_RETX

Account(N, b) == Paid(N) /\ \A n \in Nodes \ {Source} : Covered(N, n, b[n])

Routers(N) == \A m \in Nodes : RouterOK(N[m])

LEMMA AccountTypes ==
  ASSUME NEW N, Routers(N), NEW n \in Nodes, NEW b \in Nat
  PROVE  /\ HighOf(N[n]) \in Int /\ Spent(n, N[n], b) \in Nat /\ Reserve(N[n]) \in Nat
         /\ \A h : Tokens(N, h) \in Nat
         /\ NUM_RELIABLE_RETX \in Nat /\ Source \in Nodes /\ -1 \in Int
<1>1. RouterOK(N[n])
  BY DEF Routers
<1>2. HighOf(N[n]) \in Int
  BY <1>1, HighType
<1>3. Reserve(N[n]) \in Nat
  BY <1>1, ReserveType
<1>4. Effort(n, N[n]) \in Nat
  BY <1>1, EffortType
<1>5. Count(N[n].rx, FullFloods) \in Nat
  BY <1>1, CountType DEF RouterOK, RouterType
<1>6. Spent(n, N[n], b) \in Nat
  BY <1>4, <1>5 DEF Spent
<1>7. \A h : Tokens(N, h) \in Nat
  BY TokensOne DEF Routers
<1>8. QED
  BY <1>2, <1>3, <1>6, <1>7, RoutingAssumption

(* One router changes, and the limit looked at may rise.                     *)
LEMMA TokensMove ==
  ASSUME NEW N, NEW M, Routers(N), Routers(M), NEW n \in Nodes,
         \A m \in Nodes \ {n} : M[m] = N[m], NEW h \in Int, NEW g \in Int, h <= g
  PROVE  Tokens(M, g) + LiveAt(n, N[n], h) <= Tokens(N, h) + LiveAt(n, M[n], g)
<1> DEFINE e == [N[n] EXCEPT !.queue = <<>>, !.rx = <<>>]
           L == [m \in Nodes |-> IF m = n THEN e ELSE N[m]]
<1>1. RouterOK(N[n]) /\ RouterOK(M[n])
  BY DEF Routers
<1>2. RouterOK(e) /\ e.queue = <<>> /\ e.rx = <<>>
  BY <1>1 DEF RouterOK, RouterType, Fields
<1> HIDE DEF e
<1>3. \A x : LiveAt(n, e, x) = 0
  BY <1>2, CountEmpty DEF LiveAt
<1>4. L[n] = e /\ \A m \in Nodes \ {n} : L[m] = N[m] /\ L[m] = M[m]
  OBVIOUS
<1>5. Routers(L)
  BY <1>2, <1>4 DEF Routers
<1> HIDE DEF L
<1>6. /\ Tokens(L, h) \in Nat /\ Tokens(N, h) \in Nat /\ LiveAt(n, N[n], h) \in Nat
      /\ Tokens(L, h) + LiveAt(n, N[n], h) = Tokens(N, h) + LiveAt(n, L[n], h)
  BY <1>4, <1>5, TokensOne DEF Routers
<1>7. /\ Tokens(L, g) \in Nat /\ Tokens(M, g) \in Nat /\ LiveAt(n, M[n], g) \in Nat
      /\ Tokens(L, g) + LiveAt(n, M[n], g) = Tokens(M, g) + LiveAt(n, L[n], g)
  BY <1>4, <1>5, TokensOne DEF Routers
<1>8. Tokens(L, g) <= Tokens(L, h)
  BY <1>5, TokensHigher DEF Routers
<1>9. LiveAt(n, L[n], h) = 0 /\ LiveAt(n, L[n], g) = 0
  BY <1>3, <1>4
<1>10. QED
  BY <1>6, <1>7, <1>8, <1>9

LEMMA TokensLess ==
  ASSUME NEW N, NEW M, Routers(N), Routers(M), NEW n \in Nodes,
         \A m \in Nodes \ {n} : M[m] = N[m], NEW h,
         LiveAt(n, M[n], h) <= LiveAt(n, N[n], h)
  PROVE  Tokens(M, h) <= Tokens(N, h)
<1>1. /\ Tokens(N, h) \in Nat /\ Tokens(M, h) \in Nat
      /\ LiveAt(n, N[n], h) \in Nat /\ LiveAt(n, M[n], h) \in Nat
      /\ Tokens(M, h) + LiveAt(n, N[n], h) = Tokens(N, h) + LiveAt(n, M[n], h)
  BY TokensOne DEF Routers
<1>2. QED
  BY <1>1

LEMMA OneRelay ==
  ASSUME NEW N, NEW M, Routers(N), Routers(M), NEW n \in Nodes \ {Source},
         \A m \in Nodes \ {n} : M[m] = N[m],
         NEW b \in [Nodes -> Nat], Account(N, b), Eases(n, N[n], M[n], b[n])
  PROVE  Account(M, b)
<1>1. M[Source] = N[Source] /\ Source \in Nodes
  BY RoutingAssumption
<1>2. ASSUME NEW h \in Int PROVE Tokens(M, h) <= Tokens(N, h)
  <2>1. LiveAt(n, M[n], h) <= LiveAt(n, N[n], h)
    BY DEF Eases
  <2>2. QED
    BY <2>1, TokensLess
<1>3. Paid(M)
  <2>1. Tokens(M, -1) <= Tokens(N, -1)
    BY <1>2
  <2>2. /\ Tokens(M, -1) \in Nat /\ Tokens(N, -1) \in Nat /\ Reserve(N[Source]) \in Nat
        /\ NUM_RELIABLE_RETX \in Nat
    BY <1>1, AccountTypes
  <2>3. QED
    BY <1>1, <2>1, <2>2 DEF Account, Paid
<1>4. Covered(M, n, b[n])
  <2> DEFINE h == HighOf(N[n])
             g == HighOf(M[n])
  <2>1. /\ h \in Int /\ g \in Int /\ b[n] \in Nat
        /\ Spent(n, N[n], b[n]) \in Nat /\ Spent(n, M[n], b[n]) \in Nat
    BY AccountTypes
  <2>2. /\ Ready(n, M[n], b[n]) /\ h <= g
        /\ Spent(n, M[n], b[n]) + 2 * LiveAt(n, M[n], g) <= Spent(n, N[n], b[n]) + 2 * LiveAt(n, N[n], h)
    BY <2>1 DEF Eases
  <2>3. Spent(n, N[n], b[n]) + 2 * Tokens(N, h) + Reserve(N[Source]) <= 2 * NUM_RELIABLE_RETX
    BY DEF Account, Covered
  <2>4. /\ Tokens(N, h) \in Nat /\ Tokens(M, g) \in Nat /\ Reserve(N[Source]) \in Nat
        /\ NUM_RELIABLE_RETX \in Nat
    BY <1>1, AccountTypes
  <2>5. LiveAt(n, N[n], h) \in Nat /\ LiveAt(n, M[n], g) \in Nat
    BY LiveType DEF Routers
  <2>6. Covered(M, n, b[n]) <=>
          Ready(n, M[n], b[n])
            /\ Spent(n, M[n], b[n]) + 2 * Tokens(M, g) + Reserve(M[Source]) <= 2 * NUM_RELIABLE_RETX
    BY DEF Covered
  <2> HIDE DEF h, g
  <2>7. Tokens(M, g) + LiveAt(n, N[n], h) <= Tokens(N, h) + LiveAt(n, M[n], g)
    BY <2>1, <2>2, TokensMove
  <2>8. Spent(n, M[n], b[n]) + 2 * Tokens(M, g) + Reserve(N[Source]) <= 2 * NUM_RELIABLE_RETX
    BY <2>1, <2>2, <2>3, <2>4, <2>5, <2>7
  <2>9. QED
    BY <1>1, <2>2, <2>6, <2>8
<1>5. ASSUME NEW m \in Nodes \ {Source}, m # n PROVE Covered(M, m, b[m])
  <2>1. M[m] = N[m] /\ Covered(N, m, b[m])
    BY <1>5 DEF Account
  <2>2. /\ HighOf(N[m]) \in Int /\ b[m] \in Nat /\ Spent(m, N[m], b[m]) \in Nat
        /\ Tokens(N, HighOf(N[m])) \in Nat /\ Tokens(M, HighOf(N[m])) \in Nat
        /\ NUM_RELIABLE_RETX \in Nat
    BY AccountTypes
  <2>3. Reserve(N[Source]) \in Nat
    BY <1>1, AccountTypes
  <2>4. Tokens(M, HighOf(N[m])) <= Tokens(N, HighOf(N[m]))
    BY <1>2, <2>2
  <2>5. QED
    BY <1>1, <2>1, <2>2, <2>3, <2>4 DEF Covered
<1>6. QED
  BY <1>3, <1>4, <1>5 DEF Account

LEMMA OneSource ==
  ASSUME NEW N, NEW M, Routers(N), Routers(M), \A m \in Nodes \ {Source} : M[m] = N[m],
         NEW b \in [Nodes -> Nat], Account(N, b), Backs(N[Source], M[Source])
  PROVE  Account(M, b)
<1>1. /\ Source \in Nodes /\ Reserve(N[Source]) \in Nat /\ Reserve(M[Source]) \in Nat
      /\ NUM_RELIABLE_RETX \in Nat
  BY RoutingAssumption, ReserveType DEF Routers
<1>2. ASSUME NEW h \in Int
      PROVE  2 * Tokens(M, h) + Reserve(M[Source]) <= 2 * Tokens(N, h) + Reserve(N[Source])
  <2>1. 2 * LiveAt(Source, M[Source], h) + Reserve(M[Source])
          <= 2 * LiveAt(Source, N[Source], h) + Reserve(N[Source])
    BY DEF Backs
  <2>2. /\ Tokens(N, h) \in Nat /\ Tokens(M, h) \in Nat
        /\ LiveAt(Source, N[Source], h) \in Nat /\ LiveAt(Source, M[Source], h) \in Nat
        /\ Tokens(M, h) + LiveAt(Source, N[Source], h) = Tokens(N, h) + LiveAt(Source, M[Source], h)
    BY <1>1, TokensOne DEF Routers
  <2>3. QED
    BY <1>1, <2>1, <2>2
<1>3. Paid(M)
  <2>1. 2 * Tokens(M, -1) + Reserve(M[Source]) <= 2 * Tokens(N, -1) + Reserve(N[Source])
    BY <1>2
  <2>2. Tokens(M, -1) \in Nat /\ Tokens(N, -1) \in Nat
    BY <1>1, AccountTypes
  <2>3. QED
    BY <1>1, <2>1, <2>2 DEF Account, Paid
<1>4. ASSUME NEW m \in Nodes \ {Source} PROVE Covered(M, m, b[m])
  <2>1. M[m] = N[m] /\ Covered(N, m, b[m])
    BY DEF Account
  <2>2. /\ HighOf(N[m]) \in Int /\ b[m] \in Nat /\ Spent(m, N[m], b[m]) \in Nat
        /\ Tokens(N, HighOf(N[m])) \in Nat /\ Tokens(M, HighOf(N[m])) \in Nat
    BY AccountTypes
  <2>3. 2 * Tokens(M, HighOf(N[m])) + Reserve(M[Source])
          <= 2 * Tokens(N, HighOf(N[m])) + Reserve(N[Source])
    BY <1>2, <2>2
  <2>4. QED
    BY <1>1, <2>1, <2>2, <2>3 DEF Covered
<1>5. QED
  BY <1>3, <1>4 DEF Account

(* A packet leaves the queue of n and is heard by some others.               *)
Heard(N, M, n, i) ==
  /\ i \in DOMAIN N[n].queue
  /\ M[n].queue = DropAt(N[n].queue, i) /\ M[n].rx = N[n].rx
  /\ \A m \in Nodes : M[m].hist = N[m].hist /\ M[m].pend = N[m].pend
  /\ \A m \in Nodes \ {n} : M[m].queue = N[m].queue
  /\ \A m \in Nodes \ {n} :
       M[m].rx = N[m].rx \/ M[m].rx = Append(N[m].rx, N[n].queue[i])

LEMMA WhereAppend ==
  ASSUME NEW X, NEW q \in Seq(X), NEW e, NEW S, e \notin S
  PROVE  Where(Append(q, e), S) = Where(q, S)
<1>1. /\ DOMAIN Append(q, e) = DOMAIN q \cup {Len(q) + 1}
      /\ \A i \in DOMAIN q : Append(q, e)[i] = q[i]
      /\ Append(q, e)[Len(q) + 1] = e
  OBVIOUS
<1>2. QED
  BY <1>1 DEF Where

(* A directed copy that is sent counts no more, and for one receiver at most.*)
LEMMA TokensHeard ==
  ASSUME NEW N, NEW M, Routers(N), Routers(M), NEW n \in Nodes, NEW i, Heard(N, M, n, i),
         NEW h \in Int
  PROVE  Tokens(M, h) <= Tokens(N, h)
<1> DEFINE p == N[n].queue[i]
           a == IF p.next \in Nodes THEN p.next ELSE n
           c == IF p \in LiveOut(h) THEN 1 ELSE 0
           F == [m \in Nodes |-> Where(N[m].queue, LiveOut(h))]
           G == [m \in Nodes |-> Where(M[m].queue, LiveOut(h))]
           A == [m \in Nodes |-> Where(N[m].rx, LiveIn(m, h))]
           B == [m \in Nodes |-> Where(M[m].rx, LiveIn(m, h))]
<1>1. \A m \in Nodes : /\ N[m].queue \in Seq(Packet) /\ N[m].rx \in Seq(Packet)
                       /\ RouterOK(N[m]) /\ RouterOK(M[m])
  BY DEF Routers, RouterOK, RouterType
<1>2. p \in Packet /\ i \in DOMAIN N[n].queue
  <2>1. N[n].queue \in Seq(Packet) /\ i \in DOMAIN N[n].queue
    BY <1>1 DEF Heard
  <2>2. QED
    BY <2>1
<1>3. a \in Nodes /\ c \in {0, 1}
  OBVIOUS
<1>4. \A m \in Nodes : p \in LiveIn(m, h) => m = a /\ p \in LiveOut(h)
  <2>1. NoNode \notin Nodes
    BY RoutingAssumption
  <2>2. QED
    BY <2>1 DEF LiveIn, LiveOut
<1>5. \A m \in Nodes : IsFiniteSet(F[m]) /\ IsFiniteSet(G[m]) /\ IsFiniteSet(A[m]) /\ IsFiniteSet(B[m])
  BY <1>1, LiveType
<1>6. \A m \in Nodes \ {n} : G[m] = F[m]
  BY DEF Heard
<1>7. Cardinality(G[n]) = Cardinality(F[n]) - c
  <2>1. Count(DropAt(N[n].queue, i), LiveOut(h)) = Count(N[n].queue, LiveOut(h)) - c
    BY <1>1, <1>2, CountDrop
  <2>2. QED
    BY <2>1 DEF Heard, Count
<1>8. ASSUME NEW m \in Nodes \ {a} PROVE B[m] = A[m]
  <2>1. CASE M[m].rx = N[m].rx
    BY <2>1
  <2>2. CASE M[m].rx = Append(N[m].rx, p)
    <3>1. p \notin LiveIn(m, h) /\ N[m].rx \in Seq(Packet)
      BY <1>1, <1>4
    <3> HIDE DEF p
    <3>2. Where(Append(N[m].rx, p), LiveIn(m, h)) = Where(N[m].rx, LiveIn(m, h))
      BY <3>1, WhereAppend
    <3>3. QED
      BY <2>2, <3>2
  <2>3. QED
    BY <2>1, <2>2 DEF Heard
<1>9. Cardinality(B[a]) <= Cardinality(A[a]) + c /\ Cardinality(A[a]) \in Nat
  <2>1. Count(N[a].rx, LiveIn(a, h)) \in Nat
    BY <1>1, <1>3, CountType
  <2>2. CASE M[a].rx = N[a].rx
    <3>1. B[a] = A[a] /\ Cardinality(A[a]) \in Nat
      BY <1>3, <2>1, <2>2 DEF Count
    <3> HIDE DEF A, B, a, c
    <3>2. QED
      BY <1>3, <3>1
  <2>3. CASE M[a].rx = Append(N[a].rx, p)
    <3>1. Count(Append(N[a].rx, p), LiveIn(a, h))
            = Count(N[a].rx, LiveIn(a, h)) + (IF p \in LiveIn(a, h) THEN 1 ELSE 0)
      BY <1>1, <1>2, <1>3, CountAppend
    <3>2. p \in LiveIn(a, h) => c = 1
      BY <1>3, <1>4
    <3>3. /\ Cardinality(B[a]) = Count(Append(N[a].rx, p), LiveIn(a, h))
          /\ Cardinality(A[a]) = Count(N[a].rx, LiveIn(a, h))
      BY <1>3, <2>3 DEF Count
    <3> HIDE DEF A, B, a, c, p
    <3>4. QED
      BY <1>3, <2>1, <3>1, <3>2, <3>3
  <2>4. QED
    BY <1>3, <2>2, <2>3 DEF Heard
<1>10. /\ Tokens(N, h) = Cardinality(Pairs(F)) + Cardinality(Pairs(A))
       /\ Tokens(M, h) = Cardinality(Pairs(G)) + Cardinality(Pairs(B))
  BY DEF Tokens
<1> HIDE DEF F, G, A, B, a, c, p
<1>11. /\ Cardinality(Pairs(F)) \in Nat /\ Cardinality(Pairs(G)) \in Nat
       /\ Cardinality(F[n]) \in Nat /\ Cardinality(G[n]) \in Nat
       /\ Cardinality(Pairs(G)) + Cardinality(F[n]) = Cardinality(Pairs(F)) + Cardinality(G[n])
  BY <1>5, <1>6, PairsChange
<1>12. /\ Cardinality(Pairs(A)) \in Nat /\ Cardinality(Pairs(B)) \in Nat
       /\ Cardinality(A[a]) \in Nat /\ Cardinality(B[a]) \in Nat
       /\ Cardinality(Pairs(B)) + Cardinality(A[a]) = Cardinality(Pairs(A)) + Cardinality(B[a])
  BY <1>3, <1>5, <1>8, PairsChange
<1>13. QED
  BY <1>3, <1>7, <1>9, <1>10, <1>11, <1>12

(* Where a node only hears: its effort is the same, and a flood of Source    *)
(* may be added.                                                             *)
Hears(s, t, p) == /\ t.queue = s.queue /\ t.pend = s.pend /\ t.hist = s.hist
                  /\ t.rx = s.rx \/ t.rx = Append(s.rx, p)
Added(p) == IF p \in FullFloods THEN 1 ELSE 0

LEMMA HearsOnly ==
  ASSUME NEW m, NEW s, RouterOK(s), NEW t, RouterOK(t), NEW p \in Packet,
         Hears(s, t, p), NEW b \in Nat, Ready(m, s, b)
  PROVE  /\ Ready(m, t, b) /\ HighOf(t) = HighOf(s) /\ Reserve(t) = Reserve(s)
         /\ Spent(m, t, b) <= Spent(m, s, b) + Added(p)
         /\ Spent(m, t, b) \in Nat /\ Spent(m, s, b) \in Nat
<1>1. TriesLeft(t) = TriesLeft(s)
  BY DEF TriesLeft, Hears
<1>2. /\ Effort(m, t) = Effort(m, s) /\ HighOf(t) = HighOf(s) /\ Reserve(t) = Reserve(s)
  BY <1>1 DEF Effort, Load, Slack, HighOf, Reserve, Hears
<1>3. Ready(m, t, b)
  BY <1>1, <1>2 DEF Ready
<1>4. /\ Count(t.rx, FullFloods) <= Count(s.rx, FullFloods) + Added(p)
      /\ Count(s.rx, FullFloods) \in Nat /\ Count(t.rx, FullFloods) \in Nat
  <2>1. s.rx \in Seq(Packet) /\ t.rx \in Seq(Packet)
    BY DEF RouterOK, RouterType
  <2>2. Count(s.rx, FullFloods) \in Nat /\ Count(t.rx, FullFloods) \in Nat
    BY <2>1, CountType
  <2>3. CASE t.rx = s.rx
    BY <2>2, <2>3 DEF Added
  <2>4. CASE t.rx = Append(s.rx, p)
    BY <2>1, <2>2, <2>4, CountAppend DEF Added
  <2>5. QED
    BY <2>2, <2>3, <2>4 DEF Hears
<1>5. Effort(m, s) \in Nat
  BY EffortType
<1>6. QED
  BY <1>2, <1>3, <1>4, <1>5 DEF Spent, Added

(* What the sender of the packet has to its account.                         *)
LEMMA SendsOff ==
  ASSUME NEW n, NEW s, RouterOK(s), NEW t, RouterOK(t), NEW i \in DOMAIN s.queue,
         t.queue = DropAt(s.queue, i), t.rx = s.rx, t.pend = s.pend, t.hist = s.hist,
         NEW b \in Nat
  PROVE  /\ HighOf(t) = HighOf(s)
         /\ Reserve(t) = Reserve(s) - (IF s.queue[i] \in Floods THEN 1 ELSE 0)
         /\ Reserve(s) \in Nat /\ Reserve(t) \in Nat
         /\ Ready(n, s, b) =>
              /\ Ready(n, t, b + Cost(s.queue[i]))
              /\ Spent(n, t, b + Cost(s.queue[i])) = Spent(n, s, b)
<1> DEFINE c == Cost(s.queue[i])
<1>1. /\ Load(t) = Load(s) - c /\ c \in {0, 1}
      /\ Count(t.queue, Floods) = Count(s.queue, Floods) - (IF s.queue[i] \in Floods THEN 1 ELSE 0)
  BY DropFewer
<1> HIDE DEF c
<1>2. TriesLeft(t) = TriesLeft(s) /\ HighOf(t) = HighOf(s) /\ Slack(n, t) = Slack(n, s)
  BY DEF TriesLeft, HighOf, Slack
<1>3. /\ Count(t.queue, Floods) \in Nat /\ Count(s.queue, Floods) \in Nat /\ TriesLeft(s) \in Nat
      /\ Load(s) \in Nat /\ Load(t) \in Nat /\ Slack(n, s) \in Nat
      /\ Effort(n, s) \in Nat /\ Effort(n, t) \in Nat
  <2>1. Slack(n, s) \in {0, 1}
    BY EffortType
  <2>2. QED
    BY <2>1, EffortType
<1>4. Effort(n, t) = Effort(n, s) - c
  BY <1>1, <1>2, <1>3 DEF Effort
<1>5. Reserve(t) = Reserve(s) - (IF s.queue[i] \in Floods THEN 1 ELSE 0)
  BY <1>1, <1>2, <1>3 DEF Reserve
<1>6. Reserve(s) \in Nat /\ Reserve(t) \in Nat
  BY ReserveType
<1>7. ASSUME Ready(n, s, b) PROVE Ready(n, t, b + c) /\ Spent(n, t, b + c) = Spent(n, s, b)
  <2>1. HighOf(s) = -1 => c = 0 /\ b = 0 /\ Effort(n, s) = 0
    BY <1>1, <1>3, <1>4, <1>7 DEF Ready
  <2>2. Ready(n, t, b + c)
    <3>1. TriesLeft(t) <= 1
      BY <1>2, <1>7 DEF Ready
    <3>2. HighOf(t) = -1 => b + c = 0 /\ Effort(n, t) = 0
      BY <1>2, <1>4, <2>1
    <3>3. QED
      BY <3>1, <3>2 DEF Ready
  <2>3. (b + c) + Effort(n, t) = b + Effort(n, s)
    BY <1>1, <1>3, <1>4
  <2>4. Spent(n, t, b + c) = Spent(n, s, b)
    BY <2>3 DEF Spent
  <2>5. QED
    BY <2>2, <2>4
<1>8. QED
  BY <1>2, <1>5, <1>6, <1>7 DEF c

LEMMA AccountHeard ==
  ASSUME NEW N, NEW M, Routers(N), Routers(M), NEW n \in Nodes, NEW i, Heard(N, M, n, i),
         NEW p, p = N[n].queue[i], p \in FullFloods => n = Source,
         NEW b \in [Nodes -> Nat], NEW c \in [Nodes -> Nat], Account(N, b),
         c[n] = b[n] + Cost(p), \A m \in Nodes \ {n} : c[m] = b[m]
  PROVE  Account(M, c)
<1> DEFINE f == Added(p)
<1>1. \A m \in Nodes : RouterOK(N[m]) /\ RouterOK(M[m])
  BY DEF Routers
<1>2. i \in DOMAIN N[n].queue /\ p \in Packet /\ Source \in Nodes
  <2>1. N[n].queue \in Seq(Packet) /\ i \in DOMAIN N[n].queue
    BY <1>1 DEF Heard, RouterOK, RouterType
  <2>2. QED
    BY <2>1, RoutingAssumption
<1>3. /\ M[n].queue = DropAt(N[n].queue, i) /\ M[n].rx = N[n].rx
      /\ M[n].pend = N[n].pend /\ M[n].hist = N[n].hist
  BY DEF Heard
<1>4. ASSUME NEW m \in Nodes \ {n}
      PROVE  /\ M[m].queue = N[m].queue /\ M[m].pend = N[m].pend /\ M[m].hist = N[m].hist
             /\ M[m].rx = N[m].rx \/ M[m].rx = Append(N[m].rx, p)
  BY DEF Heard
<1>5. f \in {0, 1} /\ (f = 1 => p \in Floods /\ n = Source)
  BY DEF FullFloods, Added
<1>6. /\ HighOf(M[n]) = HighOf(N[n])
      /\ Reserve(M[n]) = Reserve(N[n]) - (IF p \in Floods THEN 1 ELSE 0)
      /\ Reserve(M[n]) \in Nat /\ Reserve(N[n]) \in Nat
      /\ Ready(n, N[n], b[n]) => /\ Ready(n, M[n], c[n])
                                 /\ Spent(n, M[n], c[n]) = Spent(n, N[n], b[n])
  <2> DEFINE s == N[n]
             t == M[n]
             x == b[n]
  <2>1. /\ RouterOK(s) /\ RouterOK(t) /\ i \in DOMAIN s.queue /\ p = s.queue[i]
        /\ t.queue = DropAt(s.queue, i) /\ t.rx = s.rx /\ t.pend = s.pend /\ t.hist = s.hist
        /\ x \in Nat /\ c[n] = x + Cost(p)
    BY <1>1, <1>2, <1>3
  <2> HIDE DEF s, t, x
  <2>2. /\ HighOf(t) = HighOf(s)
        /\ Reserve(t) = Reserve(s) - (IF p \in Floods THEN 1 ELSE 0)
        /\ Reserve(s) \in Nat /\ Reserve(t) \in Nat
        /\ Ready(n, s, x) => Ready(n, t, x + Cost(p)) /\ Spent(n, t, x + Cost(p)) = Spent(n, s, x)
    BY <2>1, SendsOff
  <2>3. QED
    BY <2>1, <2>2 DEF s, t, x
<1>7. ASSUME NEW m \in Nodes \ {n}
      PROVE  /\ HighOf(M[m]) = HighOf(N[m]) /\ Reserve(M[m]) = Reserve(N[m])
             /\ Ready(m, N[m], b[m]) =>
                  /\ Ready(m, M[m], b[m])
                  /\ Spent(m, M[m], b[m]) <= Spent(m, N[m], b[m]) + f
  <2>1. HighOf(M[m]) = HighOf(N[m]) /\ Reserve(M[m]) = Reserve(N[m])
    BY <1>4 DEF HighOf, Reserve, TriesLeft
  <2>2. ASSUME Ready(m, N[m], b[m])
        PROVE  Ready(m, M[m], b[m]) /\ Spent(m, M[m], b[m]) <= Spent(m, N[m], b[m]) + f
    <3> DEFINE s == N[m]
               t == M[m]
               x == b[m]
    <3>1. /\ RouterOK(s) /\ RouterOK(t) /\ x \in Nat /\ Ready(m, s, x)
          /\ Hears(s, t, p)
      BY <1>1, <1>4, <2>2 DEF Hears
    <3> HIDE DEF s, t, x
    <3>2. Ready(m, t, x) /\ Spent(m, t, x) <= Spent(m, s, x) + f
      BY <1>2, <3>1, HearsOnly
    <3>3. QED
      BY <3>2 DEF s, t, x
  <2>3. QED
    BY <2>1, <2>2
<1> HIDE DEF f
<1>8. Reserve(M[Source]) + f <= Reserve(N[Source])
  <2>1. CASE n = Source
    <3>1. Reserve(M[Source]) = Reserve(N[Source]) - (IF p \in Floods THEN 1 ELSE 0)
          /\ Reserve(M[Source]) \in Nat /\ Reserve(N[Source]) \in Nat
      BY <1>6, <2>1
    <3>2. QED
      BY <1>5, <3>1
  <2>2. CASE n # Source
    <3>1. Reserve(M[Source]) = Reserve(N[Source]) /\ f = 0
      BY <1>2, <1>5, <1>7, <2>2
    <3>2. Reserve(N[Source]) \in Nat
      BY <1>1, <1>2, ReserveType
    <3>3. QED
      BY <3>1, <3>2
  <2>3. QED
    BY <2>1, <2>2
<1>9. \A h \in Int : Tokens(M, h) <= Tokens(N, h)
  BY TokensHeard
<1>10. Reserve(N[Source]) \in Nat /\ Reserve(M[Source]) \in Nat /\ NUM_RELIABLE_RETX \in Nat
  BY <1>1, <1>2, ReserveType, RoutingAssumption
<1>11. Paid(M)
  <2>1. Tokens(M, -1) <= Tokens(N, -1)
    BY <1>9
  <2>2. Tokens(M, -1) \in Nat /\ Tokens(N, -1) \in Nat
    BY <1>2, AccountTypes
  <2>3. QED
    BY <1>5, <1>8, <1>10, <2>1, <2>2 DEF Account, Paid
<1>12. ASSUME NEW m \in Nodes \ {Source} PROVE Covered(M, m, c[m])
  <2>1. /\ Ready(m, N[m], b[m])
        /\ Spent(m, N[m], b[m]) + 2 * Tokens(N, HighOf(N[m])) + Reserve(N[Source])
             <= 2 * NUM_RELIABLE_RETX
    BY DEF Account, Covered
  <2>2. /\ Ready(m, M[m], c[m]) /\ HighOf(M[m]) = HighOf(N[m])
        /\ Spent(m, M[m], c[m]) <= Spent(m, N[m], b[m]) + f
    <3>1. CASE m = n
      <4>1. /\ Ready(m, M[m], c[m]) /\ HighOf(M[m]) = HighOf(N[m])
            /\ Spent(m, M[m], c[m]) = Spent(m, N[m], b[m])
        BY <1>6, <2>1, <3>1
      <4>2. Spent(m, N[m], b[m]) \in Nat
        <5>1. b[m] \in Nat
          OBVIOUS
        <5>2. QED
          BY <5>1, AccountTypes
      <4>3. QED
        BY <1>5, <4>1, <4>2
    <3>2. CASE m # n
      <4>1. c[m] = b[m] /\ m \in Nodes \ {n}
        BY <3>2
      <4>2. QED
        BY <1>7, <2>1, <4>1
    <3>3. QED
      BY <3>1, <3>2
  <2>3. /\ HighOf(N[m]) \in Int /\ b[m] \in Nat /\ c[m] \in Nat
        /\ Spent(m, N[m], b[m]) \in Nat /\ Spent(m, M[m], c[m]) \in Nat
        /\ Tokens(N, HighOf(N[m])) \in Nat /\ Tokens(M, HighOf(N[m])) \in Nat
    BY AccountTypes
  <2>4. Tokens(M, HighOf(N[m])) <= Tokens(N, HighOf(N[m]))
    BY <1>9, <2>3
  <2>5. Spent(m, M[m], c[m]) + 2 * Tokens(M, HighOf(N[m])) + Reserve(M[Source])
          <= 2 * NUM_RELIABLE_RETX
    BY <1>5, <1>8, <1>10, <2>1, <2>2, <2>3, <2>4
  <2>6. QED
    BY <2>2, <2>5 DEF Covered
<1>13. QED
  BY <1>11, <1>12 DEF Account

(* A node restarts: what it still may be brought is paid for.                *)
LEMMA AccountReboot ==
  ASSUME NEW N, NEW M, Routers(N), Routers(M), NEW n \in Nodes \ {Source},
         \A m \in Nodes \ {n} : M[m] = N[m],
         M[n].queue = <<>>, M[n].rx = <<>>, M[n].pend = <<>>, M[n].hist = <<>>,
         NEW b \in [Nodes -> Nat], NEW c \in [Nodes -> Nat], Account(N, b),
         c[n] = 0, \A m \in Nodes \ {n} : c[m] = b[m]
  PROVE  Account(M, c)
<1>1. M[Source] = N[Source] /\ Source \in Nodes /\ RouterOK(N[Source])
  BY RoutingAssumption DEF Routers
<1>2. \A x : LiveAt(n, M[n], x) = 0
  BY CountEmpty DEF LiveAt
<1>3. ASSUME NEW h \in Int PROVE Tokens(M, h) <= Tokens(N, h)
  <2>1. LiveAt(n, N[n], h) \in Nat
    BY LiveType DEF Routers
  <2>2. LiveAt(n, M[n], h) <= LiveAt(n, N[n], h)
    BY <1>2, <2>1
  <2>3. QED
    BY <2>2, TokensLess
<1>4. Reserve(N[Source]) \in Nat /\ NUM_RELIABLE_RETX \in Nat
  BY <1>1, ReserveType, RoutingAssumption
<1>5. Paid(M)
  <2>1. Tokens(M, -1) <= Tokens(N, -1)
    BY <1>3
  <2>2. Tokens(M, -1) \in Nat /\ Tokens(N, -1) \in Nat
    BY <1>1, AccountTypes
  <2>3. QED
    BY <1>1, <1>4, <2>1, <2>2 DEF Account, Paid
<1>6. Covered(M, n, c[n])
  <2>1. Effort(n, M[n]) = 0 /\ HighOf(M[n]) = -1 /\ TriesLeft(M[n]) = 0
    <3>1. TriesLeft(M[n]) = 0 /\ Slack(n, M[n]) = 0 /\ HighOf(M[n]) = -1
      BY DEF TriesLeft, Slack, HighOf
    <3>2. Count(M[n].queue, TextCopies) = 0
      BY CountEmpty
    <3>3. QED
      BY <3>1, <3>2 DEF Effort, Load
  <2>2. Count(M[n].rx, FullFloods) = 0
    BY CountEmpty
  <2>3. Spent(n, M[n], c[n]) = 1
    BY <2>1, <2>2 DEF Spent
  <2>4. Ready(n, M[n], c[n])
    BY <2>1 DEF Ready
  <2>5. Tokens(M, -1) \in Nat
    BY <1>1, AccountTypes
  <2>6. 1 + 2 * Tokens(M, -1) + Reserve(M[Source]) <= 2 * NUM_RELIABLE_RETX
    BY <1>1, <1>4, <1>5, <2>5 DEF Paid
  <2>7. QED
    BY <2>1, <2>3, <2>4, <2>6 DEF Covered
<1>7. ASSUME NEW m \in Nodes \ {Source}, m # n PROVE Covered(M, m, c[m])
  <2>1. M[m] = N[m] /\ c[m] = b[m] /\ Covered(N, m, b[m])
    BY <1>7 DEF Account
  <2>2. /\ HighOf(N[m]) \in Int /\ b[m] \in Nat /\ Spent(m, N[m], b[m]) \in Nat
        /\ Tokens(N, HighOf(N[m])) \in Nat /\ Tokens(M, HighOf(N[m])) \in Nat
    BY AccountTypes
  <2>3. Tokens(M, HighOf(N[m])) <= Tokens(N, HighOf(N[m]))
    BY <1>3, <2>2
  <2>4. QED
    BY <1>1, <1>4, <2>1, <2>2, <2>3 DEF Covered
<1>8. QED
  BY <1>5, <1>6, <1>7 DEF Account

(* At the start Source has the first of its tries in the queue.              *)
LEMMA AccountStart ==
  ASSUME NEW N, Routers(N),
         \A m \in Nodes \ {Source} :
           N[m].queue = <<>> /\ N[m].rx = <<>> /\ N[m].pend = <<>> /\ N[m].hist = <<>>,
         \A h \in Int : 2 * LiveAt(Source, N[Source], h) + Reserve(N[Source])
                          <= 2 * NUM_RELIABLE_RETX - 1
  PROVE  Account(N, [m \in Nodes |-> 0])
<1> DEFINE e == [N[Source] EXCEPT !.queue = <<>>, !.rx = <<>>]
           L == [m \in Nodes |-> IF m = Source THEN e ELSE N[m]]
           b == [m \in Nodes |-> 0]
<1>1. Source \in Nodes /\ RouterOK(N[Source]) /\ NUM_RELIABLE_RETX \in Nat
      /\ Reserve(N[Source]) \in Nat
  BY RoutingAssumption, ReserveType DEF Routers
<1>2. RouterOK(e) /\ e.queue = <<>> /\ e.rx = <<>>
  BY <1>1 DEF RouterOK, RouterType, Fields
<1> HIDE DEF e
<1>3. Routers(L) /\ \A m \in Nodes : L[m].queue = <<>> /\ L[m].rx = <<>>
  BY <1>2 DEF Routers
<1>4. /\ \A m \in Nodes \ {Source} : N[m] = L[m]
  OBVIOUS
<1> HIDE DEF L
<1>5. ASSUME NEW h PROVE Tokens(L, h) = 0
  <2> DEFINE F == [m \in Nodes |-> Where(L[m].queue, LiveOut(h))]
             A == [m \in Nodes |-> Where(L[m].rx, LiveIn(m, h))]
  <2>1. \A S : Where(<<>>, S) = {}
    BY DEF Where
  <2>2. \A m \in Nodes : F[m] = {} /\ A[m] = {}
    BY <1>3, <2>1
  <2>3. Tokens(L, h) = Cardinality(Pairs(F)) + Cardinality(Pairs(A))
    BY DEF Tokens
  <2> HIDE DEF F, A
  <2>4. Pairs(F) = {} /\ Pairs(A) = {}
    BY <2>2 DEF Pairs, Row
  <2>5. Cardinality({}) = 0
    BY FS_EmptySet
  <2>6. QED
    BY <2>3, <2>4, <2>5
<1>6. ASSUME NEW h \in Int
      PROVE  2 * Tokens(N, h) + Reserve(N[Source]) <= 2 * NUM_RELIABLE_RETX - 1
  <2>1. /\ Tokens(N, h) \in Nat /\ LiveAt(Source, N[Source], h) \in Nat
        /\ Tokens(N, h) + LiveAt(Source, L[Source], h) = Tokens(L, h) + LiveAt(Source, N[Source], h)
    BY <1>1, <1>3, <1>4, TokensOne DEF Routers
  <2>2. LiveAt(Source, L[Source], h) = 0
    BY <1>1, <1>3, CountEmpty DEF LiveAt
  <2>3. Tokens(N, h) = LiveAt(Source, N[Source], h)
    BY <1>5, <2>1, <2>2
  <2>4. QED
    BY <2>3
<1>7. Paid(N)
  BY <1>6 DEF Paid
<1>8. ASSUME NEW n \in Nodes \ {Source} PROVE Covered(N, n, b[n])
  <2>1. Effort(n, N[n]) = 0 /\ HighOf(N[n]) = -1 /\ TriesLeft(N[n]) = 0
    <3>1. TriesLeft(N[n]) = 0 /\ Slack(n, N[n]) = 0 /\ HighOf(N[n]) = -1
      BY DEF TriesLeft, Slack, HighOf
    <3>2. Count(N[n].queue, TextCopies) = 0
      BY CountEmpty
    <3>3. QED
      BY <3>1, <3>2 DEF Effort, Load
  <2>2. Count(N[n].rx, FullFloods) = 0 /\ b[n] = 0
    BY CountEmpty
  <2>3. Spent(n, N[n], b[n]) = 1 /\ Ready(n, N[n], b[n])
    BY <2>1, <2>2 DEF Spent, Ready
  <2>4. Tokens(N, -1) \in Nat
    BY <1>1, AccountTypes
  <2>5. 1 + 2 * Tokens(N, -1) + Reserve(N[Source]) <= 2 * NUM_RELIABLE_RETX
    BY <1>1, <1>7, <2>4 DEF Paid
  <2>6. QED
    BY <2>1, <2>3, <2>5 DEF Covered
<1>9. QED
  BY <1>7, <1>8 DEF Account

EffortInv == TextInv /\ (Dest # Broadcast => Account(node, sentBy))

LEMMA InitEffort == Init => EffortInv
<1> SUFFICES ASSUME Init PROVE EffortInv
  OBVIOUS
<1>1. /\ mesh \in Meshes /\ TextInv /\ sentBy = [n \in Nodes |-> 0]
      /\ node = [n \in Nodes |-> IF n = Source THEN ReliableSend(n, Boot(n), Text) ELSE Boot(n)]
  BY InitText DEF Init
<1>2. SUFFICES ASSUME Dest # Broadcast PROVE Account(node, sentBy)
  BY <1>1 DEF EffortInv
<1> DEFINE d  == Dest
           s  == Boot(Source)
           s1 == StartRetransmission(Source, s, Text, NUM_RELIABLE_RETX)
           t  == ReliableSend(Source, s, Text)
<1>3. Routers(node) /\ NUM_RELIABLE_RETX \in Nat /\ NUM_RELIABLE_RETX >= 2 /\ Source \in Nodes
      /\ HopLimit \in Nat
  BY <1>1, RoutingAssumption DEF Routers, TextInv, NodesInv
<1>4. /\ RouterOK(s) /\ Text \in Packet /\ IsText(Text) /\ Text.ack /\ Text.lim = HopLimit
      /\ Text.to = d /\ Text.start = HopLimit /\ Text.req = -1
  BY <1>1, <1>2, <1>3, BootOK DEF Text, IsText, Key, TextKey
<1>5. /\ s.queue = <<>> /\ s.rx = <<>> /\ s.pend = <<>> /\ s.ids = 1
  BY DEF Boot
<1>6. t = NextHopSend(Source, s1, Text)
  BY <1>2, <1>4 DEF ReliableSend
<1>7. node[Source] = t
  BY <1>1, <1>3
<1>8. /\ s1.queue = <<>> /\ s1.rx = <<>> /\ TriesLeft(s1) = NUM_RELIABLE_RETX - 1
  <2>1. Key(Text) = TextKey /\ TextKey \notin DOMAIN s.pend
    BY <1>4, <1>5 DEF IsText
  <2>2. StopRetransmission(Source, s, Key(Text)) = s
    BY <2>1 DEF StopRetransmission
  <2>3. s1 = [s EXCEPT !.pend = [k \in DOMAIN @ \cup {Key(Text)} |->
                                   IF k = Key(Text) THEN [pkt |-> Text, left |-> NUM_RELIABLE_RETX - 1]
                                                    ELSE @[k]]]
    BY <2>2 DEF StartRetransmission
  <2> HIDE DEF s1, s
  <2>4. /\ s1.queue = s.queue /\ s1.rx = s.rx /\ TextKey \in DOMAIN s1.pend
        /\ s1.pend[TextKey].left = NUM_RELIABLE_RETX - 1
    BY <1>4, <2>1, <2>3 DEF RouterOK, Fields
  <2>5. QED
    BY <1>5, <2>4 DEF TriesLeft, s
<1>9. TextOK(d, Source, s1) /\ RouterOK(s1)
  <2>1. TextOK(d, Source, s)
    <3> HIDE DEF s
    <3>1. s.ids > 0
      BY <1>5
    <3>2. QED
      BY <1>3, <1>4, <1>5, <3>1, BootSends
  <2>2. Text \in Outgoing(d, Source) /\ NUM_RELIABLE_RETX \in 1..NUM_RELIABLE_RETX
    BY <1>2, <1>3, <1>4 DEF Outgoing, Incoming
  <2> HIDE DEF s1, s, d
  <2>3. Sends(d, Source, s, StartRetransmission(Source, s, Text, NUM_RELIABLE_RETX),
              IF IsText(Text) THEN NUM_RELIABLE_RETX - 1 ELSE 0)
    BY <1>3, <1>4, <2>1, <2>2, StartSends
  <2>4. QED
    BY <2>3 DEF Sends, TextOK, s1
<1>10. SameCopies(s1.rx, t.rx)
  <2>1. Text \in Outgoing(d, Source)
    BY <1>2, <1>3, <1>4 DEF Outgoing, Incoming
  <2> HIDE DEF t, s1
  <2>2. Sends(d, Source, s1, NextHopSend(Source, s1, Text), 1)
    BY <1>2, <1>3, <1>4, <1>9, <2>1, NextHopSendSends DEF Cost
  <2>3. QED
    BY <1>6, <2>2 DEF Sends
<1> HIDE DEF t, s1, s
<1>11. /\ RouterOK(t) /\ TriesLeft(t) = NUM_RELIABLE_RETX - 1
       /\ \/ /\ Count(t.queue, Floods) = Count(s1.queue, Floods) + 1
             /\ \A h \in Int : Count(t.queue, LiveOut(h)) = Count(s1.queue, LiveOut(h))
          \/ /\ Count(t.queue, Floods) = Count(s1.queue, Floods)
             /\ \A h \in Int : Count(t.queue, LiveOut(h)) = Count(s1.queue, LiveOut(h)) + 1
  BY <1>4, <1>6, <1>8, <1>9, SourceSends
<1>12. ASSUME NEW h \in Int
       PROVE  2 * LiveAt(Source, t, h) + Reserve(t) <= 2 * NUM_RELIABLE_RETX - 1
  <2>1. Count(s1.queue, Floods) = 0 /\ Count(s1.queue, LiveOut(h)) = 0
        /\ Count(s1.rx, LiveIn(Source, h)) = 0
    BY <1>8, CountEmpty
  <2>2. Count(t.rx, LiveIn(Source, h)) = 0
    <3>1. LiveIn(Source, h) \in SUBSET TextCopies
      BY DEF LiveIn, Fresh
    <3>2. QED
      BY <1>9, <1>10, <1>11, <2>1, <3>1, SameRx DEF RouterOK, RouterType
  <2>3. \/ Count(t.queue, Floods) = 1 /\ Count(t.queue, LiveOut(h)) = 0
        \/ Count(t.queue, Floods) = 0 /\ Count(t.queue, LiveOut(h)) = 1
    BY <1>11, <2>1
  <2>4. Reserve(t) = Count(t.queue, Floods) + (2 * (NUM_RELIABLE_RETX - 1) - 1)
    <3>1. TriesLeft(t) >= 1
      BY <1>3, <1>11
    <3>2. QED
      BY <1>11, <3>1 DEF Reserve
  <2>5. LiveAt(Source, t, h) = Count(t.queue, LiveOut(h))
    BY <2>2, <2>3 DEF LiveAt
  <2>6. QED
    BY <1>3, <2>3, <2>4, <2>5
<1>13. \A m \in Nodes \ {Source} :
         /\ node[m].queue = <<>> /\ node[m].rx = <<>>
         /\ node[m].pend = <<>> /\ node[m].hist = <<>>
  BY <1>1 DEF Boot
<1>14. \A h \in Int : 2 * LiveAt(Source, node[Source], h) + Reserve(node[Source])
                        <= 2 * NUM_RELIABLE_RETX - 1
  BY <1>7, <1>12
<1>15. Account(node, [m \in Nodes |-> 0])
  BY <1>3, <1>13, <1>14, AccountStart
<1>16. QED
  BY <1>1, <1>15

LEMMA TransmitEffort ==
  ASSUME EffortInv, NEW n \in Nodes, Transmit(n)
  PROVE  EffortInv'
<1>1. PICK i \in DOMAIN node[n].queue, Deaf \in SUBSET Neighbours[n] :
        /\ node' = [m \in Nodes |->
             IF m = n THEN [node[n] EXCEPT !.queue = DropAt(@, i)]
             ELSE IF m \in Neighbours[n] \ Deaf
             THEN [node[m] EXCEPT !.rx = Append(@, node[n].queue[i])] ELSE node[m]]
        /\ sentBy' = IF Key(node[n].queue[i]) = TextKey
                     THEN [sentBy EXCEPT ![n] = @ + 1] ELSE sentBy
  BY DEF Transmit
<1> DEFINE p == node[n].queue[i]
<1>2. /\ TextInv /\ TextInv' /\ Dest' = Dest /\ sentBy \in [Nodes -> Nat] /\ sentBy' \in [Nodes -> Nat]
      /\ Routers(node) /\ Routers(node')
  BY TransmitText DEF EffortInv, Transmit, Dest, TextInv, NodesInv, Routers
<1>3. SUFFICES ASSUME Dest # Broadcast PROVE Account(node', sentBy')
  BY <1>2 DEF EffortInv
<1>4. Account(node, sentBy)
  BY <1>3 DEF EffortInv
<1>5. \A m \in Nodes : DOMAIN node[m] = Fields
  BY <1>2 DEF Routers, RouterOK
<1>6. Heard(node, node', n, i)
  <2>1. /\ node'[n].queue = DropAt(node[n].queue, i) /\ node'[n].rx = node[n].rx
        /\ node'[n].hist = node[n].hist /\ node'[n].pend = node[n].pend
    BY <1>1, <1>5 DEF Fields
  <2>2. ASSUME NEW m \in Nodes \ {n}
        PROVE  /\ node'[m].queue = node[m].queue /\ node'[m].hist = node[m].hist
               /\ node'[m].pend = node[m].pend
               /\ node'[m].rx = node[m].rx \/ node'[m].rx = Append(node[m].rx, p)
    <3> HIDE DEF p
    <3>1. node'[m] = node[m] \/ node'[m] = [node[m] EXCEPT !.rx = Append(@, p)]
      BY <1>1 DEF p
    <3>2. QED
      BY <1>5, <3>1 DEF Fields
  <2>3. QED
    BY <2>1, <2>2 DEF Heard
<1>7. p \in FullFloods => n = Source
  <2>1. node[n].queue \in Seq(Outgoing(Dest, n)) /\ i \in DOMAIN node[n].queue
    BY <1>2 DEF TextInv, TextOK
  <2>2. p \in Outgoing(Dest, n)
    BY <2>1
  <2>3. HopLimit \in Nat
    BY RoutingAssumption
  <2>4. QED
    BY <2>2, <2>3 DEF Outgoing, FullFloods, Floods, TextCopies
<1>8. sentBy'[n] = sentBy[n] + Cost(p) /\ \A m \in Nodes \ {n} : sentBy'[m] = sentBy[m]
  BY <1>1, <1>2 DEF Cost, IsText
<1> HIDE DEF p
<1>9. p = node[n].queue[i]
  BY DEF p
<1>10. QED
  BY <1>2, <1>4, <1>6, <1>7, <1>8, <1>9, AccountHeard

LEMMA HandleReceivedEffort ==
  ASSUME NUM_INTERMEDIATE_RETX = 2, EffortInv, NEW n \in Nodes, HandleReceived(n)
  PROVE  EffortInv'
<1>1. /\ TextInv /\ TextInv' /\ Dest' = Dest /\ sentBy' = sentBy /\ sentBy \in [Nodes -> Nat]
      /\ Routers(node) /\ Routers(node')
  BY HandleReceivedText DEF EffortInv, HandleReceived, Dest, TextInv, NodesInv, Routers
<1>2. SUFFICES ASSUME Dest # Broadcast PROVE Account(node', sentBy)
  BY <1>1 DEF EffortInv
<1>3. Account(node, sentBy)
  BY <1>2 DEF EffortInv
<1>4. \A m \in Nodes \ {n} : node'[m] = node[m]
  BY <1>1, HandleReceivedMoves DEF TextInv
<1>5. CASE n = Source
  <2>1. Backs(node[Source], node'[Source])
    BY <1>1, <1>5, HandleBacks
  <2>2. QED
    BY <1>1, <1>3, <1>4, <1>5, <2>1, OneSource
<1>6. CASE n # Source
  <2>1. Ready(n, node[n], sentBy[n]) /\ sentBy[n] \in Nat /\ RouterOK(node'[n])
    BY <1>1, <1>3, <1>6 DEF Account, Covered, Routers
  <2>2. n \in Nodes \ {Source}
    BY <1>6
  <2>3. Eases(n, node[n], node'[n], sentBy[n])
    BY <1>1, <1>2, <2>1, <2>2, HandleEases
  <2>4. QED
    BY <1>1, <1>3, <1>4, <2>2, <2>3, OneRelay
<1>7. QED
  BY <1>5, <1>6

LEMMA DoRetransmissionEffort ==
  ASSUME NUM_INTERMEDIATE_RETX = 2, EffortInv, NEW n \in Nodes, NEW k, DoRetransmission(n, k)
  PROVE  EffortInv'
<1>1. /\ TextInv /\ TextInv' /\ Dest' = Dest /\ sentBy' = sentBy /\ sentBy \in [Nodes -> Nat]
      /\ Routers(node) /\ Routers(node')
  BY DoRetransmissionText DEF EffortInv, DoRetransmission, Dest, TextInv, NodesInv, Routers
<1>2. SUFFICES ASSUME Dest # Broadcast PROVE Account(node', sentBy)
  BY <1>1 DEF EffortInv
<1>3. Account(node, sentBy)
  BY <1>2 DEF EffortInv
<1>4. \A m \in Nodes \ {n} : node'[m] = node[m]
  BY <1>1, DoRetransmissionMoves DEF TextInv
<1>5. CASE n = Source
  <2>1. Backs(node[Source], node'[Source])
    BY <1>1, <1>2, <1>5, RetryBacks
  <2>2. QED
    BY <1>1, <1>3, <1>4, <1>5, <2>1, OneSource
<1>6. CASE n # Source
  <2>1. Ready(n, node[n], sentBy[n]) /\ sentBy[n] \in Nat /\ n \in Nodes \ {Source}
    BY <1>1, <1>3, <1>6 DEF Account, Covered
  <2>2. Eases(n, node[n], node'[n], sentBy[n])
    BY <1>1, <1>2, <2>1, RetryEases
  <2>3. QED
    BY <1>1, <1>3, <1>4, <2>1, <2>2, OneRelay
<1>7. QED
  BY <1>5, <1>6

LEMMA RebootEffort ==
  ASSUME EffortInv, NEW n \in Nodes, Reboot(n)
  PROVE  EffortInv'
<1>1. /\ TextInv /\ TextInv' /\ Dest' = Dest /\ sentBy \in [Nodes -> Nat] /\ sentBy' \in [Nodes -> Nat]
      /\ Routers(node) /\ Routers(node') /\ sentBy' = [sentBy EXCEPT ![n] = 0] /\ n # Source
  BY RebootText DEF EffortInv, Reboot, Dest, TextInv, NodesInv, Routers
<1>2. SUFFICES ASSUME Dest # Broadcast PROVE Account(node', sentBy')
  BY <1>1 DEF EffortInv
<1>3. Account(node, sentBy) /\ n \in Nodes \ {Source}
  BY <1>1, <1>2 DEF EffortInv
<1>4. /\ \A m \in Nodes \ {n} : node'[m] = node[m]
      /\ node'[n].queue = <<>> /\ node'[n].rx = <<>> /\ node'[n].pend = <<>> /\ node'[n].hist = <<>>
  BY <1>1, RebootMoves DEF TextInv
<1>5. sentBy'[n] = 0 /\ \A m \in Nodes \ {n} : sentBy'[m] = sentBy[m]
  BY <1>1
<1>6. QED
  BY <1>1, <1>3, <1>4, <1>5, AccountReboot

LEMMA NextEffort ==
  ASSUME NUM_INTERMEDIATE_RETX = 2
  PROVE  EffortInv /\ [Next]_vars => EffortInv'
<1> SUFFICES ASSUME EffortInv, [Next]_vars PROVE EffortInv'
  OBVIOUS
<1>1. CASE UNCHANGED vars
  <2>1. TextInv'
    BY <1>1, NextText DEF EffortInv
  <2>2. QED
    BY <1>1, <2>1 DEF vars, EffortInv, Dest
<1>2. QED
  BY <1>1, TransmitEffort, HandleReceivedEffort, DoRetransmissionEffort, RebootEffort DEF Next

(* With the two tries the firmware gives a relay, a message costs no node    *)
(* more than twice the tries of its sender, whatever is lost, however the    *)
(* copies cross and whoever restarts.                                        *)
THEOREM EffortLimited ==
  ASSUME NUM_INTERMEDIATE_RETX = 2
  PROVE  Spec => []EffortBounded
<1>1. EffortInv => EffortBounded
  <2>1. SUFFICES ASSUME EffortInv
                 PROVE  /\ sentBy[Source] <= NUM_RELIABLE_RETX
                        /\ \A n \in Nodes : sentBy[n] <= 2 * NUM_RELIABLE_RETX
    BY DEF EffortBounded, TriesBounded
  <2>2. /\ TextInv /\ Routers(node) /\ sentBy \in [Nodes -> Nat] /\ Source \in Nodes
        /\ NUM_RELIABLE_RETX \in Nat
    BY <2>1, RoutingAssumption DEF EffortInv, TextInv, NodesInv, Routers
  <2>3. sentBy[Source] <= NUM_RELIABLE_RETX /\ sentBy[Source] \in Nat
    <3>1. Load(node[Source]) \in Nat
      BY <2>2, LoadType DEF Routers
    <3>2. sentBy[Source] + Load(node[Source]) <= NUM_RELIABLE_RETX
      BY <2>2 DEF TextInv
    <3>3. QED
      BY <2>2, <3>1, <3>2
  <2>4. ASSUME NEW n \in Nodes \ {Source} PROVE sentBy[n] <= 2 * NUM_RELIABLE_RETX
    <3>1. CASE Dest = Broadcast
      <4>1. Load(node[n]) \in Nat /\ Count(node[n].rx, DirectCopies) \in Nat
        BY <2>2, LoadType, CountType DEF Routers, RouterOK, RouterType
      <4>2. Budget(node[n], sentBy[n], sentBy[Source])
        BY <2>2, <3>1 DEF TextInv
      <4>3. sentBy[n] <= sentBy[Source] /\ sentBy[n] \in Nat
        BY <2>2, <2>3, <4>1, <4>2 DEF Budget
      <4>4. QED
        BY <2>2, <2>3, <4>3
    <3>2. CASE Dest # Broadcast
      <4>1. Covered(node, n, sentBy[n])
        BY <2>1, <3>2 DEF EffortInv, Account
      <4>2. /\ HighOf(node[n]) \in Int /\ sentBy[n] \in Nat
            /\ Tokens(node, HighOf(node[n])) \in Nat
        BY <2>2, AccountTypes
      <4>3. Reserve(node[Source]) \in Nat
        BY <2>2, AccountTypes
      <4>4. sentBy[n] <= Spent(n, node[n], sentBy[n]) /\ Spent(n, node[n], sentBy[n]) \in Nat
        <5>1. Effort(n, node[n]) \in Nat /\ Count(node[n].rx, FullFloods) \in Nat
          BY <2>2, EffortType, CountType DEF Routers, RouterOK, RouterType
        <5>2. QED
          BY <4>2, <5>1 DEF Spent
      <4>5. QED
        BY <2>2, <4>1, <4>2, <4>3, <4>4 DEF Covered
    <3>3. QED
      BY <3>1, <3>2
  <2>5. QED
    BY <2>2, <2>3, <2>4
<1>2. Spec => []EffortInv
  <2>1. EffortInv /\ [Next]_vars => EffortInv'
    BY NextEffort
  <2>2. QED
    BY InitEffort, <2>1, PTL DEF Spec
<1>3. QED
  BY <1>1, <1>2, PTL

=============================================================================
