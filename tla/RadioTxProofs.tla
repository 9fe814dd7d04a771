----------------------------- MODULE RadioTxProofs -----------------------------
(***************************************************************************)
(* Proofs about RadioTx: the queue holds no packet twice and stays sorted,  *)
(* a waiting packet has a wakeup to come, and the receiver is on whenever   *)
(* nothing is sent.  Every operator of the module maps a state of the       *)
(* interface that satisfies RadioInv to one that does; the actions compose  *)
(* the operators as the methods call each other.                            *)
(***************************************************************************)
EXTENDS RadioTx, SequenceTheorems, FiniteSetTheorems, TLAPS

(* The inductive invariant, as a predicate of the interface's state: the    *)
(* queue has no duplicates, its order is that of Before, and fate says      *)
(* where each packet is.                                                    *)
InQueue(r, p) == \E i \in DOMAIN r.queue : r.queue[i] = p
Distinct(q) == \A i, j \in DOMAIN q : q[i] = q[j] => i = j
InOrder(r) == \A i, j \in DOMAIN r.queue : i < j => ~Before(r, r.queue[j], r.queue[i])
QueueInv(r) == r \in Radios /\ r.wait \subseteq r.late /\ Distinct(r.queue) /\ InOrder(r)

PlacedAt(r, p) ==
  /\ r.fate[p] = "queued" <=> InQueue(r, p)
  /\ r.fate[p] = "sending" <=> r.sending = p

RadioInv(r) == QueueInv(r) /\ \A p \in Packets : PlacedAt(r, p)

-----------------------------------------------------------------------------
(* Sequences.                                                               *)

(* t is a followed by b.                                                    *)
Joined(t, a, b) ==
  /\ Len(t) = Len(a) + Len(b)
  /\ \A j \in 1..Len(a) : t[j] = a[j]
  /\ \A j \in 1..Len(b) : t[Len(a) + j] = b[j]

LEMMA Join ==
  ASSUME NEW S, NEW a \in Seq(S), NEW b \in Seq(S)
  PROVE  a \o b \in Seq(S) /\ Joined(a \o b, a, b)
<1>0. Len(a) \in Nat /\ Len(b) \in Nat
  OBVIOUS
<1>1. /\ a \o b \in Seq(S) /\ Len(a \o b) = Len(a) + Len(b)
      /\ \A i \in 1 .. Len(a) + Len(b) :
           (a \o b)[i] = IF i <= Len(a) THEN a[i] ELSE b[i - Len(a)]
  BY ConcatProperties
<1>2. ASSUME NEW j \in 1..Len(a) PROVE (a \o b)[j] = a[j]
  <2>1. j \in 1..Len(a) + Len(b) /\ j <= Len(a)
    BY <1>0
  <2> QED BY <1>1, <2>1
<1>3. ASSUME NEW j \in 1..Len(b) PROVE (a \o b)[Len(a) + j] = b[j]
  <2>1. /\ Len(a) + j \in 1..Len(a) + Len(b) /\ ~(Len(a) + j <= Len(a))
        /\ Len(a) + j - Len(a) = j
    BY <1>0
  <2>2. (a \o b)[Len(a) + j] = b[Len(a) + j - Len(a)]
    BY <1>1, <2>1
  <2> QED BY <2>2, <2>1
<1> QED BY <1>1, <1>2, <1>3 DEF Joined

(* t is s with e put in at position i.                                      *)
Inserted(t, s, i, e) ==
  /\ Len(t) = Len(s) + 1 /\ t[i] = e
  /\ \A j \in 1..i-1 : t[j] = s[j]
  /\ \A j \in i..Len(s) : t[j+1] = s[j]

LEMMA InsertAtPositions ==
  ASSUME NEW S, NEW s \in Seq(S), NEW e \in S, NEW i \in 1..Len(s)+1
  PROVE  InsertAt(s, i, e) \in Seq(S) /\ Inserted(InsertAt(s, i, e), s, i, e)
<1> DEFINE a == SubSeq(s, 1, i-1)  b == SubSeq(s, i, Len(s))
<1>0. Len(s) \in Nat /\ i \in Nat
  OBVIOUS
<1>1. a \in Seq(S) /\ Len(a) = i - 1 /\ \A j \in 1..i-1 : a[j] = s[j]
  BY <1>0, SubSeqProperties
<1>2. b \in Seq(S) /\ Len(b) = Len(s) - i + 1 /\ \A j \in 1..Len(s)-i+1 : b[j] = s[i+j-1]
  BY <1>0, SubSeqProperties
<1>3. InsertAt(s, i, e) = (a \o <<e>>) \o b
  BY DEF InsertAt
<1> HIDE DEF a, b
<1>4. <<e>> \in Seq(S) /\ Len(<<e>>) = 1 /\ <<e>>[1] = e
  OBVIOUS
<1> DEFINE ae == a \o <<e>>
<1>5. ae \in Seq(S) /\ Len(ae) = i /\ (\A j \in 1..i-1 : ae[j] = s[j]) /\ ae[i] = e
  <2> DEFINE c == <<e>>
  <2>1. c \in Seq(S) /\ Len(c) = 1 /\ c[1] = e /\ ae = a \o c
    BY <1>4
  <2> HIDE DEF c, ae
  <2>2. ae \in Seq(S) /\ Joined(ae, a, c)
    BY <1>1, <2>1, Join
  <2>3. ae[i] = e
    <3>1. 1 \in 1..Len(c) /\ Len(a) + 1 = i
      BY <1>0, <1>1, <2>1
    <3>2. ae[Len(a) + 1] = c[1]
      BY <2>2, <3>1 DEF Joined
    <3>3. QED
      BY <2>1, <3>1, <3>2
  <2>4. QED
    BY <1>0, <1>1, <2>1, <2>2, <2>3 DEF Joined
<1>6. InsertAt(s, i, e) = ae \o b
  BY <1>3 DEF ae
<1> HIDE DEF ae
<1>7. /\ ae \o b \in Seq(S) /\ Len(ae \o b) = Len(ae) + Len(b)
      /\ \A j \in 1..Len(ae) : (ae \o b)[j] = ae[j]
      /\ \A j \in 1..Len(b) : (ae \o b)[Len(ae) + j] = b[j]
  <2>1. ae \o b \in Seq(S) /\ Joined(ae \o b, ae, b)
    BY <1>2, <1>5, Join
  <2>2. QED
    BY <2>1 DEF Joined
<1>8. ASSUME NEW j \in i..Len(s) PROVE (ae \o b)[j+1] = s[j]
  <2>1. j - i + 1 \in 1..Len(b) /\ Len(ae) + (j - i + 1) = j + 1 /\ i + (j - i + 1) - 1 = j
    BY <1>0, <1>2, <1>5
  <2>2. (ae \o b)[j+1] = b[j - i + 1]
    BY <2>1, <1>7
  <2> QED BY <1>2, <2>1, <2>2
<1>9. /\ Len(ae \o b) = Len(s) + 1 /\ (ae \o b)[i] = e
      /\ \A j \in 1..i-1 : (ae \o b)[j] = s[j]
  BY <1>0, <1>2, <1>5, <1>7
<1> QED BY <1>6, <1>7, <1>8, <1>9 DEF Inserted

LEMMA RemoveAtPositions ==
  ASSUME NEW S, NEW s \in Seq(S), NEW i \in 1..Len(s)
  PROVE  /\ RemoveAt(s, i) \in Seq(S) /\ Len(RemoveAt(s, i)) = Len(s) - 1
         /\ \A j \in 1..i-1 : RemoveAt(s, i)[j] = s[j]
         /\ \A j \in i..Len(s)-1 : RemoveAt(s, i)[j] = s[j+1]
<1> DEFINE a == SubSeq(s, 1, i-1)  b == SubSeq(s, i+1, Len(s))
<1>0. Len(s) \in Nat /\ i \in Nat
  OBVIOUS
<1>1. a \in Seq(S) /\ Len(a) = i - 1 /\ \A j \in 1..i-1 : a[j] = s[j]
  BY <1>0, SubSeqProperties
<1>2. b \in Seq(S) /\ Len(b) = Len(s) - i /\ \A j \in 1..Len(s)-i : b[j] = s[i+j]
  BY <1>0, SubSeqProperties
<1>3. RemoveAt(s, i) = a \o b
  BY DEF RemoveAt
<1> HIDE DEF a, b
<1>4. /\ a \o b \in Seq(S) /\ Len(a \o b) = Len(a) + Len(b)
      /\ \A j \in 1..Len(a) : (a \o b)[j] = a[j]
      /\ \A j \in 1..Len(b) : (a \o b)[Len(a) + j] = b[j]
  <2>1. a \in Seq(S) /\ b \in Seq(S)
    BY <1>1, <1>2
  <2>2. a \o b \in Seq(S) /\ Joined(a \o b, a, b)
    BY <2>1, Join
  <2> QED BY <2>2 DEF Joined
<1>5. ASSUME NEW j \in i..Len(s)-1 PROVE (a \o b)[j] = s[j+1]
  <2>1. j - i + 1 \in 1..Len(b) /\ Len(a) + (j - i + 1) = j /\ i + (j - i + 1) = j + 1
    BY <1>0, <1>1, <1>2
  <2>2. (a \o b)[j] = b[j - i + 1]
    BY <2>1, <1>4
  <2> QED BY <1>2, <2>1, <2>2
<1>6. /\ Len(a \o b) = Len(s) - 1 /\ a \o b \in Seq(S)
      /\ \A j \in 1..i-1 : (a \o b)[j] = s[j]
  BY <1>0, <1>1, <1>2, <1>4
<1> QED BY <1>3, <1>5, <1>6

(* What the queue keeps when a packet leaves it, wherever it stood: its     *)
(* positions are those of the old queue, in the old order.                  *)
Thinned(new, old, p) ==
  /\ new \in Seq(Packets) /\ Len(new) + 1 = Len(old)
  /\ \E f \in [DOMAIN new -> DOMAIN old] :
       /\ \A j \in DOMAIN new : new[j] = old[f[j]] /\ old[f[j]] # p
       /\ \A i, j \in DOMAIN new : i < j => f[i] < f[j]
  /\ \A i \in DOMAIN old : old[i] # p => \E j \in DOMAIN new : new[j] = old[i]

LEMMA RemovalThins ==
  ASSUME NEW q \in Seq(Packets), NEW k \in 1..Len(q),
         Distinct(q)
  PROVE  Thinned(RemoveAt(q, k), q, q[k])
<1> DEFINE n == RemoveAt(q, k)
           f == [j \in 1..Len(q)-1 |-> IF j < k THEN j ELSE j + 1]
<1>0. Len(q) \in Nat /\ k \in Nat /\ DOMAIN q = 1..Len(q)
  OBVIOUS
<1>1. /\ n \in Seq(Packets) /\ Len(n) = Len(q) - 1
      /\ \A j \in 1..k-1 : n[j] = q[j]
      /\ \A j \in k..Len(q)-1 : n[j] = q[j+1]
  BY RemoveAtPositions
<1> HIDE DEF n
<1>2. DOMAIN n = 1..Len(q)-1 /\ Len(n) + 1 = Len(q)
  BY <1>0, <1>1
<1>3. f \in [DOMAIN n -> DOMAIN q]
  BY <1>0, <1>2
<1>4. \A j \in DOMAIN n : n[j] = q[f[j]] /\ q[f[j]] # q[k]
  <2> TAKE j \in DOMAIN n
  <2>1. f[j] \in DOMAIN q /\ f[j] # k
    BY <1>0, <1>2
  <2>2. n[j] = q[f[j]]
    BY <1>0, <1>1, <1>2
  <2> HIDE DEF f
  <2> QED BY <2>1, <2>2, <1>0 DEF Distinct
<1>5. \A i, j \in DOMAIN n : i < j => f[i] < f[j]
  BY <1>0, <1>2
<1>6. \A i \in DOMAIN q : q[i] # q[k] => \E j \in DOMAIN n : n[j] = q[i]
  <2> SUFFICES ASSUME NEW i \in DOMAIN q, q[i] # q[k]
               PROVE  \E j \in DOMAIN n : n[j] = q[i]
    OBVIOUS
  <2>1. CASE i < k
    <3>1. i \in DOMAIN n /\ i \in 1..k-1
      BY <1>0, <1>2, <2>1
    <3> QED BY <3>1, <1>1
  <2>2. CASE i > k
    <3>1. i - 1 \in DOMAIN n /\ i - 1 \in k..Len(q)-1 /\ (i - 1) + 1 = i
      BY <1>0, <1>2, <2>2
    <3>2. n[i-1] = q[i]
      BY <3>1, <1>1
    <3> QED BY <3>1, <3>2
  <2>3. i # k
    OBVIOUS
  <2> QED BY <1>0, <2>1, <2>2, <2>3
<1> HIDE DEF f
<1> QED BY <1>1, <1>2, <1>3, <1>4, <1>5, <1>6 DEF Thinned, n

LEMMA TailThins ==
  ASSUME NEW q \in Seq(Packets), q # <<>>,
         Distinct(q)
  PROVE  Thinned(Tail(q), q, Head(q)) /\ Head(q) \in Packets /\ Head(q) = q[1] /\ 1 \in DOMAIN q
<1> DEFINE f == [j \in 1..Len(q)-1 |-> j + 1]
<1>0. Len(q) \in Nat /\ Len(q) >= 1 /\ DOMAIN q = 1..Len(q) /\ Head(q) = q[1]
  OBVIOUS
<1>1. /\ Head(q) \in Packets /\ Tail(q) \in Seq(Packets) /\ Len(Tail(q)) = Len(q) - 1
      /\ \A i \in 1..Len(Tail(q)) : Tail(q)[i] = q[i+1]
  BY HeadTailProperties
<1>2. DOMAIN Tail(q) = 1..Len(q)-1 /\ Len(Tail(q)) + 1 = Len(q)
  BY <1>0, <1>1
<1>3. f \in [DOMAIN Tail(q) -> DOMAIN q]
  BY <1>0, <1>2
<1>4. \A j \in DOMAIN Tail(q) : Tail(q)[j] = q[f[j]] /\ q[f[j]] # Head(q)
  <2> TAKE j \in DOMAIN Tail(q)
  <2>1. f[j] \in DOMAIN q /\ f[j] # 1 /\ 1 \in DOMAIN q
    BY <1>0, <1>2
  <2>2. Tail(q)[j] = q[f[j]]
    BY <1>0, <1>1, <1>2
  <2> HIDE DEF f
  <2> QED BY <2>1, <2>2, <1>0 DEF Distinct
<1>5. \A i, j \in DOMAIN Tail(q) : i < j => f[i] < f[j]
  BY <1>0, <1>2
<1>6. \A i \in DOMAIN q : q[i] # Head(q) => \E j \in DOMAIN Tail(q) : Tail(q)[j] = q[i]
  <2> SUFFICES ASSUME NEW i \in DOMAIN q, q[i] # Head(q)
               PROVE  \E j \in DOMAIN Tail(q) : Tail(q)[j] = q[i]
    OBVIOUS
  <2>1. i - 1 \in DOMAIN Tail(q) /\ (i - 1) + 1 = i
    BY <1>0, <1>2
  <2>2. Tail(q)[i-1] = q[i]
    BY <2>1, <1>1, <1>2
  <2> QED BY <2>1, <2>2
<1> HIDE DEF f
<1> QED BY <1>0, <1>1, <1>2, <1>3, <1>4, <1>5, <1>6 DEF Thinned

-----------------------------------------------------------------------------
(* The order of the queue.                                                  *)

(* Before is a strict weak order, as the comparator of upper_bound must be. *)
LEMMA BeforeAsymmetric ==
  ASSUME NEW r, NEW p \in Packets, NEW q \in Packets, Before(r, p, q)
  PROVE  ~Before(r, q, p)
<1>1. Priority[p] \in Nat /\ Priority[q] \in Nat
  BY RadioAssumption
<1> QED BY <1>1 DEF Before

LEMMA NotBeforeTransitive ==
  ASSUME NEW r, NEW p \in Packets, NEW q \in Packets, NEW s \in Packets,
         ~Before(r, p, q), ~Before(r, q, s)
  PROVE  ~Before(r, p, s)
<1>1. Priority[p] \in Nat /\ Priority[q] \in Nat /\ Priority[s] \in Nat
  BY RadioAssumption
<1> QED BY <1>1 DEF Before

(* In an ordered queue the packets that p does not precede are its first    *)
(* ones, so counting them finds the place of p.                             *)
LEMMA CountingFindsPlace ==
  ASSUME NEW r, QueueInv(r), NEW p \in Packets,
         NEW k, k = Cardinality({i \in DOMAIN r.queue : ~Before(r, p, r.queue[i])})
  PROVE  /\ k \in 0..Len(r.queue)
         /\ \A i \in DOMAIN r.queue : ~Before(r, p, r.queue[i]) <=> i <= k
<1> DEFINE K == {i \in DOMAIN r.queue : ~Before(r, p, r.queue[i])}
<1>0. /\ r.queue \in Seq(Packets) /\ Len(r.queue) \in Nat /\ DOMAIN r.queue = 1..Len(r.queue)
      /\ \A i \in DOMAIN r.queue : r.queue[i] \in Packets
  BY DEF QueueInv, Radios
<1>1. /\ IsFiniteSet(1..Len(r.queue)) /\ Cardinality(1..Len(r.queue)) = Len(r.queue)
  BY <1>0, FS_Interval
<1>2. /\ IsFiniteSet(K) /\ k \in Nat /\ k <= Len(r.queue)
  BY <1>0, <1>1, FS_Subset, FS_CardinalityType
<1>3. ASSUME NEW i \in DOMAIN r.queue, ~Before(r, p, r.queue[i])
      PROVE  i <= k
  <2>1. 1..i \subseteq K
    <3> SUFFICES ASSUME NEW j \in 1..i PROVE j \in DOMAIN r.queue /\ ~Before(r, p, r.queue[j])
      OBVIOUS
    <3>1. j \in DOMAIN r.queue
      BY <1>0
    <3>2. CASE j < i
      <4>1. ~Before(r, r.queue[i], r.queue[j])
        BY <3>1, <3>2 DEF QueueInv, InOrder
      <4> QED BY <4>1, <1>0, <1>3, <3>1, NotBeforeTransitive
    <3>3. CASE j = i
      BY <1>3, <3>3
    <3> QED BY <1>0, <3>1, <3>2, <3>3
  <2>2. Cardinality(1..i) = i
    BY <1>0, FS_Interval
  <2>3. Cardinality(1..i) <= Cardinality(K)
    BY <1>2, <2>1, FS_Subset
  <2> QED BY <2>2, <2>3
<1>4. ASSUME NEW i \in DOMAIN r.queue, Before(r, p, r.queue[i])
      PROVE  ~(i <= k)
  <2>1. K \subseteq 1..i-1
    <3> SUFFICES ASSUME NEW j \in K PROVE j < i
      BY <1>0
    <3>1. j \in DOMAIN r.queue /\ ~Before(r, p, r.queue[j])
      OBVIOUS
    <3>2. CASE i < j
      <4>1. ~Before(r, r.queue[j], r.queue[i])
        BY <3>1, <3>2 DEF QueueInv, InOrder
      <4> QED BY <4>1, <1>0, <1>4, <3>1, NotBeforeTransitive
    <3>3. j # i
      BY <1>4, <3>1
    <3> QED BY <1>0, <3>1, <3>2, <3>3
  <2>2. IsFiniteSet(1..i-1) /\ Cardinality(1..i-1) = i - 1
    <3>1. i - 1 \in Nat /\ i - 1 - 1 + 1 = i - 1 /\ (1 > i - 1 => i - 1 = 0)
      BY <1>0
    <3> QED BY <3>1, FS_Interval
  <2>3. k <= i - 1
    BY <2>1, <2>2, FS_Subset
  <2> QED BY <1>0, <1>2, <2>3
<1> QED BY <1>0, <1>2, <1>3, <1>4

-----------------------------------------------------------------------------
(* What the operations on the queue preserve.                               *)

(* A packet leaves the queue; only its own tx_after may change with it.     *)
LEMMA Thinning ==
  ASSUME NEW r, QueueInv(r), NEW r2, r2 \in Radios, r2.wait \subseteq r2.late,
         NEW v \in Packets, Thinned(r2.queue, r.queue, v),
         \A q \in Packets \ {v} : q \in r2.late <=> q \in r.late
  PROVE  /\ QueueInv(r2) /\ Len(r2.queue) + 1 = Len(r.queue)
         /\ ~InQueue(r2, v)
         /\ \A q \in Packets \ {v} : InQueue(r2, q) <=> InQueue(r, q)
<1> DEFINE n == r2.queue
<1>0. /\ r.queue \in Seq(Packets) /\ n \in Seq(Packets)
      /\ DOMAIN r.queue \subseteq Int /\ DOMAIN n \subseteq Int
      /\ \A i \in DOMAIN r.queue : r.queue[i] \in Packets
      /\ \A i \in DOMAIN n : n[i] \in Packets
  BY DEF QueueInv, Radios
<1>1. PICK f \in [DOMAIN n -> DOMAIN r.queue] :
        /\ \A j \in DOMAIN n : n[j] = r.queue[f[j]] /\ r.queue[f[j]] # v
        /\ \A i, j \in DOMAIN n : i < j => f[i] < f[j]
  BY DEF Thinned
<1>2. Distinct(n)
  <2> SUFFICES ASSUME NEW i \in DOMAIN n, NEW j \in DOMAIN n, n[i] = n[j] PROVE i = j
    BY DEF Distinct
  <2>1. f[i] = f[j] /\ f[i] \in DOMAIN r.queue /\ f[j] \in DOMAIN r.queue
    BY <1>1 DEF QueueInv, Distinct
  <2>2. ~(i < j) /\ ~(j < i)
    BY <1>0, <1>1, <2>1
  <2> QED BY <1>0, <2>2
<1>3. InOrder(r2)
  <2> SUFFICES ASSUME NEW i \in DOMAIN n, NEW j \in DOMAIN n, i < j
               PROVE  ~Before(r2, n[j], n[i])
    BY DEF InOrder
  <2>1. f[i] < f[j] /\ f[i] \in DOMAIN r.queue /\ f[j] \in DOMAIN r.queue
    BY <1>1
  <2>2. ~Before(r, n[j], n[i])
    BY <1>1, <2>1 DEF QueueInv, InOrder
  <2>3. n[i] \in Packets \ {v} /\ n[j] \in Packets \ {v}
    BY <1>0, <1>1
  <2>4. (n[i] \in r2.late <=> n[i] \in r.late) /\ (n[j] \in r2.late <=> n[j] \in r.late)
    BY <2>3
  <2> HIDE DEF n
  <2> QED BY <2>2, <2>4 DEF Before
<1>4. ~InQueue(r2, v)
  BY <1>1 DEF InQueue
<1>5. ASSUME NEW q \in Packets \ {v} PROVE InQueue(r2, q) <=> InQueue(r, q)
  BY <1>1 DEF InQueue, Thinned
<1>6. Len(n) + 1 = Len(r.queue)
  BY DEF Thinned
<1> QED BY <1>2, <1>3, <1>4, <1>5, <1>6 DEF QueueInv

(* Erasing a queued packet thins the queue.                                 *)
LEMMA WithoutThins ==
  ASSUME NEW r, QueueInv(r), NEW p \in Packets, InQueue(r, p)
  PROVE  /\ Without(r, p) = [r EXCEPT !.queue = Without(r, p).queue]
         /\ Without(r, p).queue \in Seq(Packets)
         /\ Thinned(Without(r, p).queue, r.queue, p)
<1> DEFINE k == CHOOSE i \in DOMAIN r.queue : r.queue[i] = p
<1>1. k \in DOMAIN r.queue /\ r.queue[k] = p
  BY DEF InQueue
<1> HIDE DEF k
<1>2. r.queue \in Seq(Packets) /\ Distinct(r.queue) /\ k \in 1..Len(r.queue) /\ r \in Radios
  BY <1>1 DEF QueueInv, Radios
<1>3. Without(r, p) = [r EXCEPT !.queue = RemoveAt(r.queue, k)]
  BY DEF Without, k
<1>4. Without(r, p).queue = RemoveAt(r.queue, k)
  BY <1>2, <1>3 DEF Radios
<1>5. Thinned(RemoveAt(r.queue, k), r.queue, p)
  BY <1>1, <1>2, RemovalThins
<1> QED BY <1>3, <1>4, <1>5 DEF Thinned

(* Insert puts a packet that is not in the queue where the order wants it.  *)
LEMMA Inserting ==
  ASSUME NEW r, QueueInv(r), NEW p \in Packets, ~InQueue(r, p)
  PROVE  /\ QueueInv(Insert(r, p)) /\ Len(Insert(r, p).queue) = Len(r.queue) + 1
         /\ Insert(r, p) = [r EXCEPT !.queue = Insert(r, p).queue, !.fate[p] = "queued"]
         /\ \A q \in Packets : InQueue(Insert(r, p), q) <=> q = p \/ InQueue(r, q)
<1> DEFINE k  == Cardinality({i \in DOMAIN r.queue : ~Before(r, p, r.queue[i])})
           n  == InsertAt(r.queue, 1 + k, p)
           r2 == Insert(r, p)
<1>0. /\ r \in Radios /\ r.queue \in Seq(Packets) /\ Len(r.queue) \in Nat
      /\ DOMAIN r.queue = 1..Len(r.queue) /\ \A i \in DOMAIN r.queue : r.queue[i] \in Packets
  BY DEF QueueInv, Radios
<1>1. /\ k \in 0..Len(r.queue)
      /\ \A i \in DOMAIN r.queue : ~Before(r, p, r.queue[i]) <=> i <= k
  BY CountingFindsPlace
<1>2. r2 = [r EXCEPT !.queue = n, !.fate[p] = "queued"]
  BY DEF Insert
<1> HIDE DEF k, r2
<1>3. /\ n \in Seq(Packets) /\ Len(n) = Len(r.queue) + 1
      /\ \A j \in 1..k : n[j] = r.queue[j]
      /\ n[k + 1] = p
      /\ \A j \in k+1..Len(r.queue) : n[j+1] = r.queue[j]
  <2> DEFINE at == 1 + k
  <2>1. at \in 1..Len(r.queue)+1 /\ at - 1 = k /\ at = k + 1
    BY <1>0, <1>1
  <2> HIDE DEF at
  <2>2. r.queue \in Seq(Packets)
    BY <1>0
  <2>3. InsertAt(r.queue, at, p) \in Seq(Packets)
        /\ Inserted(InsertAt(r.queue, at, p), r.queue, at, p)
    BY <2>1, <2>2, InsertAtPositions
  <2>4. InsertAt(r.queue, at, p) = n
    BY DEF at
  <2> HIDE DEF n
  <2>5. n \in Seq(Packets) /\ Inserted(n, r.queue, k + 1, p)
    BY <2>1, <2>3, <2>4
  <2> QED BY <1>0, <1>1, <2>5 DEF Inserted
<1> HIDE DEF n
<1>4. r2 \in Radios /\ r2.queue = n /\ r2.late = r.late /\ r2.wait = r.wait
  BY <1>0, <1>2, <1>3 DEF Radios, Fates
(* Where a packet of the new queue comes from.                              *)
<1>5. \A i \in DOMAIN n :
        \/ i <= k /\ i \in DOMAIN r.queue /\ n[i] = r.queue[i]
        \/ i = k + 1 /\ n[i] = p
        \/ i > k + 1 /\ i - 1 \in DOMAIN r.queue /\ n[i] = r.queue[i-1]
  <2> SUFFICES ASSUME NEW i \in DOMAIN n
               PROVE  \/ i <= k /\ i \in DOMAIN r.queue /\ n[i] = r.queue[i]
                      \/ i = k + 1 /\ n[i] = p
                      \/ i > k + 1 /\ i - 1 \in DOMAIN r.queue /\ n[i] = r.queue[i-1]
    OBVIOUS
  <2>0. i \in 1..Len(r.queue)+1
    BY <1>3
  <2>1. CASE i <= k
    <3>1. i \in 1..k /\ i \in DOMAIN r.queue
      BY <1>0, <1>1, <2>0, <2>1
    <3> QED BY <1>3, <2>1, <3>1
  <2>2. CASE i > k + 1
    <3>1. i - 1 \in k+1..Len(r.queue) /\ i - 1 \in DOMAIN r.queue /\ (i - 1) + 1 = i
      BY <1>0, <1>1, <2>0, <2>2
    <3>2. n[i] = r.queue[i-1]
      BY <1>3, <3>1
    <3> QED BY <2>2, <3>1, <3>2
  <2>3. CASE i = k + 1
    BY <1>3, <2>3
  <2> QED BY <1>0, <1>1, <2>0, <2>1, <2>2, <2>3
<1>6. DOMAIN n \subseteq Int /\ k \in Int /\ DOMAIN n = 1..Len(r.queue)+1
  BY <1>0, <1>1, <1>3
<1>7. \A i \in DOMAIN r.queue : r.queue[i] # p
  BY DEF InQueue
<1>8. Distinct(n)
  BY <1>0, <1>5, <1>6, <1>7 DEF QueueInv, Distinct
<1>9. InOrder(r2)
  <2> SUFFICES ASSUME NEW i \in DOMAIN n, NEW j \in DOMAIN n, i < j
               PROVE  ~Before(r, n[j], n[i])
    BY <1>4 DEF InOrder, Before
  <2>1. CASE i # k + 1 /\ j # k + 1
    <3>1. PICK a \in DOMAIN r.queue, b \in DOMAIN r.queue :
            n[i] = r.queue[a] /\ n[j] = r.queue[b] /\ a < b
      BY <1>5, <1>6, <2>1
    <3> QED BY <3>1 DEF QueueInv, InOrder
  <2>2. CASE i = k + 1
    <3>1. j > k + 1 /\ j - 1 \in DOMAIN r.queue /\ n[j] = r.queue[j-1] /\ n[i] = p
      BY <1>5, <1>6, <2>2
    <3>2. Before(r, p, r.queue[j-1])
      BY <1>1, <1>6, <3>1
    <3> QED BY <1>0, <3>1, <3>2, BeforeAsymmetric
  <2>3. CASE j = k + 1
    <3>1. i <= k /\ i \in DOMAIN r.queue /\ n[i] = r.queue[i] /\ n[j] = p
      BY <1>5, <1>6, <2>3
    <3> QED BY <1>1, <3>1
  <2> QED BY <2>1, <2>2, <2>3
<1>10. ASSUME NEW q \in Packets PROVE InQueue(r2, q) <=> q = p \/ InQueue(r, q)
  <2>1. ASSUME InQueue(r2, q) PROVE q = p \/ InQueue(r, q)
    BY <1>4, <1>5, <2>1 DEF InQueue
  <2>2. InQueue(r2, p)
    <3>1. k + 1 \in DOMAIN n
      BY <1>0, <1>1, <1>6
    <3> QED BY <1>3, <1>4, <3>1 DEF InQueue
  <2>3. ASSUME InQueue(r, q) PROVE InQueue(r2, q)
    <3>1. PICK i \in DOMAIN r.queue : r.queue[i] = q
      BY <2>3 DEF InQueue
    <3>2. CASE i <= k
      <4>1. i \in 1..k /\ i \in DOMAIN n
        BY <1>0, <1>1, <1>6, <3>2
      <4> QED BY <1>3, <1>4, <3>1, <4>1 DEF InQueue
    <3>3. CASE ~(i <= k)
      <4>1. i \in k+1..Len(r.queue) /\ i + 1 \in DOMAIN n
        BY <1>0, <1>1, <1>6, <3>3
      <4> QED BY <1>3, <1>4, <3>1, <4>1 DEF InQueue
    <3> QED BY <3>2, <3>3
  <2> QED BY <2>1, <2>2, <2>3
<1>11. Len(r2.queue) = Len(r.queue) + 1 /\ r2 = [r EXCEPT !.queue = r2.queue, !.fate[p] = "queued"]
  BY <1>2, <1>3, <1>4
<1>12. QueueInv(r2)
  BY <1>4, <1>8, <1>9 DEF QueueInv
<1> QED BY <1>10, <1>11, <1>12 DEF r2

(* What evicts: a victim waits in the queue.                                *)
LEMMA VictimsWait ==
  ASSUME NEW r, QueueInv(r), NEW p, NEW v \in Victims(r, p), r.queue # <<>>
  PROVE  v \in Packets /\ InQueue(r, v)
<1>1. /\ r.queue \in Seq(Packets) /\ Len(r.queue) \in DOMAIN r.queue
      /\ \A i \in DOMAIN r.queue : r.queue[i] \in Packets
  BY DEF QueueInv, Radios
<1>2. \E i \in DOMAIN r.queue : v = r.queue[i]
  BY <1>1 DEF Victims
<1> QED BY <1>1, <1>2 DEF InQueue

(* enqueue of a packet that is nowhere: it is queued or refused, and the    *)
(* queue stays within its limit.                                            *)
LEMMA Enqueueing ==
  ASSUME NEW r, QueueInv(r), Len(r.queue) <= MAX_TX_QUEUE,
         NEW p \in Packets, ~InQueue(r, p), r.sending # p,
         \A q \in Packets \ {p} : PlacedAt(r, q)
  PROVE  /\ RadioInv(Enqueue(r, p)) /\ Len(Enqueue(r, p).queue) <= MAX_TX_QUEUE
         /\ Enqueue(r, p).sending = r.sending /\ Enqueue(r, p).receiving = r.receiving
         /\ Enqueue(r, p).notif = r.notif /\ Enqueue(r, p).on = r.on
         /\ Enqueue(r, p).queue # <<>>
         /\ Enqueue(r, p).fate[p] # "queued" => Enqueue(r, p).queue = r.queue
<1>0. /\ r \in Radios /\ r.queue \in Seq(Packets) /\ Len(r.queue) \in Nat
      /\ MAX_TX_QUEUE \in Nat \ {0} /\ None \notin Packets
  BY RadioAssumption DEF QueueInv, Radios
(* A free slot.                                                             *)
<1>1. ASSUME NEW s, QueueInv(s), Len(s.queue) < MAX_TX_QUEUE, ~InQueue(s, p), s.sending # p,
             \A q \in Packets \ {p} : PlacedAt(s, q)
      PROVE  /\ RadioInv(Insert(s, p)) /\ Len(Insert(s, p).queue) <= MAX_TX_QUEUE
             /\ Insert(s, p).sending = s.sending /\ Insert(s, p).receiving = s.receiving
             /\ Insert(s, p).notif = s.notif /\ Insert(s, p).on = s.on
             /\ Insert(s, p).queue # <<>> /\ Insert(s, p).fate[p] = "queued"
  <2> DEFINE t == Insert(s, p)
  <2>1. /\ QueueInv(t) /\ Len(t.queue) = Len(s.queue) + 1
        /\ t = [s EXCEPT !.queue = t.queue, !.fate[p] = "queued"]
        /\ \A q \in Packets : InQueue(t, q) <=> q = p \/ InQueue(s, q)
    BY <1>1, Inserting
  <2> HIDE DEF t
  <2>2. s \in Radios /\ s.queue \in Seq(Packets) /\ Len(s.queue) \in Nat
    BY <1>1 DEF QueueInv, Radios
  <2>3. /\ t.sending = s.sending /\ t.receiving = s.receiving /\ t.notif = s.notif
        /\ t.on = s.on /\ t.fate = [s.fate EXCEPT ![p] = "queued"]
    BY <2>1, <2>2 DEF Radios
  <2>4. t.fate[p] = "queued" /\ \A q \in Packets \ {p} : t.fate[q] = s.fate[q]
    BY <2>2, <2>3 DEF Radios
  <2>5. ASSUME NEW q \in Packets PROVE PlacedAt(t, q)
    BY <1>1, <2>1, <2>3, <2>4 DEF PlacedAt
  <2>6. Len(t.queue) <= MAX_TX_QUEUE /\ t.queue # <<>>
    BY <1>0, <1>1, <2>1, <2>2
  <2> QED BY <2>1, <2>3, <2>4, <2>5, <2>6 DEF RadioInv, t
<1>2. CASE Len(r.queue) < MAX_TX_QUEUE
  <2>1. Enqueue(r, p) = Insert(r, p)
    BY <1>2 DEF Enqueue
  <2> QED BY <1>1, <1>2, <2>1
(* Nothing to evict.                                                        *)
<1>3. CASE Len(r.queue) = MAX_TX_QUEUE /\ Victims(r, p) = {}
  <2> DEFINE t == [r EXCEPT !.fate[p] = "refused"]
  <2>1. Enqueue(r, p) = t
    BY <1>0, <1>3 DEF Enqueue
  <2>2. /\ t \in Radios /\ t.queue = r.queue /\ t.late = r.late /\ t.wait = r.wait
        /\ t.sending = r.sending /\ t.receiving = r.receiving /\ t.notif = r.notif
        /\ t.on = r.on
        /\ t.fate[p] = "refused" /\ \A q \in Packets \ {p} : t.fate[q] = r.fate[q]
    BY <1>0 DEF Radios, Fates
  <2> HIDE DEF t
  <2>3. QueueInv(t) /\ \A q \in Packets : InQueue(t, q) <=> InQueue(r, q)
    BY <2>2 DEF QueueInv, InOrder, Before, InQueue
  <2>4. \A q \in Packets : PlacedAt(t, q)
    BY <2>2, <2>3 DEF PlacedAt
  <2>5. r.queue # <<>>
    BY <1>0, <1>3
  <2> QED BY <1>3, <1>0, <2>1, <2>2, <2>3, <2>4, <2>5 DEF RadioInv
(* A victim makes room.                                                     *)
<1>4. CASE Len(r.queue) = MAX_TX_QUEUE /\ Victims(r, p) # {}
  <2> DEFINE v == CHOOSE w \in Victims(r, p) : TRUE
             s == [Without(r, v) EXCEPT !.fate[v] = "evicted", !.late = @ \ {v}, !.wait = @ \ {v}]
  <2>1. Enqueue(r, p) = Insert(s, p)
    BY <1>0, <1>4 DEF Enqueue
  <2>2. v \in Victims(r, p) /\ r.queue # <<>>
    BY <1>0, <1>4
  <2> HIDE DEF v
  <2>3. v \in Packets /\ InQueue(r, v) /\ v # p
    BY <2>2, VictimsWait
  <2>4. /\ Without(r, v) = [r EXCEPT !.queue = Without(r, v).queue]
        /\ Without(r, v).queue \in Seq(Packets)
        /\ Thinned(Without(r, v).queue, r.queue, v)
    BY <2>3, WithoutThins
  <2>5. /\ s \in Radios /\ s.queue = Without(r, v).queue /\ s.late = r.late \ {v}
        /\ s.wait = r.wait \ {v} /\ s.sending = r.sending /\ s.receiving = r.receiving
        /\ s.notif = r.notif /\ s.on = r.on
        /\ s.fate[v] = "evicted" /\ \A q \in Packets \ {v} : s.fate[q] = r.fate[q]
    BY <1>0, <2>3, <2>4 DEF Radios, Fates
  <2> HIDE DEF s
  <2>6. s.wait \subseteq s.late
    BY <2>5 DEF QueueInv
  <2>7. /\ QueueInv(s) /\ Len(s.queue) + 1 = Len(r.queue) /\ ~InQueue(s, v)
        /\ \A q \in Packets \ {v} : InQueue(s, q) <=> InQueue(r, q)
    BY <2>3, <2>4, <2>5, <2>6, Thinning
  <2>8. PlacedAt(r, v) /\ r.fate[v] = "queued"
    BY <2>3 DEF PlacedAt
  <2>9. \A q \in Packets \ {p} : PlacedAt(s, q)
    BY <2>5, <2>7, <2>8 DEF PlacedAt
  <2>10. Len(s.queue) < MAX_TX_QUEUE /\ ~InQueue(s, p) /\ s.sending # p
    <3>1. s.queue \in Seq(Packets) /\ Len(s.queue) \in Nat
      BY <2>7 DEF QueueInv, Radios
    <3> QED BY <1>0, <1>4, <2>3, <2>5, <2>7, <3>1
  <2> QED BY <1>1, <2>1, <2>5, <2>7, <2>9, <2>10
<1> QED BY <1>0, <1>2, <1>3, <1>4

(* A packet that has left the queue for good and is not being sent.         *)
LEMMA Released ==
  ASSUME NEW r, RadioInv(r), NEW p \in Packets, r.fate[p] = "queued",
         NEW r2, r2 \in Radios, Thinned(r2.queue, r.queue, p),
         r2.late = r.late \ {p}, r2.wait = r.wait \ {p}, r2.sending = r.sending,
         r2.fate[p] \notin {"queued", "sending"},
         \A q \in Packets \ {p} : r2.fate[q] = r.fate[q]
  PROVE  RadioInv(r2) /\ Len(r2.queue) + 1 = Len(r.queue)
<1>1. r2.wait \subseteq r2.late /\ \A q \in Packets \ {p} : q \in r2.late <=> q \in r.late
  BY DEF RadioInv, QueueInv
<1>2. QueueInv(r)
  BY DEF RadioInv
<1>3. /\ QueueInv(r2) /\ Len(r2.queue) + 1 = Len(r.queue) /\ ~InQueue(r2, p)
      /\ \A q \in Packets \ {p} : InQueue(r2, q) <=> InQueue(r, q)
  BY <1>1, <1>2, Thinning
<1>4. \A q \in Packets : PlacedAt(r2, q)
  BY <1>3 DEF PlacedAt, RadioInv
<1> QED BY <1>3, <1>4 DEF RadioInv

-----------------------------------------------------------------------------
(* What the handlers of the radio thread preserve.                          *)

(* Whatever leaves the queue, its labels and the packet on the air alone.   *)
LEMMA Untouched ==
  ASSUME NEW r, RadioInv(r), NEW r2, r2 \in Radios, r2.queue = r.queue, r2.late = r.late,
         r2.wait \subseteq r2.late, r2.sending = r.sending, r2.fate = r.fate
  PROVE  RadioInv(r2)
BY DEF RadioInv, QueueInv, InOrder, Before, PlacedAt, InQueue

(* A wakeup is to come if packets wait; the receiver is on if none is sent. *)
Woken(r) == r.queue # <<>> => r.notif # "none" \/ r.sending # None
Hearing(r) == r.sending = None => r.receiving

LEMMA NotifyLaterKeeps ==
  ASSUME NEW r, RadioInv(r)
  PROVE  /\ RadioInv(NotifyLater(r)) /\ NotifyLater(r).queue = r.queue
         /\ NotifyLater(r).on = r.on /\ NotifyLater(r).sending = r.sending
         /\ NotifyLater(r).receiving = r.receiving /\ NotifyLater(r).notif # "none"
<1> DEFINE t == NotifyLater(r)
<1>0. r \in Radios /\ r.wait \subseteq r.late
  BY DEF RadioInv, QueueInv
<1>1. /\ t \in Radios /\ t.queue = r.queue /\ t.late = r.late /\ t.wait = r.wait
      /\ t.sending = r.sending /\ t.fate = r.fate /\ t.on = r.on /\ t.notif # "none"
      /\ t.receiving = r.receiving
  BY <1>0 DEF NotifyLater, Radios
<1> HIDE DEF t
<1>2. RadioInv(t)
  BY <1>0, <1>1, Untouched
<1> QED BY <1>1, <1>2 DEF t

LEMMA SetTransmitDelayKeeps ==
  ASSUME NEW r, RadioInv(r)
  PROVE  /\ RadioInv(SetTransmitDelay(r)) /\ SetTransmitDelay(r).queue = r.queue
         /\ SetTransmitDelay(r).on = r.on /\ SetTransmitDelay(r).sending = r.sending
         /\ SetTransmitDelay(r).receiving = r.receiving /\ Woken(SetTransmitDelay(r))
<1>0. r \in Radios /\ r.wait \subseteq r.late
  BY DEF RadioInv, QueueInv
<1>1. CASE r.queue = <<>>
  <2>1. SetTransmitDelay(r) = r
    BY <1>1 DEF SetTransmitDelay
  <2> QED BY <1>1, <2>1 DEF Woken
<1>2. CASE r.queue # <<>>
  <2> DEFINE s == [r EXCEPT !.wait = IF Head(r.queue) \in r.late
                                     THEN @ \cup {Head(r.queue)} ELSE @]
  <2>1. SetTransmitDelay(r) = NotifyLater(s)
    BY <1>2 DEF SetTransmitDelay
  <2>2. /\ s \in Radios /\ s.queue = r.queue /\ s.late = r.late /\ s.wait \subseteq s.late
        /\ s.sending = r.sending /\ s.fate = r.fate /\ s.on = r.on
        /\ s.receiving = r.receiving
    BY <1>0 DEF Radios
  <2> HIDE DEF s
  <2>3. RadioInv(s)
    BY <2>2, Untouched
  <2> QED BY <2>1, <2>2, <2>3, NotifyLaterKeeps DEF Woken
<1> QED BY <1>1, <1>2

(* The packet on the air is released, and no queued one with it.            *)
LEMMA CompleteSendingKeeps ==
  ASSUME NEW r, RadioInv(r)
  PROVE  /\ RadioInv(CompleteSending(r)) /\ CompleteSending(r).queue = r.queue
         /\ CompleteSending(r).on = r.on /\ CompleteSending(r).sending = None
         /\ CompleteSending(r).notif = r.notif
<1>0. r \in Radios /\ r.wait \subseteq r.late /\ None \notin Packets
  BY RadioAssumption DEF RadioInv, QueueInv
<1>1. CASE r.sending = None
  BY <1>1 DEF CompleteSending
<1>2. CASE r.sending # None
  <2> DEFINE t == CompleteSending(r)
             s == r.sending
  <2>1. s \in Packets
    BY <1>0, <1>2 DEF Radios
  <2>2. PICK o \in {"sent", "cut", "failed"} : t = [r EXCEPT !.sending = None, !.fate[s] = o]
    BY <1>2 DEF CompleteSending
  <2> HIDE DEF t, s
  <2>3. /\ t \in Radios /\ t.queue = r.queue /\ t.late = r.late /\ t.wait = r.wait
        /\ t.sending = None /\ t.on = r.on /\ t.notif = r.notif
        /\ t.fate[s] \in {"sent", "cut", "failed"}
        /\ \A q \in Packets \ {s} : t.fate[q] = r.fate[q]
    <3>1. r.fate \in [Packets -> Fates]
      BY <1>0 DEF Radios
    <3>2. /\ t \in Radios /\ t.queue = r.queue /\ t.late = r.late /\ t.wait = r.wait
          /\ t.sending = None /\ t.on = r.on /\ t.notif = r.notif
          /\ t.fate = [r.fate EXCEPT ![s] = o]
      BY <1>0, <2>1, <2>2 DEF Radios, Fates
    <3> QED BY <2>1, <3>1, <3>2
  <2>4. QueueInv(t) /\ \A q \in Packets : InQueue(t, q) <=> InQueue(r, q)
    BY <2>3 DEF RadioInv, QueueInv, InOrder, Before, InQueue
  <2>5. r.fate[s] = "sending"
    BY <2>1 DEF RadioInv, PlacedAt, s
  <2>6. ~InQueue(r, s)
    BY <2>1, <2>5 DEF RadioInv, PlacedAt
  <2>7. \A q \in Packets : PlacedAt(t, q)
    <3> SUFFICES ASSUME NEW q \in Packets PROVE PlacedAt(t, q)
      OBVIOUS
    <3>1. CASE q = s
      BY <1>0, <2>3, <2>4, <2>6, <3>1 DEF PlacedAt
    <3>2. CASE q # s
      <4>1. PlacedAt(r, q) /\ r.sending # q /\ t.fate[q] = r.fate[q] /\ t.sending # q
        BY <1>0, <2>3, <3>2 DEF RadioInv, s
      <4> QED BY <2>4, <4>1 DEF PlacedAt
    <3> QED BY <3>1, <3>2
  <2> QED BY <2>3, <2>4, <2>7 DEF RadioInv, t
<1> QED BY <1>1, <1>2

LEMMA StandbyKeeps ==
  ASSUME NEW r, RadioInv(r)
  PROVE  /\ RadioInv(Standby(r)) /\ Standby(r).queue = r.queue
         /\ Standby(r).on = r.on /\ Standby(r).sending = None /\ Standby(r).notif = r.notif
<1> DEFINE s == CompleteSending(r)
           t == Standby(r)
<1>1. /\ RadioInv(s) /\ s.queue = r.queue /\ s.on = r.on /\ s.sending = None
      /\ s.notif = r.notif
  BY CompleteSendingKeeps
<1>2. t = [s EXCEPT !.receiving = FALSE, !.irq = "none", !.chip = "standby"]
  BY DEF Standby
<1> HIDE DEF s, t
<1>3. s \in Radios /\ s.wait \subseteq s.late
  BY <1>1 DEF RadioInv, QueueInv
<1>4. /\ t \in Radios /\ t.queue = s.queue /\ t.late = s.late /\ t.wait = s.wait
      /\ t.sending = s.sending /\ t.fate = s.fate /\ t.on = s.on /\ t.notif = s.notif
  BY <1>2, <1>3 DEF Radios
<1>5. RadioInv(t)
  BY <1>1, <1>3, <1>4, Untouched
<1> QED BY <1>1, <1>4, <1>5 DEF t

LEMMA ListenKeeps ==
  ASSUME NEW r, RadioInv(r)
  PROVE  /\ RadioInv(Listen(r)) /\ Listen(r).queue = r.queue
         /\ Listen(r).on = r.on /\ Listen(r).sending = None /\ Listen(r).notif = r.notif
         /\ Listen(r).receiving
<1> DEFINE s == Standby(r)
           t == Listen(r)
<1>1. /\ RadioInv(s) /\ s.queue = r.queue /\ s.on = r.on /\ s.sending = None
      /\ s.notif = r.notif
  BY StandbyKeeps
<1>2. t = [s EXCEPT !.receiving = TRUE, !.irq = "rx", !.chip = "rx"]
  BY DEF Listen
<1> HIDE DEF s, t
<1>3. s \in Radios /\ s.wait \subseteq s.late
  BY <1>1 DEF RadioInv, QueueInv
<1>4. /\ t \in Radios /\ t.queue = s.queue /\ t.late = s.late /\ t.wait = s.wait
      /\ t.sending = s.sending /\ t.fate = s.fate /\ t.on = s.on /\ t.notif = s.notif
      /\ t.receiving
  BY <1>2, <1>3 DEF Radios
<1>5. RadioInv(t)
  BY <1>1, <1>3, <1>4, Untouched
<1> QED BY <1>1, <1>4, <1>5 DEF t

(* The next packet leaves the queue for the air, or is given up.            *)
LEMMA StartSendKeeps ==
  ASSUME NEW r, RadioInv(r), r.queue # <<>>, r.sending = None, NEW ok \in BOOLEAN
  PROVE  /\ RadioInv(StartSend(r, ok)) /\ Len(StartSend(r, ok).queue) <= Len(r.queue)
         /\ StartSend(r, ok).on = r.on
         /\ r.on /\ ok => StartSend(r, ok).sending # None
         /\ r.on => Hearing(StartSend(r, ok))
<1> DEFINE p  == Head(r.queue)
           r1 == [r EXCEPT !.queue = Tail(@), !.late = @ \ {p}, !.wait = @ \ {p}]
           r2 == [r1 EXCEPT !.sending = p, !.fate[p] = "sending"]
<1>0. /\ QueueInv(r) /\ r \in Radios /\ r.queue \in Seq(Packets) /\ Distinct(r.queue)
      /\ r.wait \subseteq r.late
  BY DEF RadioInv, QueueInv, Radios
<1>1. /\ Thinned(Tail(r.queue), r.queue, p) /\ p \in Packets
      /\ p = r.queue[1] /\ 1 \in DOMAIN r.queue
  BY <1>0, TailThins
<1>2. r.fate[p] = "queued" /\ p # None
  BY <1>1, RadioAssumption DEF RadioInv, PlacedAt, InQueue
<1>3. Tail(r.queue) \in Seq(Packets) /\ Len(Tail(r.queue)) <= Len(r.queue)
  BY <1>0, <1>1 DEF Thinned
<1> HIDE DEF p
<1>4. CASE ~r.on
  <2> DEFINE t == [r1 EXCEPT !.fate[p] = "disabled"]
  <2>1. StartSend(r, ok) = t
    BY <1>4 DEF StartSend, p
  <2>2. /\ t \in Radios /\ t.queue = Tail(r.queue) /\ t.late = r.late \ {p}
        /\ t.wait = r.wait \ {p} /\ t.sending = r.sending /\ t.on = r.on
        /\ t.fate[p] \notin {"queued", "sending"}
        /\ \A q \in Packets \ {p} : t.fate[q] = r.fate[q]
    BY <1>0, <1>1, <1>3 DEF Radios, Fates
  <2> HIDE DEF t
  <2>3. RadioInv(t)
    BY <1>1, <1>2, <2>2, Released
  <2> QED BY <1>3, <1>4, <2>1, <2>2, <2>3
<1>5. /\ r2 \in Radios /\ r2.queue = Tail(r.queue) /\ r2.late = r.late \ {p}
      /\ r2.wait = r.wait \ {p} /\ r2.sending = p /\ r2.on = r.on /\ r2.fate[p] = "sending"
      /\ \A q \in Packets \ {p} : r2.fate[q] = r.fate[q]
  BY <1>0, <1>1, <1>3 DEF Radios, Fates
<1>6. RadioInv(r2)
  <2> HIDE DEF r2
  <2>1. /\ r2.wait \subseteq r2.late
        /\ \A q \in Packets \ {p} : q \in r2.late <=> q \in r.late
    BY <1>0, <1>5
  <2>2. Thinned(r2.queue, r.queue, p)
    BY <1>1, <1>5
  <2>3. /\ QueueInv(r2) /\ ~InQueue(r2, p)
        /\ \A q \in Packets \ {p} : InQueue(r2, q) <=> InQueue(r, q)
    BY <1>0, <1>1, <1>5, <2>1, <2>2, Thinning
  <2>4. ASSUME NEW q \in Packets PROVE PlacedAt(r2, q)
    <3>1. CASE q = p
      BY <1>5, <2>3, <3>1 DEF PlacedAt
    <3>2. CASE q # p
      <4>1. PlacedAt(r, q) /\ r.sending # q /\ r2.fate[q] = r.fate[q] /\ r2.sending # q
        BY <1>5, <3>2, RadioAssumption DEF RadioInv
      <4> QED BY <2>3, <3>2, <4>1 DEF PlacedAt
    <3> QED BY <3>1, <3>2
  <2> QED BY <2>3, <2>4 DEF RadioInv
<1>7. CASE r.on /\ ok
  <2> DEFINE t == [r2 EXCEPT !.chip = "tx", !.irq = "tx"]
  <2>1. StartSend(r, ok) = t
    BY <1>7 DEF StartSend, p
  <2> HIDE DEF r2
  <2>2. /\ t \in Radios /\ t.queue = r2.queue /\ t.late = r2.late /\ t.wait = r2.wait
        /\ t.sending = r2.sending /\ t.fate = r2.fate /\ t.on = r2.on
    BY <1>5 DEF Radios
  <2> HIDE DEF t
  <2>3. t.wait \subseteq t.late
    BY <1>6, <2>2 DEF RadioInv, QueueInv
  <2>4. RadioInv(t)
    BY <1>6, <2>2, <2>3, Untouched
  <2> QED BY <1>2, <1>3, <1>5, <2>1, <2>2, <2>4 DEF Hearing
<1>8. CASE r.on /\ ~ok
  <2>1. StartSend(r, ok) = Listen(CompleteSending(r2))
    BY <1>8 DEF StartSend, p
  <2> HIDE DEF r2
  <2> DEFINE u == CompleteSending(r2)
  <2>2. RadioInv(u) /\ u.queue = r2.queue /\ u.on = r2.on
    BY <1>6, CompleteSendingKeeps
  <2> HIDE DEF u
  <2>3. RadioInv(Listen(u)) /\ Listen(u).queue = u.queue /\ Listen(u).on = u.on
        /\ Listen(u).receiving
    BY <2>2, ListenKeeps
  <2>4. StartSend(r, ok) = Listen(u)
    BY <2>1 DEF u
  <2> QED BY <1>3, <1>5, <1>8, <2>2, <2>3, <2>4 DEF Hearing
<1> QED BY <1>4, <1>7, <1>8, <1>0 DEF Radios

(* What a handler may change: everything RadioInv speaks of stays true, the *)
(* queue only shrinks, and no wakeup and no receiver is lost on the way     *)
(* while transmission is enabled and starting one succeeds.                 *)
Handled(t, r, ok) ==
  /\ RadioInv(t) /\ Len(t.queue) <= Len(r.queue) /\ t.on = r.on
  /\ r.on /\ ok /\ Woken(r) => Woken(t)
  /\ r.on /\ Hearing(r) => Hearing(t)

(* TRANSMIT_DELAY_COMPLETED.                                                *)
LEMMA DelayCompletedHandled ==
  ASSUME NEW r, RadioInv(r), NEW active \in BOOLEAN, NEW ok \in BOOLEAN
  PROVE  /\ RadioInv(DelayCompleted(r, active, ok))
         /\ Len(DelayCompleted(r, active, ok).queue) <= Len(r.queue)
         /\ DelayCompleted(r, active, ok).on = r.on
         /\ r.on /\ ok => Woken(DelayCompleted(r, active, ok))
         /\ r.on /\ Hearing(r) => Hearing(DelayCompleted(r, active, ok))
<1> DEFINE t == DelayCompleted(r, active, ok)
<1>0. Len(r.queue) \in Nat /\ r \in Radios
  BY DEF RadioInv, QueueInv, Radios
<1>1. CASE r.queue = <<>>
  <2>1. t = r
    BY <1>1 DEF DelayCompleted
  <2> QED BY <1>0, <1>1, <2>1 DEF Woken
<1>2. CASE r.queue # <<>> /\ ~CanSendImmediately(r)
  <2>1. t = SetTransmitDelay(r)
    BY <1>2 DEF DelayCompleted
  <2> QED BY <1>0, <2>1, SetTransmitDelayKeeps DEF Hearing
<1>3. CASE r.queue # <<>> /\ CanSendImmediately(r) /\ Head(r.queue) \in r.wait
  <2>1. t = NotifyLater(r)
    BY <1>3 DEF DelayCompleted
  <2> QED BY <1>0, <2>1, NotifyLaterKeeps DEF Hearing, Woken
<1>4. CASE r.queue # <<>> /\ CanSendImmediately(r) /\ Head(r.queue) \notin r.wait /\ active
  <2> DEFINE s == Listen(r)
  <2>1. t = SetTransmitDelay(s)
    BY <1>4 DEF DelayCompleted
  <2>2. RadioInv(s) /\ s.queue = r.queue /\ s.on = r.on /\ s.receiving
    BY ListenKeeps
  <2> HIDE DEF s
  <2>3. /\ RadioInv(SetTransmitDelay(s)) /\ SetTransmitDelay(s).queue = s.queue
        /\ SetTransmitDelay(s).on = s.on /\ SetTransmitDelay(s).receiving = s.receiving
        /\ Woken(SetTransmitDelay(s))
    BY <2>2, SetTransmitDelayKeeps
  <2> QED BY <1>0, <2>1, <2>2, <2>3 DEF Hearing
<1>5. CASE r.queue # <<>> /\ CanSendImmediately(r) /\ Head(r.queue) \notin r.wait /\ ~active
  <2> DEFINE s == Standby(r)
  <2>1. t = StartSend(s, ok)
    BY <1>5 DEF DelayCompleted
  <2>2. RadioInv(s) /\ s.queue = r.queue /\ s.on = r.on /\ s.sending = None
    BY StandbyKeeps
  <2> HIDE DEF s
  <2>3. /\ RadioInv(StartSend(s, ok)) /\ Len(StartSend(s, ok).queue) <= Len(s.queue)
        /\ StartSend(s, ok).on = s.on
        /\ s.on /\ ok => StartSend(s, ok).sending # None
        /\ s.on => Hearing(StartSend(s, ok))
    BY <1>5, <2>2, StartSendKeeps
  <2> QED BY <2>1, <2>2, <2>3 DEF Woken
<1> QED BY <1>1, <1>2, <1>3, <1>4, <1>5

(* checkNotification.                                                       *)
LEMMA CheckNotificationHandled ==
  ASSUME NEW r, RadioInv(r), NEW active \in BOOLEAN, NEW ok \in BOOLEAN
  PROVE  Handled(CheckNotification(r, active, ok), r, ok)
<1> DEFINE t  == CheckNotification(r, active, ok)
           r1 == [r EXCEPT !.notif = "none"]
           r3 == [r1 EXCEPT !.receiving = FALSE]
<1>0. Len(r.queue) \in Nat /\ r \in Radios /\ r.wait \subseteq r.late
  BY DEF RadioInv, QueueInv, Radios
<1>1. /\ r1 \in Radios /\ r1.queue = r.queue /\ r1.late = r.late /\ r1.wait = r.wait
      /\ r1.sending = r.sending /\ r1.fate = r.fate /\ r1.on = r.on
      /\ r1.receiving = r.receiving
  BY <1>0 DEF Radios
<1>2. /\ r3 \in Radios /\ r3.queue = r.queue /\ r3.late = r.late /\ r3.wait = r.wait
      /\ r3.sending = r.sending /\ r3.fate = r.fate /\ r3.on = r.on
  BY <1>0 DEF Radios
<1>3. CASE r.notif = "none"
  <2>1. t = r
    BY <1>3 DEF CheckNotification
  <2> QED BY <1>0, <2>1 DEF Handled
<1>4. CASE r.notif = "delay"
  <2>1. t = DelayCompleted(r1, active, ok)
    BY <1>4 DEF CheckNotification
  <2> HIDE DEF r1
  <2>2. RadioInv(r1)
    BY <1>0, <1>1, Untouched
  <2>3. /\ RadioInv(DelayCompleted(r1, active, ok))
        /\ Len(DelayCompleted(r1, active, ok).queue) <= Len(r1.queue)
        /\ DelayCompleted(r1, active, ok).on = r1.on
        /\ r1.on /\ ok => Woken(DelayCompleted(r1, active, ok))
        /\ r1.on /\ Hearing(r1) => Hearing(DelayCompleted(r1, active, ok))
    BY <2>2, DelayCompletedHandled
  <2>4. Hearing(r) => Hearing(r1)
    BY <1>1 DEF Hearing
  <2> QED BY <1>1, <2>1, <2>3, <2>4 DEF Handled
<1>5. CASE r.notif = "tx"
  <2> DEFINE a == CompleteSending(r1)
             b == Listen(a)
  <2>1. t = SetTransmitDelay(b)
    BY <1>5 DEF CheckNotification
  <2> HIDE DEF r1
  <2>2. RadioInv(r1)
    BY <1>0, <1>1, Untouched
  <2>3. RadioInv(a) /\ a.queue = r1.queue /\ a.on = r1.on
    BY <2>2, CompleteSendingKeeps
  <2> HIDE DEF a
  <2>4. RadioInv(b) /\ b.queue = a.queue /\ b.on = a.on /\ b.receiving
    BY <2>3, ListenKeeps
  <2> HIDE DEF b
  <2>5. /\ RadioInv(SetTransmitDelay(b)) /\ SetTransmitDelay(b).queue = b.queue
        /\ SetTransmitDelay(b).on = b.on /\ SetTransmitDelay(b).receiving = b.receiving
        /\ Woken(SetTransmitDelay(b))
    BY <2>4, SetTransmitDelayKeeps
  <2> QED BY <1>0, <1>1, <2>1, <2>3, <2>4, <2>5 DEF Handled, Hearing
<1>6. CASE r.notif = "rx"
  <2> DEFINE b == Listen(r3)
  <2>1. t = SetTransmitDelay(b)
    BY <1>6 DEF CheckNotification
  <2> HIDE DEF r3
  <2>2. RadioInv(r3)
    BY <1>0, <1>2, Untouched
  <2>3. RadioInv(b) /\ b.queue = r3.queue /\ b.on = r3.on /\ b.receiving
    BY <2>2, ListenKeeps
  <2> HIDE DEF b
  <2>4. /\ RadioInv(SetTransmitDelay(b)) /\ SetTransmitDelay(b).queue = b.queue
        /\ SetTransmitDelay(b).on = b.on /\ SetTransmitDelay(b).receiving = b.receiving
        /\ Woken(SetTransmitDelay(b))
    BY <2>3, SetTransmitDelayKeeps
  <2> QED BY <1>0, <1>2, <2>1, <2>3, <2>4 DEF Handled, Hearing
<1>7. r.notif \in {"none", "delay", "rx", "tx"}
  BY <1>0 DEF Radios
<1> QED BY <1>3, <1>4, <1>5, <1>6, <1>7

-----------------------------------------------------------------------------
(* The inductive invariant.  Until the first upkeep the radio transmits, so *)
(* a wakeup is always followed by a transmission or by another wakeup.      *)
Counters == failures \in Nat /\ missed \in Nat /\ busies \in Nat /\ upkeep \in Nat

IInv ==
  /\ RadioInv(radio) /\ Len(radio.queue) <= MAX_TX_QUEUE
  /\ mode \in {"up", "asleep", "panic", "reboot"} /\ Counters
  /\ upkeep = 0 => radio.on /\ Hearing(radio)
  /\ upkeep = 0 /\ failures = 0 => Woken(radio)

LEMMA InitIInv == Init => IInv
<1> SUFFICES ASSUME Init PROVE IInv
  OBVIOUS
<1>1. /\ radio.queue = <<>> /\ radio.late = {} /\ radio.wait = {} /\ radio.sending = None
      /\ radio.receiving /\ radio.on /\ radio.fate = [p \in Packets |-> "new"]
  BY DEF Init
<1>2. radio \in Radios
  BY DEF Init, Radios, Fates
<1>3. Len(radio.queue) = 0 /\ DOMAIN radio.queue = {}
  BY <1>1
<1>4. QueueInv(radio)
  BY <1>1, <1>2, <1>3 DEF QueueInv, Distinct, InOrder
<1>5. \A p \in Packets : PlacedAt(radio, p)
  BY <1>1, <1>3, RadioAssumption DEF PlacedAt, InQueue
<1>6. RadioInv(radio) /\ Len(radio.queue) <= MAX_TX_QUEUE
  BY <1>3, <1>4, <1>5, RadioAssumption DEF RadioInv
<1>7. Counters /\ mode = "up"
  BY DEF Init, Counters
<1>8. Hearing(radio) /\ Woken(radio)
  BY <1>1 DEF Hearing, Woken
<1> QED BY <1>1, <1>6, <1>7, <1>8 DEF IInv

(* An action that leaves the queue, its labels and the packet on the air    *)
(* alone, and neither takes a wakeup away nor turns the receiver off.       *)
LEMMA ChipStep ==
  ASSUME IInv, radio' \in Radios, radio'.queue = radio.queue, radio'.late = radio.late,
         radio'.wait \subseteq radio.wait, radio'.sending = radio.sending,
         radio'.fate = radio.fate, radio'.on = radio.on, radio'.receiving = radio.receiving,
         radio.notif # "none" => radio'.notif # "none",
         Counters', UNCHANGED <<mode, failures, upkeep>>
  PROVE  IInv'
<1>1. radio'.wait \subseteq radio'.late /\ RadioInv(radio)
  BY DEF IInv, RadioInv, QueueInv
<1>2. RadioInv(radio')
  BY <1>1, Untouched
<1> QED BY <1>2 DEF IInv, Hearing, Woken

(* A packet of the router is queued, refused or not sent at all.            *)
LEMMA SendStep ==
  ASSUME IInv, NEW p \in Packets, Send(p)
  PROVE  IInv'
<1>0. /\ RadioInv(radio) /\ QueueInv(radio) /\ radio \in Radios /\ radio.wait \subseteq radio.late
      /\ radio.fate[p] = "new" /\ radio.fate \in [Packets -> Fates]
  BY DEF IInv, RadioInv, QueueInv, Send, Radios
<1>1. ~InQueue(radio, p) /\ radio.sending # p
  BY <1>0 DEF RadioInv, PlacedAt
<1>2. CASE ~radio.on
  <2>1. radio' = [radio EXCEPT !.fate[p] = "disabled"]
    BY <1>2 DEF Send
  <2>2. /\ radio' \in Radios /\ radio'.queue = radio.queue /\ radio'.late = radio.late
        /\ radio'.wait = radio.wait /\ radio'.sending = radio.sending /\ radio'.on = radio.on
        /\ radio'.receiving = radio.receiving /\ radio'.notif = radio.notif
        /\ radio'.fate = [radio.fate EXCEPT ![p] = "disabled"]
    BY <1>0, <2>1 DEF Radios, Fates
  <2>3. radio'.fate[p] = "disabled" /\ \A q \in Packets \ {p} : radio'.fate[q] = radio.fate[q]
    BY <1>0, <2>2
  <2>4. QueueInv(radio') /\ \A q \in Packets : InQueue(radio', q) <=> InQueue(radio, q)
    BY <1>0, <2>2 DEF QueueInv, InOrder, Before, InQueue
  <2>5. \A q \in Packets : PlacedAt(radio', q)
    BY <1>0, <1>1, <2>2, <2>3, <2>4 DEF PlacedAt, RadioInv
  <2>6. RadioInv(radio')
    BY <2>4, <2>5 DEF RadioInv
  <2> QED BY <2>2, <2>6 DEF IInv, Hearing, Woken, Counters, Send, bounds
<1>3. CASE radio.on
  <2> DEFINE r == Enqueue(radio, p)
  <2>1. radio' = IF r.fate[p] = "queued" THEN SetTransmitDelay(r) ELSE r
    BY <1>3 DEF Send
  <2>2. /\ RadioInv(r) /\ Len(r.queue) <= MAX_TX_QUEUE
        /\ r.sending = radio.sending /\ r.receiving = radio.receiving
        /\ r.notif = radio.notif /\ r.on = radio.on
        /\ r.fate[p] # "queued" => r.queue = radio.queue
    <3>1. Len(radio.queue) <= MAX_TX_QUEUE /\ \A q \in Packets \ {p} : PlacedAt(radio, q)
      BY <1>0 DEF IInv, RadioInv
    <3> QED BY <1>0, <1>1, <3>1, Enqueueing
  <2> HIDE DEF r
  <2>3. CASE r.fate[p] = "queued"
    <3>1. radio' = SetTransmitDelay(r)
      BY <2>1, <2>3
    <3>2. /\ RadioInv(radio') /\ radio'.queue = r.queue /\ radio'.on = r.on
          /\ radio'.sending = r.sending /\ radio'.receiving = r.receiving /\ Woken(radio')
      BY <2>2, <3>1, SetTransmitDelayKeeps
    <3> QED BY <2>2, <3>2 DEF IInv, Hearing, Counters, Send, bounds
  <2>4. CASE r.fate[p] # "queued"
    BY <2>1, <2>2, <2>4 DEF IInv, Hearing, Woken, Counters, Send, bounds
  <2> QED BY <2>3, <2>4
<1> QED BY <1>2, <1>3

(* A queued packet is released.                                             *)
LEMMA CancelSendingStep ==
  ASSUME IInv, NEW p \in Packets, CancelSending(p)
  PROVE  IInv'
<1>0. /\ RadioInv(radio) /\ QueueInv(radio) /\ radio \in Radios /\ radio.fate[p] = "queued"
      /\ radio.fate \in [Packets -> Fates]
  BY DEF IInv, RadioInv, QueueInv, CancelSending, Radios
<1> DEFINE s == Without(radio, p)
<1>1. /\ s = [radio EXCEPT !.queue = s.queue] /\ s.queue \in Seq(Packets)
      /\ Thinned(s.queue, radio.queue, p)
  <2>1. InQueue(radio, p)
    BY <1>0 DEF RadioInv, PlacedAt
  <2> QED BY <1>0, <2>1, WithoutThins
<1>2. radio' = [s EXCEPT !.fate[p] = "cancelled", !.late = @ \ {p}, !.wait = @ \ {p}]
  BY DEF CancelSending
<1> HIDE DEF s
<1>3. /\ radio' \in Radios /\ radio'.queue = s.queue /\ radio'.late = radio.late \ {p}
      /\ radio'.wait = radio.wait \ {p} /\ radio'.sending = radio.sending
      /\ radio'.on = radio.on /\ radio'.receiving = radio.receiving
      /\ radio'.notif = radio.notif /\ radio'.fate = [radio.fate EXCEPT ![p] = "cancelled"]
  BY <1>0, <1>1, <1>2 DEF Radios, Fates
<1>4. radio'.fate[p] = "cancelled" /\ \A q \in Packets \ {p} : radio'.fate[q] = radio.fate[q]
  BY <1>0, <1>3
<1>5. RadioInv(radio') /\ Len(radio'.queue) + 1 = Len(radio.queue)
  BY <1>0, <1>1, <1>3, <1>4, Released
<1>6. /\ Len(radio.queue) \in Nat /\ Len(radio'.queue) \in Nat /\ MAX_TX_QUEUE \in Nat
      /\ radio.queue # <<>>
  BY <1>0, <1>3, <1>5, RadioAssumption DEF Radios
<1>7. Len(radio'.queue) <= MAX_TX_QUEUE
  BY <1>5, <1>6 DEF IInv
<1> QED BY <1>3, <1>5, <1>6, <1>7 DEF IInv, Hearing, Woken, Counters, CancelSending, bounds

(* A queued packet of others moves to the window of late rebroadcasts.      *)
LEMMA ClampToLateStep ==
  ASSUME IInv, NEW p \in Packets, ClampToLate(p)
  PROVE  IInv'
<1>0. /\ RadioInv(radio) /\ QueueInv(radio) /\ radio \in Radios /\ radio.fate[p] = "queued"
      /\ radio.wait \subseteq radio.late /\ Len(radio.queue) <= MAX_TX_QUEUE
  BY DEF IInv, RadioInv, QueueInv, ClampToLate
<1> DEFINE s == Without(radio, p)
           t == [s EXCEPT !.late = @ \cup {p}, !.wait = @ \cup {p}]
<1>1. /\ s = [radio EXCEPT !.queue = s.queue] /\ s.queue \in Seq(Packets)
      /\ Thinned(s.queue, radio.queue, p)
  <2>1. InQueue(radio, p)
    BY <1>0 DEF RadioInv, PlacedAt
  <2> QED BY <1>0, <2>1, WithoutThins
<1>2. radio' = Enqueue(t, p)
  BY DEF ClampToLate
<1> HIDE DEF s
<1>3. /\ t \in Radios /\ t.queue = s.queue /\ t.late = radio.late \cup {p}
      /\ t.wait = radio.wait \cup {p} /\ t.sending = radio.sending
      /\ t.on = radio.on /\ t.receiving = radio.receiving
      /\ t.notif = radio.notif /\ t.fate = radio.fate
  BY <1>0, <1>1 DEF Radios
<1> HIDE DEF t
<1>4. /\ QueueInv(t) /\ Len(t.queue) + 1 = Len(radio.queue) /\ ~InQueue(t, p)
      /\ \A q \in Packets \ {p} : InQueue(t, q) <=> InQueue(radio, q)
  <2>1. t.wait \subseteq t.late /\ \A q \in Packets \ {p} : q \in t.late <=> q \in radio.late
    BY <1>0, <1>3
  <2> QED BY <1>0, <1>1, <1>3, <2>1, Thinning
<1>5. t.sending # p /\ \A q \in Packets \ {p} : PlacedAt(t, q)
  BY <1>0, <1>3, <1>4 DEF RadioInv, PlacedAt
<1>6. Len(t.queue) <= MAX_TX_QUEUE /\ radio.queue # <<>>
  <2>1. t.queue \in Seq(Packets) /\ radio.queue \in Seq(Packets)
    BY <1>0, <1>3 DEF Radios
  <2> QED BY <1>0, <1>4, <2>1, RadioAssumption
<1>7. /\ RadioInv(radio') /\ Len(radio'.queue) <= MAX_TX_QUEUE
      /\ radio'.sending = t.sending /\ radio'.receiving = t.receiving
      /\ radio'.notif = t.notif /\ radio'.on = t.on
  BY <1>2, <1>4, <1>5, <1>6, Enqueueing
<1> QED BY <1>3, <1>6, <1>7 DEF IInv, Hearing, Woken, Counters, ClampToLate, bounds

(* The radio thread.                                                        *)
LEMMA RunOnceStep ==
  ASSUME IInv, RunOnce
  PROVE  IInv'
<1>1. PICK active \in BOOLEAN, ok \in BOOLEAN :
        /\ radio' = CheckNotification(radio, active, ok)
        /\ busies' = busies + (IF active THEN 1 ELSE 0)
        /\ failures' = failures + (IF ok THEN 0 ELSE 1)
  BY DEF RunOnce, Answers
<1>2. Handled(radio', radio, ok)
  BY <1>1, CheckNotificationHandled DEF IInv
<1>3. Len(radio'.queue) <= MAX_TX_QUEUE
  <2>1. Len(radio.queue) \in Nat /\ Len(radio'.queue) \in Nat /\ MAX_TX_QUEUE \in Nat
    BY <1>2, RadioAssumption DEF Handled, IInv, RadioInv, QueueInv, Radios
  <2> QED BY <1>2, <2>1 DEF Handled, IInv
<1>4. Counters' /\ (failures' = 0 => failures = 0 /\ ok) /\ UNCHANGED upkeep
  BY <1>1 DEF IInv, Counters, RunOnce
<1>5. mode' \in {"up", "asleep", "panic", "reboot"}
  BY DEF RunOnce, IInv
<1> QED BY <1>2, <1>3, <1>4, <1>5 DEF IInv, Handled

(* Upkeep: the state is consistent, but its wakeup and receiver may be lost.*)
LEMMA UpkeepStep ==
  ASSUME IInv, Upkeep
  PROVE  IInv'
<1>0. /\ RadioInv(radio) /\ radio \in Radios /\ radio.wait \subseteq radio.late
      /\ Len(radio.queue) \in Nat /\ MAX_TX_QUEUE \in Nat /\ Len(radio.queue) <= MAX_TX_QUEUE
  BY RadioAssumption DEF IInv, RadioInv, QueueInv, Radios
<1>1. ASSUME NEW s, RadioInv(s), s.queue = radio.queue, NEW active \in BOOLEAN, NEW ok \in BOOLEAN
      PROVE  /\ RadioInv(CheckNotification(s, active, ok))
             /\ Len(CheckNotification(s, active, ok).queue) <= MAX_TX_QUEUE
  <2> DEFINE t == CheckNotification(s, active, ok)
  <2>1. Handled(t, s, ok)
    BY <1>1, CheckNotificationHandled
  <2> HIDE DEF t
  <2>2. Len(t.queue) \in Nat
    BY <2>1 DEF Handled, RadioInv, QueueInv, Radios
  <2>3. RadioInv(t) /\ Len(t.queue) <= MAX_TX_QUEUE
    BY <1>0, <1>1, <2>1, <2>2 DEF Handled
  <2> QED BY <2>3 DEF t
<1>2. ASSUME upkeep' = upkeep + 1, Counters', RadioInv(radio'),
             Len(radio'.queue) <= MAX_TX_QUEUE, mode' \in {"up", "asleep", "panic", "reboot"}
      PROVE  IInv'
  <2>1. upkeep' # 0
    BY <1>2 DEF IInv, Counters
  <2> QED BY <1>2, <2>1 DEF IInv
<1>3. ASSUME ResetAGC PROVE IInv'
  <2> DEFINE s == [radio EXCEPT !.chip = "standby"]
  <2>1. PICK active \in BOOLEAN, ok \in BOOLEAN : /\ radio' = Listen(CheckNotification(s, active, ok))
                                      /\ Answers(active, ok)
    BY <1>3 DEF ResetAGC, StartReceive
  <2>2. /\ s \in Radios /\ s.queue = radio.queue /\ s.late = radio.late /\ s.wait = radio.wait
        /\ s.sending = radio.sending /\ s.fate = radio.fate
    BY <1>0 DEF Radios
  <2> HIDE DEF s
  <2>3. RadioInv(s)
    BY <1>0, <2>2, Untouched
  <2> DEFINE t == CheckNotification(s, active, ok)
  <2>4. RadioInv(t) /\ Len(t.queue) <= MAX_TX_QUEUE
    BY <1>1, <2>2, <2>3
  <2>5. radio' = Listen(t)
    BY <2>1
  <2> HIDE DEF t
  <2>6. RadioInv(radio') /\ Len(radio'.queue) <= MAX_TX_QUEUE
    BY <2>4, <2>5, ListenKeeps
  <2>7. Counters' /\ upkeep' = upkeep + 1 /\ mode' = mode
    BY <1>3, <2>1 DEF IInv, Counters, ResetAGC, Answers
  <2> QED BY <1>2, <2>6, <2>7 DEF IInv
<1>4. ASSUME NEW on \in BOOLEAN, Reconfigure(on) PROVE IInv'
  <2> DEFINE s == [radio EXCEPT !.on = on]
  <2>1. PICK active \in BOOLEAN, ok \in BOOLEAN :
          /\ radio' = Listen(CheckNotification(Standby(CheckNotification(s, active, ok)),
                                               active, ok))
          /\ Answers(active, ok)
    BY <1>4 DEF Reconfigure, StartReceive, SetStandby
  <2>2. /\ s \in Radios /\ s.queue = radio.queue /\ s.late = radio.late /\ s.wait = radio.wait
        /\ s.sending = radio.sending /\ s.fate = radio.fate
    BY <1>0 DEF Radios
  <2> HIDE DEF s
  <2>3. RadioInv(s)
    BY <1>0, <2>2, Untouched
  <2> DEFINE t == CheckNotification(s, active, ok)
             u == Standby(t)
             v == CheckNotification(u, active, ok)
  <2>4. RadioInv(t) /\ Len(t.queue) <= MAX_TX_QUEUE
    BY <1>1, <2>2, <2>3
  <2> HIDE DEF t
  <2>5. RadioInv(u) /\ u.queue = t.queue
    BY <2>4, StandbyKeeps
  <2> HIDE DEF u
  <2>6. RadioInv(v) /\ Len(v.queue) <= MAX_TX_QUEUE
    <3>1. Handled(v, u, ok)
      BY <2>5, CheckNotificationHandled
    <3> HIDE DEF v
    <3>2. Len(v.queue) \in Nat /\ Len(u.queue) \in Nat
      BY <2>5, <3>1 DEF Handled, RadioInv, QueueInv, Radios
    <3> QED BY <1>0, <2>4, <2>5, <3>1, <3>2 DEF Handled
  <2>7. radio' = Listen(v)
    BY <2>1 DEF u, t
  <2> HIDE DEF v
  <2>8. RadioInv(radio') /\ Len(radio'.queue) <= MAX_TX_QUEUE
    BY <2>6, <2>7, ListenKeeps
  <2>9. Counters' /\ upkeep' = upkeep + 1 /\ mode' = mode
    BY <1>4, <2>1 DEF IInv, Counters, Reconfigure, Answers
  <2> QED BY <1>2, <2>8, <2>9 DEF IInv
<1>5. ASSUME DeepSleep PROVE IInv'
  <2>1. Counters' /\ upkeep' = upkeep + 1 /\ mode' \in {"up", "asleep", "panic", "reboot"}
    <3>1. upkeep' = upkeep + 1 /\ UNCHANGED <<failures, missed, busies>>
      BY <1>5 DEF DeepSleep
    <3>2. mode' = "panic" \/ mode' = "asleep"
      BY <1>5 DEF DeepSleep
    <3> QED BY <3>1, <3>2 DEF IInv, Counters
  <2>2. CASE radio.queue # <<>>
    <3>1. radio' = radio
      BY <1>5, <2>2 DEF DeepSleep
    <3> QED BY <1>0, <1>2, <2>1, <3>1
  <2>3. CASE radio.queue = <<>>
    <3> DEFINE t == CheckNotification(radio, FALSE, TRUE)
    <3>1. radio' = Standby(t)
      BY <1>5, <2>3 DEF DeepSleep, SetStandby
    <3>2. RadioInv(t) /\ Len(t.queue) <= MAX_TX_QUEUE
      BY <1>0, <1>1
    <3> HIDE DEF t
    <3>3. RadioInv(radio') /\ Len(radio'.queue) <= MAX_TX_QUEUE
      BY <3>1, <3>2, StandbyKeeps
    <3> QED BY <1>2, <2>1, <3>3
  <2> QED BY <2>2, <2>3
<1> QED BY <1>3, <1>4, <1>5 DEF Upkeep

LEMMA NextIInv == IInv /\ [Next]_vars => IInv'
<1> SUFFICES ASSUME IInv, [Next]_vars PROVE IInv'
  OBVIOUS
<1>0. radio \in Radios
  BY DEF IInv, RadioInv, QueueInv
<1>1. CASE Calls
  BY <1>1, SendStep, CancelSendingStep, ClampToLateStep DEF Calls
<1>2. CASE RunOnce
  BY <1>2, RunOnceStep
<1>3. CASE PollMissedIrqs
  <2>1. /\ radio' \in Radios /\ radio' = [radio EXCEPT !.notif = "rx"]
        /\ UNCHANGED <<mode, failures, missed, busies, upkeep>>
    BY <1>0, <1>3 DEF PollMissedIrqs, Radios, bounds
  <2> QED BY <1>0, <2>1, ChipStep DEF Radios, IInv, Counters
<1>4. CASE Upkeep
  BY <1>4, UpkeepStep
<1>5. ASSUME NEW c \in {"rxdone", "txdone"}, NEW cause \in {"rx", "tx"}, Raise(c, cause),
             UNCHANGED <<mode, failures, busies, upkeep>>
      PROVE  IInv'
  <2>1. PICK seen \in BOOLEAN :
          /\ missed' = missed + (IF seen THEN 0 ELSE 1)
          /\ radio' = IF seen THEN [radio EXCEPT !.chip = c, !.notif = cause, !.irq = "none"]
                      ELSE [radio EXCEPT !.chip = c]
    BY <1>5 DEF Raise
  <2>2. /\ radio' \in Radios /\ radio'.queue = radio.queue /\ radio'.late = radio.late
        /\ radio'.wait = radio.wait /\ radio'.sending = radio.sending
        /\ radio'.fate = radio.fate /\ radio'.on = radio.on
        /\ radio'.receiving = radio.receiving
        /\ radio'.notif = radio.notif \/ radio'.notif \in {"rx", "tx"}
    BY <1>0, <2>1 DEF Radios
  <2>3. Counters'
    BY <1>5, <2>1 DEF IInv, Counters
  <2> QED BY <1>5, <2>2, <2>3, ChipStep
<1>6. CASE Chip
  <2>1. CASE TxDone
    BY <1>5, <2>1 DEF TxDone
  <2>2. CASE RxDone
    BY <1>5, <2>2 DEF RxDone
  <2>3. CASE RxBegin
    <3>1. /\ radio' \in Radios /\ radio' = [radio EXCEPT !.chip = "busy"]
          /\ UNCHANGED <<mode, failures, missed, upkeep>> /\ busies' = busies + 1
      BY <1>0, <2>3 DEF RxBegin, Radios
    <3> QED BY <1>0, <3>1, ChipStep DEF Radios, IInv, Counters
  <2>4. ASSUME NEW p \in Packets, TxAfterPasses(p) PROVE IInv'
    <3>1. /\ radio' \in Radios /\ radio' = [radio EXCEPT !.wait = @ \ {p}]
          /\ UNCHANGED <<mode, failures, missed, busies, upkeep>>
      BY <1>0, <2>4 DEF TxAfterPasses, Radios, bounds
    <3> QED BY <1>0, <3>1, ChipStep DEF Radios, IInv, Counters
  <2> QED BY <1>6, <2>1, <2>2, <2>3, <2>4 DEF Chip
<1>7. CASE UNCHANGED vars
  BY <1>7 DEF vars, IInv, Counters
<1> QED BY <1>1, <1>2, <1>3, <1>4, <1>6, <1>7 DEF Next

-----------------------------------------------------------------------------
(* The theorems.                                                            *)

LEMMA InductiveInvariant == Spec => []IInv
BY InitIInv, NextIInv, PTL DEF Spec

(* The state of the interface has its type and the queue its limit,         *)
(* whatever enqueue, replaceLowerPriorityPacket and the radio thread do.    *)
THEOREM TypeCorrect == Spec => []TypeOK
<1>1. IInv => TypeOK
  BY DEF IInv, RadioInv, QueueInv, TypeOK, Counters
<1> QED BY <1>1, InductiveInvariant, PTL

(* A packet is in the queue once, on the air or released, and never two of  *)
(* these, for every number of packets and every size of the queue.          *)
THEOREM PacketsHaveOnePlace == Spec => []OnePlace
<1>1. ASSUME IInv, NEW p \in Packets
      PROVE  /\ radio.fate[p] = "queued" <=>
                   Cardinality({i \in DOMAIN radio.queue : radio.queue[i] = p}) = 1
             /\ radio.fate[p] # "queued" => \A i \in DOMAIN radio.queue : radio.queue[i] # p
             /\ radio.fate[p] = "sending" <=> radio.sending = p
  <2> DEFINE P == {i \in DOMAIN radio.queue : radio.queue[i] = p}
  <2>1. PlacedAt(radio, p) /\ Distinct(radio.queue)
    BY <1>1 DEF IInv, RadioInv, QueueInv
  <2>2. ASSUME InQueue(radio, p) PROVE Cardinality(P) = 1
    <3>1. PICK i \in DOMAIN radio.queue : radio.queue[i] = p
      BY <2>2 DEF InQueue
    <3>2. P = {i}
      BY <2>1, <3>1 DEF Distinct
    <3> QED BY <3>2, FS_Singleton
  <2>3. ASSUME ~InQueue(radio, p) PROVE Cardinality(P) = 0 /\ P = {}
    <3>1. P = {}
      BY <2>3 DEF InQueue
    <3> QED BY <3>1, FS_EmptySet
  <2> QED BY <2>1, <2>2, <2>3 DEF PlacedAt, InQueue
<1>2. IInv => OnePlace
  BY <1>1 DEF OnePlace
<1> QED BY <1>2, InductiveInvariant, PTL

(* The queue is in the order of CompareMeshPacketFunc in every state, which *)
(* is what upper_bound and the eviction of the last packet rely on.         *)
THEOREM QueueSorted == Spec => []Sorted
<1>1. IInv => Sorted
  BY DEF IInv, RadioInv, QueueInv, InOrder, Sorted
<1> QED BY <1>1, InductiveInvariant, PTL

(* No wakeup is lost while no transmission fails and no upkeep intervenes.  *)
THEOREM ThreadAwake == Spec => []Awake
<1>1. IInv => Awake
  BY DEF IInv, Woken, Awake
<1> QED BY <1>1, InductiveInvariant, PTL

(* Until the first upkeep a node that sends nothing listens.                *)
THEOREM ReceiverOn == Spec => []Listens
<1>1. IInv => Listens
  BY DEF IInv, Hearing, Listens
<1> QED BY <1>1, InductiveInvariant, PTL
===============================================================================
