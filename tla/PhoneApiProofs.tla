----------------------------- MODULE PhoneApiProofs -----------------------------
(***************************************************************************)
(* Proofs about PhoneApi for every number of clients, channels, nodes and   *)
(* files: the order of the records, what a download that nothing disturbs   *)
(* contains, and that config_state, which a new request does not reset, is  *)
(* below the size of the manifest whenever the manifest is read.            *)
(***************************************************************************)
EXTENDS PhoneApi, FiniteSetTheorems, SequenceTheorems, TLAPS

Nodes  == Others \cup {Self}
Fields == {"state", "cs", "want", "idx", "ahead", "files"}
Starting   == {"MY_INFO", "UIDATA", "OWN_NODEINFO"}
Middle     == {"METADATA", "CHANNELS", "CONFIG", "MODULECONFIG"}
Configuring == Starting \cup Middle \cup {"OTHER_NODEINFOS", "FILEMANIFEST"}

(* The database holds every node once, Self in front.                       *)
DbOK(q) ==
  /\ q \in Seq(Nodes) /\ Len(q) > 0 /\ q[1] = Self
  /\ \A i, j \in DOMAIN q : q[i] = q[j] => i = j
  /\ \A n \in Nodes : \E i \in DOMAIN q : q[i] = n

(* What holds of an instance whatever the requests were, with N nodes:      *)
(* config_state is 0 again before the manifest.                             *)
ApiOK(a, N) ==
  /\ DOMAIN a = Fields
  /\ a.state \in Configuring \cup {"NOTHING", "PACKETS"}
  /\ a.want \in {"none", "all", "config", "nodes"}
  /\ a.cs \in Nat /\ a.files \in 0..NumFiles
  /\ a.idx \in 0..N /\ a.ahead \in Seq(Nodes) /\ Len(a.ahead) <= kNodePrefetchDepth
  /\ a.state \in Starting => a.idx = 0 /\ a.ahead = <<>>
  /\ a.want # "nodes" /\ a.state = "OTHER_NODEINFOS" => a.cs = 0
  /\ a.want # "nodes" /\ a.state = "FILEMANIFEST" => a.cs <= a.files

(* The records of a state have at least its level.                          *)
Level(s) ==
  CASE s \in {"NOTHING", "MY_INFO"} -> 1 [] s = "UIDATA" -> 2
    [] s \in {"OWN_NODEINFO", "METADATA"} -> 3 [] s = "CHANNELS" -> 4 [] s = "CONFIG" -> 5
    [] s = "MODULECONFIG" -> 6 [] s = "OTHER_NODEINFOS" -> 7 [] s = "FILEMANIFEST" -> 8
    [] OTHER -> 10

(* The records sent so far are in order, and none is beyond the state.      *)
Ordered(g) == \A i, j \in DOMAIN g :
  i < j /\ ~Own(g[i]) /\ ~Own(g[j]) => Rank(g[i]) <= Rank(g[j])
SentInOrder(g, s) ==
  Ordered(g) /\ \A i \in DOMAIN g : g[i][1] \in DOMAIN Order /\ (~Own(g[i]) => Rank(g[i]) <= Level(s))

(* A download that nothing disturbs: how far it is in each kind of record.  *)
NodesSent(a)    == a.idx - Len(a.ahead)
ChannelsSent(a) == IF a.state \in Starting \cup {"METADATA"} THEN 0
                   ELSE IF a.state = "CHANNELS" THEN a.cs ELSE MAX_NUM_CHANNELS
ConfigsSent(a)  == IF a.state \in Starting \cup {"METADATA", "CHANNELS"} THEN 0
                   ELSE IF a.state = "CONFIG" THEN a.cs - 1 ELSE NumConfigs
ModulesSent(a)  == IF a.state \in Starting \cup {"METADATA", "CHANNELS", "CONFIG"} THEN 0
                   ELSE IF a.state = "MODULECONFIG" THEN a.cs - 1 ELSE NumModules
FilesSent(a)    == IF a.state = "FILEMANIFEST" THEN a.cs ELSE 0

NodeRecs(q, n)    == {Rec("node", q[i]) : i \in 1..n}
OtherRecs(c, g, m, f) ==
  {Rec("channel", i) : i \in 0..c - 1} \cup {Rec("config", i) : i \in 1..g}
  \cup {Rec("module", i) : i \in 1..m} \cup {Rec("file", i) : i \in 0..f - 1}
Sent(a, q) ==
  NodeRecs(q, NodesSent(a)) \cup
  IF a.want = "nodes" THEN {}
  ELSE OtherRecs(ChannelsSent(a), ConfigsSent(a), ModulesSent(a), FilesSent(a))

Counted(r) == r[1] \in {"node", "channel", "config", "module", "file"}

(* What was read ahead are the nodes that are next in the database.         *)
Window(a, q) ==
  /\ Len(a.ahead) <= a.idx
  /\ \A j \in DOMAIN a.ahead : a.ahead[j] = q[a.idx - Len(a.ahead) + j]

(* The count of each state starts where it should.                          *)
OnTrack(a, q) ==
  /\ a.want # "none" /\ a.files = NumFiles /\ Window(a, q)
  /\ a.want = "nodes" => a.state \in {"OWN_NODEINFO", "OTHER_NODEINFOS", "FILEMANIFEST"}
  /\ a.state \in Starting \cup {"METADATA"} => a.cs = 0
  /\ a.state = "CHANNELS" => a.cs < MAX_NUM_CHANNELS
  /\ a.state = "CONFIG" => a.cs \in 1..NumConfigs
  /\ a.state = "MODULECONFIG" => a.cs \in 1..NumModules
  /\ a.state \in Middle => a.idx = 1 /\ a.ahead = <<>>
  /\ a.state = "OTHER_NODEINFOS" => a.want # "config" /\ a.cs = 0 /\ Len(a.ahead) < a.idx
  /\ a.state = "FILEMANIFEST" => a.cs <= NumFiles /\ a.ahead = <<>>
                                 /\ a.idx = IF a.want = "config" THEN 1 ELSE Len(q)

Downloads(a, g, q) ==
  /\ \A i, j \in DOMAIN g : g[i] = g[j] /\ Counted(g[i]) => i = j
  /\ a.state = "NOTHING" => g = <<>>
  /\ a.state \in Configuring =>
       /\ OnTrack(a, q)
       /\ {r \in Range(g) : Counted(r)} = Sent(a, q)
       /\ \A i \in DOMAIN g : g[i][1] # "complete"
  /\ a.state = "PACKETS" => \A want \in {"all", "config", "nodes"} :
       Rec("complete", want) \in Range(g) => Wanted(want) \subseteq Range(g)

(* A client with its history, after s sorts; k tells how its request began. *)
ClientOK(a, g, k, s, q) ==
  /\ ApiOK(a, Len(q))
  /\ g \in Seq(Range(g)) /\ SentInOrder(g, a.state)
  /\ k.sorts \in 0..s
  /\ k.clean /\ k.sorts = s => Downloads(a, g, q)

(* The invariant.                                                           *)
IInv ==
  /\ DbOK(meshNodes) /\ sorts \in Nat
  /\ DOMAIN api = Clients /\ DOMAIN got = Clients /\ DOMAIN asked = Clients
  /\ toPhone \in Seq(Packets) /\ Len(toPhone) <= MAX_RX_TOPHONE /\ heartbeatReceived \in BOOLEAN
  /\ \A c \in Clients : ClientOK(api[c], got[c], asked[c], sorts, meshNodes)

-----------------------------------------------------------------------------
(* The database.                                                            *)

(* As many places as nodes, none used twice: every node has one.            *)
LEMMA EveryNodeHasAPlace ==
  ASSUME NEW f \in [1..Cardinality(Others) -> Others],
         \A i, j \in 1..Cardinality(Others) : f[i] = f[j] => i = j
  PROVE  \A n \in Others : \E i \in 1..Cardinality(Others) : f[i] = n
<1> DEFINE D == 1..Cardinality(Others)
           R == {f[i] : i \in D}
<1>1. IsFiniteSet(Others) /\ Cardinality(Others) \in Nat
  BY PhoneAssumption, FS_CardinalityType DEF PhoneAssumption
<1>2. IsFiniteSet(D) /\ Cardinality(D) = Cardinality(Others)
  BY <1>1, FS_Interval
<1>3. R \subseteq Others
  OBVIOUS
<1>4. IsFiniteSet(R) /\ Cardinality(R) <= Cardinality(Others)
  BY <1>1, <1>3, FS_Subset
<1>5. f \in Injection(D, R)
  BY DEF Injection, IsInjective
<1>6. Cardinality(D) <= Cardinality(R)
  BY <1>4, <1>5, FS_Injection
<1>7. Cardinality(R) \in Nat
  BY <1>4, FS_CardinalityType
<1>8. R = Others
  BY <1>1, <1>2, <1>3, <1>4, <1>6, <1>7, FS_Subset
<1> QED BY <1>8

(* Every database that the node may start with holds each node once.        *)
LEMMA InitDb ==
  ASSUME NEW s \in SetToSeqs(Others)
  PROVE  DbOK(<<Self>> \o s)
<1> DEFINE N == Cardinality(Others)
           q == <<Self>> \o s
<1>1. IsFiniteSet(Others) /\ N \in Nat /\ Self \notin Others
  BY PhoneAssumption, FS_CardinalityType DEF PhoneAssumption
<1>2. s \in [1..N -> Others] /\ \A i, j \in 1..N : s[i] = s[j] => i = j
  BY DEF SetToSeqs
<1>3. \A n \in Others : \E i \in 1..N : s[i] = n
  BY <1>2, EveryNodeHasAPlace
<1>4. s \in Seq(Nodes) /\ Len(s) = N
  BY <1>1, <1>2 DEF Nodes
<1>5. <<Self>> \in Seq(Nodes) /\ Len(<<Self>>) = 1 /\ <<Self>>[1] = Self
  BY DEF Nodes
<1>6. /\ q \in Seq(Nodes) /\ Len(q) = 1 + N
      /\ \A i \in 1..1 + N : q[i] = IF i <= 1 THEN <<Self>>[i] ELSE s[i - 1]
  BY <1>4, <1>5, ConcatProperties
<1>7. q[1] = Self /\ \A i \in 2..1 + N : q[i] = s[i - 1] /\ i - 1 \in 1..N
  BY <1>1, <1>5, <1>6
<1> HIDE DEF q, N
<1>8. DOMAIN q = 1..1 + N
  BY <1>6
<1>9. ASSUME NEW i \in DOMAIN q, NEW j \in DOMAIN q, q[i] = q[j] PROVE i = j
  <2>1. CASE i = 1 \/ j = 1
    BY <1>1, <1>2, <1>7, <1>8, <1>9, <2>1
  <2>2. CASE i # 1 /\ j # 1
    BY <1>1, <1>2, <1>7, <1>8, <1>9, <2>2
  <2> QED BY <2>1, <2>2
<1>10. ASSUME NEW n \in Nodes PROVE \E i \in DOMAIN q : q[i] = n
  <2>1. CASE n = Self
    BY <1>1, <1>7, <1>8, <2>1
  <2>2. CASE n \in Others
    <3>1. PICK i \in 1..N : s[i] = n
      BY <1>3, <2>2
    <3>2. i + 1 \in 2..1 + N /\ (i + 1) - 1 = i
      BY <1>1
    <3>3. q[i + 1] = n
      BY <1>7, <3>1, <3>2
    <3> QED BY <1>1, <1>8, <3>2, <3>3
  <2> QED BY <2>1, <2>2 DEF Nodes
<1>11. Len(q) > 0
  BY <1>1, <1>6
<1> QED BY <1>6, <1>7, <1>9, <1>10, <1>11 DEF DbOK, q

(* Moving a node to the front permutes the others.                          *)
LEMMA ToFrontDb ==
  ASSUME NEW q, DbOK(q), NEW n \in Others
  PROVE  DbOK(ToFront(q, n)) /\ Len(ToFront(q, n)) = Len(q)
<1> DEFINE k == CHOOSE i \in DOMAIN q : q[i] = n
           at(i) == IF i = 2 THEN k ELSE IF i \in 3..k THEN i - 1 ELSE i
           t == ToFront(q, n)
<1>1. Self \notin Others /\ n \in Nodes
  BY PhoneAssumption DEF PhoneAssumption, Nodes
<1>2. q \in Seq(Nodes) /\ Len(q) \in Nat /\ DOMAIN q = 1..Len(q) /\ q[1] = Self
  BY DEF DbOK
<1>3. k \in DOMAIN q /\ q[k] = n
  BY <1>1 DEF DbOK
<1>4. k \in 2..Len(q)
  BY <1>1, <1>2, <1>3
<1>5. t = [i \in DOMAIN q |-> IF i = 2 THEN n ELSE IF i \in 3..k THEN q[i - 1] ELSE q[i]]
  BY DEF ToFront
<1> HIDE DEF k, t
<1>6. ASSUME NEW i \in 1..Len(q) PROVE at(i) \in 1..Len(q) /\ t[i] = q[at(i)]
  BY <1>2, <1>3, <1>4, <1>5
<1>7. t \in [1..Len(q) -> Nodes]
  BY <1>2, <1>6, <1>5
<1>8. t \in Seq(Nodes) /\ Len(t) = Len(q) /\ DOMAIN t = 1..Len(q)
  BY <1>2, <1>7
<1>9. t[1] = Self
  BY <1>2, <1>4, <1>5
<1>10. ASSUME NEW i \in 1..Len(q), NEW j \in 1..Len(q), t[i] = t[j] PROVE i = j
  <2>1. at(i) = at(j)
    <3> HIDE DEF at
    <3> QED BY <1>2, <1>6, <1>10 DEF DbOK
  <2> QED BY <1>4, <2>1
<1>11. ASSUME NEW m \in Nodes PROVE \E i \in 1..Len(q) : t[i] = m
  <2>1. PICK j \in 1..Len(q) : q[j] = m
    BY <1>2 DEF DbOK
  <2> DEFINE i == IF j = k THEN 2 ELSE IF j \in 2..k THEN j + 1 ELSE j
  <2>2. i \in 1..Len(q) /\ at(i) = j
    BY <1>4
  <2> HIDE DEF i, at
  <2> QED BY <1>6, <2>1, <2>2
<1>12. Len(q) > 0
  BY DEF DbOK
<1> QED BY <1>8, <1>9, <1>10, <1>11, <1>12 DEF DbOK, t

(* What a sequence is after one more record.                                *)
LEMMA AppendFacts ==
  ASSUME NEW g, g \in Seq(Range(g)), NEW r
  PROVE  LET h == Append(g, r) IN
         /\ h \in Seq(Range(h)) /\ Len(h) = Len(g) + 1 /\ Len(g) \in Nat
         /\ DOMAIN g = 1..Len(g) /\ DOMAIN h = 1..Len(g) + 1
         /\ \A i \in DOMAIN g : h[i] = g[i]
         /\ h[Len(g) + 1] = r /\ Range(h) = Range(g) \cup {r}
<1> DEFINE S == Range(g) \cup {r}
           h == Append(g, r)
<1>1. g \in Seq(S) /\ r \in S
  OBVIOUS
<1>2. /\ h \in Seq(S) /\ Len(h) = Len(g) + 1
      /\ \A i \in 1..Len(g) : h[i] = g[i]
      /\ h[Len(g) + 1] = r
  BY <1>1, AppendProperties
<1>3. Len(g) \in Nat /\ DOMAIN g = 1..Len(g)
  BY <1>1
<1> HIDE DEF h, S
<1>4. DOMAIN h = 1..Len(g) + 1
  BY <1>2, <1>3
<1>5. Range(h) = Range(g) \cup {r}
  <2>1. ASSUME NEW x \in Range(h) PROVE x \in Range(g) \cup {r}
    <3>1. PICK i \in DOMAIN h : x = h[i]
      BY DEF Range
    <3>2. CASE i \in 1..Len(g)
      BY <1>2, <1>3, <3>1, <3>2 DEF Range
    <3>3. CASE i = Len(g) + 1
      BY <1>2, <3>1, <3>3
    <3> QED BY <1>3, <1>4, <3>2, <3>3
  <2>2. ASSUME NEW x \in Range(g) PROVE x \in Range(h)
    <3>1. PICK i \in DOMAIN g : x = g[i]
      BY DEF Range
    <3>2. i \in DOMAIN h /\ h[i] = x
      BY <1>2, <1>3, <1>4, <3>1
    <3> QED BY <3>2 DEF Range
  <2>3. r \in Range(h)
    BY <1>2, <1>3, <1>4 DEF Range
  <2> QED BY <2>1, <2>2, <2>3
<1>6. h \in Seq(Range(h))
  <2>1. h \in [1..Len(g) + 1 -> Range(h)]
    BY <1>2, <1>3, <1>4 DEF Range
  <2>2. Len(g) + 1 \in Nat
    BY <1>3
  <2> QED BY <2>1, <2>2
<1> QED BY <1>2, <1>3, <1>4, <1>5, <1>6 DEF h

-----------------------------------------------------------------------------
(* The records of a download.                                               *)

LEMMA OneMoreNode ==
  ASSUME NEW q, DbOK(q), NEW n \in Nat, n < Len(q)
  PROVE  /\ NodeRecs(q, n + 1) = NodeRecs(q, n) \cup {Rec("node", q[n + 1])}
         /\ Rec("node", q[n + 1]) \notin NodeRecs(q, n)
<1>1. q \in Seq(Nodes) /\ Len(q) \in Nat /\ DOMAIN q = 1..Len(q)
  BY DEF DbOK
<1>2. 1..n + 1 = (1..n) \cup {n + 1}
  OBVIOUS
<1>3. NodeRecs(q, n + 1) = NodeRecs(q, n) \cup {Rec("node", q[n + 1])}
  BY <1>2 DEF NodeRecs
<1>4. ASSUME Rec("node", q[n + 1]) \in NodeRecs(q, n) PROVE FALSE
  <2>1. PICK i \in 1..n : Rec("node", q[n + 1]) = Rec("node", q[i])
    BY <1>4 DEF NodeRecs
  <2>2. q[n + 1] = q[i]
    BY <2>1 DEF Rec
  <2>3. n + 1 \in DOMAIN q /\ i \in DOMAIN q
    BY <1>1
  <2> QED BY <2>2, <2>3 DEF DbOK
<1> QED BY <1>3, <1>4

(* When as many were sent as there are places, every node was.              *)
LEMMA AllNodesSent ==
  ASSUME NEW q, DbOK(q), NEW n \in Nodes
  PROVE  Rec("node", n) \in NodeRecs(q, Len(q))
<1>1. PICK i \in DOMAIN q : q[i] = n
  BY DEF DbOK
<1> QED BY <1>1 DEF DbOK, NodeRecs

OneMore(c, g, m, f, c2, g2, m2, f2, r) ==
  \/ c2 = c + 1 /\ g2 = g /\ m2 = m /\ f2 = f /\ r = Rec("channel", c)
  \/ c2 = c /\ g2 = g + 1 /\ m2 = m /\ f2 = f /\ r = Rec("config", g2)
  \/ c2 = c /\ g2 = g /\ m2 = m + 1 /\ f2 = f /\ r = Rec("module", m2)
  \/ c2 = c /\ g2 = g /\ m2 = m /\ f2 = f + 1 /\ r = Rec("file", f)

LEMMA OneMoreOther ==
  ASSUME NEW c \in Nat, NEW g \in Nat, NEW m \in Nat, NEW f \in Nat,
         NEW c2, NEW g2, NEW m2, NEW f2, NEW r, OneMore(c, g, m, f, c2, g2, m2, f2, r)
  PROVE  OtherRecs(c2, g2, m2, f2) = OtherRecs(c, g, m, f) \cup {r}
         /\ r \notin OtherRecs(c, g, m, f)
<1>1. CASE c2 = c + 1 /\ g2 = g /\ m2 = m /\ f2 = f /\ r = Rec("channel", c)
  <2>1. 0..c2 - 1 = (0..c - 1) \cup {c}
    BY <1>1
  <2>2. OtherRecs(c2, g2, m2, f2) = OtherRecs(c, g, m, f) \cup {r}
    BY <1>1, <2>1 DEF OtherRecs
  <2>3. r \notin OtherRecs(c, g, m, f)
    BY <1>1 DEF OtherRecs, Rec
  <2> QED BY <2>2, <2>3
<1>2. CASE c2 = c /\ g2 = g + 1 /\ m2 = m /\ f2 = f /\ r = Rec("config", g2)
  <2>1. 1..g2 = (1..g) \cup {g2}
    BY <1>2
  <2>2. OtherRecs(c2, g2, m2, f2) = OtherRecs(c, g, m, f) \cup {r}
    BY <1>2, <2>1 DEF OtherRecs
  <2>3. r \notin OtherRecs(c, g, m, f)
    BY <1>2 DEF OtherRecs, Rec
  <2> QED BY <2>2, <2>3
<1>3. CASE c2 = c /\ g2 = g /\ m2 = m + 1 /\ f2 = f /\ r = Rec("module", m2)
  <2>1. 1..m2 = (1..m) \cup {m2}
    BY <1>3
  <2>2. OtherRecs(c2, g2, m2, f2) = OtherRecs(c, g, m, f) \cup {r}
    BY <1>3, <2>1 DEF OtherRecs
  <2>3. r \notin OtherRecs(c, g, m, f)
    BY <1>3 DEF OtherRecs, Rec
  <2> QED BY <2>2, <2>3
<1>4. CASE c2 = c /\ g2 = g /\ m2 = m /\ f2 = f + 1 /\ r = Rec("file", f)
  <2>1. 0..f2 - 1 = (0..f - 1) \cup {f}
    BY <1>4
  <2>2. OtherRecs(c2, g2, m2, f2) = OtherRecs(c, g, m, f) \cup {r}
    BY <1>4, <2>1 DEF OtherRecs
  <2>3. r \notin OtherRecs(c, g, m, f)
    BY <1>4 DEF OtherRecs, Rec
  <2> QED BY <2>2, <2>3
<1> QED BY <1>1, <1>2, <1>3, <1>4 DEF OneMore

(* The records of the nodes and the others are told apart by their kinds.   *)
LEMMA KindsApart ==
  ASSUME NEW q, NEW n, NEW c, NEW g, NEW m, NEW f
  PROVE  /\ \A r \in NodeRecs(q, n) : r[1] = "node"
         /\ \A r \in OtherRecs(c, g, m, f) : r[1] \in {"channel", "config", "module", "file"}
<1>1. \A r \in NodeRecs(q, n) : r[1] = "node"
  BY DEF NodeRecs, Rec
<1>2. \A r \in OtherRecs(c, g, m, f) : r[1] \in {"channel", "config", "module", "file"}
  BY DEF OtherRecs, Rec
<1> QED BY <1>1, <1>2
-----------------------------------------------------------------------------
(* One record of getFromRadio.                                              *)

(* Reading ahead moves the window without changing what was sent; it comes  *)
(* back empty only at the end of the database.                              *)
LEMMA PrefetchKeeps ==
  ASSUME DbOK(meshNodes), NEW a, ApiOK(a, Len(meshNodes)), a.state \notin Starting
  PROVE  LET b == Prefetch(a) IN
         /\ ApiOK(b, Len(meshNodes))
         /\ b.state = a.state /\ b.cs = a.cs /\ b.want = a.want /\ b.files = a.files
         /\ NodesSent(b) = NodesSent(a)
         /\ Window(a, meshNodes) => Window(b, meshNodes)
         /\ b.ahead = <<>> => a.idx = Len(meshNodes) /\ b.idx = a.idx
<1> DEFINE N == Len(meshNodes)
           L == Len(a.ahead)
           room == kNodePrefetchDepth - L
           upto == IF a.idx + room < N THEN a.idx + room ELSE N
           piece == SubSeq(meshNodes, a.idx + 1, upto)
           new  == a.ahead \o piece
           b    == Prefetch(a)
<1>1. /\ meshNodes \in Seq(Nodes) /\ N \in Nat
      /\ \A i \in 1..N : meshNodes[i] \in Nodes
  BY DEF DbOK
<1>2. /\ DOMAIN a = Fields /\ a.idx \in 0..N /\ a.ahead \in Seq(Nodes)
      /\ L \in Nat /\ L <= kNodePrefetchDepth /\ DOMAIN a.ahead = 1..L
  BY DEF ApiOK
<1>3. kNodePrefetchDepth \in Nat \ {0}
  BY PhoneAssumption DEF PhoneAssumption
<1>4. CASE room <= 0 \/ a.idx >= N
  <2>1. b = a
    BY <1>4 DEF Prefetch
  <2>2. a.ahead = <<>> => L = 0
    BY <1>2
  <2>3. a.ahead = <<>> => a.idx = N
    BY <1>1, <1>2, <1>3, <1>4, <2>2
  <2> QED BY <2>1, <2>3
<1>5. CASE ~(room <= 0 \/ a.idx >= N)
  <2>1. b = [a EXCEPT !.ahead = new, !.idx = upto]
    BY <1>5 DEF Prefetch
  <2>2. upto \in a.idx + 1..N /\ upto - a.idx <= room
    BY <1>1, <1>2, <1>3, <1>5
  <2> HIDE DEF upto
  <2>3. /\ piece \in Seq(Nodes) /\ Len(piece) = upto - a.idx
        /\ \A i \in 1..upto - a.idx : piece[i] = meshNodes[a.idx + i]
    <3>1. \A i \in a.idx + 1..upto : meshNodes[i] \in Nodes
      BY <1>1, <1>2, <2>2
    <3>2. /\ piece \in Seq(Nodes)
          /\ Len(piece) = IF a.idx + 1 <= upto THEN upto - (a.idx + 1) + 1 ELSE 0
          /\ \A i \in 1..upto - (a.idx + 1) + 1 : piece[i] = meshNodes[(a.idx + 1) + i - 1]
      BY <1>2, <2>2, <3>1, SubSeqProperties
    <3> HIDE DEF piece
    <3> QED BY <1>2, <2>2, <3>2
  <2> HIDE DEF piece
  <2>4. /\ new \in Seq(Nodes) /\ Len(new) = L + (upto - a.idx)
        /\ \A i \in 1..L + (upto - a.idx) :
             new[i] = IF i <= L THEN a.ahead[i] ELSE piece[i - L]
    <3>1. a.ahead \in Seq(Nodes) /\ piece \in Seq(Nodes)
      BY <1>2, <2>3
    <3>2. /\ new \in Seq(Nodes) /\ Len(new) = Len(a.ahead) + Len(piece)
          /\ \A i \in 1..Len(a.ahead) + Len(piece) :
               new[i] = IF i <= Len(a.ahead) THEN a.ahead[i] ELSE piece[i - Len(a.ahead)]
      BY <3>1, ConcatProperties
    <3> HIDE DEF new
    <3> QED BY <2>3, <3>2
  <2> HIDE DEF new
  <2>5. /\ DOMAIN b = Fields /\ b.state = a.state /\ b.cs = a.cs /\ b.want = a.want
        /\ b.files = a.files /\ b.ahead = new /\ b.idx = upto
    BY <1>2, <2>1 DEF Fields
  <2> HIDE DEF b
  <2>6. ApiOK(b, N)
    BY <1>2, <1>3, <2>2, <2>4, <2>5 DEF ApiOK
  <2>7. NodesSent(b) = NodesSent(a)
    BY <1>2, <2>2, <2>4, <2>5 DEF NodesSent
  <2>8. ASSUME Window(a, meshNodes) PROVE Window(b, meshNodes)
    <3>1. L <= a.idx /\ \A j \in 1..L : a.ahead[j] = meshNodes[a.idx - L + j]
      BY <1>2, <2>8 DEF Window
    <3>2. DOMAIN new = 1..Len(new)
      BY <2>4
    <3>3. upto - Len(new) = a.idx - L
      BY <1>2, <2>2, <2>4
    <3>4. ASSUME NEW j \in 1..Len(new) PROVE new[j] = meshNodes[(a.idx - L) + j]
      <4>1. j \in 1..L + (upto - a.idx)
        BY <2>4
      <4>2. CASE j <= L
        <5>1. j \in 1..L /\ new[j] = a.ahead[j]
          BY <1>2, <2>4, <4>1, <4>2
        <5> QED BY <3>1, <5>1
      <4>3. CASE j > L
        <5>1. j - L \in 1..upto - a.idx /\ a.idx + (j - L) = (a.idx - L) + j
          BY <1>2, <2>2, <4>1, <4>3
        <5>2. new[j] = piece[j - L]
          BY <1>2, <2>4, <4>1, <4>3
        <5>3. piece[j - L] = meshNodes[a.idx + (j - L)]
          BY <2>3, <5>1
        <5> QED BY <5>1, <5>2, <5>3
      <4> QED BY <1>2, <4>1, <4>2, <4>3
    <3>5. Len(new) <= upto
      BY <1>2, <2>2, <3>1, <3>3
    <3> QED BY <2>5, <3>2, <3>3, <3>4, <3>5 DEF Window
  <2>9. b.ahead # <<>>
    BY <1>2, <2>2, <2>4, <2>5
  <2> QED BY <2>5, <2>6, <2>7, <2>8, <2>9 DEF b
<1> QED BY <1>4, <1>5

-----------------------------------------------------------------------------
(* What a record does, whatever happened before: the levels do not sink,    *)
(* and the record is between them.                                          *)
Emits(a, b, r) ==
  /\ ApiOK(b, Len(meshNodes)) /\ b.state \in Configuring \cup {"PACKETS"}
  /\ r[1] \in DOMAIN Order
  /\ Level(a.state) <= Level(b.state)
  /\ Own(r) \/ (Level(a.state) <= Rank(r) /\ Rank(r) <= Level(b.state))

(* What it does in a download that nothing disturbed: it is new, or the     *)
(* last, and then everything asked for was sent.                            *)
Advances(a, b, r, q) ==
  IF b.state = "PACKETS"
  THEN r = Rec("complete", a.want) /\ Wanted(a.want) \subseteq Sent(a, q)
  ELSE /\ OnTrack(b, q) /\ r[1] # "complete"
       /\ Sent(b, q) = Sent(a, q) \cup IF Counted(r) THEN {r} ELSE {}
       /\ r \notin Sent(a, q)

Does(a, b, r) == Emits(a, b, r) /\ (OnTrack(a, meshNodes) => Advances(a, b, r, meshNodes))

LEMMA CountsTyped ==
  ASSUME NEW q, NEW a, ApiOK(a, Len(q)), OnTrack(a, q), DbOK(q)
  PROVE  /\ NodesSent(a) \in 0..Len(q) /\ ChannelsSent(a) \in Nat /\ ConfigsSent(a) \in Nat
         /\ ModulesSent(a) \in Nat /\ FilesSent(a) \in Nat
<1>1. {MAX_NUM_CHANNELS, NumConfigs, NumModules} \subseteq Nat /\ NumFiles \in Nat
  BY PhoneAssumption DEF PhoneAssumption
<1>2. /\ a.idx \in 0..Len(q) /\ Len(a.ahead) \in Nat /\ Len(q) \in Nat /\ a.cs \in Nat
      /\ Len(a.ahead) <= a.idx
  BY DEF ApiOK, OnTrack, Window, DbOK
<1>3. NodesSent(a) \in 0..Len(q)
  BY <1>2 DEF NodesSent
<1>4. ChannelsSent(a) \in Nat
  BY <1>1, <1>2 DEF ChannelsSent
<1>5. ConfigsSent(a) \in Nat
  BY <1>1, <1>2 DEF ConfigsSent, OnTrack
<1>6. ModulesSent(a) \in Nat
  BY <1>1, <1>2 DEF ModulesSent, OnTrack
<1>7. FilesSent(a) \in Nat
  BY <1>2 DEF FilesSent
<1> QED BY <1>3, <1>4, <1>5, <1>6, <1>7

LEMMA NodeSent ==
  ASSUME NEW q, DbOK(q), NEW a, NEW b, b.want = a.want,
         NodesSent(a) \in Nat, NodesSent(a) < Len(q), NodesSent(b) = NodesSent(a) + 1,
         a.want # "nodes" =>
           /\ ChannelsSent(b) = ChannelsSent(a) /\ ConfigsSent(b) = ConfigsSent(a)
           /\ ModulesSent(b) = ModulesSent(a) /\ FilesSent(b) = FilesSent(a)
  PROVE  LET r == Rec("node", q[NodesSent(a) + 1]) IN
         Sent(b, q) = Sent(a, q) \cup {r} /\ r \notin Sent(a, q)
<1> DEFINE n == NodesSent(a)
           r == Rec("node", q[n + 1])
           o == IF a.want = "nodes" THEN {}
                ELSE OtherRecs(ChannelsSent(a), ConfigsSent(a), ModulesSent(a), FilesSent(a))
<1>1. NodeRecs(q, n + 1) = NodeRecs(q, n) \cup {r} /\ r \notin NodeRecs(q, n)
  BY OneMoreNode
<1>2. r \notin o
  BY KindsApart DEF Rec
<1>3. Sent(a, q) = NodeRecs(q, n) \cup o
  BY DEF Sent
<1>4. Sent(b, q) = NodeRecs(q, n + 1) \cup o
  BY DEF Sent
<1> QED BY <1>1, <1>2, <1>3, <1>4

LEMMA OtherSent ==
  ASSUME NEW q, NEW a, NEW b, a.want # "nodes", b.want = a.want, NodesSent(b) = NodesSent(a),
         ChannelsSent(a) \in Nat, ConfigsSent(a) \in Nat, ModulesSent(a) \in Nat,
         FilesSent(a) \in Nat, NEW r,
         OneMore(ChannelsSent(a), ConfigsSent(a), ModulesSent(a), FilesSent(a),
                 ChannelsSent(b), ConfigsSent(b), ModulesSent(b), FilesSent(b), r)
  PROVE  Sent(b, q) = Sent(a, q) \cup {r} /\ r \notin Sent(a, q)
<1> DEFINE o == OtherRecs(ChannelsSent(a), ConfigsSent(a), ModulesSent(a), FilesSent(a))
           p == OtherRecs(ChannelsSent(b), ConfigsSent(b), ModulesSent(b), FilesSent(b))
           nodes == NodeRecs(q, NodesSent(a))
<1>1. p = o \cup {r} /\ r \notin o
  BY OneMoreOther
<1>2. r \notin nodes
  <2>1. r[1] \in {"channel", "config", "module", "file"}
    BY DEF OneMore, Rec
  <2> QED BY <2>1, KindsApart
<1>3. Sent(a, q) = nodes \cup o
  BY DEF Sent
<1>4. Sent(b, q) = nodes \cup p
  BY DEF Sent
<1> HIDE DEF o, p, nodes
<1> QED BY <1>1, <1>2, <1>3, <1>4

(* A record that is not counted.                                            *)
LEMMA NothingSent ==
  ASSUME NEW q, NEW a, NEW b, NEW r, b.want = a.want, NodesSent(b) = NodesSent(a),
         a.want # "nodes" =>
           /\ ChannelsSent(b) = ChannelsSent(a) /\ ConfigsSent(b) = ConfigsSent(a)
           /\ ModulesSent(b) = ModulesSent(a) /\ FilesSent(b) = FilesSent(a)
  PROVE  Sent(b, q) = Sent(a, q)
  BY DEF Sent

LEMMA SentIsCounted ==
  ASSUME NEW q, NEW a, NEW r \in Sent(a, q)
  PROVE  Counted(r)
<1>1. r \in NodeRecs(q, NodesSent(a)) \/
      r \in OtherRecs(ChannelsSent(a), ConfigsSent(a), ModulesSent(a), FilesSent(a))
  BY DEF Sent
<1> QED BY <1>1, KindsApart DEF Counted

(* The states that send one record and go on to the next state.             *)
LEMMA StraightStep ==
  ASSUME DbOK(meshNodes), NEW a, ApiOK(a, Len(meshNodes)),
         a.state \in {"MY_INFO", "UIDATA", "METADATA"}
  PROVE  Does(a, ConfigStep(a)[1], ConfigStep(a)[2])
<1> DEFINE b == ConfigStep(a)[1]
           r == ConfigStep(a)[2]
<1>1. /\ DOMAIN b = Fields /\ b.cs = a.cs /\ b.want = a.want /\ b.idx = a.idx
      /\ b.ahead = a.ahead /\ b.files = a.files
      /\ \/ a.state = "MY_INFO" /\ b.state = "UIDATA" /\ r = Rec("my_info", 0)
         \/ a.state = "UIDATA" /\ b.state = "OWN_NODEINFO" /\ r = Rec("uidata", 0)
         \/ a.state = "METADATA" /\ b.state = "CHANNELS" /\ r = Rec("metadata", 0)
  BY DEF ConfigStep, ApiOK, Fields
<1> HIDE DEF b, r
<1>2. ApiOK(b, Len(meshNodes))
  BY <1>1 DEF ApiOK, Starting, Configuring, Middle
<1>3. Emits(a, b, r)
  BY <1>1, <1>2 DEF Emits, Configuring, Starting, Middle, Order, Level, Rank, Rec
<1>4. ASSUME OnTrack(a, meshNodes) PROVE Advances(a, b, r, meshNodes)
  <2>1. {MAX_NUM_CHANNELS, NumConfigs, NumModules} \subseteq Nat \ {0}
    BY PhoneAssumption DEF PhoneAssumption
  <2>2. OnTrack(b, meshNodes)
    <3>1. a.idx = 0 \/ a.state = "METADATA"
      BY <1>1 DEF ApiOK, Starting
    <3>2. Window(b, meshNodes)
      BY <1>1, <1>4 DEF OnTrack, Window
    <3> QED BY <1>1, <1>4, <2>1, <3>2 DEF OnTrack, Starting, Middle
  <2>3. Sent(b, meshNodes) = Sent(a, meshNodes)
    BY <1>1, <1>4 DEF Sent, NodesSent, ChannelsSent, ConfigsSent, ModulesSent, FilesSent,
                      Starting, OnTrack
  <2>4. ~Counted(r) /\ r[1] # "complete" /\ b.state # "PACKETS"
    BY <1>1 DEF Counted, Rec
  <2> QED BY <2>2, <2>3, <2>4, SentIsCounted DEF Advances
<1> QED BY <1>3, <1>4 DEF Does, b, r

(* The node's own record: the first of the database.                        *)
LEMMA OwnStep ==
  ASSUME DbOK(meshNodes), NEW a, ApiOK(a, Len(meshNodes)), a.state = "OWN_NODEINFO"
  PROVE  Does(a, ConfigStep(a)[1], ConfigStep(a)[2])
<1> DEFINE b == ConfigStep(a)[1]
           r == ConfigStep(a)[2]
<1>0. /\ a.idx = 0 /\ a.ahead = <<>>
      /\ Len(meshNodes) \in Nat /\ Len(meshNodes) > 0 /\ meshNodes[1] = Self
  BY DEF ApiOK, DbOK, Starting
<1>1. /\ DOMAIN b = Fields /\ b.cs = a.cs /\ b.want = a.want /\ b.idx = 1
      /\ b.ahead = a.ahead /\ b.files = a.files /\ r = Rec("node", Self)
      /\ b.state = IF a.want = "nodes" THEN "OTHER_NODEINFOS" ELSE "METADATA"
  <2> DEFINE next == IF a.want = "nodes" THEN "OTHER_NODEINFOS" ELSE "METADATA"
  <2>1. ConfigStep(a) = <<[a EXCEPT !.state = next, !.idx = a.idx + 1],
                          Rec("node", meshNodes[a.idx + 1])>>
    BY DEF ConfigStep
  <2>2. a.idx + 1 = 1 /\ meshNodes[a.idx + 1] = Self
    BY <1>0
  <2>3. r = Rec("node", Self)
    BY <2>1, <2>2
  <2>4. DOMAIN a = Fields
    BY DEF ApiOK
  <2>5. /\ DOMAIN b = Fields /\ b.cs = a.cs /\ b.want = a.want /\ b.idx = a.idx + 1
        /\ b.ahead = a.ahead /\ b.files = a.files /\ b.state = next
    <3> HIDE DEF next
    <3>1. b = [a EXCEPT !.state = next, !.idx = a.idx + 1]
      BY <2>1
    <3> HIDE DEF b
    <3> QED BY <2>4, <3>1 DEF Fields
  <2> QED BY <2>2, <2>3, <2>5
<1> HIDE DEF b, r
<1>2. ApiOK(b, Len(meshNodes))
  BY <1>0, <1>1 DEF ApiOK, Starting, Configuring, Middle
<1>3. Emits(a, b, r)
  BY <1>1, <1>2 DEF Emits, Configuring, Starting, Middle, Order, Level, Own, Rec
<1>4. ASSUME OnTrack(a, meshNodes) PROVE Advances(a, b, r, meshNodes)
  <2>1. OnTrack(b, meshNodes)
    <3>1. Window(b, meshNodes)
      BY <1>0, <1>1 DEF Window
    <3> QED BY <1>0, <1>1, <1>4, <3>1 DEF OnTrack, Starting, Middle
  <2>2. NodesSent(a) = 0 /\ NodesSent(b) = 1
    <3>1. Len(a.ahead) = 0 /\ Len(b.ahead) = 0
      BY <1>0, <1>1
    <3>2. a.idx = 0 /\ b.idx = 1
      BY <1>0, <1>1
    <3> QED BY <3>1, <3>2 DEF NodesSent
  <2>3. a.want # "nodes" =>
          /\ ChannelsSent(b) = ChannelsSent(a) /\ ConfigsSent(b) = ConfigsSent(a)
          /\ ModulesSent(b) = ModulesSent(a) /\ FilesSent(b) = FilesSent(a)
    BY <1>1 DEF ChannelsSent, ConfigsSent, ModulesSent, FilesSent, Starting
  <2>4. r = Rec("node", meshNodes[NodesSent(a) + 1])
    BY <1>0, <1>1, <2>2
  <2>5. Sent(b, meshNodes) = Sent(a, meshNodes) \cup {r} /\ r \notin Sent(a, meshNodes)
    BY <1>0, <1>1, <2>2, <2>3, <2>4, NodeSent
  <2>6. Counted(r) /\ r[1] # "complete" /\ b.state # "PACKETS"
    BY <1>1 DEF Counted, Rec
  <2> QED BY <2>1, <2>5, <2>6 DEF Advances
<1> QED BY <1>3, <1>4 DEF Does, b, r

(* The states that send their records one by one.                           *)
LEMMA CountStep ==
  ASSUME DbOK(meshNodes), NEW a, ApiOK(a, Len(meshNodes)),
         a.state \in {"CHANNELS", "CONFIG", "MODULECONFIG"}
  PROVE  Does(a, ConfigStep(a)[1], ConfigStep(a)[2])
<1> DEFINE b == ConfigStep(a)[1]
           r == ConfigStep(a)[2]
           turn(last, next, first) ==
             /\ b.cs = IF a.cs + 1 > last THEN first ELSE a.cs + 1
             /\ b.state = IF a.cs + 1 > last THEN next ELSE a.state
<1>0. {MAX_NUM_CHANNELS, NumConfigs, NumModules} \subseteq Nat \ {0}
  BY PhoneAssumption DEF PhoneAssumption
<1>1. /\ DOMAIN b = Fields /\ b.want = a.want /\ b.idx = a.idx
      /\ b.ahead = a.ahead /\ b.files = a.files
      /\ \/ /\ a.state = "CHANNELS" /\ r = Rec("channel", a.cs)
            /\ turn(MAX_NUM_CHANNELS - 1, "CONFIG", 1)
         \/ /\ a.state = "CONFIG" /\ r = Rec("config", a.cs)
            /\ turn(NumConfigs, "MODULECONFIG", 1)
         \/ /\ a.state = "MODULECONFIG" /\ r = Rec("module", a.cs)
            /\ turn(NumModules, IF a.want = "config" THEN "FILEMANIFEST" ELSE "OTHER_NODEINFOS", 0)
  <2>1. CASE a.state = "CHANNELS"
    BY <2>1 DEF ConfigStep, Count, ApiOK, Fields
  <2>2. CASE a.state = "CONFIG"
    BY <2>2 DEF ConfigStep, Count, ApiOK, Fields
  <2>3. CASE a.state = "MODULECONFIG"
    BY <2>3 DEF ConfigStep, Count, ApiOK, Fields
  <2> QED BY <2>1, <2>2, <2>3
<1> HIDE DEF b, r
<1>2. a.cs \in Nat /\ a.files \in 0..NumFiles /\ NumFiles \in Nat
  BY PhoneAssumption DEF ApiOK, PhoneAssumption
<1>3. ApiOK(b, Len(meshNodes))
  <2>1. b.cs \in Nat /\ b.state \in Middle \cup {"FILEMANIFEST", "OTHER_NODEINFOS"}
    BY <1>0, <1>1, <1>2 DEF Middle
  <2>2. b.state \in {"FILEMANIFEST", "OTHER_NODEINFOS"} => b.cs = 0
    BY <1>1
  <2> QED BY <1>1, <1>2, <2>1, <2>2 DEF ApiOK, Starting, Configuring, Middle
<1>4. Emits(a, b, r)
  BY <1>1, <1>3 DEF Emits, Configuring, Starting, Middle, Order, Level, Rank, Rec
<1>5. ASSUME OnTrack(a, meshNodes) PROVE Advances(a, b, r, meshNodes)
  <2>1. /\ a.idx = 1 /\ a.ahead = <<>> /\ Len(a.ahead) = 0 /\ a.want # "nodes"
        /\ a.state = "CHANNELS" => a.cs < MAX_NUM_CHANNELS
        /\ a.state = "CONFIG" => a.cs \in 1..NumConfigs
        /\ a.state = "MODULECONFIG" => a.cs \in 1..NumModules
    BY <1>1, <1>5 DEF OnTrack, Middle
  <2>2. OnTrack(b, meshNodes)
    <3>1. Window(b, meshNodes)
      BY <1>1, <1>5 DEF OnTrack, Window
    <3>2. a.want # "none" /\ a.files = NumFiles
      BY <1>5 DEF OnTrack
    <3>3. CASE a.state = "CHANNELS"
      BY <1>0, <1>1, <1>2, <2>1, <3>1, <3>2, <3>3 DEF OnTrack, Starting, Middle
    <3>4. CASE a.state = "CONFIG"
      BY <1>0, <1>1, <1>2, <2>1, <3>1, <3>2, <3>4 DEF OnTrack, Starting, Middle
    <3>5. CASE a.state = "MODULECONFIG"
      BY <1>0, <1>1, <1>2, <2>1, <3>1, <3>2, <3>5 DEF OnTrack, Starting, Middle
    <3> QED BY <1>1, <3>3, <3>4, <3>5
  <2>3. NodesSent(b) = NodesSent(a)
    BY <1>1 DEF NodesSent
  <2>4. OneMore(ChannelsSent(a), ConfigsSent(a), ModulesSent(a), FilesSent(a),
                ChannelsSent(b), ConfigsSent(b), ModulesSent(b), FilesSent(b), r)
    <3>1. CASE a.state = "CHANNELS"
      BY <1>0, <1>1, <1>2, <2>1, <3>1
         DEF OneMore, ChannelsSent, ConfigsSent, ModulesSent, FilesSent, Starting
    <3>2. CASE a.state = "CONFIG"
      BY <1>0, <1>1, <1>2, <2>1, <3>2
         DEF OneMore, ChannelsSent, ConfigsSent, ModulesSent, FilesSent, Starting
    <3>3. CASE a.state = "MODULECONFIG"
      BY <1>0, <1>1, <1>2, <2>1, <3>3
         DEF OneMore, ChannelsSent, ConfigsSent, ModulesSent, FilesSent, Starting
    <3> QED BY <1>1, <3>1, <3>2, <3>3
  <2>5. Sent(b, meshNodes) = Sent(a, meshNodes) \cup {r} /\ r \notin Sent(a, meshNodes)
    BY <1>1, <1>5, <2>1, <2>3, <2>4, OtherSent, CountsTyped
  <2>6. Counted(r) /\ r[1] # "complete" /\ b.state # "PACKETS"
    BY <1>1 DEF Counted, Rec
  <2> QED BY <2>2, <2>5, <2>6 DEF Advances
<1> QED BY <1>4, <1>5 DEF Does, b, r

(* The manifest: one file more, or the end.                                 *)
LEMMA ManifestStep ==
  ASSUME DbOK(meshNodes), NEW a, ApiOK(a, Len(meshNodes)), a.state = "FILEMANIFEST"
  PROVE  Does(a, Manifest(a)[1], Manifest(a)[2])
<1> DEFINE b == Manifest(a)[1]
           r == Manifest(a)[2]
           q == meshNodes
           last == a.cs = a.files \/ a.want = "nodes"
<1>0. /\ a.cs \in Nat /\ a.files \in 0..NumFiles /\ NumFiles \in Nat /\ DOMAIN a = Fields
      /\ Len(q) \in Nat /\ Len(q) > 0 /\ q[1] = Self
  BY PhoneAssumption DEF ApiOK, PhoneAssumption, DbOK
<1>1. CASE last
  <2>1. /\ DOMAIN b = Fields /\ b.state = "PACKETS" /\ b.want = "none" /\ b.cs = 0
        /\ b.files = 0 /\ b.idx = a.idx /\ b.ahead = a.ahead /\ r = Rec("complete", a.want)
    BY <1>0, <1>1 DEF Manifest, SendConfigComplete, Fields
  <2> HIDE DEF b, r
  <2>2. ApiOK(b, Len(q))
    BY <1>0, <2>1 DEF ApiOK, Starting, Configuring, Middle
  <2>3. Emits(a, b, r)
    BY <2>1, <2>2 DEF Emits, Order, Level, Rank, Rec
  <2>4. ASSUME OnTrack(a, q) PROVE Advances(a, b, r, q)
    <3>1. /\ a.ahead = <<>> /\ a.idx = IF a.want = "config" THEN 1 ELSE Len(q)
          /\ a.files = NumFiles /\ a.want # "none"
      BY <2>4 DEF OnTrack
    <3>2. NodesSent(a) = a.idx
      <4>1. Len(a.ahead) = 0 /\ a.idx \in Nat
        BY <1>0, <3>1
      <4> QED BY <4>1 DEF NodesSent
    <3>3. Rec("node", Self) \in NodeRecs(q, NodesSent(a))
      <4>1. 1 \in 1..a.idx
        BY <1>0, <3>1
      <4> QED BY <1>0, <3>2, <4>1 DEF NodeRecs
    <3>4. ASSUME a.want # "config", NEW n \in Others
          PROVE  Rec("node", n) \in NodeRecs(q, NodesSent(a))
      <4>1. NodesSent(a) = Len(q) /\ n \in Nodes
        BY <3>1, <3>2, <3>4 DEF Nodes
      <4> QED BY <4>1, AllNodesSent
    <3>5. a.want # "nodes" =>
            OtherRecs(MAX_NUM_CHANNELS, NumConfigs, NumModules, NumFiles) \subseteq Sent(a, q)
      <4>1. /\ ChannelsSent(a) = MAX_NUM_CHANNELS /\ ConfigsSent(a) = NumConfigs
            /\ ModulesSent(a) = NumModules /\ FilesSent(a) = a.cs
        BY DEF ChannelsSent, ConfigsSent, ModulesSent, FilesSent, Starting
      <4>2. a.want # "nodes" => a.cs = NumFiles
        BY <1>1, <3>1
      <4> QED BY <4>1, <4>2 DEF Sent
    <3>6. NodeRecs(q, NodesSent(a)) \subseteq Sent(a, q)
      BY DEF Sent
    <3>7. Wanted(a.want) \subseteq Sent(a, q)
      <4> SUFFICES ASSUME NEW w \in Wanted(a.want) PROVE w \in Sent(a, q)
        OBVIOUS
      <4>1. CASE w = Rec("node", Self)
        BY <3>3, <3>6, <4>1
      <4>2. CASE a.want # "config" /\ w \in {Rec("node", n) : n \in Others}
        BY <3>4, <3>6, <4>2
      <4>3. CASE a.want # "nodes" /\ w \in OtherRecs(MAX_NUM_CHANNELS, NumConfigs, NumModules, NumFiles)
        BY <3>5, <4>3
      <4> QED BY <4>1, <4>2, <4>3 DEF Wanted, OtherRecs
    <3> QED BY <2>1, <3>7 DEF Advances
  <2> QED BY <2>3, <2>4 DEF Does, b, r
<1>2. CASE ~last
  <2>1. /\ DOMAIN b = Fields /\ b.state = a.state /\ b.want = a.want /\ b.cs = a.cs + 1
        /\ b.files = a.files /\ b.idx = a.idx /\ b.ahead = a.ahead /\ r = Rec("file", a.cs)
    BY <1>0, <1>2 DEF Manifest, Fields
  <2>2. a.want # "nodes" /\ a.cs < a.files
    BY <1>0, <1>2 DEF ApiOK
  <2> HIDE DEF b, r
  <2>3. ApiOK(b, Len(q))
    BY <1>0, <2>1, <2>2 DEF ApiOK, Starting, Configuring, Middle
  <2>4. Emits(a, b, r)
    BY <2>1, <2>3 DEF Emits, Configuring, Order, Level, Rank, Rec
  <2>5. ASSUME OnTrack(a, q) PROVE Advances(a, b, r, q)
    <3>1. OnTrack(b, q)
      <4>1. Window(b, q)
        BY <2>1, <2>5 DEF OnTrack, Window
      <4>2. /\ a.want # "none" /\ a.files = NumFiles /\ a.ahead = <<>>
            /\ a.idx = IF a.want = "config" THEN 1 ELSE Len(q)
        BY <2>5 DEF OnTrack
      <4> QED BY <1>0, <2>1, <2>2, <4>1, <4>2 DEF OnTrack, Starting, Middle
    <3>2. NodesSent(b) = NodesSent(a)
      BY <2>1 DEF NodesSent
    <3>3. OneMore(ChannelsSent(a), ConfigsSent(a), ModulesSent(a), FilesSent(a),
                  ChannelsSent(b), ConfigsSent(b), ModulesSent(b), FilesSent(b), r)
      BY <2>1 DEF OneMore, ChannelsSent, ConfigsSent, ModulesSent, FilesSent, Starting
    <3>4. Sent(b, q) = Sent(a, q) \cup {r} /\ r \notin Sent(a, q)
      <4>1. /\ ChannelsSent(a) \in Nat /\ ConfigsSent(a) \in Nat /\ ModulesSent(a) \in Nat
            /\ FilesSent(a) \in Nat
        BY <2>5, CountsTyped
      <4>2. a.want # "nodes" /\ b.want = a.want
        BY <2>1, <2>2
      <4> HIDE DEF q
      <4> QED BY <3>2, <3>3, <4>1, <4>2, OtherSent
    <3>5. Counted(r) /\ r[1] # "complete" /\ b.state # "PACKETS"
      BY <2>1 DEF Counted, Rec
    <3> QED BY <3>1, <3>4, <3>5 DEF Advances
  <2> QED BY <2>4, <2>5 DEF Does, b, r
<1> QED BY <1>1, <1>2

(* The nodes: the next of the window, or the manifest when none is left.    *)
LEMMA NodeInfosStep ==
  ASSUME DbOK(meshNodes), NEW a0, ApiOK(a0, Len(meshNodes)), a0.state = "OTHER_NODEINFOS"
  PROVE  Does(a0, NodeInfos(a0)[1], NodeInfos(a0)[2])
<1> DEFINE q == meshNodes
           a == IF a0.ahead = <<>> THEN Prefetch(a0) ELSE a0
           b == NodeInfos(a0)[1]
           r == NodeInfos(a0)[2]
<1>1. /\ ApiOK(a, Len(q)) /\ a.state = "OTHER_NODEINFOS" /\ a.cs = a0.cs /\ a.want = a0.want
      /\ a.files = a0.files /\ NodesSent(a) = NodesSent(a0)
      /\ Window(a0, q) => Window(a, q)
      /\ a.ahead = <<>> => a.idx = Len(q)
  <2>1. a0.state \notin Starting
    BY DEF Starting
  <2>2. CASE a0.ahead = <<>>
    BY <2>1, <2>2, PrefetchKeeps
  <2>3. CASE a0.ahead # <<>>
    BY <2>3
  <2> QED BY <2>2, <2>3
<1>2. /\ NodeInfos(a0) = IF a.ahead = <<>> THEN Manifest([a EXCEPT !.state = "FILEMANIFEST"])
                         ELSE <<Prefetch([a EXCEPT !.ahead = Tail(a.ahead)]),
                                Rec("node", Head(a.ahead))>>
  BY DEF NodeInfos
<1>3. OnTrack(a0, q) => /\ Window(a, q) /\ a.want \notin {"none", "config"} /\ a.cs = 0
                        /\ a.files = NumFiles /\ Len(a.ahead) < a.idx
  <2>1. a0.idx \in Nat /\ Len(a0.ahead) \in Nat /\ a.idx \in Nat /\ Len(a.ahead) \in Nat
    BY <1>1 DEF ApiOK, DbOK
  <2> HIDE DEF a
  <2> QED BY <1>1, <2>1 DEF OnTrack, NodesSent
<1> HIDE DEF a
<1>4. CASE a.ahead = <<>>
  <2> DEFINE m == [a EXCEPT !.state = "FILEMANIFEST"]
  <2>1. /\ DOMAIN m = Fields /\ m.state = "FILEMANIFEST" /\ m.cs = a.cs /\ m.want = a.want
        /\ m.files = a.files /\ m.idx = a.idx /\ m.ahead = a.ahead
    BY <1>1 DEF ApiOK, Fields
  <2> HIDE DEF m
  <2>2. ApiOK(m, Len(q))
    BY <1>1, <2>1 DEF ApiOK, Starting, Configuring, Middle
  <2>3. Does(m, Manifest(m)[1], Manifest(m)[2])
    BY <2>1, <2>2, ManifestStep
  <2>4. b = Manifest(m)[1] /\ r = Manifest(m)[2]
    BY <1>2, <1>4 DEF m
  <2> HIDE DEF b, r
  <2>5. Emits(m, b, r) /\ (OnTrack(m, q) => Advances(m, b, r, q))
    BY <2>3, <2>4 DEF Does
  <2>6. Emits(a0, b, r)
    BY <2>1, <2>5 DEF Emits, Level, Configuring, Starting, Middle, Order, Rank
  <2>7. ASSUME OnTrack(a0, q) PROVE Advances(a0, b, r, q)
    <3>1. OnTrack(m, q)
      <4>1. Window(m, q)
        BY <1>3, <2>1, <2>7 DEF Window
      <4>2. NumFiles \in Nat
        BY PhoneAssumption DEF PhoneAssumption
      <4> QED BY <1>1, <1>3, <1>4, <2>1, <2>7, <4>1, <4>2 DEF OnTrack, Starting, Middle
    <3>2. Sent(m, q) = Sent(a0, q)
      <4>1. NodesSent(m) = NodesSent(a0)
        BY <1>1, <2>1 DEF NodesSent
      <4>2. /\ ChannelsSent(m) = ChannelsSent(a0) /\ ConfigsSent(m) = ConfigsSent(a0)
            /\ ModulesSent(m) = ModulesSent(a0) /\ FilesSent(m) = FilesSent(a0)
        BY <1>1, <1>3, <2>1, <2>7
           DEF ChannelsSent, ConfigsSent, ModulesSent, FilesSent, Starting
      <4> QED BY <1>1, <2>1, <4>1, <4>2 DEF Sent
    <3> QED BY <1>1, <2>1, <2>5, <3>1, <3>2 DEF Advances
  <2> QED BY <2>6, <2>7 DEF Does, b, r
<1>5. CASE a.ahead # <<>>
  <2> DEFINE m == [a EXCEPT !.ahead = Tail(a.ahead)]
             n == NodesSent(a)
  <2>0. /\ DOMAIN a = Fields /\ a.ahead \in Seq(Nodes) /\ a.idx \in 0..Len(q) /\ Len(q) \in Nat
        /\ kNodePrefetchDepth \in Nat /\ Len(a.ahead) <= kNodePrefetchDepth
    BY <1>1, PhoneAssumption DEF ApiOK, DbOK, PhoneAssumption
  <2>1. /\ DOMAIN m = Fields /\ m.state = a.state /\ m.cs = a.cs /\ m.want = a.want
        /\ m.files = a.files /\ m.idx = a.idx /\ m.ahead = Tail(a.ahead)
    BY <2>0 DEF Fields
  <2>2. b = Prefetch(m) /\ r = Rec("node", Head(a.ahead))
    BY <1>2, <1>5
  <2> HIDE DEF b, r, m
  <2>3. /\ Len(a.ahead) \in Nat \ {0} /\ Len(m.ahead) = Len(a.ahead) - 1
        /\ m.ahead \in Seq(Nodes)
        /\ \A i \in 1..Len(m.ahead) : m.ahead[i] = a.ahead[i + 1]
    BY <1>5, <2>0, <2>1, HeadTailProperties, EmptySeq
  <2>4. ApiOK(m, Len(q)) /\ m.state \notin Starting
    BY <1>1, <2>0, <2>1, <2>3 DEF ApiOK, Starting, Configuring, Middle
  <2>5. /\ ApiOK(b, Len(q)) /\ b.state = "OTHER_NODEINFOS" /\ b.cs = a.cs /\ b.want = a.want
        /\ b.files = a.files /\ NodesSent(b) = NodesSent(m)
        /\ Window(m, q) => Window(b, q)
    BY <1>1, <2>1, <2>2, <2>4, PrefetchKeeps
  <2>6. NodesSent(m) = n + 1
    BY <2>0, <2>1, <2>3 DEF NodesSent
  <2>7. Emits(a0, b, r)
    BY <2>2, <2>5 DEF Emits, Level, Configuring, Order, Rank, Rec
  <2>8. ASSUME OnTrack(a0, q) PROVE Advances(a0, b, r, q)
    <3>1. /\ Len(a.ahead) <= a.idx
          /\ \A j \in 1..Len(a.ahead) : a.ahead[j] = q[a.idx - Len(a.ahead) + j]
      BY <1>3, <2>0, <2>8 DEF Window
    <3>2. n = a.idx - Len(a.ahead) /\ n \in Nat /\ n > 0 /\ n < Len(q)
      BY <1>3, <2>0, <2>3, <2>8 DEF NodesSent
    <3>3. Head(a.ahead) = q[n + 1]
      BY <2>0, <2>3, <3>1, <3>2
    <3>4. Window(m, q)
      <4>1. DOMAIN m.ahead = 1..Len(m.ahead)
        BY <2>3
      <4>2. ASSUME NEW j \in 1..Len(m.ahead) PROVE m.ahead[j] = q[m.idx - Len(m.ahead) + j]
        <5>1. j + 1 \in 1..Len(a.ahead) /\ m.idx - Len(m.ahead) + j = a.idx - Len(a.ahead) + (j + 1)
          BY <2>0, <2>1, <2>3
        <5> QED BY <2>3, <3>1, <5>1
      <4>3. Len(m.ahead) <= m.idx
        BY <2>0, <2>1, <2>3, <3>1
      <4> QED BY <4>1, <4>2, <4>3 DEF Window
    <3>5. OnTrack(b, q)
      <4>1. b.idx \in Nat /\ Len(b.ahead) \in Nat
        BY <2>0, <2>5 DEF ApiOK
      <4>2. Len(b.ahead) < b.idx
        BY <2>5, <2>6, <3>2, <4>1 DEF NodesSent
      <4> QED BY <1>3, <2>5, <2>8, <3>4, <4>2 DEF OnTrack, Starting, Middle
    <3>6. Sent(b, q) = Sent(a0, q) \cup {r} /\ r \notin Sent(a0, q)
      <4>1. /\ ChannelsSent(b) = ChannelsSent(a0) /\ ConfigsSent(b) = ConfigsSent(a0)
            /\ ModulesSent(b) = ModulesSent(a0) /\ FilesSent(b) = FilesSent(a0)
        BY <2>5 DEF ChannelsSent, ConfigsSent, ModulesSent, FilesSent, Starting
      <4>2. r = Rec("node", q[NodesSent(a0) + 1])
        BY <1>1, <2>2, <3>3
      <4>3. /\ NodesSent(a0) \in Nat /\ NodesSent(a0) < Len(q)
            /\ NodesSent(b) = NodesSent(a0) + 1 /\ b.want = a0.want
        BY <1>1, <2>5, <2>6, <3>2
      <4> QED BY <4>1, <4>2, <4>3, NodeSent
    <3>7. Counted(r) /\ r[1] # "complete" /\ b.state # "PACKETS"
      BY <2>2, <2>5 DEF Counted, Rec
    <3> QED BY <3>5, <3>6, <3>7 DEF Advances
  <2> QED BY <2>7, <2>8 DEF Does, b, r
<1> QED BY <1>4, <1>5

(* getFromRadio, whatever the state.                                        *)
LEMMA ConfigStepDoes ==
  ASSUME DbOK(meshNodes), NEW a, ApiOK(a, Len(meshNodes)), a.state \in Configuring
  PROVE  Does(a, ConfigStep(a)[1], ConfigStep(a)[2])
<1>1. CASE a.state \in {"MY_INFO", "UIDATA", "METADATA"}
  BY <1>1, StraightStep
<1>2. CASE a.state = "OWN_NODEINFO"
  BY <1>2, OwnStep
<1>3. CASE a.state \in {"CHANNELS", "CONFIG", "MODULECONFIG"}
  BY <1>3, CountStep
<1>4. CASE a.state = "OTHER_NODEINFOS"
  <2>1. ConfigStep(a) = NodeInfos(a)
    BY <1>4 DEF ConfigStep
  <2> QED BY <1>4, <2>1, NodeInfosStep
<1>5. CASE a.state = "FILEMANIFEST"
  <2>1. ConfigStep(a) = Manifest(a)
    BY <1>5 DEF ConfigStep
  <2> QED BY <1>5, <2>1, ManifestStep
<1> QED BY <1>1, <1>2, <1>3, <1>4, <1>5 DEF Configuring, Starting, Middle
-----------------------------------------------------------------------------
(* The history of a client.                                                 *)

(* A record between the levels goes to the end of the sequence.             *)
LEMMA OrderKept ==
  ASSUME NEW g, g \in Seq(Range(g)), NEW s, NEW s2, SentInOrder(g, s), NEW r,
         r[1] \in DOMAIN Order, Level(s) \in Nat, Level(s2) \in Nat, Level(s) <= Level(s2),
         Own(r) \/ (Level(s) <= Rank(r) /\ Rank(r) <= Level(s2))
  PROVE  SentInOrder(Append(g, r), s2)
<1> DEFINE h == Append(g, r)
<1>1. /\ Len(g) \in Nat /\ DOMAIN g = 1..Len(g) /\ DOMAIN h = 1..Len(g) + 1
      /\ \A i \in 1..Len(g) : h[i] = g[i]
      /\ h[Len(g) + 1] = r
  BY AppendFacts
<1> HIDE DEF h
<1>2. \A x : x[1] \in DOMAIN Order => Rank(x) \in Nat
  BY DEF Rank, Order
<1>3. ASSUME NEW i \in 1..Len(g)
      PROVE  g[i][1] \in DOMAIN Order /\ (~Own(g[i]) => Rank(g[i]) <= Level(s))
  BY <1>1 DEF SentInOrder
<1>4. ASSUME NEW i \in DOMAIN h
      PROVE  h[i][1] \in DOMAIN Order /\ (~Own(h[i]) => Rank(h[i]) <= Level(s2))
  <2>1. CASE i = Len(g) + 1
    BY <1>1, <2>1
  <2>2. CASE i \in 1..Len(g)
    <3>1. h[i] = g[i] /\ Rank(g[i]) \in Nat
      BY <1>1, <1>2, <1>3, <2>2
    <3>2. ~Own(g[i]) => Rank(g[i]) <= Level(s2)
      BY <1>3, <2>2, <3>1
    <3> QED BY <1>3, <2>2, <3>1, <3>2
  <2> QED BY <1>1, <2>1, <2>2
<1>5. ASSUME NEW i \in DOMAIN h, NEW j \in DOMAIN h, i < j, ~Own(h[i]), ~Own(h[j])
      PROVE  Rank(h[i]) <= Rank(h[j])
  <2>1. i \in 1..Len(g) /\ h[i] = g[i]
    BY <1>1, <1>5
  <2>2. CASE j \in 1..Len(g)
    BY <1>1, <1>5, <2>1, <2>2 DEF SentInOrder, Ordered
  <2>3. CASE j = Len(g) + 1
    <3>1. Rank(g[i]) <= Level(s) /\ Level(s) <= Rank(r) /\ Rank(g[i]) \in Nat /\ Rank(r) \in Nat
      BY <1>1, <1>2, <1>3, <1>5, <2>1, <2>3
    <3> QED BY <1>1, <2>1, <2>3, <3>1
  <2> QED BY <1>1, <2>2, <2>3
<1> QED BY <1>4, <1>5 DEF SentInOrder, Ordered, h

(* A record of the configuration goes to a download.                        *)
LEMMA DownloadGoesOn ==
  ASSUME NEW q, NEW a, NEW g, g \in Seq(Range(g)), Downloads(a, g, q), a.state \in Configuring,
         NEW b, NEW r, b.state \in Configuring \cup {"PACKETS"}, Advances(a, b, r, q)
  PROVE  Downloads(b, Append(g, r), q)
<1> DEFINE h == Append(g, r)
<1>1. /\ Len(g) \in Nat /\ DOMAIN g = 1..Len(g) /\ DOMAIN h = 1..Len(g) + 1
      /\ \A i \in 1..Len(g) : h[i] = g[i]
      /\ h[Len(g) + 1] = r /\ Range(h) = Range(g) \cup {r}
  BY AppendFacts
<1> HIDE DEF h
<1>2. /\ {x \in Range(g) : Counted(x)} = Sent(a, q)
      /\ \A i \in 1..Len(g) : g[i][1] # "complete"
      /\ \A i, j \in 1..Len(g) : g[i] = g[j] /\ Counted(g[i]) => i = j
  BY <1>1 DEF Downloads
<1>3. \A i \in 1..Len(g) : g[i] \in Range(g)
  BY <1>1 DEF Range
<1>4. b.state # "NOTHING"
  BY DEF Configuring, Starting, Middle
<1>5. Counted(r) => r \notin Range(g)
  <2>1. CASE b.state = "PACKETS"
    BY <2>1 DEF Advances, Counted, Rec
  <2>2. CASE b.state # "PACKETS"
    BY <1>2, <2>2 DEF Advances
  <2> QED BY <2>1, <2>2
<1>6. ASSUME NEW i \in DOMAIN h, NEW j \in DOMAIN h, h[i] = h[j], Counted(h[i])
      PROVE  i = j
  <2>1. CASE i \in 1..Len(g) /\ j \in 1..Len(g)
    BY <1>1, <1>2, <1>6, <2>1
  <2>2. CASE i = Len(g) + 1 /\ j = Len(g) + 1
    BY <2>2
  <2>3. CASE i = Len(g) + 1 /\ j \in 1..Len(g)
    BY <1>1, <1>3, <1>5, <1>6, <2>3
  <2>4. CASE i \in 1..Len(g) /\ j = Len(g) + 1
    BY <1>1, <1>3, <1>5, <1>6, <2>4
  <2> QED BY <1>1, <2>1, <2>2, <2>3, <2>4
<1>7. CASE b.state = "PACKETS"
  <2>1. r = Rec("complete", a.want) /\ Wanted(a.want) \subseteq Sent(a, q)
    BY <1>7 DEF Advances
  <2>2. ASSUME NEW want \in {"all", "config", "nodes"}, Rec("complete", want) \in Range(h)
        PROVE  Wanted(want) \subseteq Range(h)
    <3>1. Rec("complete", want) \notin Range(g)
      BY <1>1, <1>2 DEF Range, Rec
    <3>2. Rec("complete", want) = Rec("complete", a.want)
      BY <1>1, <2>1, <2>2, <3>1
    <3>3. want = a.want
      BY <3>2 DEF Rec
    <3>4. Sent(a, q) \subseteq Range(g)
      BY <1>2
    <3> QED BY <1>1, <2>1, <3>3, <3>4
  <2>3. b.state \notin Configuring
    BY <1>7 DEF Configuring, Starting, Middle
  <2> QED BY <1>4, <1>6, <2>2, <2>3 DEF Downloads, h
<1>8. CASE b.state # "PACKETS"
  <2>1. /\ OnTrack(b, q) /\ r[1] # "complete"
        /\ Sent(b, q) = Sent(a, q) \cup IF Counted(r) THEN {r} ELSE {}
    BY <1>8 DEF Advances
  <2>2. {x \in Range(h) : Counted(x)} = Sent(b, q)
    BY <1>1, <1>2, <2>1
  <2>3. \A i \in DOMAIN h : h[i][1] # "complete"
    <3> SUFFICES ASSUME NEW i \in DOMAIN h PROVE h[i][1] # "complete"
      OBVIOUS
    <3>1. CASE i \in 1..Len(g)
      BY <1>1, <1>2, <3>1
    <3>2. CASE i = Len(g) + 1
      BY <1>1, <2>1, <3>2
    <3> QED BY <1>1, <3>1, <3>2
  <2> QED BY <1>4, <1>6, <1>8, <2>1, <2>2, <2>3 DEF Downloads, h
<1> QED BY <1>7, <1>8

(* A packet changes nothing of a download that is over.                     *)
LEMMA PacketAfterDownload ==
  ASSUME NEW q, NEW a, NEW g, g \in Seq(Range(g)), Downloads(a, g, q), a.state = "PACKETS", NEW p
  PROVE  Downloads(a, Append(g, Rec("packet", p)), q)
<1> DEFINE r == Rec("packet", p)
           h == Append(g, r)
<1>1. /\ Len(g) \in Nat /\ DOMAIN g = 1..Len(g) /\ DOMAIN h = 1..Len(g) + 1
      /\ \A i \in 1..Len(g) : h[i] = g[i]
      /\ h[Len(g) + 1] = r /\ Range(h) = Range(g) \cup {r}
  BY AppendFacts
<1>2. ~Counted(r) /\ \A want : r # Rec("complete", want)
  BY DEF Counted, Rec
<1> HIDE DEF h, r
<1>3. ASSUME NEW i \in DOMAIN h, NEW j \in DOMAIN h, h[i] = h[j], Counted(h[i])
      PROVE  i = j
  <2>1. i # Len(g) + 1 /\ j # Len(g) + 1
    BY <1>1, <1>2, <1>3
  <2>2. i \in 1..Len(g) /\ j \in 1..Len(g)
    BY <1>1, <2>1
  <2> QED BY <1>1, <1>3, <2>2 DEF Downloads
<1>4. ASSUME NEW want \in {"all", "config", "nodes"}, Rec("complete", want) \in Range(h)
      PROVE  Wanted(want) \subseteq Range(h)
  BY <1>1, <1>2, <1>4 DEF Downloads
<1>5. a.state \notin Configuring /\ a.state # "NOTHING"
  BY DEF Configuring, Starting, Middle
<1> QED BY <1>3, <1>4, <1>5 DEF Downloads, h, r

-----------------------------------------------------------------------------
(* The steps.                                                               *)

(* A client that is not connected, or has just asked, was sent nothing.     *)
LEMMA NothingSentYet ==
  ASSUME NEW s
  PROVE  <<>> \in Seq(Range(<<>>)) /\ SentInOrder(<<>>, s)
  BY DEF SentInOrder, Ordered

LEMMA ClosedOK ==
  ASSUME NEW q, DbOK(q), NEW s \in Nat, NEW k, k.sorts \in 0..s
  PROVE  ClientOK(Closed, <<>>, k, s, q)
<1>1. ApiOK(Closed, Len(q))
  <2>1. NumFiles \in Nat /\ kNodePrefetchDepth \in Nat /\ Len(q) \in Nat
    BY PhoneAssumption DEF PhoneAssumption, DbOK
  <2>2. <<>> \in Seq(Nodes) /\ Len(<<>>) = 0
    OBVIOUS
  <2> QED BY <2>1, <2>2 DEF Closed, ApiOK, Fields, Configuring, Starting, Middle
<1>2. Downloads(Closed, <<>>, q)
  BY DEF Downloads, Closed, Configuring, Starting, Middle
<1> QED BY <1>1, <1>2, NothingSentYet DEF ClientOK

(* A request restarts the download; it is undisturbed when the count of the *)
(* earlier one was over.                                                    *)
LEMMA StartOK ==
  ASSUME NEW q, DbOK(q), NEW s \in Nat, NEW a, ApiOK(a, Len(q)),
         NEW want \in {"all", "config", "nodes"}
  PROVE  ClientOK(HandleStartConfig(a, want), <<>>, [clean |-> a.cs = 0, sorts |-> s], s, q)
<1> DEFINE b == HandleStartConfig(a, want)
           k == [clean |-> a.cs = 0, sorts |-> s]
<1>0. NumFiles \in Nat /\ kNodePrefetchDepth \in Nat /\ Len(q) \in Nat /\ a.cs \in Nat
  BY PhoneAssumption DEF PhoneAssumption, DbOK, ApiOK
<1>1. /\ DOMAIN b = Fields /\ b.cs = a.cs /\ b.want = want /\ b.idx = 0 /\ b.ahead = <<>>
      /\ b.files = NumFiles /\ b.state = IF want = "nodes" THEN "OWN_NODEINFO" ELSE "MY_INFO"
  BY DEF HandleStartConfig, ApiOK, Fields
<1> HIDE DEF b
<1>2. b.ahead \in Seq(Nodes) /\ Len(b.ahead) = 0 /\ DOMAIN b.ahead = {}
  BY <1>1
<1>3. ApiOK(b, Len(q))
  BY <1>0, <1>1, <1>2 DEF ApiOK, Configuring, Starting, Middle
<1>4. ASSUME a.cs = 0 PROVE Downloads(b, <<>>, q)
  <2>1. OnTrack(b, q)
    BY <1>0, <1>1, <1>2, <1>4 DEF OnTrack, Window, Starting, Middle
  <2>2. Sent(b, q) = {}
    <3>1. NodesSent(b) = 0
      <4>1. b.idx = 0
        BY <1>1
      <4> QED BY <1>2, <4>1 DEF NodesSent
    <3>2. /\ ChannelsSent(b) = 0 /\ ConfigsSent(b) = 0 /\ ModulesSent(b) = 0
          /\ FilesSent(b) = 0
      BY <1>1 DEF ChannelsSent, ConfigsSent, ModulesSent, FilesSent, Starting
    <3>3. NodeRecs(q, 0) = {} /\ OtherRecs(0, 0, 0, 0) = {}
      BY DEF NodeRecs, OtherRecs
    <3> QED BY <3>1, <3>2, <3>3 DEF Sent
  <2>3. Range(<<>>) = {} /\ DOMAIN <<>> = {}
    BY DEF Range
  <2>4. b.state \notin {"NOTHING", "PACKETS"}
    BY <1>1
  <2> QED BY <2>1, <2>2, <2>3, <2>4 DEF Downloads
<1>5. k.sorts = s /\ (k.clean => a.cs = 0)
  OBVIOUS
<1> HIDE DEF k
<1> QED BY <1>3, <1>4, <1>5, NothingSentYet DEF ClientOK, b, k

(* A record of getFromRadio.                                                *)
LEMMA SendConfigOK ==
  ASSUME DbOK(meshNodes), NEW a, NEW g, NEW k, NEW s, ClientOK(a, g, k, s, meshNodes),
         a.state \in Configuring
  PROVE  ClientOK(ConfigStep(a)[1], Append(g, ConfigStep(a)[2]), k, s, meshNodes)
<1> DEFINE b == ConfigStep(a)[1]
           r == ConfigStep(a)[2]
<1>1. Emits(a, b, r) /\ (OnTrack(a, meshNodes) => Advances(a, b, r, meshNodes))
  BY ConfigStepDoes DEF ClientOK, Does
<1> HIDE DEF b, r
<1>2. ApiOK(b, Len(meshNodes)) /\ b.state \in Configuring \cup {"PACKETS"}
  BY <1>1 DEF Emits
<1>3. Level(a.state) \in Nat /\ Level(b.state) \in Nat
  BY DEF Level
<1>4. g \in Seq(Range(g)) /\ SentInOrder(g, a.state)
  BY DEF ClientOK
<1>5. SentInOrder(Append(g, r), b.state)
  BY <1>1, <1>3, <1>4, OrderKept DEF Emits
<1>6. Append(g, r) \in Seq(Range(Append(g, r)))
  BY <1>4, AppendFacts
<1>7. ASSUME Downloads(a, g, meshNodes) PROVE Downloads(b, Append(g, r), meshNodes)
  <2>1. OnTrack(a, meshNodes)
    BY <1>7 DEF Downloads
  <2> QED BY <1>1, <1>2, <1>4, <1>7, <2>1, DownloadGoesOn
<1> QED BY <1>2, <1>5, <1>6, <1>7 DEF ClientOK, b, r

(* A packet of the mesh.                                                    *)
LEMMA SendPacketOK ==
  ASSUME NEW q, NEW a, NEW g, NEW k, NEW s, ClientOK(a, g, k, s, q), a.state = "PACKETS", NEW p
  PROVE  ClientOK(a, Append(g, Rec("packet", p)), k, s, q)
<1> DEFINE r == Rec("packet", p)
<1>1. g \in Seq(Range(g)) /\ SentInOrder(g, a.state)
  BY DEF ClientOK
<1>2. Level(a.state) = 10 /\ Rank(r) = 10 /\ r[1] \in DOMAIN Order
  BY DEF Level, Rank, Order, Rec
<1> HIDE DEF r
<1>3. SentInOrder(Append(g, r), a.state)
  BY <1>1, <1>2, OrderKept
<1>4. Append(g, r) \in Seq(Range(Append(g, r)))
  BY <1>1, AppendFacts
<1>5. Downloads(a, g, q) => Downloads(a, Append(g, r), q)
  BY <1>1, PacketAfterDownload DEF r
<1> QED BY <1>3, <1>4, <1>5 DEF ClientOK, r

(* A sort disturbs every download that has begun.                           *)
LEMMA SortOK ==
  ASSUME NEW q, NEW t, Len(t) = Len(q), NEW a, NEW g, NEW k, NEW s \in Nat,
         ClientOK(a, g, k, s, q)
  PROVE  ClientOK(a, g, k, s + 1, t)
<1>1. k.sorts \in 0..s + 1 /\ k.sorts # s + 1
  BY DEF ClientOK
<1> QED BY <1>1 DEF ClientOK
-----------------------------------------------------------------------------
LEMMA InitIInv == Init => IInv
<1> SUFFICES ASSUME Init PROVE IInv
  OBVIOUS
<1>1. DbOK(meshNodes)
  BY InitDb DEF Init
<1>2. ASSUME NEW c \in Clients
      PROVE  ClientOK(api[c], got[c], asked[c], sorts, meshNodes)
  <2>1. api[c] = Closed /\ got[c] = <<>> /\ asked[c].sorts \in 0..0 /\ sorts = 0
    BY DEF Init
  <2> QED BY <1>1, <2>1, ClosedOK
<1>3. toPhone \in Seq(Packets) /\ Len(toPhone) <= MAX_RX_TOPHONE
  <2>1. toPhone = <<>> /\ MAX_RX_TOPHONE \in Nat
    BY PhoneAssumption DEF PhoneAssumption, Init
  <2> QED BY <2>1
<1>4. /\ DOMAIN api = Clients /\ DOMAIN got = Clients /\ DOMAIN asked = Clients
      /\ sorts \in Nat /\ heartbeatReceived \in BOOLEAN
  BY DEF Init
<1> QED BY <1>1, <1>2, <1>3, <1>4 DEF IInv

LEMMA NextIInv == IInv /\ [Next]_vars => IInv'
<1> SUFFICES ASSUME IInv, [Next]_vars PROVE IInv'
  OBVIOUS
<1>0. /\ DbOK(meshNodes) /\ sorts \in Nat
      /\ DOMAIN api = Clients /\ DOMAIN got = Clients /\ DOMAIN asked = Clients
      /\ toPhone \in Seq(Packets) /\ Len(toPhone) <= MAX_RX_TOPHONE /\ Len(toPhone) \in Nat
      /\ heartbeatReceived \in BOOLEAN
      /\ \A c \in Clients : ClientOK(api[c], got[c], asked[c], sorts, meshNodes)
  BY DEF IInv
<1>1. ASSUME NEW c \in Clients,
             DOMAIN api' = Clients, DOMAIN got' = Clients, DOMAIN asked' = Clients,
             ClientOK(api'[c], got'[c], asked'[c], sorts, meshNodes),
             \A d \in Clients \ {c} :
               api'[d] = api[d] /\ got'[d] = got[d] /\ asked'[d] = asked[d],
             UNCHANGED <<meshNodes, sorts>>,
             toPhone' \in Seq(Packets), Len(toPhone') <= MAX_RX_TOPHONE,
             heartbeatReceived' \in BOOLEAN
      PROVE  IInv'
  <2>1. ASSUME NEW d \in Clients
        PROVE  ClientOK(api'[d], got'[d], asked'[d], sorts', meshNodes')
    <3>1. CASE d = c
      BY <1>1, <3>1
    <3>2. CASE d # c
      BY <1>0, <1>1, <3>2
    <3> QED BY <3>1, <3>2
  <2> QED BY <1>0, <1>1, <2>1 DEF IInv
<1>2. ASSUME NEW c \in Clients, NEW want \in {"all", "config", "nodes"}, WantConfig(c, want)
      PROVE  IInv'
  <2> DEFINE k == [clean |-> api[c].cs = 0, sorts |-> sorts]
             b == HandleStartConfig(api[c], want)
  <2>1. ClientOK(b, <<>>, k, sorts, meshNodes)
    BY <1>0, StartOK DEF ClientOK
  <2>2. /\ api' = [api EXCEPT ![c] = b] /\ got' = [got EXCEPT ![c] = <<>>]
        /\ asked' = [asked EXCEPT ![c] = k]
        /\ UNCHANGED <<meshNodes, sorts, toPhone, heartbeatReceived>>
    BY <1>2 DEF WantConfig
  <2> HIDE DEF b, k
  <2>3. /\ DOMAIN api' = Clients /\ DOMAIN got' = Clients /\ DOMAIN asked' = Clients
        /\ api'[c] = b /\ got'[c] = <<>> /\ asked'[c] = k
        /\ \A d \in Clients \ {c} :
             api'[d] = api[d] /\ got'[d] = got[d] /\ asked'[d] = asked[d]
    BY <1>0, <2>2
  <2>4. ClientOK(api'[c], got'[c], asked'[c], sorts, meshNodes)
    BY <2>1, <2>3
  <2> QED BY <1>0, <1>1, <2>2, <2>3, <2>4
<1>3. ASSUME NEW c \in Clients, Close(c) PROVE IInv'
  <2>1. asked[c].sorts \in 0..sorts
    BY <1>0 DEF ClientOK
  <2>2. ClientOK(Closed, <<>>, asked[c], sorts, meshNodes)
    BY <1>0, <2>1, ClosedOK
  <2>3. /\ api' = [api EXCEPT ![c] = Closed] /\ got' = [got EXCEPT ![c] = <<>>]
        /\ UNCHANGED <<meshNodes, sorts, toPhone, asked>> /\ heartbeatReceived' = FALSE
    BY <1>3 DEF Close
  <2>4. /\ DOMAIN api' = Clients /\ DOMAIN got' = Clients /\ DOMAIN asked' = Clients
        /\ api'[c] = Closed /\ got'[c] = <<>>
        /\ \A d \in Clients \ {c} :
             api'[d] = api[d] /\ got'[d] = got[d] /\ asked'[d] = asked[d]
    BY <1>0, <2>3
  <2>5. ClientOK(api'[c], got'[c], asked'[c], sorts, meshNodes)
    BY <2>2, <2>3, <2>4
  <2> QED BY <1>0, <1>1, <2>3, <2>4, <2>5
<1>4. ASSUME NEW c \in Clients, SendConfig(c) PROVE IInv'
  <2> DEFINE b == ConfigStep(api[c])[1]
             h == Append(got[c], ConfigStep(api[c])[2])
  <2>1. api[c].state \in Configuring
    BY <1>0, <1>4 DEF SendConfig, ClientOK, ApiOK
  <2>2. ClientOK(b, h, asked[c], sorts, meshNodes)
    BY <1>0, <2>1, SendConfigOK
  <2>3. /\ api' = [api EXCEPT ![c] = b] /\ got' = [got EXCEPT ![c] = h]
        /\ UNCHANGED <<meshNodes, sorts, toPhone, asked, heartbeatReceived>>
    BY <1>4 DEF SendConfig
  <2> HIDE DEF b, h
  <2>4. /\ DOMAIN api' = Clients /\ DOMAIN got' = Clients /\ DOMAIN asked' = Clients
        /\ api'[c] = b /\ got'[c] = h
        /\ \A d \in Clients \ {c} :
             api'[d] = api[d] /\ got'[d] = got[d] /\ asked'[d] = asked[d]
    BY <1>0, <2>3
  <2>5. ClientOK(api'[c], got'[c], asked'[c], sorts, meshNodes)
    BY <2>2, <2>3, <2>4
  <2> QED BY <1>0, <1>1, <2>3, <2>4, <2>5
<1>5. ASSUME NEW c \in Clients, SendPacket(c) PROVE IInv'
  <2> DEFINE h == Append(got[c], Rec("packet", Head(toPhone)))
  <2>1. /\ toPhone # <<>> /\ toPhone' = Tail(toPhone) /\ api[c].state = "PACKETS"
        /\ got' = [got EXCEPT ![c] = h]
        /\ UNCHANGED <<api, meshNodes, sorts, asked, heartbeatReceived>>
    BY <1>5 DEF SendPacket
  <2>2. ClientOK(api[c], h, asked[c], sorts, meshNodes)
    BY <1>0, <2>1, SendPacketOK
  <2>3. toPhone' \in Seq(Packets) /\ Len(toPhone') = Len(toPhone) - 1
    BY <1>0, <2>1, HeadTailProperties
  <2>4. MAX_RX_TOPHONE \in Nat
    BY PhoneAssumption DEF PhoneAssumption
  <2>5. Len(toPhone') <= MAX_RX_TOPHONE
    BY <1>0, <2>3, <2>4
  <2> HIDE DEF h
  <2>6. /\ DOMAIN api' = Clients /\ DOMAIN got' = Clients /\ DOMAIN asked' = Clients
        /\ got'[c] = h
        /\ \A d \in Clients \ {c} :
             api'[d] = api[d] /\ got'[d] = got[d] /\ asked'[d] = asked[d]
    BY <1>0, <2>1
  <2>7. ClientOK(api'[c], got'[c], asked'[c], sorts, meshNodes)
    BY <2>1, <2>2, <2>6
  <2> QED BY <1>0, <1>1, <2>1, <2>3, <2>5, <2>6, <2>7
<1>6. ASSUME NEW c \in Clients, Heartbeat(c) \/ AnswerHeartbeat(c) PROVE IInv'
  <2>1. /\ UNCHANGED <<api, got, asked, meshNodes, sorts, toPhone>>
        /\ heartbeatReceived' \in BOOLEAN
    BY <1>6 DEF Heartbeat, AnswerHeartbeat
  <2> QED BY <1>0, <2>1 DEF IInv
<1>7. ASSUME NEW p \in Packets, SendToPhone(p) PROVE IInv'
  <2>0. MAX_RX_TOPHONE \in Nat \ {0}
    BY PhoneAssumption DEF PhoneAssumption
  <2>1. /\ UNCHANGED <<api, got, asked, meshNodes, sorts, heartbeatReceived>>
        /\ \/ Len(toPhone) < MAX_RX_TOPHONE /\ toPhone' = Append(toPhone, p)
           \/ ~(Len(toPhone) < MAX_RX_TOPHONE) /\ toPhone' = Append(Tail(toPhone), p)
           \/ toPhone' = toPhone
    BY <1>7 DEF SendToPhone
  <2>2. toPhone' \in Seq(Packets) /\ Len(toPhone') <= MAX_RX_TOPHONE
    <3>1. CASE Len(toPhone) < MAX_RX_TOPHONE /\ toPhone' = Append(toPhone, p)
      BY <1>0, <2>0, <3>1, AppendProperties
    <3>2. CASE ~(Len(toPhone) < MAX_RX_TOPHONE) /\ toPhone' = Append(Tail(toPhone), p)
      <4>1. Len(toPhone) = MAX_RX_TOPHONE /\ toPhone # <<>>
        BY <1>0, <2>0, <3>2, EmptySeq
      <4>2. Tail(toPhone) \in Seq(Packets) /\ Len(Tail(toPhone)) = Len(toPhone) - 1
        BY <1>0, <4>1, HeadTailProperties
      <4>3. toPhone' \in Seq(Packets) /\ Len(toPhone') = Len(Tail(toPhone)) + 1
        BY <3>2, <4>2, AppendProperties
      <4> QED BY <2>0, <4>1, <4>2, <4>3
    <3>3. CASE toPhone' = toPhone
      BY <1>0, <3>3
    <3> QED BY <2>1, <3>1, <3>2, <3>3
  <2> QED BY <1>0, <2>1, <2>2 DEF IInv
<1>8. ASSUME NEW n \in Others, SortMeshDB(n) PROVE IInv'
  <2>1. /\ meshNodes' = ToFront(meshNodes, n) /\ sorts' = sorts + 1
        /\ UNCHANGED <<api, got, asked, toPhone, heartbeatReceived>>
    BY <1>8 DEF SortMeshDB
  <2>2. DbOK(meshNodes') /\ Len(meshNodes') = Len(meshNodes)
    BY <1>0, <2>1, ToFrontDb
  <2>3. \A c \in Clients : ClientOK(api[c], got[c], asked[c], sorts + 1, meshNodes')
    BY <1>0, <2>2, SortOK
  <2> QED BY <1>0, <2>1, <2>2, <2>3 DEF IInv
<1>9. ASSUME UNCHANGED vars PROVE IInv'
  BY <1>0, <1>9 DEF vars, IInv
<1> QED BY <1>2, <1>3, <1>4, <1>5, <1>6, <1>7, <1>8, <1>9 DEF Next
-----------------------------------------------------------------------------
(* The state machine and the queue keep their shape: the reader of the      *)
(* database never passes its end, and no more is read ahead than the depth. *)
THEOREM TypeCorrect == Spec => []TypeOK
<1>1. IInv => TypeOK
  <2> SUFFICES ASSUME IInv PROVE TypeOK
    OBVIOUS
  <2>1. ASSUME NEW c \in Clients PROVE ApiOK(api[c], Len(meshNodes))
    BY <2>1 DEF IInv, ClientOK
  <2>2. Configuring \cup {"NOTHING", "PACKETS"} \subseteq Range(States)
    <3>1. /\ DOMAIN States = 1..11
          /\ States[1] = "NOTHING" /\ States[2] = "MY_INFO" /\ States[3] = "UIDATA"
          /\ States[4] = "OWN_NODEINFO" /\ States[5] = "METADATA" /\ States[6] = "CHANNELS"
          /\ States[7] = "CONFIG" /\ States[8] = "MODULECONFIG"
          /\ States[9] = "OTHER_NODEINFOS" /\ States[10] = "FILEMANIFEST"
          /\ States[11] = "PACKETS"
      BY DEF States
    <3> QED BY <3>1 DEF Range, Configuring, Starting, Middle
  <2> QED BY <2>1, <2>2 DEF IInv, TypeOK, ApiOK
<1> QED BY <1>1, InitIInv, NextIInv, PTL DEF Spec

(* No order of requests, reads and closes makes filesManifest.at throw.     *)
THEOREM SpecManifestInRange == Spec => []ManifestInRange
<1>1. IInv => ManifestInRange
  BY DEF IInv, ClientOK, ApiOK, ManifestInRange
<1> QED BY <1>1, InitIInv, NextIInv, PTL DEF Spec

(* A client is sent its records in the order of the states, and no packet   *)
(* of the mesh before them.                                                 *)
THEOREM RecordsInSequence == Spec => []InSequence
<1>1. IInv => InSequence
  BY DEF IInv, ClientOK, SentInOrder, Ordered, InSequence
<1> QED BY <1>1, InitIInv, NextIInv, PTL DEF Spec

(* A client that is told the end of an undisturbed download has got every   *)
(* record that it asked for exactly once.                                   *)
THEOREM DownloadComplete == Spec => []CompleteOnce
<1>1. IInv => CompleteOnce
  <2> SUFFICES ASSUME IInv, NEW c \in Clients, NEW want \in {"all", "config", "nodes"},
                      asked[c].clean, asked[c].sorts = sorts,
                      Rec("complete", want) \in Range(got[c]), NEW r \in Wanted(want)
               PROVE  Times(r, got[c]) = 1
    BY DEF CompleteOnce, Complete
  <2> DEFINE g == got[c]
  <2>1. Downloads(api[c], g, meshNodes) /\ ApiOK(api[c], Len(meshNodes))
    BY DEF IInv, ClientOK
  <2>2. api[c].state = "PACKETS"
    <3>1. CASE api[c].state = "NOTHING"
      BY <2>1, <3>1 DEF Downloads, Range
    <3>2. CASE api[c].state \in Configuring
      BY <2>1, <3>2 DEF Downloads, Range, Rec
    <3> QED BY <2>1, <3>1, <3>2 DEF ApiOK
  <2>3. r \in Range(g)
    BY <2>1, <2>2 DEF Downloads
  <2>4. Counted(r)
    BY DEF Wanted, Counted, Rec
  <2>5. PICK i \in DOMAIN g : g[i] = r
    BY <2>3 DEF Range
  <2>6. {j \in DOMAIN g : g[j] = r} = {i}
    BY <2>1, <2>4, <2>5 DEF Downloads
  <2> QED BY <2>6, FS_Singleton DEF Times
<1> QED BY <1>1, InitIInv, NextIInv, PTL DEF Spec

=============================================================================
