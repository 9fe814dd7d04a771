-------------------------------- MODULE PhoneApi --------------------------------
(***************************************************************************)
(* PhoneAPI: how a client (the gateway over serial, a phone) downloads the  *)
(* configuration and the nodes of its node and then its packets, while the  *)
(* node database changes and other clients are connected.  One instance of  *)
(* PhoneAPI per client; all share the database, the packet queue and one    *)
(* flag.  The gateway starts with this handshake: its list of nodes and the *)
(* alarms it hears come through it.                                         *)
(***************************************************************************)
EXTENDS Integers, Sequences, FiniteSets, SequencesExt

CONSTANTS
  Clients, Self, Others,          \* node numbers in the database
  MAX_NUM_CHANNELS, NumConfigs, NumModules, NumFiles,
  kNodePrefetchDepth, MAX_RX_TOPHONE,
  Packets, Texts,                 \* mesh packets; those with text
  MaxRequests, MaxSorts, MaxHeartbeats

ASSUME PhoneAssumption ==
  /\ Self \notin Others /\ IsFiniteSet(Others) /\ Texts \subseteq Packets
  /\ {MAX_NUM_CHANNELS, NumConfigs, NumModules, kNodePrefetchDepth,
      MAX_RX_TOPHONE} \subseteq Nat \ {0}
  /\ {NumFiles, MaxRequests, MaxSorts, MaxHeartbeats} \subseteq Nat

VARIABLES
  api,         \* per client: state, cs (config_state), want (config_nonce), idx, ahead, files
  meshNodes,   \* the database: Self, then the others in the order of the last sort
  toPhone,     \* toPhoneQueue
  heartbeatReceived,   \* one flag for all instances
  got,         \* history: what each client was sent since its last request
  asked,       \* history: [clean, sorts]: the request found the instance idle
  beats,       \* history: heartbeats a client has sent and not been answered
  arrived,     \* history: packets of the mesh
  requests, sorts, heartbeats

vars == <<api, meshNodes, toPhone, heartbeatReceived, got, asked, beats, arrived,
          requests, sorts, heartbeats>>

States == <<"NOTHING", "MY_INFO", "UIDATA", "OWN_NODEINFO", "METADATA", "CHANNELS",
            "CONFIG", "MODULECONFIG", "OTHER_NODEINFOS", "FILEMANIFEST", "PACKETS">>
Closed == [state |-> "NOTHING", cs |-> 0, want |-> "none", idx |-> 0, ahead |-> <<>>, files |-> 0]
Rec(kind, what) == <<kind, what>>

(* prefetchNodeInfos                                                        *)
Prefetch(a) ==
  LET room == kNodePrefetchDepth - Len(a.ahead)
      upto == IF a.idx + room < Len(meshNodes) THEN a.idx + room ELSE Len(meshNodes)
  IN IF room <= 0 \/ a.idx >= Len(meshNodes) THEN a
     ELSE [a EXCEPT !.ahead = @ \o SubSeq(meshNodes, a.idx + 1, upto), !.idx = upto]

(* Mutant of HandleStartConfig: what was read ahead is kept.               *)
StartConfigKeepsAhead(a, want) ==
  [a EXCEPT !.state = IF want = "nodes" THEN "OWN_NODEINFO" ELSE "MY_INFO",
            !.want = want, !.idx = 0, !.files = NumFiles]

(* want_config_id: the special nonces ask for the nodes or the rest only.   *)
HandleStartConfig(a, want) ==
  [a EXCEPT !.state = IF want = "nodes" THEN "OWN_NODEINFO" ELSE "MY_INFO",
            !.want = want, !.ahead = <<>>, !.idx = 0, !.files = NumFiles]

(* Mutant of Count: the count goes on in the next state.                    *)
CountOn(a, last, next, first) ==
  IF a.cs + 1 > last THEN [a EXCEPT !.state = next, !.cs = @ + 1] ELSE [a EXCEPT !.cs = @ + 1]

(* A state that sends its records one by one, counted in cs from first on.  *)
Count(a, last, next, first) ==
  IF a.cs + 1 > last THEN [a EXCEPT !.state = next, !.cs = first] ELSE [a EXCEPT !.cs = @ + 1]

SendConfigComplete(a) == [a EXCEPT !.state = "PACKETS", !.want = "none"]

Manifest(a) ==
  IF a.cs = a.files \/ a.want = "nodes"
  THEN <<SendConfigComplete([a EXCEPT !.cs = 0, !.files = 0]), Rec("complete", a.want)>>
  ELSE <<[a EXCEPT !.cs = @ + 1], Rec("file", a.cs)>>

NodeInfos(a0) ==
  LET a == IF a0.ahead = <<>> THEN Prefetch(a0) ELSE a0 IN
  IF a.ahead = <<>> THEN Manifest([a EXCEPT !.state = "FILEMANIFEST"])
  ELSE <<Prefetch([a EXCEPT !.ahead = Tail(@)]), Rec("node", Head(a.ahead))>>

(* getFromRadio while the configuration is sent: the new state and record.  *)
ConfigStep(a) ==
  CASE a.state = "MY_INFO" -> <<[a EXCEPT !.state = "UIDATA"], Rec("my_info", 0)>>
    [] a.state = "UIDATA"  -> <<[a EXCEPT !.state = "OWN_NODEINFO"], Rec("uidata", 0)>>
    [] a.state = "OWN_NODEINFO" ->
         <<[a EXCEPT !.state = IF a.want = "nodes" THEN "OTHER_NODEINFOS" ELSE "METADATA",
                     !.idx = @ + 1], Rec("node", meshNodes[a.idx + 1])>>
    [] a.state = "METADATA" -> <<[a EXCEPT !.state = "CHANNELS"], Rec("metadata", 0)>>
    [] a.state = "CHANNELS" ->
         <<Count(a, MAX_NUM_CHANNELS - 1, "CONFIG", 1), Rec("channel", a.cs)>>
    [] a.state = "CONFIG" -> <<Count(a, NumConfigs, "MODULECONFIG", 1), Rec("config", a.cs)>>
    [] a.state = "MODULECONFIG" ->
         <<Count(a, NumModules, IF a.want = "config" THEN "FILEMANIFEST" ELSE "OTHER_NODEINFOS", 0),
           Rec("module", a.cs)>>
    [] a.state = "OTHER_NODEINFOS" -> NodeInfos(a)
    [] a.state = "FILEMANIFEST" -> Manifest(a)

-----------------------------------------------------------------------------
Init ==
  /\ api = [c \in Clients |-> Closed] /\ meshNodes \in {<<Self>> \o s : s \in SetToSeqs(Others)}
  /\ toPhone = <<>> /\ heartbeatReceived = FALSE /\ arrived = {}
  /\ got = [c \in Clients |-> <<>>] /\ asked = [c \in Clients |-> [clean |-> TRUE, sorts |-> 0]]
  /\ beats = [c \in Clients |-> 0] /\ requests = 0 /\ sorts = 0 /\ heartbeats = 0

WantConfig(c, want) ==
  /\ requests < MaxRequests /\ requests' = requests + 1
  /\ api' = [api EXCEPT ![c] = HandleStartConfig(@, want)]
  /\ got' = [got EXCEPT ![c] = <<>>]
  /\ asked' = [asked EXCEPT ![c] = [clean |-> api[c].cs = 0, sorts |-> sorts]]
  /\ UNCHANGED <<meshNodes, toPhone, heartbeatReceived, beats, arrived, sorts, heartbeats>>

(* disconnect, or the transport has lost the client.  An instance that is   *)
(* not connected has nothing to close.                                      *)
Close(c) ==
  /\ api[c].state # "NOTHING"
  /\ api' = [api EXCEPT ![c] = Closed] /\ heartbeatReceived' = FALSE
  /\ got' = [got EXCEPT ![c] = <<>>] /\ beats' = [beats EXCEPT ![c] = 0]
  /\ UNCHANGED <<meshNodes, toPhone, asked, arrived, requests, sorts, heartbeats>>

Heartbeat(c) ==
  /\ heartbeats < MaxHeartbeats /\ heartbeats' = heartbeats + 1
  /\ heartbeatReceived' = TRUE /\ beats' = [beats EXCEPT ![c] = @ + 1]
  /\ UNCHANGED <<api, meshNodes, toPhone, got, asked, arrived, requests, sorts>>

(* Mutant of SendConfig: packets of the mesh are sent as they come.         *)
SendConfigOrPacket(c) ==
  /\ ~heartbeatReceived /\ api[c].state \notin {"NOTHING", "PACKETS"}
  /\ IF toPhone # <<>>
     THEN /\ got' = [got EXCEPT ![c] = Append(@, Rec("packet", Head(toPhone)))]
          /\ toPhone' = Tail(toPhone) /\ UNCHANGED api
     ELSE /\ LET r == ConfigStep(api[c])
             IN api' = [api EXCEPT ![c] = r[1]] /\ got' = [got EXCEPT ![c] = Append(@, r[2])]
          /\ UNCHANGED toPhone
  /\ UNCHANGED <<meshNodes, heartbeatReceived, asked, beats, arrived, requests, sorts, heartbeats>>

(* Mutant of SendConfig: the node database is awaited to be longer.         *)
SendConfigWaits(c) ==
  /\ ~heartbeatReceived /\ api[c].state \notin {"NOTHING", "PACKETS"}
  /\ api[c].state = "OTHER_NODEINFOS" => Prefetch(api[c]).ahead # <<>>
  /\ LET r == ConfigStep(api[c])
     IN api' = [api EXCEPT ![c] = r[1]] /\ got' = [got EXCEPT ![c] = Append(@, r[2])]
  /\ UNCHANGED <<meshNodes, toPhone, heartbeatReceived, asked, beats, arrived, requests,
                 sorts, heartbeats>>

(* getFromRadio.                                                            *)
AnswerHeartbeat(c) ==
  /\ heartbeatReceived /\ heartbeatReceived' = FALSE
  /\ beats' = [beats EXCEPT ![c] = 0]
  /\ UNCHANGED <<api, meshNodes, toPhone, got, asked, arrived, requests, sorts, heartbeats>>

SendConfig(c) ==
  /\ ~heartbeatReceived /\ api[c].state \notin {"NOTHING", "PACKETS"}
  /\ LET r == ConfigStep(api[c])
     IN api' = [api EXCEPT ![c] = r[1]] /\ got' = [got EXCEPT ![c] = Append(@, r[2])]
  /\ UNCHANGED <<meshNodes, toPhone, heartbeatReceived, asked, beats, arrived, requests,
                 sorts, heartbeats>>

SendPacket(c) ==
  /\ ~heartbeatReceived /\ api[c].state = "PACKETS" /\ toPhone # <<>>
  /\ toPhone' = Tail(toPhone)
  /\ got' = [got EXCEPT ![c] = Append(@, Rec("packet", Head(toPhone)))]
  /\ UNCHANGED <<api, meshNodes, heartbeatReceived, asked, beats, arrived, requests, sorts,
                 heartbeats>>

(* Mutant of SendToPhone: a text displaces nothing in a full queue.         *)
SendToPhoneOverfull(p) ==
  /\ p \notin arrived /\ arrived' = arrived \cup {p}
  /\ toPhone' = IF Len(toPhone) < MAX_RX_TOPHONE \/ p \in Texts THEN Append(toPhone, p) ELSE toPhone
  /\ UNCHANGED <<api, meshNodes, heartbeatReceived, got, asked, beats, requests, sorts, heartbeats>>

(* MeshService::sendToPhone: a text displaces the oldest packet.            *)
SendToPhone(p) ==
  /\ p \notin arrived /\ arrived' = arrived \cup {p}
  /\ toPhone' = IF Len(toPhone) < MAX_RX_TOPHONE THEN Append(toPhone, p)
                ELSE IF p \in Texts THEN Append(Tail(toPhone), p) ELSE toPhone
  /\ UNCHANGED <<api, meshNodes, heartbeatReceived, got, asked, beats, requests, sorts, heartbeats>>

(* Behind Self, n comes first and those before it move back by one.         *)
ToFront(q, n) ==
  LET k == CHOOSE i \in DOMAIN q : q[i] = n IN
  [i \in DOMAIN q |-> IF i = 2 THEN n ELSE IF i \in 3..k THEN q[i - 1] ELSE q[i]]

(* sortMeshDB: a node that was heard or made a favourite moves to the front.*)
SortMeshDB(n) ==
  /\ sorts < MaxSorts /\ sorts' = sorts + 1 /\ n \in Others
  /\ meshNodes' = ToFront(meshNodes, n)
  /\ UNCHANGED <<api, toPhone, heartbeatReceived, got, asked, beats, arrived, requests, heartbeats>>

Next ==
  \/ \E c \in Clients :
       \/ \E want \in {"all", "config", "nodes"} : WantConfig(c, want)
       \/ Close(c) \/ Heartbeat(c) \/ AnswerHeartbeat(c) \/ SendConfig(c) \/ SendPacket(c)
  \/ \E p \in Packets : SendToPhone(p)
  \/ \E n \in Others : SortMeshDB(n)

Spec == Init /\ [][Next]_vars
(* The client reads on.                                                     *)
FairSpec == Spec /\ \A c \in Clients : WF_vars(AnswerHeartbeat(c) \/ SendConfig(c))

-----------------------------------------------------------------------------
(* Properties.                                                              *)

TypeOK ==
  /\ \A c \in Clients : LET a == api[c] IN
       /\ a.state \in Range(States) /\ a.want \in {"none", "all", "config", "nodes"}
       /\ a.idx \in 0..Len(meshNodes) /\ Len(a.ahead) <= kNodePrefetchDepth
       /\ a.files \in 0..NumFiles /\ a.cs \in Nat
  /\ Len(toPhone) <= MAX_RX_TOPHONE /\ heartbeatReceived \in BOOLEAN

(* filesManifest.at(config_state) never throws, wherever a request, a close *)
(* or another request came in between.                                      *)
ManifestInRange == \A c \in Clients :
  api[c].state = "FILEMANIFEST" /\ api[c].want # "nodes" => api[c].cs <= api[c].files

Order == [my_info |-> 1, uidata |-> 2, metadata |-> 3, channel |-> 4, config |-> 5,
          module |-> 6, node |-> 7, file |-> 8, complete |-> 9, packet |-> 10]
Rank(r) == Order[r[1]]
Own(r)  == r = Rec("node", Self)

(* The client apps assume the sequence of the states: no packet of the mesh *)
(* is sent before the configuration is complete, nothing comes too early.   *)
(* The node's own record is left out: it comes ahead of the others.         *)
InSequence == \A c \in Clients : \A i, j \in DOMAIN got[c] :
  i < j /\ ~Own(got[c][i]) /\ ~Own(got[c][j]) => Rank(got[c][i]) <= Rank(got[c][j])

Wanted(want) ==
  (IF want = "nodes" THEN {}
   ELSE {Rec("channel", i) : i \in 0..MAX_NUM_CHANNELS - 1} \cup {Rec("config", i) : i \in 1..NumConfigs}
        \cup {Rec("module", i) : i \in 1..NumModules} \cup {Rec("file", i) : i \in 0..NumFiles - 1})
  \cup (IF want = "config" THEN {} ELSE {Rec("node", n) : n \in Others})
  \cup {Rec("node", Self)}

Times(r, g) == Cardinality({i \in DOMAIN g : g[i] = r})

(* A client that was told that the configuration is complete has got every  *)
(* record it asked for exactly once, when its request found no other half   *)
(* answered and the database kept its order.                                *)
Complete(c, want) == Rec("complete", want) \in Range(got[c]) =>
  \A r \in Wanted(want) : Times(r, got[c]) = 1
CompleteOnce == \A c \in Clients, want \in {"all", "config", "nodes"} :
  asked[c].clean /\ asked[c].sorts = sorts => Complete(c, want)

(* Every request is answered to its end, unless the client leaves.          *)
RequestEnds == \A c \in Clients :
  (api[c].state \notin {"NOTHING", "PACKETS"}) ~> (api[c].state \in {"NOTHING", "PACKETS"})

(* PhoneAPI.cpp: a client that asks again restarts the state machine, and   *)
(* PhoneAPI.h: STATE_SEND_CHANNELS sends all channels.                      *)
AllChannels == \A c \in Clients : asked[c].sorts = sorts => Complete(c, "config")

(* mesh.pb.h: one packet is sent for each node in the DB.                   *)
AllNodes == \A c \in Clients : asked[c].clean => Complete(c, "nodes")

(* PhoneAPI.cpp: the flag tells that a heartbeat was received, and it is    *)
(* answered with the queue status.                                          *)
HeartbeatPending == \A c \in Clients : beats[c] > 0 => heartbeatReceived
=================================================================================
