----------------------- MODULE CommandDeliveryProofs -----------------------
(***************************************************************************)
(* Theorems about CommandDelivery, for every set of nodes, requests and    *)
(* targets and every value of the limits.                                  *)
(***************************************************************************)
EXTENDS CommandDelivery, FiniteSetTheorems, TLAPS

-----------------------------------------------------------------------------
(* The inductive invariant, in parts.                                      *)

RetryInProgress == kpc \in {"retryWait", "retrySend", "retrySent"}
NewPacket       == Len(sent)

(* What the program counters say about the local variables.                *)
PhaseInv ==
  /\ \A r \in Requests : hpc[r] \in {"send", "sent"} => cur[r] \in Destinations
  /\ \A r \in Requests : hpc[r] = "send" => tries[r] < Attempts(r)
  /\ RetryInProgress => kcur \in Ids
  /\ (\E r \in Requests : hpc[r] = "sent") \/ kpc = "retrySent" => NewPacket \in Ids
  /\ kpc \in {"retryWait", "retrySend"} => Retryable(kcur)

(* A handler sends to each destination once, and not before it has the     *)
(* lock.                                                                   *)
FreshInv ==
  /\ \A r \in Requests : hpc[r] = "send" => cur[r] \notin todo[r]
  /\ \A p \in Ids :
       /\ hpc[sent[p].req] \notin {"idle", "waitLock"}
       /\ sent[p].dst \notin todo[sent[p].req]
       /\ hpc[sent[p].req] = "send" => sent[p].dst # cur[sent[p].req]

(* A packet in the hands of somebody has no report yet, and is in the      *)
(* hands of one party only.                                                *)
HolderInv ==
  /\ \A p \in DOMAIN pending : outcome[p] = <<>>
  /\ RetryInProgress => kcur \in Ids \ DOMAIN pending /\ outcome[kcur] = <<>>
  /\ kpc = "retrySent" =>
       /\ NewPacket \in Ids \ DOMAIN pending
       /\ outcome[NewPacket] = <<>>
       /\ kcur # NewPacket
       /\ Chain(NewPacket) = Chain(kcur)
  /\ \A r \in Requests : hpc[r] = "sent" =>
       /\ NewPacket \in Ids \ DOMAIN pending
       /\ outcome[NewPacket] = <<>>
       /\ Chain(NewPacket) = <<r, cur[r]>>
       /\ RetryInProgress => kcur # NewPacket

(* A packet is reported at most once; one that has a successor in its      *)
(* chain was reported as retried, or is just being so, or a failure cost   *)
(* its report or cost the successor its entry.                             *)
Succeeded(p, q) ==
  \/ outcome[p] = <<"retried">>
  \/ kpc = "retrySent" /\ p = kcur /\ q = NewPacket
  \/ p \in lost
  \/ q \in lost /\ outcome[p] = <<"missed">>
ChainInv ==
  /\ \A p \in Ids : outcome[p] = <<>> \/ \E s \in Statuses : outcome[p] = <<s>>
  /\ \A p, q \in Ids : p < q /\ Chain(p) = Chain(q) =>
       sent[p].attempt < sent[q].attempt /\ Succeeded(p, q)

(* A packet lost sight of is in nobody's hands and will have no report.    *)
LostInv ==
  \A p \in lost :
    /\ p \in Ids \ DOMAIN pending /\ outcome[p] = <<>>
    /\ RetryInProgress => p # kcur
    /\ kpc = "retrySent" => p # NewPacket
    /\ \A r \in Requests : hpc[r] = "sent" => p # NewPacket

IInv == TypeOK /\ ExclusiveSend /\ PhaseInv /\ FreshInv /\ HolderInv /\ ChainInv /\ LostInv

-----------------------------------------------------------------------------
(* Sequences: what one transmission more does to Ids and to the packets    *)
(* known before.                                                           *)

(* Append, as the provers know it.                                         *)
LEMMA AppendProperties ==
  ASSUME NEW S, NEW s \in Seq(S), NEW e \in S
  PROVE  /\ Append(s, e) \in Seq(S)
         /\ Len(Append(s, e)) = Len(s) + 1
         /\ DOMAIN s = 1..Len(s) /\ Len(s) \in Nat
         /\ DOMAIN Append(s, e) = DOMAIN s \cup {Len(s) + 1}
         /\ Len(s) + 1 \notin DOMAIN s
         /\ \A i \in DOMAIN s : Append(s, e)[i] = s[i]
         /\ Append(s, e)[Len(s) + 1] = e
OBVIOUS

(* What a packet that was sent looks like.                                 *)
LEMMA PacketType ==
  ASSUME TypeOK
  PROVE  /\ Len(sent) \in Nat /\ Ids = 1..Len(sent)
         /\ \A p \in Ids : /\ sent[p] \in Packet
                           /\ sent[p].req \in Requests
                           /\ sent[p].dst \in Destinations
<1>1. sent \in Seq(Packet)
  BY DEF TypeOK
<1>2. Len(sent) \in Nat /\ Ids = 1..Len(sent) /\ \A p \in Ids : sent[p] \in Packet
  BY <1>1 DEF Ids
<1>3. \A x \in Packet : x.req \in Requests /\ x.dst \in Destinations
  BY DEF Packet
<1>4. QED
  BY <1>2, <1>3

(* A report is appended to the reports of one packet.                      *)
LEMMA ReportType ==
  ASSUME TypeOK, NEW p \in Ids, NEW status \in Statuses, Report(p, status)
  PROVE  /\ outcome' \in Seq(Seq(Statuses)) /\ Len(outcome') = Len(outcome)
         /\ outcome'[p] = Append(outcome[p], status)
         /\ \A q \in Ids \ {p} : outcome'[q] = outcome[q]
<1>1. outcome \in Seq(Seq(Statuses)) /\ Len(outcome) = Len(sent) /\ sent \in Seq(Packet)
  BY DEF TypeOK
<1>2. DOMAIN outcome = Ids
  BY <1>1 DEF Ids
<1>3. Append(outcome[p], status) \in Seq(Statuses)
  BY <1>1, <1>2
<1>4. QED
  BY <1>1, <1>2, <1>3 DEF Report

(* Removing an entry from pending_commands, adding a fresh one.            *)
LEMMA PendingType ==
  ASSUME TypeOK, NEW p
  PROVE  /\ DOMAIN Without(p) = DOMAIN pending \ {p}
         /\ Without(p) \in [DOMAIN Without(p) -> 0..AckTimeout + 1]
         /\ DOMAIN With(p) = DOMAIN pending \cup {p}
         /\ With(p) \in [DOMAIN With(p) -> 0..AckTimeout + 1]
BY LimitsAssumption DEF TypeOK, With, Without

(* sendText put a packet on the air.                                       *)
LEMMA OnAirType ==
  ASSUME TypeOK, NEW packet \in Packet, PutOnAir(packet)
  PROVE  /\ sent' \in Seq(Packet)
         /\ Len(sent') = Len(sent) + 1 /\ Len(sent) \in Nat
         /\ Ids' = Ids \cup {Len(sent) + 1}
         /\ Ids = 1..Len(sent)
         /\ \A p \in Ids : sent'[p] = sent[p] /\ outcome'[p] = outcome[p]
         /\ sent'[Len(sent) + 1] = packet
         /\ outcome'[Len(sent) + 1] = <<>>
         /\ fate' \in Seq({"air", "relayed", "received", "acked"}) /\ Len(fate') = Len(sent')
         /\ outcome' \in Seq(Seq(Statuses)) /\ Len(outcome') = Len(sent')
<1>1. /\ sent \in Seq(Packet)
      /\ fate \in Seq({"air", "relayed", "received", "acked"}) /\ Len(fate) = Len(sent)
      /\ outcome \in Seq(Seq(Statuses)) /\ Len(outcome) = Len(sent)
  BY DEF TypeOK
<1>2. <<>> \in Seq(Statuses)
  OBVIOUS
<1>3. DOMAIN outcome = Ids /\ Ids = 1..Len(sent)
  BY <1>1 DEF Ids
<1>4. QED
  BY <1>1, <1>2, <1>3, AppendProperties DEF PutOnAir, Ids

-----------------------------------------------------------------------------
(* Type correctness, with the phase invariant it needs.                    *)

(* Types and phases hold initially.                                        *)
LEMMA TypeInit == Init => TypeOK /\ PhaseInv
<1> SUFFICES ASSUME Init PROVE TypeOK /\ PhaseInv
  OBVIOUS
<1>1. sent = <<>> /\ fate = <<>> /\ outcome = <<>> /\ Ids = {}
  BY DEF Init, Ids
<1>2. /\ sent \in Seq(Packet) /\ Len(sent) = 0
      /\ fate \in Seq({"air", "relayed", "received", "acked"}) /\ Len(fate) = 0
      /\ outcome \in Seq(Seq(Statuses)) /\ Len(outcome) = 0
  BY <1>1
<1>3. DOMAIN pending = {} /\ pending \in [DOMAIN pending -> 0..AckTimeout + 1]
  <2>1. pending = [p \in {} |-> 0]
    BY DEF Init
  <2>2. DOMAIN pending = {}
    BY <2>1
  <2>3. pending \in [{} -> 0..AckTimeout + 1]
    BY <2>1
  <2>4. QED
    BY <2>2, <2>3
<1>4. link = "down" /\ lock = "free" /\ excluded = {} /\ faults = 0 /\ lost = {}
      /\ kpc = "sleep" /\ kconn = FALSE /\ kbatch = {} /\ kcur = 0 /\ rxSel = 0
  BY DEF Init
<1>5. /\ hpc \in [Requests -> {"idle"}]
      /\ target \in [Requests -> Destinations]
      /\ todo \in [Requests -> SUBSET Destinations]
      /\ cur \in [Requests -> {NoDst}]
      /\ tries \in [Requests -> {0}]
      /\ reply \in [Requests -> {"none"}]
  BY DEF Init, Destinations
<1>6. TypeOK
  <2>1. /\ hpc \in [Requests -> {"idle", "waitLock", "ready", "send", "sent", "done"}]
        /\ target \in [Requests -> Destinations \cup {Channel}]
        /\ cur \in [Requests -> Destinations \cup {NoDst}]
        /\ reply \in [Requests -> {"none", "excluded", "notConnected", "sendFailed", "ack",
                                   "closed"}]
    BY <1>5
  <2>2. tries \in [Requests -> 0..1 + FanoutRetries]
    BY <1>5, LimitsAssumption
  <2>3. /\ DOMAIN pending \subseteq Ids /\ kbatch \subseteq Ids /\ excluded \subseteq Nodes
        /\ lost \subseteq Ids
    BY <1>3, <1>4
  <2>4. faults \in 0..MaxFaults
    BY <1>4, LimitsAssumption
  <2>5. QED
    BY <1>2, <1>3, <1>4, <1>5, <2>1, <2>2, <2>3, <2>4 DEF TypeOK
<1>7. PhaseInv
  BY DEF Init, PhaseInv, RetryInProgress
<1>8. QED
  BY <1>6, <1>7

(* A step of a handler keeps types and phases.                             *)
LEMMA TypeHandleCommand ==
  ASSUME TypeOK, PhaseInv, NEW r \in Requests, HandleCommand(r)
  PROVE  TypeOK' /\ PhaseInv'
<1> USE DEF linkVars, airVars, handlerVars, keepVars, Goto, Answer, PhaseInv,
            RetryInProgress, Retryable, Attempts, Ids, NewPacket
<1>1. CASE \E t \in Targets : Submit(r, t)
  <2>1. PICK t \in Targets : Submit(r, t)
    BY <1>1
  <2>2. t \in Destinations \cup {Channel}
    BY NodesAssumption
  <2>3. TypeOK'
    BY <2>1, <2>2 DEF TypeOK, Submit
  <2>4. PhaseInv'
    BY <2>1, <2>2 DEF TypeOK, Submit
  <2>5. QED
    BY <2>3, <2>4
<1>2. CASE RefuseUnconnected(r)
  BY <1>2 DEF TypeOK, RefuseUnconnected
<1>3. CASE \E known \in SUBSET Nodes : AcquireLock(r, known)
  <2>1. PICK known \in SUBSET Nodes : AcquireLock(r, known)
    BY <1>3
  <2>2. DestinationsOf(target[r], known) \subseteq Destinations
    BY <2>1 DEF TypeOK, DestinationsOf, Destinations
  <2>3. TypeOK'
    BY <2>1, <2>2 DEF TypeOK, AcquireLock
  <2>4. PhaseInv'
    BY <2>1, <2>2 DEF TypeOK, AcquireLock
  <2>5. QED
    BY <2>3, <2>4
<1>4. CASE \E d \in todo[r] : SendTo(r, d)
  BY <1>4, LimitsAssumption DEF TypeOK, SendTo
<1>5. CASE Transmit(r)
  <2> DEFINE packet == [req |-> r, dst |-> cur[r], attempt |-> 0, channel |-> 0]
  <2>1. packet \in Packet
    BY <1>5, LimitsAssumption DEF Transmit, Packet
  <2>2. PutOnAir(packet)
    BY <1>5 DEF Transmit
  <2> HIDE DEF packet
  <2>3. QED
    BY <1>5, <2>1, <2>2, OnAirType DEF TypeOK, Transmit
<1>6. CASE SendRaises(r)
  BY <1>6, LimitsAssumption DEF TypeOK, SendRaises
<1>7. CASE RegisterPendingCommand(r)
  <2>1. Len(sent) \in Ids
    BY <1>7 DEF RegisterPendingCommand
  <2>2. /\ DOMAIN pending' \subseteq Ids
        /\ pending' \in [DOMAIN pending' -> 0..AckTimeout + 1]
    <3>1. CASE target[r] = Channel
      BY <1>7, <3>1 DEF TypeOK, RegisterPendingCommand
    <3>2. CASE target[r] # Channel
      <4>1. pending' = With(Len(sent))
        BY <1>7, <3>2 DEF RegisterPendingCommand
      <4>2. DOMAIN pending \subseteq Ids
        BY DEF TypeOK
      <4>3. QED
        <5>1. /\ DOMAIN With(Len(sent)) = DOMAIN pending \cup {Len(sent)}
              /\ With(Len(sent)) \in [DOMAIN With(Len(sent)) -> 0..AckTimeout + 1]
          BY PendingType
        <5>2. QED
          BY <2>1, <4>1, <4>2, <5>1
    <3>3. QED
      BY <3>1, <3>2
  <2>3. QED
    BY <1>7, <2>2 DEF TypeOK, RegisterPendingCommand
<1>8. CASE Finish(r)
  BY <1>8 DEF TypeOK, Finish
<1>9. CASE BroadcastTargetsRaises(r)
  BY <1>9, LimitsAssumption DEF TypeOK, BroadcastTargetsRaises, CommandRaises, Fails
<1>10. CASE SentWithoutId(r)
  <2>1. Len(sent) \in Ids
    BY <1>10 DEF SentWithoutId
  <2>2. QED
    BY <1>10, <2>1, LimitsAssumption DEF TypeOK, SentWithoutId, Fails
<1>11. CASE NodeNameRaises(r)
  <2>1. /\ DOMAIN pending' \subseteq Ids
        /\ pending' \in [DOMAIN pending' -> 0..AckTimeout + 1]
    <3>1. CASE pending' = pending
      BY <3>1 DEF TypeOK
    <3>2. CASE hpc[r] = "sent" /\ pending' = With(Len(sent))
      <4>1. Len(sent) \in Ids /\ DOMAIN pending \subseteq Ids
        BY <3>2 DEF TypeOK
      <4>2. /\ DOMAIN With(Len(sent)) = DOMAIN pending \cup {Len(sent)}
            /\ With(Len(sent)) \in [DOMAIN With(Len(sent)) -> 0..AckTimeout + 1]
        BY PendingType
      <4>3. QED
        BY <3>2, <4>1, <4>2
    <3>3. QED
      BY <1>11, <3>1, <3>2 DEF NodeNameRaises
  <2>2. /\ faults' \in 0..MaxFaults /\ lost' \subseteq Ids
        /\ hpc' = [hpc EXCEPT ![r] = "done"] /\ reply' = [reply EXCEPT ![r] = "closed"]
    BY <1>11, LimitsAssumption DEF TypeOK, NodeNameRaises, CommandRaises, Fails
  <2>3. /\ lock' = "free"
        /\ UNCHANGED <<link, excluded, airVars, outcome, target, todo, cur, tries, keepVars,
                       rxSel>>
    BY <1>11 DEF NodeNameRaises
  <2>4. TypeOK'
    BY <2>1, <2>2, <2>3 DEF TypeOK
  <2>5. PhaseInv'
    BY <2>2, <2>3 DEF TypeOK
  <2>6. QED
    BY <2>4, <2>5
<1>12. QED
  BY <1>1, <1>2, <1>3, <1>4, <1>5, <1>6, <1>7, <1>8, <1>9, <1>10, <1>11 DEF HandleCommand

(* So does a step of the keep-alive loop.                                  *)
LEMMA TypeKeepAlive ==
  ASSUME TypeOK, PhaseInv, KeepAlive
  PROVE  TypeOK' /\ PhaseInv'
<1> USE DEF linkVars, airVars, handlerVars, keepVars, PhaseInv, RetryInProgress,
            Retryable, Attempts, Ids, NewPacket
<1>1. CASE KeepAliveCheck
  BY <1>1 DEF TypeOK, KeepAliveCheck
<1>2. CASE KeepAliveBeat
  BY <1>2 DEF TypeOK, KeepAliveBeat
<1>3. CASE KeepAliveDies
  BY <1>3 DEF TypeOK, KeepAliveDies
<1>4. CASE SweepScan
  BY <1>4 DEF TypeOK, SweepScan, TimedOut
<1>5. CASE \E p \in kbatch : SweepPop(p)
  <2>1. PICK p \in kbatch : SweepPop(p)
    BY <1>5
  <2>2. p \in Ids
    BY DEF TypeOK
  <2>3. /\ DOMAIN pending' \subseteq Ids
        /\ pending' \in [DOMAIN pending' -> 0..AckTimeout + 1]
    BY <2>1, PendingType DEF TypeOK, SweepPop
  <2>4. CASE p \notin DOMAIN pending
    BY <2>1, <2>2, <2>3, <2>4 DEF TypeOK, SweepPop
  <2>5. CASE p \in DOMAIN pending /\ ~ (Retryable(p) /\ link = "up")
    <3>1. Report(p, "missed")
      BY <2>1, <2>5 DEF SweepPop
    <3>2. outcome' \in Seq(Seq(Statuses)) /\ Len(outcome') = Len(outcome)
      BY <2>2, <3>1, ReportType DEF Statuses
    <3>3. QED
      BY <2>1, <2>2, <2>3, <2>5, <3>2 DEF TypeOK, SweepPop
  <2>6. CASE p \in DOMAIN pending /\ Retryable(p) /\ link = "up"
    BY <2>1, <2>2, <2>3, <2>6 DEF TypeOK, SweepPop
  <2>7. QED
    BY <2>4, <2>5, <2>6
<1>6. CASE SweepDone
  BY <1>6 DEF TypeOK, SweepDone
<1>7. CASE SweepAbandoned
  BY <1>7, LimitsAssumption DEF TypeOK, SweepAbandoned, Abandon, Fails
<1>8. CASE RetryAcquire
  <2>1. CASE link = "up"
    BY <1>8, <2>1 DEF TypeOK, RetryAcquire
  <2>2. CASE link # "up"
    <3>1. Report(kcur, "missed") /\ kcur \in Ids
      BY <1>8, <2>2 DEF RetryAcquire
    <3>2. outcome' \in Seq(Seq(Statuses)) /\ Len(outcome') = Len(outcome)
      BY <3>1, ReportType DEF Statuses
    <3>3. QED
      BY <1>8, <2>2, <3>2 DEF TypeOK, RetryAcquire
  <2>3. QED
    BY <2>1, <2>2
<1>9. CASE RetryTransmit
  <2> DEFINE packet == [req |-> sent[kcur].req, dst |-> sent[kcur].dst,
                        attempt |-> sent[kcur].attempt + 1, channel |-> 1]
  <2>1. kcur \in Ids /\ sent[kcur] \in Packet /\ sent[kcur].attempt < MaxRetries
    BY <1>9 DEF TypeOK, RetryTransmit
  <2>2. packet \in Packet
    BY <2>1, LimitsAssumption DEF Packet
  <2>3. PutOnAir(packet)
    BY <1>9 DEF RetryTransmit
  <2> HIDE DEF packet
  <2>4. QED
    BY <1>9, <2>1, <2>2, <2>3, OnAirType DEF TypeOK, RetryTransmit
<1>10. CASE RetrySendRaises
  <2>1. Report(kcur, "missed") /\ kcur \in Ids
    BY <1>10 DEF RetrySendRaises
  <2>2. outcome' \in Seq(Seq(Statuses)) /\ Len(outcome') = Len(outcome)
    BY <2>1, ReportType DEF Statuses
  <2>3. QED
    BY <1>10, <2>2 DEF TypeOK, RetrySendRaises
<1>11. CASE RetryRegister
  <2>1. Report(kcur, "retried") /\ kcur \in Ids /\ Len(sent) \in Ids
    BY <1>11 DEF RetryRegister
  <2>2. outcome' \in Seq(Seq(Statuses)) /\ Len(outcome') = Len(outcome)
    BY <2>1, ReportType DEF Statuses
  <2>3. /\ DOMAIN pending' \subseteq Ids
        /\ pending' \in [DOMAIN pending' -> 0..AckTimeout + 1]
    <3>1. pending' = With(Len(sent)) /\ DOMAIN pending \subseteq Ids
      BY <1>11 DEF TypeOK, RetryRegister
    <3>2. /\ DOMAIN With(Len(sent)) = DOMAIN pending \cup {Len(sent)}
          /\ With(Len(sent)) \in [DOMAIN With(Len(sent)) -> 0..AckTimeout + 1]
      BY PendingType
    <3>3. QED
      BY <2>1, <3>1, <3>2
  <2>4. QED
    BY <1>11, <2>2, <2>3 DEF TypeOK, RetryRegister
<1>12. CASE MarkOfflineRaises
  <2>1. PICK p \in Ids : Abandon({p})
    BY <1>12 DEF TypeOK, MarkOfflineRaises
  <2>2. /\ DOMAIN pending' \subseteq Ids
        /\ pending' \in [DOMAIN pending' -> 0..AckTimeout + 1]
    <3>1. CASE pending' = pending
      BY <3>1 DEF TypeOK
    <3>2. ASSUME NEW q, pending' = Without(q)
          PROVE  /\ DOMAIN pending' \subseteq Ids
                 /\ pending' \in [DOMAIN pending' -> 0..AckTimeout + 1]
      BY <3>2, PendingType DEF TypeOK
    <3>3. QED
      BY <1>12, <3>1, <3>2 DEF MarkOfflineRaises
  <2>3. /\ lock' \in {lock, "free"}
        /\ UNCHANGED <<link, excluded, airVars, outcome, handlerVars, kconn, rxSel>>
    BY <1>12 DEF MarkOfflineRaises
  <2>4. QED
    BY <2>1, <2>2, <2>3, LimitsAssumption DEF TypeOK, Abandon, Fails
<1>13. CASE RetryNameRaises
  <2>1. kcur \in Ids /\ Len(sent) \in Ids
    BY <1>13 DEF RetryNameRaises
  <2>2. /\ DOMAIN pending' \subseteq Ids
        /\ pending' \in [DOMAIN pending' -> 0..AckTimeout + 1]
    <3>1. CASE pending' = pending
      BY <3>1 DEF TypeOK
    <3>2. CASE pending' = With(Len(sent))
      <4>1. DOMAIN pending \subseteq Ids
        BY DEF TypeOK
      <4>2. /\ DOMAIN With(Len(sent)) = DOMAIN pending \cup {Len(sent)}
            /\ With(Len(sent)) \in [DOMAIN With(Len(sent)) -> 0..AckTimeout + 1]
        BY PendingType
      <4>3. QED
        BY <2>1, <3>2, <4>1, <4>2
    <3>3. QED
      BY <1>13, <3>1, <3>2 DEF RetryNameRaises
  <2>3. /\ lock' = "free" /\ kbatch' = {} /\ kcur' = 0 /\ kpc' = "sleep"
        /\ UNCHANGED <<link, excluded, airVars, outcome, handlerVars, kconn, rxSel>>
    BY <1>13 DEF RetryNameRaises, Abandon
  <2>4. faults' \in 0..MaxFaults /\ lost' \subseteq Ids
    BY <1>13, <2>1, LimitsAssumption DEF TypeOK, RetryNameRaises, Abandon, Fails
  <2>5. QED
    BY <2>2, <2>3, <2>4 DEF TypeOK
<1>14. CASE RetryWithoutId
  <2>1. Report(kcur, "missed") /\ kcur \in Ids /\ Len(sent) \in Ids
    BY <1>14 DEF RetryWithoutId
  <2>2. outcome' \in Seq(Seq(Statuses)) /\ Len(outcome') = Len(outcome)
    BY <2>1, ReportType DEF Statuses
  <2>3. faults' \in 0..MaxFaults /\ lost' \subseteq Ids
    BY <1>14, <2>1, LimitsAssumption DEF TypeOK, RetryWithoutId, Fails
  <2>4. QED
    BY <1>14, <2>2, <2>3 DEF TypeOK, RetryWithoutId
<1>15. QED
  BY <1>1, <1>2, <1>3, <1>4, <1>5, <1>6, <1>7, <1>8, <1>9, <1>10, <1>11, <1>12, <1>13,
     <1>14 DEF KeepAlive

(* So does a step of the reader thread.                                    *)
LEMMA TypeOnReceivePacket ==
  ASSUME TypeOK, PhaseInv, OnReceivePacket
  PROVE  TypeOK' /\ PhaseInv'
<1> USE DEF linkVars, airVars, handlerVars, keepVars, PhaseInv, RetryInProgress,
            Retryable, Attempts, Ids, NewPacket
<1>1. CASE \E p \in Ids, n \in Nodes \cup {Gateway}, ok, given \in BOOLEAN :
             OnRouting(p, n, ok, given)
  <2>1. PICK p \in Ids, n \in Nodes \cup {Gateway}, ok \in BOOLEAN, given \in BOOLEAN :
          OnRouting(p, n, ok, given)
    BY <1>1
  <2>2. fate' \in Seq({"air", "relayed", "received", "acked"}) /\ Len(fate') = Len(fate)
    <3>1. fate \in Seq({"air", "relayed", "received", "acked"}) /\ p \in 1..Len(fate)
      BY DEF TypeOK
    <3>2. Heed(p, ok)
      BY <2>1 DEF OnRouting
    <3>3. CASE ok = TRUE
      <4>1. \E f \in {"relayed", "acked"} : fate' = [fate EXCEPT ![p] = f]
        BY <3>2, <3>3 DEF Heed
      <4>2. QED
        BY <3>1, <4>1
    <3>4. CASE ok = FALSE
      BY <3>1, <3>2, <3>4 DEF Heed
    <3>5. QED
      BY <3>3, <3>4
  <2>3. CASE given /\ p \in DOMAIN pending
    <3>1. Report(p, IF ok THEN "delivered" ELSE "failed") /\ pending' = Without(p)
      BY <2>1, <2>3 DEF OnRouting
    <3>2. outcome' \in Seq(Seq(Statuses)) /\ Len(outcome') = Len(outcome)
      <4>1. (IF ok THEN "delivered" ELSE "failed") \in Statuses
        BY DEF Statuses
      <4>2. QED
        BY <3>1, <4>1, ReportType
    <3>3. /\ DOMAIN pending' \subseteq Ids
          /\ pending' \in [DOMAIN pending' -> 0..AckTimeout + 1]
      BY <3>1, PendingType DEF TypeOK
    <3>4. QED
      BY <2>1, <2>2, <2>3, <3>2, <3>3 DEF TypeOK, OnRouting
  <2>4. CASE ~ (given /\ p \in DOMAIN pending)
    <3>1. rxSel' \in Ids \cup {0} /\ outcome' = outcome /\ pending' = pending
      BY <2>1, <2>4 DEF OnRouting
    <3>2. sent' = sent /\ UNCHANGED <<linkVars, lock, handlerVars, keepVars>>
      BY <2>1 DEF OnRouting
    <3>3. QED
      BY <2>2, <3>1, <3>2 DEF TypeOK
  <2>5. QED
    BY <2>3, <2>4
<1>2. CASE \E n \in Nodes : OnOtherPacket(n)
  BY <1>2 DEF TypeOK, OnOtherPacket
<1>3. CASE ConsumePendingByDestination
  <2>1. rxSel \in Ids /\ pending' = Without(rxSel)
    BY <1>3 DEF TypeOK, ConsumePendingByDestination
  <2>2. /\ DOMAIN pending' \subseteq Ids
        /\ pending' \in [DOMAIN pending' -> 0..AckTimeout + 1]
    BY <2>1, PendingType DEF TypeOK
  <2>3. outcome' \in Seq(Seq(Statuses)) /\ Len(outcome') = Len(outcome)
    <3>1. CASE rxSel \in DOMAIN pending
      BY <1>3, <2>1, <3>1, ReportType DEF ConsumePendingByDestination, Statuses
    <3>2. CASE rxSel \notin DOMAIN pending
      BY <1>3, <3>2 DEF ConsumePendingByDestination, TypeOK
    <3>3. QED
      BY <3>1, <3>2
  <2>4. QED
    BY <1>3, <2>2, <2>3 DEF TypeOK, ConsumePendingByDestination
<1>4. QED
  BY <1>1, <1>2, <1>3 DEF OnReceivePacket

(* So do link, settings, radio and clock.                                  *)
LEMMA TypeEnvironment ==
  ASSUME TypeOK, PhaseInv, Environment
  PROVE  TypeOK' /\ PhaseInv'
<1> USE DEF linkVars, airVars, handlerVars, keepVars, PhaseInv, RetryInProgress,
            Retryable, Attempts, Ids, NewPacket
<1>1. CASE LinkBreaks
  BY <1>1, LimitsAssumption DEF TypeOK, LinkBreaks, Fails
<1>2. CASE ConnectStart
  BY <1>2 DEF TypeOK, ConnectStart
<1>3. CASE ConnectFinish
  BY <1>3 DEF TypeOK, ConnectFinish
<1>4. CASE ApplySettings
  BY <1>4, NodesAssumption DEF TypeOK, ApplySettings
<1>5. CASE Tick
  <2>1. /\ DOMAIN pending' = DOMAIN pending
        /\ pending' \in [DOMAIN pending -> 0..AckTimeout + 1]
    <3>1. AckTimeout \in Nat /\ \A p \in DOMAIN pending : pending[p] \in 0..AckTimeout + 1
      BY LimitsAssumption DEF TypeOK
    <3>2. pending' = [p \in DOMAIN pending |->
                        IF pending[p] <= AckTimeout THEN pending[p] + 1 ELSE pending[p]]
      BY <1>5 DEF Tick
    <3>3. ASSUME NEW p \in DOMAIN pending
          PROVE  (IF pending[p] <= AckTimeout THEN pending[p] + 1 ELSE pending[p])
                   \in 0..AckTimeout + 1
      BY <3>1
    <3> HIDE DEF linkVars
    <3>4. QED
      BY <3>2, <3>3
  <2>2. QED
    BY <1>5, <2>1 DEF TypeOK, Tick
<1>6. CASE \E p \in Ids : NodeReceives(p)
  <2>1. PICK p \in Ids : NodeReceives(p)
    BY <1>6
  <2>2. fate' \in Seq({"air", "relayed", "received", "acked"}) /\ Len(fate') = Len(fate)
    BY <2>1 DEF TypeOK, NodeReceives
  <2>3. QED
    BY <2>1, <2>2 DEF TypeOK, NodeReceives
<1>7. QED
  BY <1>1, <1>2, <1>3, <1>4, <1>5, <1>6 DEF Environment

(* And a step that changes nothing.                                        *)
LEMMA TypeStutter ==
  ASSUME TypeOK, PhaseInv, UNCHANGED vars
  PROVE  TypeOK' /\ PhaseInv'
BY DEF vars, linkVars, airVars, handlerVars, keepVars, TypeOK, PhaseInv,
       RetryInProgress, Retryable, Attempts, Ids, NewPacket

(* Every step keeps types and phases.                                      *)
LEMMA TypeStep == TypeOK /\ PhaseInv /\ [Next]_vars => TypeOK' /\ PhaseInv'
BY TypeHandleCommand, TypeKeepAlive, TypeOnReceivePacket, TypeEnvironment,
   TypeStutter DEF Next

(* Every variable keeps its type, and no packet is ever sent with a retry  *)
(* count beyond PENDING_TIMEOUT_RETRIES.                                   *)
THEOREM TypeCorrect == Spec => []TypeOK
<1>1. Spec => [](TypeOK /\ PhaseInv)
  BY TypeInit, TypeStep, PTL DEF Spec
<1>2. QED
  BY <1>1, PTL

-----------------------------------------------------------------------------
(* The lock: who is inside iface.sendText holds it.                        *)

(* Every step leaves whoever is sending in possession of the lock.         *)
LEMMA LockStep ==
  ASSUME TypeOK, ExclusiveSend, [Next]_vars
  PROVE  ExclusiveSend'
<1> USE RequestsAssumption DEF TypeOK, ExclusiveSend, Sending, Retrying, linkVars,
            airVars, handlerVars, keepVars, Goto, Answer
<1>1. CASE \E r \in Requests : HandleCommand(r)
  <2>1. PICK r \in Requests : HandleCommand(r)
    BY <1>1
  <2>2. CASE \E t \in Targets : Submit(r, t)
    BY <2>2 DEF Submit
  <2>3. CASE RefuseUnconnected(r)
    BY <2>3 DEF RefuseUnconnected
  <2>4. CASE \E known \in SUBSET Nodes : AcquireLock(r, known)
    BY <2>4 DEF AcquireLock
  <2>5. CASE \E d \in todo[r] : SendTo(r, d)
    BY <2>5 DEF SendTo
  <2>6. CASE Transmit(r)
    BY <2>6 DEF Transmit
  <2>7. CASE SendRaises(r)
    BY <2>7 DEF SendRaises
  <2>8. CASE RegisterPendingCommand(r)
    BY <2>8 DEF RegisterPendingCommand
  <2>9. CASE Finish(r)
    BY <2>9 DEF Finish
  <2>10. CASE BroadcastTargetsRaises(r)
    BY <2>10 DEF BroadcastTargetsRaises, CommandRaises
  <2>11. CASE SentWithoutId(r)
    BY <2>11 DEF SentWithoutId
  <2>12. CASE NodeNameRaises(r)
    BY <2>12 DEF NodeNameRaises, CommandRaises
  <2>13. QED
    BY <2>1, <2>2, <2>3, <2>4, <2>5, <2>6, <2>7, <2>8, <2>9, <2>10, <2>11, <2>12
       DEF HandleCommand
<1>2. CASE KeepAlive
  BY <1>2 DEF KeepAlive, KeepAliveCheck, KeepAliveBeat, KeepAliveDies, SweepScan,
              SweepPop, SweepDone, SweepAbandoned, RetryAcquire, RetryTransmit,
              RetrySendRaises, RetryRegister, MarkOfflineRaises, RetryNameRaises,
              RetryWithoutId, Abandon
<1>3. CASE OnReceivePacket
  BY <1>3 DEF OnReceivePacket, OnRouting, OnOtherPacket, ConsumePendingByDestination
<1>4. CASE Environment
  BY <1>4 DEF Environment, LinkBreaks, ConnectStart, ConnectFinish, ApplySettings,
              Tick, NodeReceives
<1>5. CASE UNCHANGED vars
  BY <1>5 DEF vars
<1>6. QED
  BY <1>1, <1>2, <1>3, <1>4, <1>5 DEF Next

(* At most one coroutine is inside iface.sendText at any time.             *)
THEOREM SendsExclude == Spec => []ExclusiveSend
<1>1. Init => ExclusiveSend
  BY DEF Init, ExclusiveSend, Sending, Retrying
<1>2. TypeOK /\ ExclusiveSend /\ [Next]_vars => ExclusiveSend'
  BY LockStep
<1>3. QED
  BY <1>1, <1>2, TypeCorrect, PTL DEF Spec

(* The interface is not closed or replaced under a coroutine that sends.   *)
THEOREM InterfaceIsStable == Spec => InterfaceStable
<1>1. TypeOK /\ ExclusiveSend /\ [Next]_vars =>
        [(link # "down" /\ link' = "down")
           => ~ (Retrying \/ \E r \in Requests : Sending(r))]_vars
  <2>1. SUFFICES ASSUME ExclusiveSend, Next, link # "down", link' = "down"
                 PROVE  ~ (Retrying \/ \E r \in Requests : Sending(r))
    OBVIOUS
  <2>2. lock \in {"free", "connector"}
    <3>1. CASE \E r \in Requests : HandleCommand(r)
      BY <2>1, <3>1 DEF HandleCommand, Submit, RefuseUnconnected, AcquireLock, SendTo,
         Transmit, SendRaises, RegisterPendingCommand, Finish, BroadcastTargetsRaises,
         SentWithoutId, NodeNameRaises, linkVars
    <3>2. CASE KeepAlive
      BY <2>1, <3>2 DEF KeepAlive, KeepAliveCheck, KeepAliveBeat, KeepAliveDies,
         SweepScan, SweepPop, SweepDone, SweepAbandoned, RetryAcquire, RetryTransmit,
         RetrySendRaises, RetryRegister, MarkOfflineRaises, RetryNameRaises,
         RetryWithoutId, linkVars
    <3>3. CASE OnReceivePacket
      BY <2>1, <3>3 DEF OnReceivePacket, OnRouting, OnOtherPacket,
         ConsumePendingByDestination, linkVars
    <3>4. CASE Environment
      BY <2>1, <3>4 DEF Environment, LinkBreaks, ConnectStart, ConnectFinish,
         ApplySettings, Tick, NodeReceives, linkVars
    <3>5. QED
      BY <2>1, <3>1, <3>2, <3>3, <3>4 DEF Next
  <2>3. QED
    BY <2>1, <2>2, RequestsAssumption DEF ExclusiveSend
<1>2. QED
  BY <1>1, TypeCorrect, SendsExclude, PTL DEF Spec, InterfaceStable

-----------------------------------------------------------------------------
(* The ledger: steps that leave it alone, and the three ways a packet      *)
(* leaves the hands that hold it.                                          *)

LedgerInv == FreshInv /\ HolderInv /\ ChainInv /\ LostInv

HandlersQuiet == UNCHANGED <<hpc, todo, cur>>
KeepQuiet     == \/ UNCHANGED <<kpc, kcur>>
                 \/ ~ RetryInProgress /\ ~ RetryInProgress'

(* Nothing moves but entries that vanish from pending_commands and program *)
(* counters that hold no packet.                                           *)
LEMMA LedgerQuiet ==
  ASSUME LedgerInv, HandlersQuiet, KeepQuiet, UNCHANGED <<sent, outcome, lost>>,
         DOMAIN pending' \subseteq DOMAIN pending
  PROVE  LedgerInv'
<1>1. FreshInv'
  BY DEF LedgerInv, FreshInv, HandlersQuiet, Ids
<1>2. HolderInv'
  BY DEF LedgerInv, HolderInv, HandlersQuiet, KeepQuiet, RetryInProgress, Ids, Chain,
         NewPacket
<1>3. ChainInv'
  BY DEF LedgerInv, ChainInv, Succeeded, KeepQuiet, RetryInProgress, Ids, Chain, NewPacket
<1>4. LostInv'
  BY DEF LedgerInv, LostInv, HandlersQuiet, KeepQuiet, RetryInProgress, Ids, NewPacket
<1>5. QED
  BY <1>1, <1>2, <1>3, <1>4 DEF LedgerInv

(* An entry is popped and reported.                                        *)
LEMMA LedgerPop ==
  ASSUME TypeOK, LedgerInv, HandlersQuiet, KeepQuiet, UNCHANGED <<sent, lost>>,
         NEW p \in DOMAIN pending, NEW status \in Statuses,
         Report(p, status), pending' = Without(p)
  PROVE  LedgerInv'
<1>1. /\ p \in Ids /\ outcome[p] = <<>>
      /\ outcome'[p] = Append(outcome[p], status)
      /\ \A q \in Ids \ {p} : outcome'[q] = outcome[q]
  BY ReportType DEF TypeOK, LedgerInv, HolderInv
<1>2. outcome'[p] = <<status>>
  BY <1>1
<1>3. DOMAIN pending' = DOMAIN pending \ {p} /\ DOMAIN pending \subseteq Ids
  BY PendingType DEF TypeOK
<1>4. FreshInv'
  BY DEF LedgerInv, FreshInv, HandlersQuiet, Ids
<1>5. HolderInv'
  BY <1>1, <1>3 DEF LedgerInv, HolderInv, HandlersQuiet, KeepQuiet, RetryInProgress,
                    Ids, Chain, NewPacket
<1>6. p \notin lost
  BY DEF LedgerInv, LostInv
<1>7. ChainInv'
  <2>1. \A x \in Ids' : outcome'[x] = <<>> \/ \E t \in Statuses : outcome'[x] = <<t>>
    BY <1>1, <1>2 DEF LedgerInv, ChainInv, Ids
  <2>2. ASSUME NEW x \in Ids, NEW y \in Ids, Succeeded(x, y), outcome[x] # <<>> \/ x # p
        PROVE  Succeeded(x, y)'
    BY <1>1, <2>2 DEF Succeeded, KeepQuiet, RetryInProgress, NewPacket
  <2>3. ASSUME NEW y \in Ids, p < y, Chain(p) = Chain(y) PROVE FALSE
    <3>1. Succeeded(p, y)
      BY <1>1, <2>3 DEF LedgerInv, ChainInv
    <3>2. RetryInProgress => kcur # p
      BY DEF LedgerInv, HolderInv
    <3>3. QED
      BY <1>1, <1>6, <3>1, <3>2 DEF Succeeded, RetryInProgress
  <2>4. QED
    BY <2>1, <2>2, <2>3 DEF LedgerInv, ChainInv, Ids, Chain
<1>8. LostInv'
  BY <1>1, <1>3, <1>6 DEF LedgerInv, LostInv, HandlersQuiet, KeepQuiet, RetryInProgress,
                          Ids, NewPacket
<1>9. QED
  BY <1>4, <1>5, <1>7, <1>8 DEF LedgerInv

(* The packet that a retry holds is reported and nothing replaces it.      *)
LEMMA LedgerGiveUp ==
  ASSUME TypeOK, LedgerInv, HandlersQuiet, UNCHANGED <<sent, pending, lost>>,
         kpc \in {"retryWait", "retrySend"}, ~ RetryInProgress',
         Report(kcur, "missed")
  PROVE  LedgerInv'
<1>1. /\ kcur \in Ids \ DOMAIN pending /\ outcome[kcur] = <<>>
      /\ \A r \in Requests : hpc[r] = "sent" => kcur # NewPacket
  BY DEF LedgerInv, HolderInv, RetryInProgress
<1>2. /\ outcome'[kcur] = <<"missed">>
      /\ \A q \in Ids \ {kcur} : outcome'[q] = outcome[q]
  BY <1>1, ReportType DEF Statuses
<1>3. FreshInv'
  BY DEF LedgerInv, FreshInv, HandlersQuiet, Ids
<1>4. HolderInv'
  BY <1>1, <1>2 DEF TypeOK, LedgerInv, HolderInv, HandlersQuiet, RetryInProgress, Ids,
                    Chain, NewPacket
<1>5. kcur \notin lost
  BY DEF LedgerInv, LostInv, RetryInProgress
<1>6. ChainInv'
  BY <1>1, <1>2, <1>5 DEF LedgerInv, ChainInv, Succeeded, Ids, Chain, NewPacket, Statuses
<1>7. LostInv'
  BY <1>1, <1>2, <1>5 DEF LedgerInv, LostInv, HandlersQuiet, RetryInProgress, Ids,
                          NewPacket
<1>8. QED
  BY <1>3, <1>4, <1>6, <1>7 DEF LedgerInv

(* The first transmission to a destination opens a chain.                  *)
LEMMA LedgerTransmit ==
  ASSUME TypeOK, PhaseInv, ExclusiveSend, LedgerInv, NEW r \in Requests, Transmit(r)
  PROVE  LedgerInv'
<1> DEFINE packet == [req |-> r, dst |-> cur[r], attempt |-> 0, channel |-> 0]
<1> PICK new : new = Len(sent) + 1
  OBVIOUS
<1>1. packet \in Packet /\ packet.req = r /\ packet.dst = cur[r] /\ PutOnAir(packet)
  BY LimitsAssumption DEF Transmit, PhaseInv, Packet
<1>2. /\ Ids' = Ids \cup {new} /\ new \notin Ids /\ NewPacket' = new
      /\ \A p \in Ids : p < new
      /\ \A p \in Ids : sent'[p] = sent[p] /\ outcome'[p] = outcome[p]
      /\ sent'[new] = packet /\ outcome'[new] = <<>>
  BY <1>1, OnAirType DEF NewPacket
<1>3. /\ hpc' = [hpc EXCEPT ![r] = "sent"] /\ hpc[r] = "send"
      /\ UNCHANGED <<lock, pending, todo, cur, kpc, kcur, lost>>
  BY DEF Transmit, Goto, keepVars, linkVars
<1>4. DOMAIN pending \subseteq Ids
  BY DEF TypeOK
<1>5. ~ (\E q \in Requests : q # r /\ hpc[q] = "sent") /\ kpc # "retrySent"
  BY <1>3, RequestsAssumption DEF ExclusiveSend, Sending, Retrying
<1>6. \A p \in Ids : Chain(p) # <<r, cur[r]>>
  BY <1>3 DEF LedgerInv, FreshInv, Chain
<1> HIDE DEF packet
<1>7. FreshInv'
  <2>1. /\ hpc \in [Requests -> {"idle", "waitLock", "ready", "send", "sent", "done"}]
        /\ \A p \in Ids : sent[p].req \in Requests
    BY PacketType DEF TypeOK
  <2>2. cur[r] \notin todo[r] /\ FreshInv
    BY <1>3 DEF LedgerInv, FreshInv
  <2>3. \A p \in Ids' : sent'[p].req = r => hpc'[sent'[p].req] = "sent"
    BY <1>3, <2>1
  <2>4. ASSUME NEW p \in Ids'
        PROVE  /\ hpc'[sent'[p].req] \notin {"idle", "waitLock"}
               /\ sent'[p].dst \notin todo'[sent'[p].req]
               /\ hpc'[sent'[p].req] = "send" => sent'[p].dst # cur'[sent'[p].req]
    <3>1. CASE p = new
      BY <1>1, <1>2, <1>3, <2>2, <2>3, <3>1
    <3>2. CASE p \in Ids
      BY <1>2, <1>3, <2>1, <2>2, <2>3, <3>2 DEF FreshInv
    <3>3. QED
      BY <1>2, <3>1, <3>2
  <2>5. \A q \in Requests : hpc'[q] = "send" => cur'[q] \notin todo'[q]
    BY <1>3, <2>1, <2>2 DEF FreshInv
  <2>6. QED
    BY <2>4, <2>5 DEF FreshInv
<1>8. HolderInv'
  BY <1>1, <1>2, <1>3, <1>4, <1>5 DEF TypeOK, LedgerInv, HolderInv, RetryInProgress,
                                      Chain
<1>9. ChainInv'
  <2>1. ChainInv /\ \A p \in Ids : Chain(p)' = Chain(p)
    BY <1>2 DEF LedgerInv, Chain
  <2>2. \A p \in Ids : Chain(p)' # Chain(new)'
    BY <1>1, <1>2, <1>6, <2>1 DEF Chain
  <2>3. \A p \in Ids' : outcome'[p] = <<>> \/ \E s \in Statuses : outcome'[p] = <<s>>
    BY <1>2, <2>1 DEF ChainInv
  <2>4. ASSUME NEW p \in Ids', NEW q \in Ids', p < q, Chain(p)' = Chain(q)'
        PROVE  p \in Ids /\ q \in Ids
    <3>1. Len(sent) \in Nat /\ Ids = 1..Len(sent)
      BY <1>1, OnAirType
    <3>2. p \in 1..new /\ q \in 1..new
      BY <1>2, <2>4, <3>1
    <3>3. p # new
      BY <2>4, <3>1, <3>2
    <3>4. q # new
      BY <1>2, <2>2, <2>4, <3>3
    <3>5. QED
      BY <1>2, <3>3, <3>4
  <2>5. \A p, q \in Ids' : p < q /\ Chain(p)' = Chain(q)' =>
          sent'[p].attempt < sent'[q].attempt /\ Succeeded(p, q)'
    BY <1>2, <1>3, <1>5, <2>1, <2>4 DEF ChainInv, Succeeded
  <2>6. QED
    BY <2>3, <2>5 DEF ChainInv
<1>10. LostInv'
  BY <1>2, <1>3 DEF LedgerInv, LostInv, RetryInProgress
<1>11. QED
  BY <1>7, <1>8, <1>9, <1>10 DEF LedgerInv

(* A handler's packet moves from its hands into pending_commands.          *)
LEMMA LedgerRegister ==
  ASSUME TypeOK, ExclusiveSend, LedgerInv, NEW r \in Requests,
         NEW pc \in {"ready", "done"}, hpc[r] = "sent", hpc' = [hpc EXCEPT ![r] = pc],
         UNCHANGED <<sent, outcome, todo, cur, kpc, kcur, lost>>,
         pending' = IF target[r] = Channel THEN pending ELSE With(NewPacket)
  PROVE  LedgerInv'
<1>1. DOMAIN pending' \subseteq DOMAIN pending \cup {NewPacket}
  BY PendingType
<1>2. ~ (\E q \in Requests : q # r /\ hpc[q] = "sent") /\ kpc # "retrySent"
  BY RequestsAssumption DEF ExclusiveSend, Sending, Retrying
<1>3. FreshInv'
  BY DEF TypeOK, LedgerInv, FreshInv, Ids
<1>4. HolderInv'
  BY <1>1, <1>2 DEF TypeOK, LedgerInv, HolderInv, RetryInProgress, Ids, Chain, NewPacket
<1>5. ChainInv'
  BY <1>2 DEF LedgerInv, ChainInv, Succeeded, Ids, Chain, NewPacket
<1>6. LostInv'
  BY <1>1, <1>2 DEF TypeOK, LedgerInv, LostInv, RetryInProgress, Ids, NewPacket
<1>7. QED
  BY <1>3, <1>4, <1>5, <1>6 DEF LedgerInv

(* A handler loses sight of the packet it has just sent.                   *)
LEMMA LedgerLoses ==
  ASSUME TypeOK, ExclusiveSend, LedgerInv, NEW r \in Requests,
         NEW pc \in {"ready", "done"}, hpc[r] = "sent", hpc' = [hpc EXCEPT ![r] = pc],
         UNCHANGED <<sent, outcome, pending, todo, cur, kpc, kcur>>,
         lost' = lost \cup {NewPacket}
  PROVE  LedgerInv'
<1>1. /\ NewPacket \in Ids \ DOMAIN pending /\ outcome[NewPacket] = <<>>
      /\ RetryInProgress => kcur # NewPacket
  BY DEF LedgerInv, HolderInv
<1>2. ~ (\E q \in Requests : q # r /\ hpc[q] = "sent") /\ kpc # "retrySent"
  BY RequestsAssumption DEF ExclusiveSend, Sending, Retrying
<1>3. FreshInv'
  BY DEF TypeOK, LedgerInv, FreshInv, Ids
<1>4. HolderInv'
  BY <1>1, <1>2 DEF TypeOK, LedgerInv, HolderInv, RetryInProgress, Ids, Chain, NewPacket
<1>5. ChainInv'
  BY <1>2 DEF LedgerInv, ChainInv, Succeeded, Ids, Chain, NewPacket
<1>6. LostInv'
  BY <1>1, <1>2 DEF TypeOK, LedgerInv, LostInv, RetryInProgress, Ids, NewPacket
<1>7. QED
  BY <1>3, <1>4, <1>5, <1>6 DEF LedgerInv

(* A handler step that touches neither the packets nor their holders.      *)
LEMMA LedgerHandlerOnly ==
  ASSUME LedgerInv, FreshInv', UNCHANGED <<sent, outcome, pending, kpc, kcur, lost>>,
         \A q \in Requests : hpc'[q] = "sent" => hpc[q] = "sent" /\ cur'[q] = cur[q]
  PROVE  LedgerInv'
<1>1. HolderInv'
  BY DEF LedgerInv, HolderInv, RetryInProgress, Ids, Chain, NewPacket
<1>2. ChainInv'
  BY DEF LedgerInv, ChainInv, Succeeded, Ids, Chain, NewPacket
<1>3. LostInv'
  BY DEF LedgerInv, LostInv, RetryInProgress, Ids, NewPacket
<1>4. QED
  BY <1>1, <1>2, <1>3 DEF LedgerInv

(* A step of a handler keeps the ledger.                                   *)
LEMMA LedgerHandleCommand ==
  ASSUME TypeOK, PhaseInv, ExclusiveSend, LedgerInv, NEW r \in Requests,
         HandleCommand(r)
  PROVE  LedgerInv'
<1>1. /\ FreshInv
      /\ hpc \in [Requests -> {"idle", "waitLock", "ready", "send", "sent", "done"}]
      /\ todo \in [Requests -> SUBSET Destinations]
      /\ cur \in [Requests -> Destinations \cup {NoDst}]
      /\ \A p \in Ids : sent[p].req \in Requests
  BY PacketType DEF LedgerInv, TypeOK
<1> USE DEF linkVars, airVars, handlerVars, keepVars, Goto, FreshInv, Ids
<1>2. CASE \E t \in Targets : Submit(r, t)
  <2>1. /\ hpc[r] = "idle" /\ \E pc \in {"done", "waitLock"} : hpc' = [hpc EXCEPT ![r] = pc]
        /\ UNCHANGED <<sent, outcome, pending, todo, cur, kpc, kcur, lost>>
    BY <1>2 DEF Submit
  <2>2. FreshInv'
    BY <1>1, <2>1
  <2>3. QED
    BY <1>1, <2>1, <2>2, LedgerHandlerOnly
<1>3. CASE RefuseUnconnected(r)
  <2>1. /\ hpc[r] = "waitLock" /\ hpc' = [hpc EXCEPT ![r] = "done"]
        /\ UNCHANGED <<sent, outcome, pending, todo, cur, kpc, kcur, lost>>
    BY <1>3 DEF RefuseUnconnected
  <2>2. FreshInv'
    BY <1>1, <2>1
  <2>3. QED
    BY <1>1, <2>1, <2>2, LedgerHandlerOnly
<1>4. CASE \E known \in SUBSET Nodes : AcquireLock(r, known)
  <2>1. /\ hpc[r] = "waitLock" /\ hpc' = [hpc EXCEPT ![r] = "ready"]
        /\ \A q \in Requests \ {r} : todo'[q] = todo[q]
        /\ UNCHANGED <<sent, outcome, pending, cur, kpc, kcur, lost>>
    BY <1>1, <1>4 DEF AcquireLock
  <2>2. FreshInv'
    BY <1>1, <2>1
  <2>3. QED
    BY <1>1, <2>1, <2>2, LedgerHandlerOnly
<1>5. CASE \E d \in todo[r] : SendTo(r, d)
  <2>1. PICK d \in todo[r] : SendTo(r, d)
    BY <1>5
  <2>2. /\ hpc[r] = "ready" /\ hpc' = [hpc EXCEPT ![r] = "send"]
        /\ cur' = [cur EXCEPT ![r] = d] /\ todo' = [todo EXCEPT ![r] = @ \ {d}]
        /\ UNCHANGED <<sent, outcome, pending, kpc, kcur, lost>>
    BY <2>1 DEF SendTo
  <2>3. FreshInv'
    BY <1>1, <2>1, <2>2
  <2>4. QED
    BY <1>1, <2>2, <2>3, LedgerHandlerOnly
<1>6. CASE Transmit(r)
  BY <1>6, LedgerTransmit
<1>7. CASE SendRaises(r)
  <2>1. /\ hpc[r] = "send" /\ \E pc \in {"send", "ready"} : hpc' = [hpc EXCEPT ![r] = pc]
        /\ UNCHANGED <<sent, outcome, pending, todo, cur, kpc, kcur, lost>>
    BY <1>7 DEF SendRaises
  <2>2. FreshInv'
    BY <1>1, <2>1
  <2>3. QED
    BY <1>1, <2>1, <2>2, LedgerHandlerOnly
<1>8. CASE RegisterPendingCommand(r)
  <2>1. /\ hpc[r] = "sent" /\ hpc' = [hpc EXCEPT ![r] = "ready"]
        /\ UNCHANGED <<sent, outcome, todo, cur, kpc, kcur, lost>>
        /\ pending' = IF target[r] = Channel THEN pending ELSE With(NewPacket)
    BY <1>8 DEF RegisterPendingCommand, NewPacket
  <2>2. QED
    BY <2>1, LedgerRegister
<1>9. CASE Finish(r)
  <2>1. /\ hpc[r] = "ready" /\ hpc' = [hpc EXCEPT ![r] = "done"]
        /\ UNCHANGED <<sent, outcome, pending, todo, cur, kpc, kcur, lost>>
    BY <1>9 DEF Finish
  <2>2. FreshInv'
    BY <1>1, <2>1
  <2>3. QED
    BY <1>1, <2>1, <2>2, LedgerHandlerOnly
<1>10. CASE BroadcastTargetsRaises(r)
  <2>1. /\ hpc[r] = "waitLock" /\ hpc' = [hpc EXCEPT ![r] = "done"]
        /\ UNCHANGED <<sent, outcome, pending, todo, cur, kpc, kcur, lost>>
    BY <1>10 DEF BroadcastTargetsRaises, CommandRaises, Fails
  <2>2. FreshInv'
    BY <1>1, <2>1
  <2>3. QED
    BY <1>1, <2>1, <2>2, LedgerHandlerOnly
<1>11. CASE SentWithoutId(r)
  <2>1. /\ hpc[r] = "sent" /\ hpc' = [hpc EXCEPT ![r] = "ready"]
        /\ UNCHANGED <<sent, outcome, pending, todo, cur, kpc, kcur>>
        /\ lost' = lost \cup {NewPacket}
    BY <1>11 DEF SentWithoutId, Fails, NewPacket
  <2>2. QED
    BY <2>1, LedgerLoses
<1>12. CASE NodeNameRaises(r)
  <2>1. /\ hpc' = [hpc EXCEPT ![r] = "done"]
        /\ UNCHANGED <<sent, outcome, todo, cur, kpc, kcur>>
    BY <1>12 DEF NodeNameRaises, CommandRaises
  <2>2. CASE hpc[r] = "send" /\ UNCHANGED <<pending, lost>>
    <3>1. FreshInv'
      BY <1>1, <2>1, <2>2
    <3>2. QED
      BY <1>1, <2>1, <2>2, <3>1, LedgerHandlerOnly
  <2>3. CASE hpc[r] = "sent" /\ UNCHANGED pending /\ lost' = lost \cup {NewPacket}
    BY <2>1, <2>3, LedgerLoses
  <2>4. CASE /\ hpc[r] = "sent" /\ UNCHANGED lost
             /\ pending' = IF target[r] = Channel THEN pending ELSE With(NewPacket)
    BY <2>1, <2>4, LedgerRegister
  <2>5. QED
    BY <1>12, <2>2, <2>3, <2>4 DEF NodeNameRaises, CommandRaises, Fails, NewPacket
<1>13. QED
  BY <1>2, <1>3, <1>4, <1>5, <1>6, <1>7, <1>8, <1>9, <1>10, <1>11, <1>12
     DEF HandleCommand

(* A retry's transmission extends the chain of the packet it repeats.      *)
LEMMA LedgerRetryTransmit ==
  ASSUME TypeOK, PhaseInv, ExclusiveSend, LedgerInv, RetryTransmit
  PROVE  LedgerInv'
<1> DEFINE packet == [req |-> sent[kcur].req, dst |-> sent[kcur].dst,
                      attempt |-> sent[kcur].attempt + 1, channel |-> 1]
<1> PICK new : new = Len(sent) + 1
  OBVIOUS
<1>1. /\ kpc = "retrySend" /\ kpc' = "retrySent" /\ kcur \in Ids \ DOMAIN pending
      /\ outcome[kcur] = <<>> /\ kcur \in Ids
      /\ UNCHANGED <<lock, pending, hpc, todo, cur, kcur, lost>> /\ kcur \notin lost
  BY DEF RetryTransmit, LedgerInv, HolderInv, LostInv, RetryInProgress, handlerVars, linkVars
<1>2. /\ packet \in Packet /\ packet.req = sent[kcur].req /\ packet.dst = sent[kcur].dst
      /\ packet.attempt = sent[kcur].attempt + 1 /\ PutOnAir(packet)
  <2>1. sent[kcur] \in Packet /\ sent[kcur].attempt < MaxRetries
    BY <1>1, PacketType DEF PhaseInv, Retryable
  <2>2. QED
    BY <2>1, LimitsAssumption DEF Packet, RetryTransmit
<1>3. /\ Ids' = Ids \cup {new} /\ new \notin Ids /\ NewPacket' = new
      /\ \A p \in Ids : p < new
      /\ \A p \in Ids : sent'[p] = sent[p] /\ outcome'[p] = outcome[p]
      /\ sent'[new] = packet /\ outcome'[new] = <<>>
  BY <1>2, OnAirType DEF NewPacket
<1>4. DOMAIN pending \subseteq Ids
  BY DEF TypeOK
<1>5. \A q \in Requests : hpc[q] \notin {"send", "sent"}
  BY <1>1, RequestsAssumption DEF ExclusiveSend, Sending, Retrying
<1> HIDE DEF packet
<1>6. FreshInv'
  <2>1. FreshInv /\ \A p \in Ids : sent[p].req \in Requests
    BY PacketType DEF LedgerInv
  <2>2. ASSUME NEW p \in Ids'
        PROVE  /\ hpc'[sent'[p].req] \notin {"idle", "waitLock"}
               /\ sent'[p].dst \notin todo'[sent'[p].req]
               /\ hpc'[sent'[p].req] = "send" => sent'[p].dst # cur'[sent'[p].req]
    <3>1. CASE p = new
      BY <1>1, <1>2, <1>3, <2>1, <3>1 DEF FreshInv
    <3>2. CASE p \in Ids
      BY <1>1, <1>3, <2>1, <3>2 DEF FreshInv
    <3>3. QED
      BY <1>3, <3>1, <3>2
  <2>3. \A q \in Requests : hpc'[q] = "send" => cur'[q] \notin todo'[q]
    BY <1>1, <2>1 DEF FreshInv
  <2>4. QED
    BY <2>2, <2>3 DEF FreshInv
<1>7. HolderInv'
  <2>1. \A p \in DOMAIN pending : outcome[p] = <<>>
    BY DEF LedgerInv, HolderInv
  <2>2. \A p \in DOMAIN pending' : outcome'[p] = <<>>
    BY <1>1, <1>3, <1>4, <2>1
  <2>3. kcur' \in Ids' \ DOMAIN pending' /\ outcome'[kcur'] = <<>>
    BY <1>1, <1>3
  <2>4. /\ new \in Ids' \ DOMAIN pending' /\ outcome'[new] = <<>> /\ kcur' # new
        /\ sent'[new].req = sent'[kcur'].req /\ sent'[new].dst = sent'[kcur'].dst
    BY <1>1, <1>2, <1>3, <1>4
  <2>5. QED
    BY <1>1, <1>3, <1>5, <2>2, <2>3, <2>4 DEF HolderInv, Chain
<1>8. ChainInv'
  <2>1. ChainInv /\ \A p \in Ids : Chain(p)' = Chain(p)
    BY <1>3 DEF LedgerInv, Chain
  <2>2. <<sent'[new].req, sent'[new].dst>> = Chain(kcur)
    BY <1>2, <1>3 DEF Chain
  <2>3. \A p \in Ids' : outcome'[p] = <<>> \/ \E s \in Statuses : outcome'[p] = <<s>>
    BY <1>3, <2>1 DEF ChainInv
  <2>4. Len(sent) \in Nat /\ Ids = 1..Len(sent) /\ \A p \in Ids : sent[p] \in Packet
    BY PacketType
  <2>5. \A p \in Ids : sent[p].attempt \in Nat
    BY <2>4 DEF Packet
  <2>6. \A p \in Ids : Chain(p) = Chain(kcur) /\ p # kcur =>
          sent[p].attempt < sent[kcur].attempt /\ (outcome[p] = <<"retried">> \/ p \in lost)
    <3>1. \A p \in Ids : p # kcur => p < kcur \/ kcur < p
      BY <1>1, <2>4
    <3>2. ASSUME NEW p \in Ids, kcur < p, Chain(p) = Chain(kcur) PROVE FALSE
      <4>1. Succeeded(kcur, p) /\ (p \in lost => outcome[kcur] # <<"missed">>)
        BY <1>1, <2>1, <3>2 DEF ChainInv
      <4>2. QED
        BY <1>1, <4>1 DEF Succeeded
    <3>3. ASSUME NEW p \in Ids, p < kcur, Chain(p) = Chain(kcur)
          PROVE  sent[p].attempt < sent[kcur].attempt /\ (outcome[p] = <<"retried">> \/ p \in lost)
      <4>1. sent[p].attempt < sent[kcur].attempt /\ Succeeded(p, kcur)
        BY <1>1, <2>1, <3>3 DEF ChainInv
      <4>2. QED
        BY <1>1, <4>1 DEF Succeeded
    <3>4. QED
      BY <3>1, <3>2, <3>3
  <2>7. ASSUME NEW p \in Ids', NEW q \in Ids', p < q, Chain(p)' = Chain(q)'
        PROVE  sent'[p].attempt < sent'[q].attempt /\ Succeeded(p, q)'
    <3>1. p \in Ids
      <4>1. p \in 1..new /\ q \in 1..new
        BY <1>3, <2>4, <2>7
      <4>2. QED
        BY <1>3, <2>4, <2>7, <4>1
    <3>2. CASE q \in Ids
      BY <1>1, <1>3, <2>1, <2>7, <3>1, <3>2 DEF ChainInv, Succeeded
    <3>3. CASE q = new /\ p = kcur
      BY <1>1, <1>2, <1>3, <2>5, <3>3 DEF Succeeded
    <3>4. CASE q = new /\ p # kcur
      <4>1. Chain(p) = Chain(kcur)
        BY <2>1, <2>2, <2>7, <3>1, <3>4 DEF Chain
      <4>2. /\ sent[p].attempt < sent[kcur].attempt
            /\ outcome[p] = <<"retried">> \/ p \in lost
        BY <2>6, <3>1, <3>4, <4>1
      <4>3. QED
        BY <1>1, <1>2, <1>3, <2>5, <3>1, <3>4, <4>2 DEF Succeeded
    <3>5. QED
      BY <1>3, <3>2, <3>3, <3>4
  <2>8. QED
    BY <2>3, <2>7 DEF ChainInv
<1>9. LostInv'
  BY <1>1, <1>3, <1>5 DEF LedgerInv, LostInv
<1>10. QED
  BY <1>6, <1>7, <1>8, <1>9 DEF LedgerInv

(* The repeated packet is reported as retried, its successor registered.   *)
LEMMA LedgerRetryRegister ==
  ASSUME TypeOK, ExclusiveSend, LedgerInv, RetryRegister
  PROVE  LedgerInv'
<1>1. /\ kpc = "retrySent" /\ ~ RetryInProgress'
      /\ UNCHANGED <<sent, hpc, todo, cur, lost>>
      /\ pending' = With(NewPacket) /\ Report(kcur, "retried")
  BY DEF RetryRegister, RetryInProgress, airVars, handlerVars, linkVars, NewPacket
<1>2. /\ kcur \in Ids \ DOMAIN pending /\ outcome[kcur] = <<>> /\ kcur # NewPacket
      /\ NewPacket \in Ids \ DOMAIN pending /\ outcome[NewPacket] = <<>>
      /\ kcur \notin lost /\ NewPacket \notin lost
  BY <1>1 DEF LedgerInv, HolderInv, LostInv, RetryInProgress
<1>3. /\ outcome'[kcur] = <<"retried">>
      /\ \A q \in Ids \ {kcur} : outcome'[q] = outcome[q]
  BY <1>1, <1>2, ReportType DEF Statuses
<1>4. /\ DOMAIN pending' = DOMAIN pending \cup {NewPacket}
      /\ DOMAIN pending \subseteq Ids
  BY <1>1, PendingType DEF TypeOK
<1>5. \A q \in Requests : hpc[q] \notin {"send", "sent"}
  BY <1>1, RequestsAssumption DEF ExclusiveSend, Sending, Retrying
<1>6. FreshInv'
  BY <1>1 DEF LedgerInv, FreshInv, Ids
<1>7. HolderInv'
  <2>1. \A p \in DOMAIN pending' : outcome'[p] = <<>>
    BY <1>2, <1>3, <1>4 DEF LedgerInv, HolderInv
  <2>2. kpc' # "retrySent" /\ \A q \in Requests : hpc'[q] # "sent"
    BY <1>1, <1>5 DEF RetryInProgress
  <2>3. QED
    BY <1>1, <2>1, <2>2 DEF HolderInv
<1>8. ChainInv'
  <2>1. ChainInv
    BY DEF LedgerInv
  <2>2. \A p \in Ids' : outcome'[p] = <<>> \/ \E t \in Statuses : outcome'[p] = <<t>>
    BY <1>1, <1>2, <1>3, <2>1 DEF ChainInv, Ids, Statuses
  <2>3. ASSUME NEW p \in Ids, NEW q \in Ids, p < q, Chain(p) = Chain(q), Succeeded(p, q)
        PROVE  Succeeded(p, q)'
    BY <1>1, <1>2, <1>3, <2>3 DEF Succeeded, NewPacket
  <2>4. sent' = sent /\ Ids' = Ids /\ \A p \in Ids : Chain(p)' = Chain(p)
    BY <1>1 DEF Ids, Chain
  <2>5. ASSUME NEW p \in Ids, NEW q \in Ids, p < q, Chain(p) = Chain(q)
        PROVE  sent[p].attempt < sent[q].attempt /\ Succeeded(p, q)'
    BY <2>1, <2>3, <2>5 DEF ChainInv
  <2>6. QED
    BY <2>2, <2>4, <2>5 DEF ChainInv
<1>9. LostInv'
  BY <1>1, <1>2, <1>3, <1>4, <1>5 DEF LedgerInv, LostInv, RetryInProgress, Ids
<1>10. QED
  BY <1>6, <1>7, <1>8, <1>9 DEF LedgerInv

(* The loop gives up what it has in hand without a report: the sweep's     *)
(* entry, or the retry's packet and perhaps its successor.                 *)
LEMMA LedgerAbandon ==
  ASSUME TypeOK, ExclusiveSend, LedgerInv, HandlersQuiet, UNCHANGED <<sent, outcome>>,
         ~ RetryInProgress', NEW packets \in SUBSET Ids, lost' = lost \cup packets,
         \A p \in packets : outcome[p] = <<>> /\ p \notin DOMAIN pending',
         \A p \in DOMAIN pending' \ DOMAIN pending : p = NewPacket /\ kpc = "retrySent",
         \A p \in packets, q \in Requests : hpc[q] = "sent" => p # NewPacket,
         kpc = "retrySent" => kcur \in packets
  PROVE  LedgerInv'
<1>1. FreshInv'
  BY DEF LedgerInv, FreshInv, HandlersQuiet, Ids
<1>2. kpc = "retrySent" => \A q \in Requests : hpc[q] # "sent"
  BY RequestsAssumption DEF ExclusiveSend, Sending, Retrying
<1>3. HolderInv'
  BY <1>2 DEF LedgerInv, HolderInv, HandlersQuiet, RetryInProgress, Ids, Chain, NewPacket
<1>4. ChainInv'
  BY DEF LedgerInv, ChainInv, Succeeded, Ids, Chain, NewPacket
<1>5. LostInv'
  BY <1>2 DEF LedgerInv, LostInv, HolderInv, HandlersQuiet, RetryInProgress, Ids,
              NewPacket
<1>6. QED
  BY <1>1, <1>3, <1>4, <1>5 DEF LedgerInv

(* A retry that was sent but has no packet id is reported missed.          *)
LEMMA LedgerWithoutId ==
  ASSUME TypeOK, ExclusiveSend, LedgerInv, RetryWithoutId
  PROVE  LedgerInv'
<1>1. /\ kpc = "retrySent" /\ ~ RetryInProgress'
      /\ UNCHANGED <<sent, pending, hpc, todo, cur>>
      /\ lost' = lost \cup {NewPacket} /\ Report(kcur, "missed")
  BY DEF RetryWithoutId, Fails, RetryInProgress, airVars, handlerVars, NewPacket
<1>2. /\ kcur \in Ids \ DOMAIN pending /\ outcome[kcur] = <<>> /\ kcur # NewPacket
      /\ NewPacket \in Ids \ DOMAIN pending /\ outcome[NewPacket] = <<>>
      /\ kcur \notin lost
  BY <1>1 DEF LedgerInv, HolderInv, LostInv, RetryInProgress
<1>3. /\ outcome'[kcur] = <<"missed">>
      /\ \A q \in Ids \ {kcur} : outcome'[q] = outcome[q]
  BY <1>1, <1>2, ReportType DEF Statuses
<1>4. \A q \in Requests : hpc[q] \notin {"send", "sent"}
  BY <1>1, RequestsAssumption DEF ExclusiveSend, Sending, Retrying
<1>5. DOMAIN pending \subseteq Ids
  BY DEF TypeOK
<1>6. FreshInv'
  BY <1>1 DEF LedgerInv, FreshInv, Ids
<1>7. HolderInv'
  <2>1. \A p \in DOMAIN pending' : outcome'[p] = <<>>
    BY <1>1, <1>2, <1>3, <1>5 DEF LedgerInv, HolderInv
  <2>2. kpc' # "retrySent" /\ \A q \in Requests : hpc'[q] # "sent"
    BY <1>1, <1>4 DEF RetryInProgress
  <2>3. QED
    BY <1>1, <2>1, <2>2 DEF HolderInv
<1>8. ChainInv'
  <2>1. ChainInv
    BY DEF LedgerInv
  <2>2. \A p \in Ids' : outcome'[p] = <<>> \/ \E t \in Statuses : outcome'[p] = <<t>>
    BY <1>1, <1>2, <1>3, <2>1 DEF ChainInv, Ids, Statuses
  <2>3. ASSUME NEW p \in Ids, NEW q \in Ids, p < q, Chain(p) = Chain(q), Succeeded(p, q)
        PROVE  Succeeded(p, q)'
    BY <1>1, <1>2, <1>3, <2>3 DEF Succeeded, NewPacket
  <2>4. sent' = sent /\ Ids' = Ids /\ \A p \in Ids : Chain(p)' = Chain(p)
    BY <1>1 DEF Ids, Chain
  <2>5. ASSUME NEW p \in Ids, NEW q \in Ids, p < q, Chain(p) = Chain(q)
        PROVE  sent[p].attempt < sent[q].attempt /\ Succeeded(p, q)'
    BY <2>1, <2>3, <2>5 DEF ChainInv
  <2>6. QED
    BY <2>2, <2>4, <2>5 DEF ChainInv
<1>9. LostInv'
  BY <1>1, <1>2, <1>3, <1>4 DEF LedgerInv, LostInv, RetryInProgress, Ids
<1>10. QED
  BY <1>6, <1>7, <1>8, <1>9 DEF LedgerInv

(* A step of the keep-alive loop keeps the ledger.                         *)
LEMMA LedgerKeepAlive ==
  ASSUME TypeOK, PhaseInv, ExclusiveSend, LedgerInv, KeepAlive
  PROVE  LedgerInv'
<1> USE DEF linkVars, airVars, handlerVars, HandlersQuiet, KeepQuiet, RetryInProgress
<1>1. CASE KeepAliveCheck
  BY <1>1, LedgerQuiet DEF KeepAliveCheck
<1>2. CASE KeepAliveBeat
  BY <1>2, LedgerQuiet DEF KeepAliveBeat
<1>3. CASE KeepAliveDies
  BY <1>3, LedgerQuiet DEF KeepAliveDies
<1>4. CASE SweepScan
  BY <1>4, LedgerQuiet DEF SweepScan
<1>5. CASE \E p \in kbatch : SweepPop(p)
  <2>1. PICK p \in kbatch : SweepPop(p)
    BY <1>5
  <2>2. DOMAIN pending' = DOMAIN pending \ {p} /\ pending' = Without(p)
    BY <2>1, PendingType DEF SweepPop
  <2>3. CASE p \notin DOMAIN pending
    BY <2>1, <2>2, <2>3, LedgerQuiet DEF SweepPop
  <2>4. CASE p \in DOMAIN pending /\ ~ (Retryable(p) /\ link = "up")
    BY <2>1, <2>2, <2>4, LedgerPop DEF SweepPop, Statuses
  <2>5. CASE p \in DOMAIN pending /\ Retryable(p) /\ link = "up"
    <3>1. /\ kpc = "sweep" /\ kpc' = "retryWait" /\ kcur' = p
          /\ UNCHANGED <<sent, outcome, hpc, todo, cur, lost>>
      BY <2>1, <2>5 DEF SweepPop
    <3>2. p \in Ids /\ outcome[p] = <<>> /\ p \notin lost
      BY <2>5 DEF TypeOK, LedgerInv, HolderInv, LostInv
    <3>3. FreshInv'
      BY <3>1 DEF LedgerInv, FreshInv, Ids
    <3>4. HolderInv'
      BY <2>2, <2>5, <3>1, <3>2 DEF LedgerInv, HolderInv, Ids, Chain, NewPacket
    <3>5. ChainInv'
      BY <3>1 DEF LedgerInv, ChainInv, Succeeded, Ids, Chain, NewPacket
    <3>6. LostInv'
      BY <2>2, <3>1, <3>2 DEF LedgerInv, LostInv, Ids, NewPacket
    <3>7. QED
      BY <3>3, <3>4, <3>5, <3>6 DEF LedgerInv
  <2>6. QED
    BY <2>3, <2>4, <2>5
<1>6. CASE SweepDone
  BY <1>6, LedgerQuiet DEF SweepDone
<1>7. CASE SweepAbandoned
  BY <1>7, LedgerQuiet DEF SweepAbandoned, Abandon, Fails
<1>8. CASE RetryAcquire
  <2>1. CASE link = "up"
    <3>1. /\ kpc = "retryWait" /\ kpc' = "retrySend"
          /\ UNCHANGED <<sent, outcome, pending, hpc, todo, cur, kcur, lost>>
      BY <1>8, <2>1 DEF RetryAcquire
    <3>2. FreshInv'
      BY <3>1 DEF LedgerInv, FreshInv, Ids
    <3>3. HolderInv'
      BY <3>1 DEF LedgerInv, HolderInv, Ids, Chain, NewPacket
    <3>4. ChainInv'
      BY <3>1 DEF LedgerInv, ChainInv, Succeeded, Ids, Chain, NewPacket
    <3>5. LostInv'
      BY <3>1 DEF LedgerInv, LostInv, Ids, NewPacket
    <3>6. QED
      BY <3>2, <3>3, <3>4, <3>5 DEF LedgerInv
  <2>2. CASE link # "up"
    BY <1>8, <2>2, LedgerGiveUp DEF RetryAcquire
  <2>3. QED
    BY <2>1, <2>2
<1>9. CASE RetryTransmit
  BY <1>9, LedgerRetryTransmit
<1>10. CASE RetrySendRaises
  BY <1>10, LedgerGiveUp DEF RetrySendRaises
<1>11. CASE RetryRegister
  BY <1>11, LedgerRetryRegister
<1>12. CASE MarkOfflineRaises
  <2>1. UNCHANGED <<sent, outcome, hpc, todo, cur>> /\ kpc' = "sleep"
    BY <1>12 DEF MarkOfflineRaises, Abandon
  <2>2. ASSUME NEW p \in DOMAIN pending, pending' = Without(p), Abandon({p}),
               kpc = "sweep"
        PROVE  LedgerInv'
    <3>1. p \in Ids /\ outcome[p] = <<>> /\ DOMAIN pending' = DOMAIN pending \ {p}
      BY <2>2, PendingType DEF TypeOK, LedgerInv, HolderInv
    <3>2. lost' = lost \cup {p} /\ HandlersQuiet /\ ~ RetryInProgress' /\ kpc # "retrySent"
      BY <2>1, <2>2 DEF Abandon, Fails
    <3>3. \A q \in Requests : hpc[q] = "sent" => p # NewPacket
      BY DEF LedgerInv, HolderInv
    <3>4. QED
      <4> HIDE DEF HandlersQuiet, RetryInProgress
      <4>1. QED
        BY <2>1, <2>2, <3>1, <3>2, <3>3, LedgerAbandon
  <2>3. CASE kpc \in {"retryWait", "retrySend"} /\ Abandon({kcur}) /\ pending' = pending
    <3>1. kcur \in Ids \ DOMAIN pending /\ outcome[kcur] = <<>>
      BY <2>3 DEF LedgerInv, HolderInv
    <3>2. lost' = lost \cup {kcur} /\ HandlersQuiet /\ ~ RetryInProgress' /\ kpc # "retrySent"
      BY <2>1, <2>3 DEF Abandon, Fails
    <3>3. \A q \in Requests : hpc[q] = "sent" => kcur # NewPacket
      BY <2>3 DEF LedgerInv, HolderInv
    <3>4. QED
      <4> HIDE DEF HandlersQuiet, RetryInProgress
      <4>1. QED
        BY <2>1, <2>3, <3>1, <3>2, <3>3, LedgerAbandon
  <2>4. QED
    BY <1>12, <2>2, <2>3 DEF MarkOfflineRaises
<1>13. CASE RetryNameRaises
  <2>1. /\ UNCHANGED <<sent, outcome, hpc, todo, cur>> /\ kpc = "retrySent"
        /\ kpc' = "sleep"
    BY <1>13 DEF RetryNameRaises, Abandon
  <2>2. /\ kcur \in Ids \ DOMAIN pending /\ outcome[kcur] = <<>>
        /\ NewPacket \in Ids \ DOMAIN pending /\ outcome[NewPacket] = <<>>
        /\ kcur # NewPacket
    BY <2>1 DEF LedgerInv, HolderInv
  <2> HandlersQuiet /\ ~ RetryInProgress' /\ \A q \in Requests : hpc[q] # "sent"
    BY <2>1, RequestsAssumption DEF ExclusiveSend, Sending, Retrying
  <2> HIDE DEF HandlersQuiet, RetryInProgress
  <2>3. CASE pending' = pending /\ lost' = lost \cup {kcur, NewPacket}
    <3> DEFINE packets == {kcur, NewPacket}
    <3>1. /\ packets \in SUBSET Ids /\ lost' = lost \cup packets /\ kcur \in packets
          /\ \A p \in packets : outcome[p] = <<>> /\ p \notin DOMAIN pending'
      BY <2>2, <2>3
    <3>2. \A p \in DOMAIN pending' \ DOMAIN pending : p = NewPacket
      BY <2>3
    <3> HIDE DEF packets
    <3>3. QED
      BY <2>1, <3>1, <3>2, LedgerAbandon
  <2>4. CASE pending' = With(NewPacket) /\ lost' = lost \cup {kcur}
    <3> DEFINE packets == {kcur}
    <3>1. DOMAIN pending' = DOMAIN pending \cup {NewPacket}
      BY <2>4, PendingType
    <3>2. /\ packets \in SUBSET Ids /\ lost' = lost \cup packets /\ kcur \in packets
          /\ \A p \in packets : outcome[p] = <<>> /\ p \notin DOMAIN pending'
      BY <2>2, <2>4, <3>1
    <3>3. \A p \in DOMAIN pending' \ DOMAIN pending : p = NewPacket
      BY <3>1
    <3> HIDE DEF packets
    <3>4. QED
      BY <2>1, <3>2, <3>3, LedgerAbandon
  <2>5. QED
    BY <1>13, <2>3, <2>4 DEF RetryNameRaises, Abandon, Fails, NewPacket
<1>14. CASE RetryWithoutId
  BY <1>14, LedgerWithoutId
<1>15. QED
  BY <1>1, <1>2, <1>3, <1>4, <1>5, <1>6, <1>7, <1>8, <1>9, <1>10, <1>11, <1>12, <1>13,
     <1>14 DEF KeepAlive

(* A step of the reader thread keeps the ledger.                           *)
LEMMA LedgerOnReceivePacket ==
  ASSUME TypeOK, LedgerInv, OnReceivePacket
  PROVE  LedgerInv'
<1> USE DEF linkVars, airVars, handlerVars, keepVars, HandlersQuiet, KeepQuiet
<1>1. CASE \E p \in Ids, n \in Nodes \cup {Gateway}, ok, given \in BOOLEAN :
             OnRouting(p, n, ok, given)
  <2>1. PICK p \in Ids, n \in Nodes \cup {Gateway}, ok \in BOOLEAN, given \in BOOLEAN :
          OnRouting(p, n, ok, given)
    BY <1>1
  <2>2. CASE given /\ p \in DOMAIN pending
    <3>1. PICK status \in Statuses : Report(p, status)
      <4>1. (IF ok THEN "delivered" ELSE "failed") \in Statuses
        BY DEF Statuses
      <4>2. QED
        BY <2>1, <2>2, <4>1 DEF OnRouting
    <3>2. pending' = Without(p) /\ HandlersQuiet /\ KeepQuiet /\ UNCHANGED <<sent, lost>>
      BY <2>1, <2>2 DEF OnRouting
    <3>3. QED
      BY <2>2, <3>1, <3>2, LedgerPop
  <2>3. CASE ~ (given /\ p \in DOMAIN pending)
    BY <2>1, <2>3, LedgerQuiet DEF OnRouting
  <2>4. QED
    BY <2>2, <2>3
<1>2. CASE \E n \in Nodes : OnOtherPacket(n)
  BY <1>2, LedgerQuiet DEF OnOtherPacket
<1>3. CASE ConsumePendingByDestination
  <2>1. pending' = Without(rxSel) /\ HandlersQuiet /\ KeepQuiet /\ UNCHANGED <<sent, lost>>
    BY <1>3 DEF ConsumePendingByDestination
  <2>2. CASE rxSel \in DOMAIN pending
    BY <1>3, <2>1, <2>2, LedgerPop DEF ConsumePendingByDestination, Statuses
  <2>3. CASE rxSel \notin DOMAIN pending
    <3>1. DOMAIN pending' \subseteq DOMAIN pending
      BY <2>1, PendingType
    <3>2. QED
      BY <1>3, <2>1, <2>3, <3>1, LedgerQuiet DEF ConsumePendingByDestination
  <2>4. QED
    BY <2>2, <2>3
<1>4. QED
  BY <1>1, <1>2, <1>3 DEF OnReceivePacket

(* Link, settings, radio and clock keep the ledger.                        *)
LEMMA LedgerEnvironment ==
  ASSUME TypeOK, LedgerInv, Environment \/ UNCHANGED vars
  PROVE  LedgerInv'
<1>1. /\ HandlersQuiet /\ KeepQuiet /\ UNCHANGED <<sent, outcome, lost>>
      /\ DOMAIN pending' \subseteq DOMAIN pending
  BY DEF Environment, LinkBreaks, Fails, ConnectStart, ConnectFinish, ApplySettings, Tick,
         NodeReceives, vars, linkVars, airVars, handlerVars, keepVars, HandlersQuiet,
         KeepQuiet
<1>2. QED
  BY <1>1, LedgerQuiet

(* The inductive invariant holds in every reachable state: who holds a     *)
(* packet, when it was reported, how the packets of a chain follow each    *)
(* other.                                                                  *)
THEOREM Invariance == Spec => []IInv
<1>1. Init => IInv
  <2> SUFFICES ASSUME Init PROVE IInv
    OBVIOUS
  <2>1. Ids = {} /\ DOMAIN pending = {} /\ ~ RetryInProgress
    BY DEF Init, Ids, RetryInProgress
  <2>2. ExclusiveSend
    BY DEF Init, ExclusiveSend, Sending, Retrying
  <2>3. FreshInv /\ HolderInv /\ ChainInv /\ LostInv
    BY <2>1 DEF Init, FreshInv, HolderInv, ChainInv, LostInv
  <2>4. QED
    BY <2>2, <2>3, TypeInit DEF IInv
<1>2. IInv /\ [Next]_vars => IInv'
  <2> SUFFICES ASSUME IInv, [Next]_vars PROVE IInv'
    OBVIOUS
  <2>1. TypeOK /\ PhaseInv /\ ExclusiveSend /\ LedgerInv
    BY DEF IInv, LedgerInv
  <2>2. TypeOK' /\ PhaseInv' /\ ExclusiveSend'
    BY <2>1, TypeStep, LockStep
  <2>3. LedgerInv'
    <3>1. CASE \E r \in Requests : HandleCommand(r)
      BY <2>1, <3>1, LedgerHandleCommand
    <3>2. CASE KeepAlive
      BY <2>1, <3>2, LedgerKeepAlive
    <3>3. CASE OnReceivePacket
      BY <2>1, <3>3, LedgerOnReceivePacket
    <3>4. CASE Environment \/ UNCHANGED vars
      BY <2>1, <3>4, LedgerEnvironment
    <3>5. QED
      BY <3>1, <3>2, <3>3, <3>4 DEF Next
  <2>4. QED
    BY <2>2, <2>3 DEF IInv, LedgerInv
<1>3. QED
  BY <1>1, <1>2, PTL DEF Spec

-----------------------------------------------------------------------------
(* At most one verdict is on a chain: of two packets of it the earlier one *)
(* was retried or has no report, or a failure keeps the later one from     *)
(* having one.                                                             *)
LEMMA OutcomeIsOne ==
  ASSUME IInv, NEW p \in Ids, NEW q \in Ids,
         NEW i \in VerdictsOn(p), NEW j \in VerdictsOn(q), Chain(p) = Chain(q)
  PROVE  p = q /\ i = j /\ i = 1
<1>1. ASSUME NEW x \in Ids, NEW k \in VerdictsOn(x)
      PROVE  k = 1 /\ outcome[x] # <<>> /\ outcome[x] # <<"retried">>
  BY <1>1 DEF IInv, ChainInv, VerdictsOn, Verdicts
<1>2. ASSUME NEW x \in Ids, NEW y \in Ids, x < y, Chain(x) = Chain(y),
             outcome[x] # <<"retried">>
      PROVE  outcome[x] = <<>> \/ outcome[y] = <<>>
  <2>1. Succeeded(x, y)
    BY <1>2 DEF IInv, ChainInv
  <2>2. kpc = "retrySent" => outcome[kcur] = <<>>
    BY DEF IInv, HolderInv, RetryInProgress
  <2>3. (x \in lost => outcome[x] = <<>>) /\ (y \in lost => outcome[y] = <<>>)
    BY DEF IInv, LostInv
  <2>4. QED
    BY <1>2, <2>1, <2>2, <2>3 DEF Succeeded
<1>3. p \in Nat /\ q \in Nat
  BY PacketType DEF IInv
<1>4. CASE p < q
  BY <1>1, <1>2, <1>4
<1>5. CASE q < p
  BY <1>1, <1>2, <1>5
<1>6. CASE p = q
  BY <1>1, <1>6
<1>7. QED
  BY <1>3, <1>4, <1>5, <1>6

(* The operators are told at most once how a command ended for one         *)
(* destination.                                                            *)
THEOREM OneOutcome == Spec => []OneOutcomePerTarget
<1>1. IInv => OneOutcomePerTarget
  BY OutcomeIsOne DEF OneOutcomePerTarget
<1>2. QED
  BY <1>1, Invariance, PTL

(* The transmissions of a command to one destination carry different retry *)
(* counts; with TypeCorrect there are at most 1 + MaxRetries of them.      *)
THEOREM TransmissionsAreBounded == Spec => []BoundedTransmissions
<1>1. IInv => BoundedTransmissions
  <2> SUFFICES ASSUME IInv, NEW p \in Ids, NEW q \in Ids, Chain(p) = Chain(q), p # q
               PROVE  sent[p].attempt # sent[q].attempt
    BY DEF BoundedTransmissions
  <2>1. p \in Nat /\ q \in Nat
    BY PacketType DEF IInv
  <2>2. sent[p].attempt \in Nat /\ sent[q].attempt \in Nat
    BY PacketType DEF IInv, Packet
  <2>3. sent[p].attempt < sent[q].attempt \/ sent[q].attempt < sent[p].attempt
    BY <2>1 DEF IInv, ChainInv
  <2>4. QED
    BY <2>2, <2>3
<1>2. QED
  BY <1>1, Invariance, PTL

-----------------------------------------------------------------------------
(* Only two steps put a packet on the air.                                 *)
LEMMA WhoTransmits ==
  ASSUME [Next]_vars
  PROVE  UNCHANGED sent \/ (\E r \in Requests : Transmit(r)) \/ RetryTransmit
<1> USE DEF airVars
<1>1. CASE \E r \in Requests : HandleCommand(r)
  BY <1>1 DEF HandleCommand, Submit, RefuseUnconnected, AcquireLock, SendTo, SendRaises,
     RegisterPendingCommand, Finish, BroadcastTargetsRaises, SentWithoutId, NodeNameRaises
<1>2. CASE KeepAlive
  BY <1>2 DEF KeepAlive, KeepAliveCheck, KeepAliveBeat, KeepAliveDies, SweepScan,
     SweepPop, SweepDone, SweepAbandoned, RetryAcquire, RetrySendRaises, RetryRegister,
     MarkOfflineRaises, RetryNameRaises, RetryWithoutId
<1>3. CASE OnReceivePacket
  BY <1>3 DEF OnReceivePacket, OnRouting, OnOtherPacket, ConsumePendingByDestination
<1>4. CASE Environment
  BY <1>4 DEF Environment, LinkBreaks, ConnectStart, ConnectFinish, ApplySettings,
     NodeReceives, Tick
<1>5. CASE UNCHANGED vars
  BY <1>5 DEF vars
<1>6. QED
  BY <1>1, <1>2, <1>3, <1>4, <1>5 DEF Next

(* The packet that a handler, or a retry, puts on the air.                 *)
LEMMA TransmitAppends ==
  ASSUME IInv, NEW r \in Requests, Transmit(r)
  PROVE  /\ hpc[r] = "send" /\ hpc' = [hpc EXCEPT ![r] = "sent"]
         /\ Ids' = Ids \cup {Len(sent) + 1} /\ Ids = 1..Len(sent) /\ Len(sent) \in Nat
         /\ \A p \in Ids : sent'[p] = sent[p] /\ outcome'[p] = outcome[p]
         /\ sent'[Len(sent) + 1].req = r /\ sent'[Len(sent) + 1].dst = cur[r]
         /\ outcome'[Len(sent) + 1] = <<>>
         /\ Len(sent') = Len(sent) + 1
<1> DEFINE packet == [req |-> r, dst |-> cur[r], attempt |-> 0, channel |-> 0]
<1>1. packet \in Packet /\ packet.req = r /\ packet.dst = cur[r] /\ PutOnAir(packet)
  BY LimitsAssumption DEF Transmit, IInv, PhaseInv, Packet
<1>2. TypeOK
  BY DEF IInv
<1> HIDE DEF packet
<1>3. QED
  BY <1>1, <1>2, OnAirType DEF Transmit, Goto

(* The packet that a retry puts on the air.                                *)
LEMMA RetryAppends ==
  ASSUME IInv, RetryTransmit
  PROVE  /\ kpc = "retrySend" /\ kpc' = "retrySent" /\ kcur \in Ids
         /\ Ids' = Ids \cup {Len(sent) + 1} /\ Ids = 1..Len(sent) /\ Len(sent) \in Nat
         /\ \A p \in Ids : sent'[p] = sent[p] /\ outcome'[p] = outcome[p]
         /\ sent'[Len(sent) + 1].req = sent[kcur].req
         /\ sent'[Len(sent) + 1].dst = sent[kcur].dst
         /\ outcome'[Len(sent) + 1] = <<>>
         /\ Len(sent') = Len(sent) + 1
<1> DEFINE packet == [req |-> sent[kcur].req, dst |-> sent[kcur].dst,
                      attempt |-> sent[kcur].attempt + 1, channel |-> 1]
<1>1. TypeOK /\ kcur \in Ids /\ Retryable(kcur) /\ kpc = "retrySend" /\ kpc' = "retrySent"
  BY DEF RetryTransmit, IInv, PhaseInv, RetryInProgress
<1>2. /\ packet \in Packet /\ packet.req = sent[kcur].req /\ packet.dst = sent[kcur].dst
      /\ PutOnAir(packet)
  <2>1. sent[kcur] \in Packet /\ sent[kcur].attempt < MaxRetries
    BY <1>1, PacketType DEF Retryable
  <2>2. QED
    BY <2>1, LimitsAssumption DEF Packet, RetryTransmit
<1> HIDE DEF packet
<1>3. QED
  BY <1>1, <1>2, OnAirType

(* Nothing is sent to a destination again after its outcome was reported:  *)
(* a handler sends to it once, and a retry repeats the last packet of a    *)
(* chain whose earlier packets were all reported as retried.               *)
LEMMA SilentStep ==
  ASSUME IInv, [Next]_vars, NEW p \in Ids, Verdict(p), NEW q \in Ids' \ Ids
  PROVE  <<sent'[q].req, sent'[q].dst>> # Chain(p)
<1>1. outcome[p] # <<>> /\ outcome[p] # <<"retried">>
  BY DEF IInv, ChainInv, Verdict, VerdictsOn, Verdicts
<1>2. CASE UNCHANGED sent
  BY <1>2 DEF Ids
<1>3. CASE \E r \in Requests : Transmit(r)
  <2>1. PICK r \in Requests : Transmit(r)
    BY <1>3
  <2>2. hpc[r] = "send" /\ sent'[q].req = r /\ sent'[q].dst = cur[r]
    BY <2>1, TransmitAppends
  <2>3. QED
    BY <2>2 DEF IInv, FreshInv, Chain
<1>4. CASE RetryTransmit
  <2>1. /\ kpc = "retrySend" /\ kcur \in Ids /\ outcome[kcur] = <<>>
        /\ sent'[q].req = sent[kcur].req /\ sent'[q].dst = sent[kcur].dst
        /\ kcur \notin lost /\ p \notin lost
    BY <1>1, <1>4, RetryAppends DEF IInv, HolderInv, LostInv, RetryInProgress
  <2>2. SUFFICES ASSUME Chain(p) = Chain(kcur) PROVE FALSE
    BY <2>1 DEF Chain
  <2>3. p \in Nat /\ kcur \in Nat /\ p # kcur
    BY <1>1, <2>1, PacketType DEF IInv
  <2>4. CASE p < kcur
    BY <1>1, <2>1, <2>2, <2>4 DEF IInv, ChainInv, Succeeded
  <2>5. CASE kcur < p
    BY <2>1, <2>2, <2>5 DEF IInv, ChainInv, Succeeded
  <2>6. QED
    BY <2>3, <2>4, <2>5
<1>5. QED
  BY <1>2, <1>3, <1>4, WhoTransmits

(* The gateway never sends to a destination once its outcome is reported.  *)
THEOREM SilentAfterOutcome == Spec => NoSendAfterOutcome
<1>1. IInv /\ [Next]_vars =>
        [\A p \in Ids : Verdict(p) => \A q \in Ids' \ Ids : Chain(q)' # Chain(p)]_vars
  BY SilentStep DEF Chain
<1>2. QED
  BY <1>1, Invariance, PTL DEF Spec, NoSendAfterOutcome
-----------------------------------------------------------------------------
(* Error replies.  A reply is a handler's last step.                       *)
ReplyInv == \A r \in Requests : reply[r] # "none" => hpc[r] = "done"

(* Only a handler changes where it is and what its client was told.        *)
LEMMA WhoReplies ==
  ASSUME [Next]_vars
  PROVE  UNCHANGED <<hpc, reply, target>> \/ \E r \in Requests : HandleCommand(r)
<1> USE DEF handlerVars
<1>1. CASE KeepAlive
  BY <1>1 DEF KeepAlive, KeepAliveCheck, KeepAliveBeat, KeepAliveDies, SweepScan, SweepPop,
     SweepDone, SweepAbandoned, RetryAcquire, RetryTransmit, RetrySendRaises, RetryRegister,
     MarkOfflineRaises, RetryNameRaises, RetryWithoutId
<1>2. CASE OnReceivePacket
  BY <1>2 DEF OnReceivePacket, OnRouting, OnOtherPacket, ConsumePendingByDestination
<1>3. CASE Environment
  BY <1>3 DEF Environment, LinkBreaks, ConnectStart, ConnectFinish, ApplySettings,
     NodeReceives, Tick
<1>4. CASE UNCHANGED vars
  BY <1>4 DEF vars
<1>5. QED
  BY <1>1, <1>2, <1>3, <1>4 DEF Next

(* What a step of handler r does to hpc and reply, and, if it replies, to  *)
(* the packets.                                                            *)
LEMMA HandlerReplies ==
  ASSUME IInv, ReplyInv, NEW r \in Requests, HandleCommand(r)
  PROVE  /\ \A q \in Requests \ {r} : hpc'[q] = hpc[q] /\ reply'[q] = reply[q]
         /\ hpc[r] # "done" /\ reply[r] = "none"
         /\ \/ reply'[r] = "none"
            \/ /\ hpc'[r] = "done" /\ UNCHANGED sent
               /\ \/ hpc[r] \in {"idle", "waitLock"}
                  \/ reply'[r] \in {"ack", "closed"}
                  \/ \A p \in Ids : sent[p].req # r
<1> USE DEF Goto, Answer, ReplyInv, IInv, TypeOK, airVars
<1>1. CASE \E t \in Targets : Submit(r, t)
  BY <1>1 DEF Submit
<1>2. CASE RefuseUnconnected(r)
  BY <1>2 DEF RefuseUnconnected
<1>3. CASE \E known \in SUBSET Nodes : AcquireLock(r, known)
  BY <1>3 DEF AcquireLock
<1>4. CASE \E d \in todo[r] : SendTo(r, d)
  BY <1>4 DEF SendTo
<1>5. CASE Transmit(r)
  BY <1>5 DEF Transmit
<1>6. CASE SendRaises(r)
  BY <1>6 DEF SendRaises
<1>7. CASE RegisterPendingCommand(r)
  BY <1>7 DEF RegisterPendingCommand
<1>8. CASE Finish(r)
  BY <1>8 DEF Finish
<1>9. CASE BroadcastTargetsRaises(r)
  BY <1>9 DEF BroadcastTargetsRaises, CommandRaises
<1>10. CASE SentWithoutId(r)
  BY <1>10 DEF SentWithoutId
<1>11. CASE NodeNameRaises(r)
  BY <1>11 DEF NodeNameRaises, CommandRaises
<1>12. QED
  BY <1>1, <1>2, <1>3, <1>4, <1>5, <1>6, <1>7, <1>8, <1>9, <1>10, <1>11 DEF HandleCommand

(* A transmission is a handler's, which has not replied, or repeats an     *)
(* earlier packet of the same request.                                     *)
LEMMA ReplyStep ==
  ASSUME IInv, ReplyInv, ErrorReplyMeansSilent, [Next]_vars
  PROVE  ReplyInv' /\ ErrorReplyMeansSilent'
<1> DEFINE Error(x) == x \in {"excluded", "notConnected", "sendFailed"}
<1>1. ReplyInv'
  <2>1. CASE UNCHANGED <<hpc, reply, target>>
    BY <2>1 DEF ReplyInv
  <2>2. CASE \E r \in Requests : HandleCommand(r)
    BY <2>2, HandlerReplies DEF ReplyInv
  <2>3. QED
    BY <2>1, <2>2, WhoReplies
<1>2. SUFFICES ASSUME NEW r \in Requests, Error(reply'[r]), NEW p \in Ids'
               PROVE  sent'[p].req # r
  BY <1>1 DEF ErrorReplyMeansSilent
<1>3. CASE UNCHANGED sent
  <2>1. p \in Ids /\ sent'[p] = sent[p]
    BY <1>2, <1>3 DEF Ids
  <2>2. CASE reply'[r] = reply[r]
    BY <1>2, <2>1, <2>2 DEF ErrorReplyMeansSilent
  <2>3. CASE reply'[r] # reply[r]
    <3>1. HandleCommand(r)
      BY <2>3, WhoReplies, HandlerReplies
    <3>2. \/ hpc[r] \in {"idle", "waitLock"}
          \/ \A q \in Ids : sent[q].req # r
      BY <1>2, <3>1, HandlerReplies
    <3>3. QED
      BY <2>1, <3>2 DEF IInv, FreshInv
  <2>4. QED
    BY <2>2, <2>3
<1>4. CASE \E q \in Requests : Transmit(q)
  <2>1. PICK q \in Requests : Transmit(q)
    BY <1>4
  <2>2. reply' = reply /\ hpc[q] = "send" /\ reply[q] = "none"
    BY <2>1, TransmitAppends DEF Transmit, ReplyInv, IInv, TypeOK
  <2>3. CASE p \in Ids
    BY <1>2, <2>1, <2>2, <2>3, TransmitAppends DEF ErrorReplyMeansSilent
  <2>4. CASE p = Len(sent) + 1
    BY <1>2, <2>1, <2>2, <2>4, TransmitAppends
  <2>5. QED
    BY <2>1, <2>3, <2>4, TransmitAppends
<1>5. CASE RetryTransmit
  <2>1. reply' = reply
    BY <1>5 DEF RetryTransmit, handlerVars
  <2>2. kcur \in Ids
    BY <1>5, RetryAppends
  <2>3. CASE p \in Ids
    BY <1>2, <1>5, <2>1, <2>3, RetryAppends DEF ErrorReplyMeansSilent
  <2>4. CASE p = Len(sent) + 1
    BY <1>2, <1>5, <2>1, <2>2, <2>4, RetryAppends DEF ErrorReplyMeansSilent
  <2>5. QED
    BY <1>5, <2>3, <2>4, RetryAppends
<1>6. QED
  BY <1>3, <1>4, <1>5, WhoTransmits

(* A client that was told of an error may issue the command again: nothing *)
(* of it was, or will be, sent.                                            *)
THEOREM ErrorsAreSilent == Spec => []ErrorReplyMeansSilent
<1>1. Init => ReplyInv /\ ErrorReplyMeansSilent
  BY DEF Init, ReplyInv, ErrorReplyMeansSilent
<1>2. IInv /\ ReplyInv /\ ErrorReplyMeansSilent /\ [Next]_vars =>
        ReplyInv' /\ ErrorReplyMeansSilent'
  BY ReplyStep
<1>3. QED
  BY <1>1, <1>2, Invariance, PTL DEF Spec

-----------------------------------------------------------------------------
(* Nothing is forgotten.  That who is in somebody's hands, or lost sight   *)
(* of, has no report is part of HolderInv and LostInv; the other direction *)
(* is inductive relative to IInv.                                          *)
Held(p) == InHand(p) \/ p \in lost
Kept(p) == target[sent[p].req] # Channel /\ outcome[p] = <<>> => Held(p)
KeptInv == \A p \in Ids : Kept(p)

(* A reported packet has a report, and no other packet gets one.           *)
LEMMA ReportTells ==
  ASSUME TypeOK, NEW p \in Ids, NEW status \in Statuses, Report(p, status)
  PROVE  outcome'[p] # <<>> /\ \A q \in Ids \ {p} : outcome'[q] = outcome[q]
<1>1. outcome[p] \in Seq(Statuses)
  BY DEF TypeOK, Ids
<1>2. Append(outcome[p], status) # <<>>
  BY <1>1
<1>3. QED
  BY <1>2, ReportType

(* A handler that has sent something keeps its target.                     *)
LEMMA TargetStays ==
  ASSUME IInv, [Next]_vars, NEW p \in Ids
  PROVE  target'[sent[p].req] = target[sent[p].req]
<1>1. /\ hpc[sent[p].req] # "idle" /\ sent[p].req \in Requests
      /\ target \in [Requests -> Destinations \cup {Channel}]
  BY PacketType DEF IInv, FreshInv, TypeOK
<1>2. CASE UNCHANGED <<hpc, reply, target>>
  BY <1>2
<1>3. CASE \E r \in Requests : HandleCommand(r)
  BY <1>1, <1>3 DEF HandleCommand, Submit, RefuseUnconnected, AcquireLock, SendTo,
     Transmit, SendRaises, RegisterPendingCommand, Finish, BroadcastTargetsRaises,
     SentWithoutId, NodeNameRaises
<1>4. QED
  BY <1>2, <1>3, WhoReplies

(* What is lost sight of stays so.                                         *)
LEMMA LostGrows ==
  ASSUME [Next]_vars
  PROVE  lost \subseteq lost'
<1> USE DEF linkVars, Fails, CommandRaises, Abandon
<1>1. CASE \E r \in Requests : HandleCommand(r)
  BY <1>1 DEF HandleCommand, Submit, RefuseUnconnected, AcquireLock, SendTo, Transmit,
     SendRaises, RegisterPendingCommand, Finish, BroadcastTargetsRaises, SentWithoutId,
     NodeNameRaises
<1>2. CASE KeepAlive
  BY <1>2 DEF KeepAlive, KeepAliveCheck, KeepAliveBeat, KeepAliveDies, SweepScan, SweepPop,
     SweepDone, SweepAbandoned, RetryAcquire, RetryTransmit, RetrySendRaises, RetryRegister,
     MarkOfflineRaises, RetryNameRaises, RetryWithoutId
<1>3. CASE OnReceivePacket
  BY <1>3 DEF OnReceivePacket, OnRouting, OnOtherPacket, ConsumePendingByDestination
<1>4. CASE Environment
  BY <1>4 DEF Environment, LinkBreaks, ConnectStart, ConnectFinish, ApplySettings,
     NodeReceives, Tick
<1>5. CASE UNCHANGED vars
  BY <1>5 DEF vars
<1>6. QED
  BY <1>1, <1>2, <1>3, <1>4, <1>5 DEF Next

(* Steps that report nothing and put down no packet but into other hands,  *)
(* or by losing sight of it.                                               *)
LEMMA KeptMoves ==
  ASSUME IInv, KeptInv, [Next]_vars, UNCHANGED <<sent, outcome>>,
         \A p \in Ids : InHand(p) /\ target[sent[p].req] # Channel => Held(p)'
  PROVE  KeptInv'
<1>1. SUFFICES ASSUME NEW p \in Ids, target'[sent[p].req] # Channel, outcome[p] = <<>>
               PROVE  Held(p)'
  BY DEF KeptInv, Kept, Ids
<1>2. Held(p) /\ target[sent[p].req] # Channel
  BY <1>1, TargetStays DEF KeptInv, Kept
<1>3. QED
  BY <1>2, LostGrows DEF Held

(* Steps that move no packet from hand to hand.                            *)
LEMMA KeptQuiet ==
  ASSUME IInv, KeptInv, [Next]_vars, UNCHANGED <<sent, outcome, kcur>>,
         DOMAIN pending' = DOMAIN pending,
         UNCHANGED kpc \/ {kpc, kpc'} \cap {"retryWait", "retrySend", "retrySent"} = {},
         \A r \in Requests : hpc[r] = "sent" => hpc'[r] = "sent"
  PROVE  KeptInv'
<1>1. ASSUME NEW p \in Ids, InHand(p) PROVE Held(p)'
  <2>1. sent[p].req \in Requests
    BY PacketType DEF IInv
  <2>2. QED
    BY <1>1, <2>1 DEF Held, InHand
<1>2. QED
  BY <1>1, KeptMoves

(* A handler's transmission is in the handler's hands; nobody else held    *)
(* the packet that was the newest before, since nobody else has the lock.  *)
LEMMA KeptTransmit ==
  ASSUME IInv, KeptInv, [Next]_vars, NEW r \in Requests, Transmit(r)
  PROVE  KeptInv'
<1>1. /\ lock = r /\ kpc # "retrySent" /\ \A q \in Requests : hpc[q] # "sent"
      /\ UNCHANGED <<pending, kpc, kcur>>
  BY RequestsAssumption DEF Transmit, IInv, ExclusiveSend, Sending, Retrying, keepVars
<1>2. SUFFICES ASSUME NEW p \in Ids', target'[sent'[p].req] # Channel, outcome'[p] = <<>>
               PROVE  Held(p)'
  BY DEF KeptInv, Kept
<1>3. CASE p \in Ids
  <2>1. sent'[p] = sent[p] /\ outcome[p] = <<>> /\ sent[p].req \in Requests
    BY <1>2, <1>3, TransmitAppends, PacketType DEF IInv
  <2>2. Held(p)
    BY <1>2, <1>3, <2>1, TargetStays DEF KeptInv, Kept
  <2>3. QED
    BY <1>1, <2>1, <2>2, LostGrows DEF Held, InHand
<1>4. CASE p = Len(sent) + 1
  <2>1. hpc'[r] = "sent" /\ sent'[p].req = r /\ p = Len(sent')
    BY <1>4, TransmitAppends DEF IInv, TypeOK
  <2>2. QED
    BY <2>1 DEF Held, InHand
<1>5. QED
  BY <1>3, <1>4, TransmitAppends

(* A handler whose packet is on the air registers it, unless it is a       *)
(* channel message, or loses sight of it.                                  *)
LEMMA KeptRegister ==
  ASSUME IInv, KeptInv, [Next]_vars, NEW r \in Requests, hpc[r] = "sent",
         UNCHANGED <<sent, outcome, kpc, kcur>>,
         \A q \in Requests \ {r} : hpc'[q] = hpc[q],
         DOMAIN pending \subseteq DOMAIN pending',
         target[r] # Channel => Len(sent) \in DOMAIN pending' \cup lost'
  PROVE  KeptInv'
<1>1. /\ \A q \in Requests : hpc[q] = "sent" => q = r
      /\ Chain(Len(sent)) = <<r, cur[r]>>
  BY RequestsAssumption DEF IInv, ExclusiveSend, Sending, HolderInv, NewPacket
<1>2. ASSUME NEW p \in Ids, InHand(p), target[sent[p].req] # Channel
      PROVE  Held(p)'
  <2>1. sent[p].req \in Requests
    BY PacketType DEF IInv
  <2>2. CASE p = Len(sent)
    <3>1. sent[p].req = r
      BY <1>1, <2>2 DEF Chain
    <3>2. p \in DOMAIN pending' \cup lost'
      BY <1>2, <2>2, <3>1
    <3>3. QED
      BY <3>2 DEF Held, InHand
  <2>3. CASE p # Len(sent)
    BY <1>2, <2>3 DEF Held, InHand
  <2>4. QED
    BY <2>2, <2>3
<1>3. QED
  BY <1>2, KeptMoves

(* The other steps of a handler leave the packets alone.                   *)
LEMMA KeptHandleCommand ==
  ASSUME IInv, KeptInv, [Next]_vars, NEW r \in Requests, HandleCommand(r)
  PROVE  KeptInv'
<1> USE DEF airVars, keepVars
<1>1. CASE Transmit(r)
  BY <1>1, KeptTransmit
<1>2. CASE \/ RegisterPendingCommand(r)
           \/ SentWithoutId(r)
           \/ NodeNameRaises(r) /\ hpc[r] = "sent"
  <2>1. /\ hpc[r] = "sent" /\ UNCHANGED <<sent, outcome, kpc, kcur>>
        /\ \A q \in Requests \ {r} : hpc'[q] = hpc[q]
    BY <1>2 DEF RegisterPendingCommand, SentWithoutId, NodeNameRaises, CommandRaises, Goto,
       IInv, TypeOK
  <2>2. \/ pending' = (IF target[r] = Channel THEN pending ELSE With(Len(sent)))
        \/ pending' = pending /\ Len(sent) \in lost'
    BY <1>2 DEF RegisterPendingCommand, SentWithoutId, NodeNameRaises, CommandRaises, Fails
  <2>3. DOMAIN With(Len(sent)) = DOMAIN pending \cup {Len(sent)}
    BY PendingType DEF IInv
  <2>4. /\ DOMAIN pending \subseteq DOMAIN pending'
        /\ target[r] # Channel => Len(sent) \in DOMAIN pending' \cup lost'
    BY <2>2, <2>3
  <2>5. QED
    BY <2>1, <2>4, KeptRegister
<1>3. CASE /\ ~ Transmit(r) /\ ~ RegisterPendingCommand(r) /\ ~ SentWithoutId(r)
           /\ ~ (NodeNameRaises(r) /\ hpc[r] = "sent")
  <2>1. /\ UNCHANGED <<sent, outcome, pending, kcur, kpc>>
        /\ hpc[r] # "sent" /\ \A q \in Requests \ {r} : hpc'[q] = hpc[q]
    BY <1>3 DEF HandleCommand, Submit, RefuseUnconnected, AcquireLock, SendTo, SendRaises,
       Finish, BroadcastTargetsRaises, NodeNameRaises, CommandRaises, IInv, TypeOK, Goto
  <2>2. \A q \in Requests : hpc[q] = "sent" => hpc'[q] = "sent"
    BY <2>1
  <2>3. QED
    BY <2>1, <2>2, KeptQuiet
<1>4. QED
  BY <1>1, <1>2, <1>3

(* A packet is popped from pending_commands and reported.                  *)
LEMMA KeptPop ==
  ASSUME IInv, KeptInv, [Next]_vars, NEW q, pending' = Without(q),
         UNCHANGED <<sent, kcur, kpc, hpc>>,
         \/ q \notin DOMAIN pending /\ UNCHANGED outcome
         \/ q \in Ids /\ \E s \in Statuses : Report(q, s)
  PROVE  KeptInv'
<1>1. DOMAIN pending' = DOMAIN pending \ {q}
  BY PendingType DEF IInv
<1>2. SUFFICES ASSUME NEW p \in Ids, target'[sent[p].req] # Channel, outcome'[p] = <<>>
               PROVE  Held(p)'
  BY DEF KeptInv, Kept, Ids
<1>3. outcome[p] = <<>> /\ (p = q => q \notin DOMAIN pending)
  BY <1>2, ReportTells DEF IInv
<1>4. Held(p)
  BY <1>2, <1>3, TargetStays DEF KeptInv, Kept
<1>5. QED
  BY <1>1, <1>3, <1>4, LostGrows DEF Held, InHand

(* A retry ends: the packet it held is reported, its successor, if there   *)
(* is one, registered or lost sight of.                                    *)
LEMMA KeptRetryEnds ==
  ASSUME IInv, KeptInv, [Next]_vars, UNCHANGED <<sent, hpc>>, RetryInProgress,
         \E s \in Statuses : Report(kcur, s),
         DOMAIN pending \subseteq DOMAIN pending',
         kpc = "retrySent" => Len(sent) \in DOMAIN pending' \cup lost'
  PROVE  KeptInv'
<1>1. kcur \in Ids /\ TypeOK
  BY DEF IInv, PhaseInv
<1>2. SUFFICES ASSUME NEW p \in Ids, target'[sent[p].req] # Channel, outcome'[p] = <<>>
               PROVE  Held(p)'
  BY DEF KeptInv, Kept, Ids
<1>3. outcome[p] = <<>> /\ p # kcur
  BY <1>1, <1>2, ReportTells
<1>4. Held(p)
  BY <1>2, <1>3, TargetStays DEF KeptInv, Kept
<1>5. QED
  BY <1>3, <1>4, LostGrows DEF Held, InHand

(* The keep-alive loop: a popped packet is reported or goes into the hands *)
(* of the retry, whose own transmission it holds until it is registered.   *)
LEMMA KeptKeepAlive ==
  ASSUME IInv, KeptInv, [Next]_vars, KeepAlive
  PROVE  KeptInv'
<1> USE DEF airVars, handlerVars, Statuses
<1>1. CASE KeepAliveCheck \/ KeepAliveBeat \/ KeepAliveDies \/ SweepScan \/ SweepDone
             \/ SweepAbandoned
  <2>1. /\ UNCHANGED <<sent, outcome, pending, hpc>>
        /\ {kpc, kpc'} \cap {"retryWait", "retrySend", "retrySent"} = {}
    BY <1>1 DEF KeepAliveCheck, KeepAliveBeat, KeepAliveDies, SweepScan, SweepDone,
       SweepAbandoned, Abandon, IInv, PhaseInv
  <2>2. ASSUME NEW p \in Ids, InHand(p) PROVE Held(p)'
    BY <2>1, <2>2 DEF Held, InHand
  <2>3. QED
    BY <2>1, <2>2, KeptMoves
<1>2. ASSUME NEW q \in kbatch, SweepPop(q) PROVE KeptInv'
  <2>1. pending' = Without(q) /\ UNCHANGED <<sent, hpc>> /\ kpc = "sweep"
    BY <1>2 DEF SweepPop
  <2>2. CASE UNCHANGED <<kpc, kcur>>
    <3>1. \/ q \notin DOMAIN pending /\ UNCHANGED outcome
          \/ q \in DOMAIN pending /\ Report(q, "missed")
      BY <1>2, <2>1, <2>2 DEF SweepPop
    <3>2. DOMAIN pending \subseteq Ids
      BY DEF IInv, TypeOK
    <3>3. QED
      BY <2>1, <2>2, <3>1, <3>2, KeptPop
  <2>3. CASE kpc' = "retryWait" /\ kcur' = q /\ UNCHANGED outcome
    <3>1. DOMAIN pending' = DOMAIN pending \ {q}
      BY <2>1, PendingType DEF IInv
    <3>2. ASSUME NEW p \in Ids, InHand(p) PROVE Held(p)'
      BY <2>1, <2>3, <3>1, <3>2 DEF Held, InHand
    <3>3. QED
      BY <2>1, <2>3, <3>2, KeptMoves
  <2>4. QED
    BY <1>2, <2>2, <2>3 DEF SweepPop
<1>3. CASE RetryAcquire
  <2>1. UNCHANGED <<sent, hpc, pending>> /\ kpc = "retryWait"
    BY <1>3 DEF RetryAcquire
  <2>2. CASE kpc' = "retrySend" /\ UNCHANGED <<outcome, kcur>>
    <3>1. ASSUME NEW p \in Ids, InHand(p) PROVE Held(p)'
      BY <2>1, <2>2, <3>1 DEF Held, InHand
    <3>2. QED
      BY <2>1, <2>2, <3>1, KeptMoves
  <2>3. CASE Report(kcur, "missed")
    BY <2>1, <2>3, KeptRetryEnds DEF RetryInProgress
  <2>4. QED
    BY <1>3, <2>2, <2>3 DEF RetryAcquire
<1>4. CASE RetryTransmit
  <2>1. /\ UNCHANGED <<pending, hpc, kcur>> /\ \A q \in Requests : hpc[q] # "sent"
    BY <1>4, RequestsAssumption DEF RetryTransmit, IInv, ExclusiveSend, Sending, Retrying
  <2>2. SUFFICES ASSUME NEW p \in Ids', target'[sent'[p].req] # Channel, outcome'[p] = <<>>
                 PROVE  Held(p)'
    BY DEF KeptInv, Kept
  <2>3. CASE p \in Ids
    <3>1. sent'[p] = sent[p] /\ outcome[p] = <<>> /\ sent[p].req \in Requests
      BY <1>4, <2>2, <2>3, RetryAppends, PacketType DEF IInv
    <3>2. Held(p)
      BY <2>2, <2>3, <3>1, TargetStays DEF KeptInv, Kept
    <3>3. QED
      BY <1>4, <2>1, <3>1, <3>2, RetryAppends, LostGrows DEF Held, InHand
  <2>4. CASE p = Len(sent) + 1
    BY <1>4, <2>4, RetryAppends DEF Held, InHand
  <2>5. QED
    BY <1>4, <2>3, <2>4, RetryAppends
<1>5. CASE RetrySendRaises
  BY <1>5, KeptRetryEnds DEF RetrySendRaises, RetryInProgress
<1>6. CASE RetryRegister
  <2>1. DOMAIN pending' = DOMAIN pending \cup {Len(sent)}
    BY <1>6, PendingType DEF RetryRegister, IInv
  <2>2. /\ UNCHANGED <<sent, hpc>> /\ RetryInProgress /\ Report(kcur, "retried")
    BY <1>6 DEF RetryRegister, RetryInProgress
  <2>3. QED
    BY <2>1, <2>2, KeptRetryEnds
<1>7. CASE RetryWithoutId
  <2>1. /\ UNCHANGED <<sent, hpc, pending>> /\ RetryInProgress /\ Report(kcur, "missed")
        /\ Len(sent) \in lost'
    BY <1>7 DEF RetryWithoutId, RetryInProgress, Fails
  <2>2. QED
    BY <2>1, KeptRetryEnds
<1>8. CASE MarkOfflineRaises
  <2>1. UNCHANGED <<sent, outcome, hpc>>
    BY <1>8 DEF MarkOfflineRaises
  <2>2. ASSUME NEW q, pending' = Without(q), Abandon({q}), kpc = "sweep"
        PROVE  KeptInv'
    <3>1. DOMAIN pending' = DOMAIN pending \ {q} /\ q \in lost'
      BY <2>2, PendingType DEF IInv, Abandon, Fails
    <3>2. ASSUME NEW p \in Ids, InHand(p) PROVE Held(p)'
      BY <2>1, <2>2, <3>1, <3>2 DEF Held, InHand
    <3>3. QED
      BY <2>1, <3>2, KeptMoves
  <2>3. CASE kpc \in {"retryWait", "retrySend"} /\ Abandon({kcur}) /\ pending' = pending
    <3>1. kcur \in lost'
      BY <2>3 DEF Abandon, Fails
    <3>2. ASSUME NEW p \in Ids, InHand(p) PROVE Held(p)'
      BY <2>1, <2>3, <3>1, <3>2 DEF Held, InHand
    <3>3. QED
      BY <2>1, <3>2, KeptMoves
  <2>4. QED
    BY <1>8, <2>2, <2>3 DEF MarkOfflineRaises
<1>9. CASE RetryNameRaises
  <2>1. /\ UNCHANGED <<sent, outcome, hpc>> /\ kcur \in lost'
        /\ \/ pending' = pending /\ Len(sent) \in lost'
           \/ pending' = With(Len(sent))
    BY <1>9 DEF RetryNameRaises, Abandon, Fails
  <2>2. /\ DOMAIN pending \subseteq DOMAIN pending'
        /\ Len(sent) \in DOMAIN pending' \cup lost'
    BY <2>1, PendingType DEF IInv
  <2>3. ASSUME NEW p \in Ids, InHand(p) PROVE Held(p)'
    BY <2>1, <2>2, <2>3 DEF Held, InHand
  <2>4. QED
    BY <2>1, <2>3, KeptMoves
<1>10. QED
  BY <1>1, <1>2, <1>3, <1>4, <1>5, <1>6, <1>7, <1>8, <1>9 DEF KeepAlive

(* The reader thread reports what it pops.                                 *)
LEMMA KeptOnReceivePacket ==
  ASSUME IInv, KeptInv, [Next]_vars, OnReceivePacket
  PROVE  KeptInv'
<1> USE DEF handlerVars, keepVars, airVars, Statuses
<1>1. ASSUME NEW p \in Ids, NEW n \in Nodes \cup {Gateway}, NEW ok \in BOOLEAN,
             NEW given \in BOOLEAN, OnRouting(p, n, ok, given)
      PROVE  KeptInv'
  <2>1. UNCHANGED <<sent, hpc, kpc, kcur>>
    BY <1>1 DEF OnRouting
  <2>2. CASE pending' = Without(p) /\ \E s \in Statuses : Report(p, s)
    BY <2>1, <2>2, KeptPop
  <2>3. CASE UNCHANGED <<pending, outcome>>
    BY <2>1, <2>3, KeptQuiet
  <2>4. QED
    BY <1>1, <2>2, <2>3 DEF OnRouting
<1>2. ASSUME NEW n \in Nodes, OnOtherPacket(n) PROVE KeptInv'
  <2>1. UNCHANGED <<sent, outcome, pending, hpc, kpc, kcur>>
    BY <1>2 DEF OnOtherPacket
  <2>2. QED
    BY <2>1, KeptQuiet
<1>3. CASE ConsumePendingByDestination
  <2>1. UNCHANGED <<sent, hpc, kpc, kcur>> /\ pending' = Without(rxSel)
    BY <1>3 DEF ConsumePendingByDestination
  <2>2. \/ rxSel \notin DOMAIN pending /\ UNCHANGED outcome
        \/ rxSel \in Ids /\ Report(rxSel, "delivered")
    BY <1>3 DEF ConsumePendingByDestination, IInv, TypeOK
  <2>3. QED
    BY <2>1, <2>2, KeptPop
<1>4. QED
  BY <1>1, <1>2, <1>3 DEF OnReceivePacket

(* Link, settings, radio and clock move no packet.                         *)
LEMMA KeptEnvironment ==
  ASSUME IInv, KeptInv, [Next]_vars, Environment
  PROVE  KeptInv'
<1>1. /\ UNCHANGED <<sent, outcome, kpc, kcur, hpc>>
      /\ DOMAIN pending' = DOMAIN pending
  BY DEF Environment, LinkBreaks, ConnectStart, ConnectFinish, ApplySettings, NodeReceives,
     Tick, airVars, handlerVars, keepVars
<1>2. QED
  BY <1>1, KeptQuiet

(* The chains that something was lost sight of.                            *)
LostChains == {Chain(p) : p \in lost}
LostBound  == IsFiniteSet(LostChains) /\ Cardinality(LostChains) <= faults

(* A failure loses packets of one chain only.                              *)
LEMMA WhoFails ==
  ASSUME IInv, [Next]_vars
  PROVE  \/ UNCHANGED <<faults, lost>>
         \/ UNCHANGED sent /\ \E packets \in SUBSET Ids :
              Fails(packets) /\ \A p, q \in packets : Chain(p) = Chain(q)
<1> USE DEF linkVars, airVars, CommandRaises, Abandon
<1>0. {} \in SUBSET Ids /\ \A p, q \in {} : Chain(p) = Chain(q)
  OBVIOUS
<1>1. CASE \E r \in Requests : HandleCommand(r)
  <2>1. PICK r \in Requests : HandleCommand(r)
    BY <1>1
  <2>2. hpc[r] = "sent" => Len(sent) \in Ids
    BY DEF IInv, HolderInv, NewPacket
  <2>3. CASE BroadcastTargetsRaises(r)
    BY <1>0, <2>3 DEF BroadcastTargetsRaises
  <2>4. CASE SentWithoutId(r)
    BY <2>2, <2>4 DEF SentWithoutId
  <2>5. CASE NodeNameRaises(r)
    <3>1. UNCHANGED sent
      BY <2>5 DEF NodeNameRaises
    <3>2. CASE Fails({})
      BY <1>0, <3>1, <3>2
    <3>3. CASE hpc[r] = "sent" /\ Fails({Len(sent)})
      BY <2>2, <3>1, <3>3
    <3>4. QED
      BY <2>5, <3>2, <3>3 DEF NodeNameRaises
  <2>6. CASE ~ BroadcastTargetsRaises(r) /\ ~ SentWithoutId(r) /\ ~ NodeNameRaises(r)
    BY <2>1, <2>6 DEF HandleCommand, Submit, RefuseUnconnected, AcquireLock, SendTo, Transmit,
       SendRaises, RegisterPendingCommand, Finish
  <2>7. QED
    BY <2>3, <2>4, <2>5, <2>6
<1>2. CASE KeepAlive
  <2>1. CASE UNCHANGED <<faults, lost>>
    BY <2>1
  <2>2. CASE SweepAbandoned
    BY <1>0, <2>2 DEF SweepAbandoned
  <2>3. CASE MarkOfflineRaises
    <3>1. UNCHANGED sent /\ \E p \in Ids : Fails({p})
      BY <2>3 DEF MarkOfflineRaises, IInv, TypeOK, HolderInv, RetryInProgress
    <3>2. QED
      BY <3>1
  <2>4. CASE RetryNameRaises \/ RetryWithoutId
    <3>1. /\ kcur \in Ids /\ Len(sent) \in Ids /\ Chain(kcur) = Chain(Len(sent))
          /\ UNCHANGED sent
      BY <2>4 DEF RetryNameRaises, RetryWithoutId, IInv, HolderInv, RetryInProgress, NewPacket
    <3>2. Fails({kcur, Len(sent)}) \/ Fails({kcur}) \/ Fails({Len(sent)})
      BY <2>4 DEF RetryNameRaises, RetryWithoutId
    <3>3. QED
      BY <3>1, <3>2
  <2>5. QED
    BY <1>2, <2>1, <2>2, <2>3, <2>4 DEF KeepAlive, KeepAliveCheck, KeepAliveBeat,
       KeepAliveDies, SweepScan, SweepPop, SweepDone, RetryAcquire, RetryTransmit,
       RetrySendRaises, RetryRegister
<1>3. CASE OnReceivePacket
  BY <1>3 DEF OnReceivePacket, OnRouting, OnOtherPacket, ConsumePendingByDestination
<1>4. CASE Environment
  BY <1>0, <1>4 DEF Environment, LinkBreaks, ConnectStart, ConnectFinish, ApplySettings,
     NodeReceives, Tick
<1>5. CASE UNCHANGED vars
  BY <1>5 DEF vars
<1>6. QED
  BY <1>1, <1>2, <1>3, <1>4, <1>5 DEF Next

(* So the chains lost sight of are never more than the failures.           *)
LEMMA LostBoundStep ==
  ASSUME IInv, LostBound, [Next]_vars
  PROVE  LostBound'
<1>1. \A p \in lost : p \in Ids
  BY DEF IInv, LostInv
<1>2. faults \in Nat /\ Cardinality(LostChains) \in Nat
  BY LimitsAssumption, FS_CardinalityType DEF IInv, TypeOK, LostBound
<1>3. \A p \in Ids : Chain(p)' = Chain(p)
  <2>1. \A p \in Ids : sent'[p] = sent[p]
    BY WhoTransmits, TransmitAppends, RetryAppends
  <2>2. QED
    BY <2>1 DEF Chain
<1>4. CASE UNCHANGED <<faults, lost>>
  <2>1. LostChains' = LostChains
    BY <1>1, <1>3, <1>4 DEF LostChains
  <2>2. QED
    BY <1>4, <2>1 DEF LostBound
<1>5. ASSUME NEW packets \in SUBSET Ids, Fails(packets),
             \A p, q \in packets : Chain(p) = Chain(q)
      PROVE  LostBound'
  <2>1. faults' = faults + 1 /\ lost' = lost \cup packets
    BY <1>5 DEF Fails
  <2>2. CASE packets = {}
    <3>1. LostChains' = LostChains
      BY <1>1, <1>3, <2>1, <2>2 DEF LostChains
    <3>2. QED
      BY <1>2, <2>1, <3>1 DEF LostBound
  <2>3. CASE packets # {}
    <3>1. PICK p \in packets : TRUE
      BY <2>3
    <3>2. LostChains' = LostChains \cup {Chain(p)}
      BY <1>1, <1>3, <1>5, <2>1 DEF LostChains
    <3>3. /\ IsFiniteSet(LostChains \cup {Chain(p)})
          /\ \/ Cardinality(LostChains \cup {Chain(p)}) = Cardinality(LostChains)
             \/ Cardinality(LostChains \cup {Chain(p)}) = Cardinality(LostChains) + 1
      BY FS_AddElement DEF LostBound
    <3>4. QED
      BY <1>2, <2>1, <3>2, <3>3 DEF LostBound
  <2>4. QED
    BY <2>2, <2>3
<1>6. QED
  BY <1>4, <1>5, WhoFails

(* Until it is reported, and no longer, every transmitted message that     *)
(* asks for an acknowledgement is registered or in somebody's hands, or a  *)
(* failure struck it in such hands; and a failure strikes one chain only.  *)
THEOREM AllInHand == Spec => []NothingForgotten
<1>1. Init => KeptInv /\ LostBound
  <2>1. SUFFICES ASSUME Init PROVE KeptInv /\ LostBound
    OBVIOUS
  <2>2. KeptInv
    BY <2>1 DEF Init, KeptInv, Ids
  <2>3. LostChains = {} /\ faults = 0
    BY <2>1 DEF Init, LostChains
  <2>4. QED
    BY <2>2, <2>3, FS_EmptySet DEF LostBound
<1>2. IInv /\ KeptInv /\ [Next]_vars => KeptInv'
  <2>1. CASE UNCHANGED vars
    BY <2>1, KeptQuiet DEF vars, airVars, handlerVars, keepVars
  <2>2. QED
    BY <2>1, KeptHandleCommand, KeptKeepAlive, KeptOnReceivePacket, KeptEnvironment DEF Next
<1>3. IInv /\ LostBound /\ [Next]_vars => LostBound'
  BY LostBoundStep
<1>4. IInv /\ KeptInv /\ LostBound => NothingForgotten
  <2>1. ASSUME IInv, NEW p \in Ids, InHand(p) PROVE outcome[p] = <<>> /\ p \notin lost
    <3>1. sent[p].req \in Requests
      BY <2>1, PacketType DEF IInv
    <3>2. QED
      BY <2>1, <3>1 DEF IInv, HolderInv, LostInv, InHand, RetryInProgress, NewPacket
  <2>2. ASSUME IInv, NEW p \in lost PROVE p \in Ids /\ outcome[p] = <<>>
    BY <2>2 DEF IInv, LostInv
  <2>3. QED
    BY <2>1, <2>2 DEF KeptInv, Kept, Held, LostBound, LostChains, NothingForgotten
<1>5. QED
  BY <1>1, <1>2, <1>3, <1>4, Invariance, PTL DEF Spec

-----------------------------------------------------------------------------
(* The gateway implements CommandTicket.  What a step does to the ticket of*)
(* request r and destination d is read off its chain of packets, Sends, and*)
(* the verdicts on it, Told.                                               *)
Sends(r, d) == Cardinality(ChainOf(r, d))
Told(r, d)  == {x \in ChainOf(r, d) \X (1..2) : x[2] \in VerdictsOn(x[1])}

(* A report is an append to the reports of a known packet.                 *)
LEMMA WhoReports ==
  ASSUME IInv, [Next]_vars, UNCHANGED sent
  PROVE  UNCHANGED outcome \/ \E p \in Ids, status \in Statuses : Report(p, status)
<1> USE DEF airVars, handlerVars
<1>0. TypeOK /\ PhaseInv
  BY DEF IInv
<1>1. CASE \E r \in Requests : HandleCommand(r)
  <2>1. ~ \E r \in Requests : Transmit(r)
    <3> SUFFICES ASSUME NEW r \in Requests, Transmit(r) PROVE FALSE
      OBVIOUS
    <3>1. Len(sent') = Len(sent) + 1 /\ Len(sent) \in Nat
      BY TransmitAppends
    <3> QED BY <3>1
  <2> QED BY <1>1, <2>1 DEF HandleCommand, Submit, RefuseUnconnected, AcquireLock, SendTo,
         SendRaises, RegisterPendingCommand, Finish, BroadcastTargetsRaises, SentWithoutId,
         NodeNameRaises
<1>2. CASE KeepAlive
  <2>1. CASE \E p \in kbatch : SweepPop(p)
    BY <1>0, <2>1 DEF SweepPop, TypeOK, Statuses
  <2>2. CASE RetryAcquire \/ RetrySendRaises \/ RetryRegister \/ RetryWithoutId
    <3>1. kcur \in Ids
      BY <1>0, <2>2 DEF PhaseInv, RetryInProgress, RetryAcquire, RetrySendRaises,
         RetryRegister, RetryWithoutId
    <3> QED BY <2>2, <3>1 DEF RetryAcquire, RetrySendRaises, RetryRegister, RetryWithoutId,
               Statuses
  <2>3. CASE KeepAliveCheck \/ KeepAliveBeat \/ KeepAliveDies \/ SweepScan \/ SweepDone
             \/ SweepAbandoned \/ MarkOfflineRaises \/ RetryNameRaises
    BY <2>3 DEF KeepAliveCheck, KeepAliveBeat, KeepAliveDies, SweepScan, SweepDone,
       SweepAbandoned, MarkOfflineRaises, RetryNameRaises
  <2>4. ~RetryTransmit
    <3> SUFFICES ASSUME RetryTransmit PROVE FALSE
      OBVIOUS
    <3>1. Len(sent') = Len(sent) + 1 /\ Len(sent) \in Nat
      BY RetryAppends
    <3> QED BY <3>1
  <2> QED BY <1>2, <2>1, <2>2, <2>3, <2>4 DEF KeepAlive
<1>3. CASE OnReceivePacket
  <2>1. ASSUME NEW p \in Ids, NEW n \in Nodes \cup {Gateway}, NEW ok \in BOOLEAN,
               NEW given \in BOOLEAN, OnRouting(p, n, ok, given)
        PROVE  UNCHANGED outcome \/ \E q \in Ids, status \in Statuses : Report(q, status)
    BY <2>1 DEF OnRouting, Statuses
  <2>2. CASE ConsumePendingByDestination
    BY <1>0, <2>2 DEF ConsumePendingByDestination, TypeOK, Statuses
  <2>3. ASSUME NEW n \in Nodes, OnOtherPacket(n) PROVE UNCHANGED outcome
    BY <2>3 DEF OnOtherPacket
  <2> QED BY <1>3, <2>1, <2>2, <2>3 DEF OnReceivePacket
<1>4. CASE Environment
  BY <1>4 DEF Environment, LinkBreaks, ConnectStart, ConnectFinish, ApplySettings,
     NodeReceives, Tick
<1>5. CASE UNCHANGED vars
  BY <1>5 DEF vars
<1> QED BY <1>1, <1>2, <1>3, <1>4, <1>5 DEF Next

(* The packets of a chain are numbered by their retry counts, so there are *)
(* at most 1 + MaxRetries of them.                                         *)
LEMMA ChainSize ==
  ASSUME IInv, NEW r \in Requests, NEW d \in Destinations
  PROVE  IsFiniteSet(ChainOf(r, d)) /\ Sends(r, d) \in Nat /\ Sends(r, d) <= 1 + MaxRetries
<1> DEFINE C == ChainOf(r, d)
           f == [p \in C |-> sent[p].attempt]
<1>0. MaxRetries \in Nat /\ TypeOK
  BY LimitsAssumption DEF IInv
<1>1. \A p \in C : p \in Ids /\ p \in Nat /\ Chain(p) = <<r, d>> /\ sent[p].attempt \in 0..MaxRetries
  BY <1>0, PacketType DEF ChainOf, Packet
<1>2. \A p, q \in C : p # q => sent[p].attempt # sent[q].attempt
  <2> SUFFICES ASSUME NEW p \in C, NEW q \in C, p # q PROVE sent[p].attempt # sent[q].attempt
    OBVIOUS
  <2>1. p < q \/ q < p
    BY <1>1
  <2>2. sent[p].attempt < sent[q].attempt \/ sent[q].attempt < sent[p].attempt
    BY <1>1, <2>1 DEF IInv, ChainInv
  <2> QED BY <1>0, <1>1, <2>2
<1>3. f \in Injection(C, 0..MaxRetries)
  BY <1>1, <1>2 DEF Injection, IsInjective
<1>4. IsFiniteSet(0..MaxRetries) /\ Cardinality(0..MaxRetries) = 1 + MaxRetries
  BY <1>0, FS_Interval
<1>5. IsFiniteSet(C) /\ Cardinality(C) <= Cardinality(0..MaxRetries)
  BY <1>3, <1>4, FS_Injection
<1> QED BY <1>4, <1>5, FS_CardinalityType DEF Sends

(* At most one verdict was told on a ticket.                               *)
LEMMA ToldSize ==
  ASSUME IInv, NEW r \in Requests, NEW d \in Destinations
  PROVE  /\ Told(r, d) = {} => Cardinality(Told(r, d)) = 0
         /\ Told(r, d) # {} => Cardinality(Told(r, d)) = 1
         /\ \A x, y \in Told(r, d) : x = y
<1>1. \A x, y \in Told(r, d) : x = y
  <2> SUFFICES ASSUME NEW x \in Told(r, d), NEW y \in Told(r, d) PROVE x = y
    OBVIOUS
  <2>1. /\ x = <<x[1], x[2]>> /\ y = <<y[1], y[2]>>
        /\ x[1] \in Ids /\ y[1] \in Ids /\ Chain(x[1]) = Chain(y[1])
        /\ x[2] \in VerdictsOn(x[1]) /\ y[2] \in VerdictsOn(y[1])
    BY DEF Told, ChainOf
  <2>2. x[1] = y[1] /\ x[2] = y[2]
    BY <2>1, OutcomeIsOne
  <2> QED BY <2>1, <2>2
<1>2. ASSUME Told(r, d) # {} PROVE Cardinality(Told(r, d)) = 1
  <2>1. PICK x : Told(r, d) = {x}
    BY <1>1, <1>2
  <2> QED BY <2>1, FS_Singleton
<1> QED BY <1>1, <1>2, FS_EmptySet

(* What holds of a ticket in every state.                                  *)
TicketBounds(r, d) ==
  /\ IsFiniteSet(ChainOf(r, d))
  /\ Sends(r, d) \in Nat /\ Sends(r, d) <= 1 + MaxRetries
  /\ Told(r, d) = {} => Cardinality(Told(r, d)) = 0
  /\ Told(r, d) # {} => Cardinality(Told(r, d)) = 1
  /\ \A x, y \in Told(r, d) : x = y

LEMMA TicketState ==
  IInv => \A r \in Requests, d \in Destinations : TicketBounds(r, d)
BY ChainSize, ToldSize DEF TicketBounds

(* A ticket whose chain and verdicts do not change stutters; one that is   *)
(* told more is closed.                                                    *)
LEMMA TicketMoves ==
  ASSUME NEW r \in Requests, NEW d \in Destinations,
         TicketBounds(r, d), TicketBounds(r, d)'
  PROVE  /\ Sends(r, d)' = Sends(r, d) /\ Told(r, d)' = Told(r, d)
              => UNCHANGED Ticket(r, d)!ticketVars
         /\ Sends(r, d)' = Sends(r, d) /\ Told(r, d) = {} /\ Told(r, d)' # {}
              => Ticket(r, d)!Close
         /\ Sends(r, d)' = Sends(r, d) + 1 /\ Told(r, d) = {} /\ Told(r, d)' = {}
              => Ticket(r, d)!Send
<1>1. Told(r, d) # {} => Sends(r, d) > 0
  <2>1. Told(r, d) # {} => ChainOf(r, d) # {}
    BY DEF Told
  <2>2. QED
    BY <2>1, FS_EmptySet DEF TicketBounds, Sends
<1>2. ASSUME Sends(r, d)' = Sends(r, d), Told(r, d)' = Told(r, d)
      PROVE  UNCHANGED Ticket(r, d)!ticketVars
  BY <1>2 DEF Ticket!ticketVars, Sends, Told
<1>3. ASSUME Sends(r, d)' = Sends(r, d), Told(r, d) = {}, Told(r, d)' # {}
      PROVE  Ticket(r, d)!Close
  <2>1. Cardinality(Told(r, d)) = 0 /\ Cardinality(Told(r, d))' = 1
    BY <1>3 DEF TicketBounds
  <2>2. Sends(r, d)' > 0 /\ Sends(r, d) \in Nat
    <3>1. Told(r, d)' # {} => ChainOf(r, d)' # {}
      BY DEF Told
    <3>2. QED
      BY <1>3, <3>1, FS_EmptySet DEF TicketBounds, Sends
  <2>3. QED
    BY <1>3, <2>1, <2>2 DEF Ticket!Close, Sends, Told
<1>4. ASSUME Sends(r, d)' = Sends(r, d) + 1, Told(r, d) = {}, Told(r, d)' = {}
      PROVE  Ticket(r, d)!Send
  <2>1. Cardinality(Told(r, d)) = 0 /\ Cardinality(Told(r, d))' = 0
    BY <1>4 DEF TicketBounds
  <2>2. Sends(r, d) < 1 + MaxRetries
    BY <1>4, LimitsAssumption DEF TicketBounds
  <2>3. QED
    BY <1>4, <2>1, <2>2 DEF Ticket!Send, Sends, Told
<1>5. QED
  BY <1>2, <1>3, <1>4

(* A step that transmits nothing stutters or closes the ticket.            *)
LEMMA TicketReport ==
  ASSUME IInv, [Next]_vars, UNCHANGED sent,
         NEW r \in Requests, NEW d \in Destinations,
         TicketBounds(r, d), TicketBounds(r, d)'
  PROVE  Ticket(r, d)!Next \/ UNCHANGED Ticket(r, d)!ticketVars
<1>1. Ids' = Ids /\ ChainOf(r, d)' = ChainOf(r, d) /\ Sends(r, d)' = Sends(r, d)
  BY DEF ChainOf, Chain, Ids, Sends
<1>2. \A p \in Ids : VerdictsOn(p) \subseteq VerdictsOn(p)'
  <2>1. CASE UNCHANGED outcome
    BY <2>1 DEF VerdictsOn
  <2>2. ASSUME NEW p \in Ids, NEW status \in Statuses, Report(p, status)
        PROVE  \A q \in Ids : VerdictsOn(q) \subseteq VerdictsOn(q)'
    <3>1. outcome'[p] = Append(outcome[p], status) /\ \A q \in Ids \ {p} : outcome'[q] = outcome[q]
      BY <2>2, ReportType DEF IInv
    <3>2. outcome[p] \in Seq(Statuses)
      BY DEF IInv, TypeOK, Ids
    <3>3. DOMAIN outcome[p] \subseteq DOMAIN outcome'[p]
          /\ \A i \in DOMAIN outcome[p] : outcome'[p][i] = outcome[p][i]
      BY <3>1, <3>2, AppendProperties
    <3>4. QED
      BY <3>1, <3>3 DEF VerdictsOn
  <2>3. QED
    BY <2>1, <2>2, WhoReports
<1>3. Told(r, d) \subseteq Told(r, d)'
  BY <1>1, <1>2 DEF Told, ChainOf
<1>4. \A x, y \in Told(r, d)' : x = y
  BY DEF TicketBounds
<1>5. Told(r, d)' = Told(r, d) \/ (Told(r, d) = {} /\ Told(r, d)' # {})
  BY <1>3, <1>4
<1>6. QED
  BY <1>1, <1>5, TicketMoves DEF Ticket!Next

(* A transmission is one send of the ticket whose chain it lengthens: by   *)
(* SilentStep that ticket is open.                                         *)
LEMMA TicketTransmit ==
  ASSUME IInv, [Next]_vars, NEW n \in Nat, n \notin Ids, Ids' = Ids \cup {n},
         \A p \in Ids : sent'[p] = sent[p] /\ outcome'[p] = outcome[p],
         outcome'[n] = <<>>,
         NEW r \in Requests, NEW d \in Destinations,
         TicketBounds(r, d), TicketBounds(r, d)'
  PROVE  Ticket(r, d)!Next \/ UNCHANGED Ticket(r, d)!ticketVars
<1>1. \A p \in Ids : Chain(p)' = Chain(p) /\ VerdictsOn(p)' = VerdictsOn(p)
  BY DEF Chain, VerdictsOn
<1>2. VerdictsOn(n)' = {}
  BY DEF VerdictsOn
<1>3. ChainOf(r, d)' = ChainOf(r, d) \cup {p \in {n} : Chain(p)' = <<r, d>>}
  BY <1>1 DEF ChainOf
<1>4. Told(r, d)' = Told(r, d)
  <2>1. \A x \in ChainOf(r, d) \X (1..2) : x[1] \in Ids
    BY DEF ChainOf
  <2>2. \A x \in {n} \X (1..2) : x[2] \notin VerdictsOn(x[1])'
    BY <1>2
  <2>3. QED
    BY <1>1, <1>3, <2>1, <2>2 DEF Told
<1>5. CASE Chain(n)' # <<r, d>>
  <2>1. Sends(r, d)' = Sends(r, d)
    BY <1>3, <1>5 DEF Sends
  <2>2. QED
    BY <1>4, <2>1, TicketMoves
<1>6. CASE Chain(n)' = <<r, d>>
  <2>1. ChainOf(r, d)' = ChainOf(r, d) \cup {n} /\ n \notin ChainOf(r, d)
    BY <1>3, <1>6 DEF ChainOf
  <2>2. Sends(r, d)' = Sends(r, d) + 1
    BY <2>1, FS_AddElement DEF TicketBounds, Sends
  <2>3. Told(r, d) = {}
    <3>1. SUFFICES ASSUME NEW x \in Told(r, d) PROVE FALSE
      OBVIOUS
    <3>2. x[1] \in Ids /\ Chain(x[1]) = <<r, d>> /\ Verdict(x[1])
      BY DEF Told, ChainOf, Verdict
    <3>3. <<sent'[n].req, sent'[n].dst>> # Chain(x[1])
      BY <3>2, SilentStep
    <3>4. QED
      BY <1>6, <3>2, <3>3 DEF Chain
  <2>4. QED
    BY <1>4, <2>2, <2>3, TicketMoves DEF Ticket!Next
<1>7. QED
  BY <1>5, <1>6

(* For every request and destination the gateway keeps the promise of      *)
(* CommandTicket: it transmits at most 1 + MaxRetries times, tells the     *)
(* operators one verdict, and is silent afterwards.                        *)
THEOREM GatewayImplementsTicket == Spec => ImplementsTicket
<1> DEFINE Starts == \A r \in Requests, d \in Destinations : Ticket(r, d)!Init
           Moves  == \A r \in Requests, d \in Destinations :
                       Ticket(r, d)!Next \/ UNCHANGED Ticket(r, d)!ticketVars
           Bounds == \A r \in Requests, d \in Destinations : TicketBounds(r, d)
<1>1. Init => Starts
  <2>1. SUFFICES ASSUME Init, NEW r \in Requests, NEW d \in Destinations
                 PROVE  Ticket(r, d)!Init
    OBVIOUS
  <2>2. ChainOf(r, d) = {} /\ Told(r, d) = {}
    BY <2>1 DEF Init, ChainOf, Ids, Told
  <2>3. QED
    BY <2>2, FS_EmptySet DEF Ticket!Init, Told
<1>2. IInv => Bounds
  BY TicketState
<1>3. IInv /\ Bounds /\ Bounds' /\ [Next]_vars => Moves
  <2>1. SUFFICES ASSUME IInv, Bounds, Bounds', [Next]_vars,
                        NEW r \in Requests, NEW d \in Destinations
                 PROVE  Ticket(r, d)!Next \/ UNCHANGED Ticket(r, d)!ticketVars
    OBVIOUS
  <2>2. TicketBounds(r, d) /\ TicketBounds(r, d)'
    BY <2>1 DEF Destinations
  <2>3. CASE UNCHANGED sent
    BY <2>1, <2>2, <2>3, TicketReport
  <2>4. ASSUME Ids' = Ids \cup {Len(sent) + 1}, Ids = 1..Len(sent), Len(sent) \in Nat,
               \A p \in Ids : sent'[p] = sent[p] /\ outcome'[p] = outcome[p],
               outcome'[Len(sent) + 1] = <<>>
        PROVE  Ticket(r, d)!Next \/ UNCHANGED Ticket(r, d)!ticketVars
    <3>1. Len(sent) + 1 \in Nat /\ Len(sent) + 1 \notin Ids
      BY <2>4
    <3>2. QED
      BY <2>1, <2>2, <2>4, <3>1, TicketTransmit
  <2>5. QED
    BY <2>1, <2>3, <2>4, WhoTransmits, TransmitAppends, RetryAppends
<1> HIDE DEF Starts, Moves, Bounds
<1>4. Spec => Starts /\ [][Moves]_vars
  BY <1>1, <1>2, <1>3, Invariance, PTL DEF Spec
<1>5. QED
  BY <1>4 DEF ImplementsTicket, Starts, Moves
=============================================================================
