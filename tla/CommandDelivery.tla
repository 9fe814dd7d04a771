--------------------------- MODULE CommandDelivery ---------------------------
(***************************************************************************)
(* The life of an alarm command inside engine/gateway.py: handle_command   *)
(* sends it, a reader thread matches the packets that come back with the   *)
(* dictionary pending_commands, and keep_alive_loop sweeps what timed out, *)
(* sends it again or reports it missed.                                    *)
(*                                                                         *)
(* Three threads of control interleave.  The asyncio event loop runs the   *)
(* handlers (one per request), the keep-alive loop and the connector, and  *)
(* changes between them at an await; iface.sendText runs in a worker       *)
(* thread, so a packet is on the air before the awaiting coroutine resumes *)
(* and registers it; _on_receive_packet runs in the serial reader thread,  *)
(* between any two steps of the others.  self.lock is held around the      *)
(* sends and around every change of the interface.                         *)
(*                                                                         *)
(* A packet is named by its position in the sequence of transmissions.     *)
(* The cache of nodes and its online/offline status is not part of this    *)
(* module.                                                                 *)
(***************************************************************************)
EXTENDS Integers, Sequences, FiniteSets

CONSTANTS Nodes,          \* ids of the alarm nodes of the mesh
          Requests,       \* requestIds of the commands the operators issue
          Targets,        \* the targets they choose from
          Excludable,     \* nodes that the deployment settings may exclude
          AckTimeout,     \* ACK_TIMEOUT_SECONDS, in clock ticks
          MaxRetries,     \* PENDING_TIMEOUT_RETRIES
          FanoutRetries,  \* FANOUT_RETRY_COUNT
          MaxFaults       \* bound: failures in a run (see Fails)

Broadcast == "^all"       \* BROADCAST_ADDR
Local     == "^local"     \* LOCAL_ADDR
Channel   == "channel"    \* sendMode "channel"
Gateway   == "gateway"    \* the node the serial port is attached to

Destinations == Nodes \cup {Broadcast, Local}

ASSUME NodesAssumption ==
  /\ {Broadcast, Local, Channel, Gateway} \cap Nodes = {}
  /\ Excludable \subseteq Nodes
  /\ Targets \subseteq Destinations \cup {Channel}
ASSUME RequestsAssumption ==
  {"free", "keepAlive", "connector"} \cap Requests = {}
ASSUME LimitsAssumption ==
  /\ AckTimeout \in Nat
  /\ MaxRetries \in Nat
  /\ FanoutRetries \in Nat
  /\ MaxFaults \in Nat

VARIABLES
  link,      \* conn.iface: "down" none, "up" connected, "broken" not isConnected
  lock,      \* self.lock: its holder, or "free"
  excluded,  \* node ids excluded by the deployment settings
  faults,    \* broken links, exceptions and packets without an id so far
  lost,      \* history: the transmissions lost sight of that way
  sent,      \* the transmissions: [req, dst, attempt, channel]
  fate,      \* per transmission: "air"; "relayed", a node passed it on and we
             \* know; "received" by its node; "acked", received and we know
  outcome,   \* per transmission: the command:delivery statuses broadcast for it
  pending,   \* pending_commands: packet id -> age of the entry
  hpc,       \* handle_command of a request: where it is
  target,    \* ... the target it was given
  todo,      \* ... the destinations it has still to send to
  cur,       \* ... the destination it is sending to
  tries,     \* ... the failed attempts for that destination
  reply,     \* ... what its client was told
  kpc,       \* keep_alive_loop: where it is
  kconn,     \* ... its local variable `connected`
  kbatch,    \* ... what is left of timed_out_ids
  kcur,      \* ... the packet that _retry_pending_command works on
  rxSel      \* reader thread: selected_packet_id of a fallback match, or 0

linkVars    == <<link, excluded, faults, lost>>
airVars     == <<sent, fate>>
handlerVars == <<hpc, target, todo, cur, tries, reply>>
keepVars    == <<kpc, kconn, kbatch, kcur>>
vars == <<linkVars, lock, airVars, outcome, pending, handlerVars, keepVars, rxSel>>

-----------------------------------------------------------------------------
(* Packets, and the chains of packets that serve one request and one       *)
(* destination.                                                            *)

Ids      == DOMAIN sent
Statuses == {"delivered", "failed", "missed", "retried"}
Verdicts == {"delivered", "failed", "missed"}
NoDst    == "none"

Chain(p)      == <<sent[p].req, sent[p].dst>>
ChainOf(r, d) == {p \in Ids : Chain(p) = <<r, d>>}
VerdictsOn(p) == {i \in DOMAIN outcome[p] : outcome[p][i] \in Verdicts}

TimedOut    == {p \in DOMAIN pending : pending[p] > AckTimeout}
IsOldest(p, S) == p \in S /\ \A q \in S : p <= q
Without(p)  == [q \in DOMAIN pending \ {p} |-> pending[q]]
With(p)     == [q \in DOMAIN pending \cup {p} |-> IF q = p THEN 0 ELSE pending[q]]

(* Fan-out: the nodes of the interface's database except the excluded      *)
(* ones, or a real broadcast if there are none.                            *)
DestinationsOf(t, known) ==
  IF t = Channel THEN {Broadcast}
  ELSE IF t = Broadcast /\ known \ excluded # {} THEN known \ excluded
  ELSE {t}

Attempts(r) == IF target[r] = Broadcast THEN 1 + FanoutRetries ELSE 1

(* _consume_pending_by_destination: the oldest fresh entry for a node.     *)
FreshFor(n) == {p \in DOMAIN pending : sent[p].dst = n /\ pending[p] <= AckTimeout}
Matches(p, n) == IsOldest(p, FreshFor(n))

Report(p, status) == outcome' = [outcome EXCEPT ![p] = Append(@, status)]

(* sendText returned: one more packet is on the air, nothing is known of   *)
(* it yet.                                                                 *)
PutOnAir(packet) == /\ sent' = Append(sent, packet)
                    /\ fate' = Append(fate, "air")
                    /\ outcome' = Append(outcome, <<>>)

(* One failure more; nobody has the given packets in hand any longer.      *)
Fails(packets) == /\ faults < MaxFaults /\ faults' = faults + 1
                  /\ lost' = lost \cup packets

(* Mutants of Retryable: the limit is off by one; there is no limit.       *)
RetryableOnceMore(p) == /\ sent[p].dst \in Nodes
                        /\ sent[p].attempt <= MaxRetries
RetryableForever(p)  == /\ sent[p].dst \in Nodes
                        /\ Len(sent) < 5

Retryable(p) == /\ sent[p].dst \in Nodes
                /\ sent[p].attempt < MaxRetries

-----------------------------------------------------------------------------
Init ==
  /\ link = "down"
  /\ lock = "free"
  /\ excluded = {}
  /\ faults = 0 /\ lost = {}
  /\ sent = <<>> /\ fate = <<>> /\ outcome = <<>>
  /\ pending = [p \in {} |-> 0]
  /\ hpc = [r \in Requests |-> "idle"]
  /\ target = [r \in Requests |-> Broadcast]
  /\ todo = [r \in Requests |-> {}]
  /\ cur = [r \in Requests |-> NoDst]
  /\ tries = [r \in Requests |-> 0]
  /\ reply = [r \in Requests |-> "none"]
  /\ kpc = "sleep" /\ kconn = FALSE /\ kbatch = {} /\ kcur = 0
  /\ rxSel = 0

-----------------------------------------------------------------------------
(* handle_command of request r.                                            *)

Goto(r, pc)     == hpc' = [hpc EXCEPT ![r] = pc]
Answer(r, what) == reply' = [reply EXCEPT ![r] = what]

(* The command arrives: its target is resolved and, before the lock is     *)
(* asked for, checked against the excluded nodes.                          *)
Submit(r, t) ==
  /\ hpc[r] = "idle"
  /\ target' = [target EXCEPT ![r] = t]
  /\ \/ /\ t \in excluded
        /\ Answer(r, "excluded") /\ Goto(r, "done")
     \/ /\ t \notin excluded
        /\ Goto(r, "waitLock") /\ UNCHANGED reply
  /\ UNCHANGED <<linkVars, lock, airVars, outcome, pending, todo, cur, tries,
                 keepVars, rxSel>>

(* `async with self.lock`, then the interface is looked at.                *)
RefuseUnconnected(r) ==
  /\ hpc[r] = "waitLock" /\ lock = "free" /\ link # "up"
  /\ Answer(r, "notConnected") /\ Goto(r, "done")
  /\ UNCHANGED <<linkVars, lock, airVars, outcome, pending, target, todo, cur,
                 tries, keepVars, rxSel>>

AcquireLock(r, known) ==
  /\ hpc[r] = "waitLock" /\ lock = "free" /\ link = "up"
  /\ lock' = r
  /\ todo' = [todo EXCEPT ![r] = DestinationsOf(target[r], known)]
  /\ Goto(r, "ready")
  /\ UNCHANGED <<linkVars, airVars, outcome, pending, target, cur, tries, reply,
                 keepVars, rxSel>>

(* An exception leaves handle_command and with it websocket_handler: the   *)
(* client gets no reply, its connection is closed.                         *)
CommandRaises(r, packets) ==
  Fails(packets) /\ Goto(r, "done") /\ Answer(r, "closed")

(* _broadcast_targets walks over nodesByNum and self.nodes while the reader*)
(* thread writes them.                                                     *)
BroadcastTargetsRaises(r) ==
  /\ hpc[r] = "waitLock" /\ lock = "free" /\ link = "up" /\ target[r] = Broadcast
  /\ CommandRaises(r, {})
  /\ UNCHANGED <<link, excluded, lock, airVars, outcome, pending, target, todo, cur,
                 tries, keepVars, rxSel>>

SendTo(r, d) ==
  /\ hpc[r] = "ready" /\ d \in todo[r]
  /\ cur' = [cur EXCEPT ![r] = d]
  /\ todo' = [todo EXCEPT ![r] = @ \ {d}]
  /\ tries' = [tries EXCEPT ![r] = 0]
  /\ Goto(r, "send")
  /\ UNCHANGED <<linkVars, lock, airVars, outcome, pending, target, reply,
                 keepVars, rxSel>>

(* The worker thread has called iface.sendText: the packet is on the air,  *)
(* the coroutine has not resumed.                                          *)
Transmit(r) ==
  /\ hpc[r] = "send"
  /\ PutOnAir([req |-> r, dst |-> cur[r], attempt |-> 0, channel |-> 0])
  /\ Goto(r, "sent")
  /\ UNCHANGED <<linkVars, lock, pending, target, todo, cur, tries, reply,
                 keepVars, rxSel>>

(* sendText raised: try again if attempts are left, else note the failure  *)
(* and go on with the next destination.                                    *)
SendRaises(r) ==
  /\ hpc[r] = "send"
  /\ tries' = [tries EXCEPT ![r] = @ + 1]
  /\ Goto(r, IF tries[r] + 1 < Attempts(r) THEN "send" ELSE "ready")
  /\ UNCHANGED <<linkVars, lock, airVars, outcome, pending, target, todo, cur,
                 reply, keepVars, rxSel>>

(* The coroutine resumes; only now _register_pending_command is called,    *)
(* and not for a channel message, which asks for no acknowledgement.       *)
RegisterPendingCommand(r) ==
  /\ hpc[r] = "sent"
  /\ pending' = IF target[r] = Channel THEN pending ELSE With(Len(sent))
  /\ Goto(r, "ready")
  /\ UNCHANGED <<linkVars, lock, airVars, outcome, target, todo, cur, tries,
                 reply, keepVars, rxSel>>

(* sendText returned a packet without an integer id: nothing to register.  *)
SentWithoutId(r) ==
  /\ hpc[r] = "sent" /\ target[r] # Channel
  /\ Fails({Len(sent)})
  /\ Goto(r, "ready")
  /\ UNCHANGED <<link, excluded, lock, airVars, outcome, pending, target, todo, cur,
                 tries, reply, keepVars, rxSel>>

(* _node_name_by_id walks over nodesByNum too.  It is called for the result*)
(* of a failed destination, before the entry of a packet is stored, and    *)
(* once more afterwards.                                                   *)
NodeNameRaises(r) ==
  /\ \/ /\ hpc[r] = "send" /\ tries[r] + 1 = Attempts(r)
        /\ CommandRaises(r, {}) /\ UNCHANGED pending
     \/ /\ hpc[r] = "sent" /\ target[r] # Channel
        /\ CommandRaises(r, {Len(sent)}) /\ UNCHANGED pending
     \/ /\ hpc[r] = "sent"
        /\ pending' = IF target[r] = Channel THEN pending ELSE With(Len(sent))
        /\ CommandRaises(r, {})
  /\ lock' = "free"
  /\ UNCHANGED <<link, excluded, airVars, outcome, target, todo, cur, tries, keepVars,
                 rxSel>>

(* Mutant of Finish: only the last destination's result is looked at.      *)
FinishLastResultOnly(r) ==
  /\ hpc[r] = "ready" /\ todo[r] = {}
  /\ lock' = "free"
  /\ Answer(r, IF tries[r] = 0 THEN "ack" ELSE "sendFailed")
  /\ Goto(r, "done")
  /\ UNCHANGED <<linkVars, airVars, outcome, pending, target, todo, cur, tries,
                 keepVars, rxSel>>

(* Every destination is dealt with: the lock is released and the client    *)
(* gets its acks, or an error if nothing was sent.  An exception after the *)
(* first ack finds the client answered.                                    *)
Finish(r) ==
  /\ hpc[r] = "ready" /\ todo[r] = {}
  /\ lock' = "free"
  /\ Answer(r, IF \E p \in Ids : sent[p].req = r THEN "ack" ELSE "sendFailed")
  /\ Goto(r, "done")
  /\ UNCHANGED <<linkVars, airVars, outcome, pending, target, todo, cur, tries,
                 keepVars, rxSel>>

HandleCommand(r) ==
  \/ \E t \in Targets : Submit(r, t)
  \/ RefuseUnconnected(r)
  \/ \E known \in SUBSET Nodes : AcquireLock(r, known)
  \/ \E d \in todo[r] : SendTo(r, d)
  \/ Transmit(r)
  \/ SendRaises(r)
  \/ RegisterPendingCommand(r)
  \/ Finish(r)
  \/ BroadcastTargetsRaises(r) \/ SentWithoutId(r) \/ NodeNameRaises(r)

-----------------------------------------------------------------------------
(* keep_alive_loop.                                                        *)

(* Mutant of KeepAliveCheck: disconnect_if_missing does not take the lock. *)
KeepAliveCheckUnlocked ==
  /\ kpc = "sleep"
  /\ link' = IF link = "broken" THEN "down" ELSE link
  /\ kconn' = (link = "up")
  /\ kpc' = "beat"
  /\ UNCHANGED <<excluded, faults, lost, lock, airVars, outcome, pending, handlerVars,
                 kbatch, kcur, rxSel>>

(* Mutant of KeepAliveCheck: the lock is not released on the way out.      *)
KeepAliveCheckKeepsLock ==
  /\ kpc = "sleep" /\ lock = "free"
  /\ link' = IF link = "broken" THEN "down" ELSE link
  /\ lock' = IF link = "up" THEN "free" ELSE "keepAlive"
  /\ kconn' = (link = "up")
  /\ kpc' = "beat"
  /\ UNCHANGED <<excluded, faults, lost, airVars, outcome, pending, handlerVars,
                 kbatch, kcur, rxSel>>

(* disconnect_if_missing under the lock, then `connected` is computed.     *)
(* Closing the interface does not touch pending_commands.                  *)
KeepAliveCheck ==
  /\ kpc = "sleep" /\ lock = "free"
  /\ link' = IF link = "broken" THEN "down" ELSE link
  /\ kconn' = (link = "up")
  /\ kpc' = "beat"
  /\ UNCHANGED <<excluded, faults, lost, lock, airVars, outcome, pending, handlerVars,
                 kbatch, kcur, rxSel>>

(* The KEEP_ALIVE broadcast is awaited outside the try block: an exception *)
(* in it (the set of clients changed while it was iterated) ends the task. *)
KeepAliveDies ==
  /\ kpc = "beat"
  /\ kpc' = "dead"
  /\ UNCHANGED <<linkVars, lock, airVars, outcome, pending, handlerVars,
                 kconn, kbatch, kcur, rxSel>>

(* After the broadcast: sweep if `connected` was true then and there is    *)
(* still an interface.                                                     *)
KeepAliveBeat ==
  /\ kpc = "beat"
  /\ kpc' = IF kconn /\ link # "down" THEN "scan" ELSE "sleep"
  /\ UNCHANGED <<linkVars, lock, airVars, outcome, pending, handlerVars,
                 kconn, kbatch, kcur, rxSel>>

SweepScan ==
  /\ kpc = "scan"
  /\ kbatch' = TimedOut
  /\ kpc' = "sweep"
  /\ UNCHANGED <<linkVars, lock, airVars, outcome, pending, handlerVars,
                 kconn, kcur, rxSel>>

(* The next timed-out id is popped.  It may be gone; if it may not be sent *)
(* again it is reported missed at once; otherwise _retry_pending_command   *)
(* starts and sleeps PENDING_RETRY_GAP_SECONDS, the entry out of the       *)
(* dictionary.                                                             *)
SweepPop(p) ==
  /\ kpc = "sweep" /\ IsOldest(p, kbatch)
  /\ kbatch' = kbatch \ {p}
  /\ pending' = Without(p)
  /\ \/ /\ p \notin DOMAIN pending
        /\ UNCHANGED <<outcome, kpc, kcur>>
     \/ /\ p \in DOMAIN pending
        /\ ~ (Retryable(p) /\ link = "up")
        /\ Report(p, "missed")
        /\ UNCHANGED <<kpc, kcur>>
     \/ /\ p \in DOMAIN pending
        /\ Retryable(p) /\ link = "up"
        /\ kpc' = "retryWait" /\ kcur' = p
        /\ UNCHANGED outcome
  /\ UNCHANGED <<linkVars, lock, airVars, handlerVars, kconn, rxSel>>

SweepDone ==
  /\ kpc = "sweep" /\ kbatch = {}
  /\ kpc' = "sleep"
  /\ UNCHANGED <<linkVars, lock, airVars, outcome, pending, handlerVars,
                 kconn, kbatch, kcur, rxSel>>

(* An exception inside the try block ends the sweep; what is left of the   *)
(* batch stays registered.                                                 *)
Abandon(packets) ==
  Fails(packets) /\ kbatch' = {} /\ kcur' = 0 /\ kpc' = "sleep"

(* Between the entries: a dictionary or the set of clients changed while it*)
(* was iterated.                                                           *)
SweepAbandoned ==
  /\ kpc \in {"scan", "sweep"}
  /\ Abandon({})
  /\ UNCHANGED <<link, excluded, lock, airVars, outcome, pending, handlerVars, kconn,
                 rxSel>>

(* An entry that is not, or cannot be, sent again: before it is reported   *)
(* its node is tested for in self.nodes and then indexed, a KeyError if the*)
(* reader thread has replaced the table in between.                        *)
MarkOfflineRaises ==
  /\ \/ /\ kpc = "sweep"
        /\ \E p \in kbatch :
             /\ IsOldest(p, kbatch) /\ p \in DOMAIN pending /\ sent[p].dst \in Nodes
             /\ ~ (Retryable(p) /\ link = "up")
             /\ pending' = Without(p) /\ Abandon({p})
        /\ UNCHANGED lock
     \/ /\ kpc = "retryWait" /\ lock = "free" /\ link # "up"
        /\ Abandon({kcur})
        /\ UNCHANGED <<lock, pending>>
     \/ /\ kpc = "retrySend" /\ lock' = "free"
        /\ Abandon({kcur})
        /\ UNCHANGED pending
  /\ UNCHANGED <<link, excluded, airVars, outcome, handlerVars, kconn, rxSel>>

(* Mutant of RetryAcquire: the retry is sent without taking the lock.      *)
RetryAcquireUnlocked ==
  /\ kpc = "retryWait" /\ link = "up"
  /\ kpc' = "retrySend"
  /\ UNCHANGED <<linkVars, lock, airVars, outcome, pending, handlerVars, kconn,
                 kbatch, kcur, rxSel>>

RetryAcquire ==
  /\ kpc = "retryWait" /\ lock = "free"
  /\ \/ /\ link = "up"
        /\ lock' = "keepAlive" /\ kpc' = "retrySend"
        /\ UNCHANGED <<outcome, kcur>>
     \/ /\ link # "up"
        /\ Report(kcur, "missed")
        /\ kpc' = "sweep" /\ kcur' = 0
        /\ UNCHANGED lock
  /\ UNCHANGED <<linkVars, airVars, pending, handlerVars, kconn, kbatch, rxSel>>

(* Mutant of RetryTransmit: the retry count is not increased.              *)
RetryTransmitSameCount ==
  /\ kpc = "retrySend"
  /\ PutOnAir([sent[kcur] EXCEPT !.channel = 1])
  /\ kpc' = "retrySent"
  /\ UNCHANGED <<linkVars, lock, pending, handlerVars, kconn, kbatch, kcur, rxSel>>

(* The retry's sendText gets its arguments one position early: what        *)
(* handle_command passes as channel index receives True, that is 1.        *)
RetryTransmit ==
  /\ kpc = "retrySend"
  /\ PutOnAir([req |-> sent[kcur].req, dst |-> sent[kcur].dst,
               attempt |-> sent[kcur].attempt + 1, channel |-> 1])
  /\ kpc' = "retrySent"
  /\ UNCHANGED <<linkVars, lock, pending, handlerVars, kconn, kbatch, kcur, rxSel>>

RetrySendRaises ==
  /\ kpc = "retrySend"
  /\ lock' = "free"
  /\ Report(kcur, "missed")
  /\ kpc' = "sweep" /\ kcur' = 0
  /\ UNCHANGED <<linkVars, airVars, pending, handlerVars, kconn, kbatch, rxSel>>

(* Mutant of RetryRegister: the new packet id is not registered.           *)
RetryRegisterForgets ==
  /\ kpc = "retrySent"
  /\ lock' = "free"
  /\ Report(kcur, "retried")
  /\ kpc' = "sweep" /\ kcur' = 0
  /\ UNCHANGED <<linkVars, airVars, pending, handlerVars, kconn, kbatch, rxSel>>

(* The retry is registered under its new packet id, with one retry more,   *)
(* and announced.                                                          *)
RetryRegister ==
  /\ kpc = "retrySent"
  /\ lock' = "free"
  /\ pending' = With(Len(sent))
  /\ Report(kcur, "retried")
  /\ kpc' = "sweep" /\ kcur' = 0
  /\ UNCHANGED <<linkVars, airVars, handlerVars, kconn, kbatch, rxSel>>

(* _node_name_by_id raises: in the registration, whose entry is then not   *)
(* stored, or after it; either way the retry is not announced.             *)
RetryNameRaises ==
  /\ kpc = "retrySent" /\ lock' = "free"
  /\ \/ Abandon({kcur, Len(sent)}) /\ UNCHANGED pending
     \/ Abandon({kcur}) /\ pending' = With(Len(sent))
  /\ UNCHANGED <<link, excluded, airVars, outcome, handlerVars, kconn, rxSel>>

(* sendText returned a packet without an integer id: the retry counts as   *)
(* none, although it is on the air.                                        *)
RetryWithoutId ==
  /\ kpc = "retrySent" /\ lock' = "free"
  /\ Fails({Len(sent)})
  /\ Report(kcur, "missed")
  /\ kpc' = "sweep" /\ kcur' = 0
  /\ UNCHANGED <<link, excluded, airVars, pending, handlerVars, kconn, kbatch, rxSel>>

KeepAlive ==
  \/ KeepAliveCheck \/ KeepAliveBeat \/ KeepAliveDies
  \/ SweepScan \/ (\E p \in kbatch : SweepPop(p)) \/ SweepDone \/ SweepAbandoned
  \/ RetryAcquire \/ RetryTransmit \/ RetrySendRaises \/ RetryRegister
  \/ MarkOfflineRaises \/ RetryNameRaises \/ RetryWithoutId

-----------------------------------------------------------------------------
(* _on_receive_packet, in the reader thread.  It is ignored when it comes  *)
(* from another interface than the current one or from an excluded node.   *)
(* A packet that matches nothing, and one whose iteration over             *)
(* pending_commands fails because the event loop changed it, change        *)
(* nothing here and are not steps.                                         *)

Heard(n) == rxSel = 0 /\ link # "down" /\ n \notin excluded

(* Who may answer packet p: its node, once it has received it, or the      *)
(* gateway node: with an implicit ACK when it hears another node pass p on *)
(* (ReliableRouter.cpp), with a NAK when it gives up.                      *)
Answerer(p, n) == \/ n = sent[p].dst /\ fate[p] \in {"received", "acked"}
                  \/ n = Gateway

Heed(p, ok) ==
  fate' = IF ok THEN [fate EXCEPT ![p] = IF @ \in {"air", "relayed"} THEN "relayed" ELSE "acked"]
          ELSE fate

(* Mutant of OnRouting: the entry is read and not popped.                  *)
OnRoutingKeepsEntry(p, n, ok, given) ==
  /\ Heard(n) /\ Answerer(p, n)
  /\ given /\ p \in DOMAIN pending
  /\ Heed(p, ok)
  /\ Report(p, IF ok THEN "delivered" ELSE "failed")
  /\ UNCHANGED <<linkVars, lock, sent, pending, handlerVars, keepVars, rxSel>>

(* A routing packet for p.  It settles p if p is registered and the packet *)
(* gives the id where the handler looks for it (mesh.pb.h has request_id   *)
(* in Data, so a library need not); otherwise, ACK or NAK, the sender's    *)
(* oldest fresh entry is selected in its place.                            *)
OnRouting(p, n, ok, given) ==
  /\ Heard(n) /\ Answerer(p, n)
  /\ Heed(p, ok)
  /\ \/ /\ given /\ p \in DOMAIN pending
        /\ pending' = Without(p)
        /\ Report(p, IF ok THEN "delivered" ELSE "failed")
        /\ UNCHANGED rxSel
     \/ /\ ~ (given /\ p \in DOMAIN pending)
        /\ IF FreshFor(n) = {} THEN rxSel' = 0
           ELSE \E q \in Ids : Matches(q, n) /\ rxSel' = q
        /\ UNCHANGED <<pending, outcome>>
  /\ UNCHANGED <<linkVars, lock, sent, handlerVars, keepVars>>

(* Any other packet of a node (telemetry, position, text).                 *)
OnOtherPacket(n) ==
  /\ Heard(n)
  /\ \E q \in Ids : Matches(q, n) /\ rxSel' = q
  /\ UNCHANGED <<linkVars, lock, airVars, outcome, pending, handlerVars, keepVars>>

(* Mutant of ConsumePendingByDestination: the selected entry is reported   *)
(* without looking whether it was still there.                             *)
ConsumePendingUnchecked ==
  /\ rxSel # 0
  /\ pending' = Without(rxSel)
  /\ Report(rxSel, "delivered")
  /\ rxSel' = 0
  /\ UNCHANGED <<linkVars, lock, airVars, handlerVars, keepVars>>

(* The selected entry is popped, if it is still there, and reported        *)
(* delivered.                                                              *)
ConsumePendingByDestination ==
  /\ rxSel # 0
  /\ pending' = Without(rxSel)
  /\ IF rxSel \in DOMAIN pending
       THEN Report(rxSel, "delivered")
       ELSE UNCHANGED outcome
  /\ rxSel' = 0
  /\ UNCHANGED <<linkVars, lock, airVars, handlerVars, keepVars>>

OnReceivePacket ==
  \/ \E p \in Ids, n \in Nodes \cup {Gateway}, ok, given \in BOOLEAN :
       OnRouting(p, n, ok, given)
  \/ \E n \in Nodes : OnOtherPacket(n)
  \/ ConsumePendingByDestination

-----------------------------------------------------------------------------
(* The surroundings: the serial link, the connector (CONNECT_PORT requests *)
(* and auto_connect_loop), the settings, the radio and the clock.          *)

LinkBreaks ==
  /\ link = "up" /\ link' = "broken"
  /\ Fails({})
  /\ UNCHANGED <<excluded, lock, airVars, outcome, pending, handlerVars,
                 keepVars, rxSel>>

(* connect_port: the lock is held while the old interface is closed and    *)
(* the new one is opened, which may fail.                                  *)
ConnectStart ==
  /\ lock = "free"
  /\ lock' = "connector" /\ link' = "down"
  /\ UNCHANGED <<excluded, faults, lost, airVars, outcome, pending, handlerVars,
                 keepVars, rxSel>>

ConnectFinish ==
  /\ lock = "connector"
  /\ lock' = "free"
  /\ link' \in {"up", "down"}
  /\ UNCHANGED <<excluded, faults, lost, airVars, outcome, pending, handlerVars,
                 keepVars, rxSel>>

ApplySettings ==
  /\ excluded' \in SUBSET Excludable
  /\ UNCHANGED <<link, faults, lost, lock, airVars, outcome, pending, handlerVars,
                 keepVars, rxSel>>

NodeReceives(p) ==
  /\ fate[p] \in {"air", "relayed"}
  /\ fate' = [fate EXCEPT ![p] = IF @ = "air" THEN "received" ELSE "acked"]
  /\ UNCHANGED <<linkVars, lock, sent, outcome, pending, handlerVars, keepVars,
                 rxSel>>

(* One clock tick; an age beyond the timeout is not told from another one. *)
Tick ==
  /\ \E p \in DOMAIN pending : pending[p] <= AckTimeout
  /\ pending' = [p \in DOMAIN pending |->
                   IF pending[p] <= AckTimeout THEN pending[p] + 1 ELSE pending[p]]
  /\ UNCHANGED <<linkVars, lock, airVars, outcome, handlerVars, keepVars, rxSel>>

Environment ==
  \/ LinkBreaks \/ ConnectStart \/ ConnectFinish \/ ApplySettings \/ Tick
  \/ \E p \in Ids : NodeReceives(p)

-----------------------------------------------------------------------------
Next == \/ \E r \in Requests : HandleCommand(r)
        \/ KeepAlive
        \/ OnReceivePacket
        \/ Environment

Spec == Init /\ [][Next]_vars

(* A coroutine that can run is run, asyncio.Lock serves its waiters first  *)
(* come first served, worker and reader threads make progress and time     *)
(* passes.  Nothing is assumed of the operators, the radio, the link or    *)
(* the settings.                                                           *)
Fairness ==
  /\ \A r \in Requests :
       /\ SF_vars(RefuseUnconnected(r) \/ \E known \in SUBSET Nodes : AcquireLock(r, known))
       /\ WF_vars(Transmit(r) \/ SendRaises(r))
       /\ WF_vars(\/ \E d \in Nodes \cup {Broadcast, Local} : SendTo(r, d)
                  \/ RegisterPendingCommand(r)
                  \/ Finish(r))
  /\ SF_vars(KeepAliveCheck)
  /\ SF_vars(RetryAcquire)
  /\ WF_vars(KeepAliveBeat \/ SweepScan \/ (\E p \in kbatch : SweepPop(p)) \/ SweepDone)
  /\ WF_vars(RetryTransmit \/ RetrySendRaises \/ RetryRegister)
  /\ WF_vars(ConsumePendingByDestination)
  /\ WF_vars(ConnectFinish)
  /\ WF_vars(Tick)

FairSpec == Spec /\ Fairness
-----------------------------------------------------------------------------
(* Properties.                                                             *)

(* Every variable stays in its type; in particular the retry counter of a  *)
(* packet never exceeds PENDING_TIMEOUT_RETRIES and only the current       *)
(* holders own the lock.                                                   *)
Packet == [req : Requests, dst : Destinations, attempt : 0..MaxRetries, channel : 0..1]

TypeOK ==
  /\ link \in {"down", "up", "broken"}
  /\ lock \in Requests \cup {"free", "keepAlive", "connector"}
  /\ excluded \subseteq Nodes
  /\ faults \in 0..MaxFaults /\ lost \subseteq Ids
  /\ sent \in Seq(Packet)
  /\ fate \in Seq({"air", "relayed", "received", "acked"}) /\ Len(fate) = Len(sent)
  /\ outcome \in Seq(Seq(Statuses)) /\ Len(outcome) = Len(sent)
  /\ DOMAIN pending \subseteq Ids
  /\ pending \in [DOMAIN pending -> 0..AckTimeout + 1]
  /\ hpc \in [Requests -> {"idle", "waitLock", "ready", "send", "sent", "done"}]
  /\ target \in [Requests -> Destinations \cup {Channel}]
  /\ todo \in [Requests -> SUBSET Destinations]
  /\ cur \in [Requests -> Destinations \cup {NoDst}]
  /\ tries \in [Requests -> 0..1 + FanoutRetries]
  /\ reply \in [Requests -> {"none", "excluded", "notConnected", "sendFailed", "ack",
                             "closed"}]
  /\ kpc \in {"sleep", "beat", "dead", "scan", "sweep", "retryWait", "retrySend", "retrySent"}
  /\ kconn \in BOOLEAN
  /\ kbatch \subseteq Ids
  /\ kcur \in Ids \cup {0}
  /\ rxSel \in Ids \cup {0}

(* At most one coroutine is inside iface.sendText, and it holds self.lock. *)
Sending(r)  == hpc[r] \in {"ready", "send", "sent"}
Retrying    == kpc \in {"retrySend", "retrySent"}
ExclusiveSend ==
  /\ \A r \in Requests : Sending(r) => lock = r
  /\ Retrying => lock = "keepAlive"

(* The interface a coroutine took under the lock is not closed or replaced *)
(* before it is done with it.                                              *)
InterfaceStable ==
  [][(link # "down" /\ link' = "down")
       => ~ (Retrying \/ \E r \in Requests : Sending(r))]_vars

(* The operators are told at most once how a command ended for one         *)
(* destination, however often it was sent there.                           *)
Verdict(p) == VerdictsOn(p) # {}
OneOutcomePerTarget ==
  \A p, q \in Ids : \A i \in VerdictsOn(p), j \in VerdictsOn(q) :
    Chain(p) = Chain(q) => p = q /\ i = j

(* A command is transmitted at most 1 + PENDING_TIMEOUT_RETRIES times to   *)
(* one destination, each time with the next retry count.                   *)
BoundedTransmissions ==
  \A p, q \in Ids :
    Chain(p) = Chain(q) /\ p # q => sent[p].attempt # sent[q].attempt

(* Once delivered, failed or missed is reported for a destination, the     *)
(* command is not transmitted to it again.                                 *)
NoSendAfterOutcome ==
  [][\A p \in Ids : Verdict(p) =>
       \A q \in Ids' \ Ids : Chain(q)' # Chain(p)]_vars

(* A client that got an error reply got it for a command that was never    *)
(* put on the air: it may issue it again without repeating it.             *)
ErrorReplyMeansSilent ==
  \A r \in Requests : reply[r] \in {"excluded", "notConnected", "sendFailed"} =>
    \A p \in Ids : sent[p].req # r

(* No transmitted message is forgotten: until its outcome is reported, and *)
(* no longer, it is in pending_commands or in the hands of the coroutine   *)
(* that registers or retries it, unless a failure struck while it was in   *)
(* such hands; and a failure costs the message of one request to one       *)
(* destination, never the rest of a sweep or of a fan-out that was sent.   *)
(* (Channel messages are fire and forget.)                                 *)
InHand(p) ==
  \/ p \in DOMAIN pending
  \/ p = kcur /\ kpc \in {"retryWait", "retrySend", "retrySent"}
  \/ p = Len(sent) /\ kpc = "retrySent"
  \/ p = Len(sent) /\ hpc[sent[p].req] = "sent"
NothingForgotten ==
  /\ \A p \in Ids : target[sent[p].req] # Channel =>
       (outcome[p] = <<>> <=> InHand(p) \/ p \in lost)
  /\ \A p \in lost : ~InHand(p)
  /\ Cardinality({Chain(p) : p \in lost}) <= faults

(* Every accepted command comes to an end, whatever happens to the link, to*)
(* the keep-alive loop and to the other commands: its client is answered or*)
(* finds its connection closed, and nobody waits for the lock for ever.    *)
CommandsEnd == \A r \in Requests : (hpc[r] = "waitLock") ~> (reply[r] # "none")

(* Every transmitted message is reported delivered, failed or missed in    *)
(* the end, provided the keep-alive loop lives and the link is up again    *)
(* for good, unless a failure lost sight of its last transmission.         *)
SentTo(r, d)   == ChainOf(r, d) # {} /\ target[r] # Channel
Settled(r, d)  == \E p \in ChainOf(r, d) : Verdict(p)
LostSight(r, d) == \E p \in ChainOf(r, d) \cap lost : \A q \in ChainOf(r, d) : q <= p
TargetsSettle ==
  (<>[](link = "up") /\ [](kpc # "dead")) =>
    \A r \in Requests, d \in Destinations :
      SentTo(r, d) ~> (Settled(r, d) \/ LostSight(r, d))

(* For every request and destination the gateway keeps the promise of      *)
(* module CommandTicket: \A r, d : Ticket(r, d)!Spec, with its conjuncts    *)
(* collected in the form that TLC evaluates.                               *)
Ticket(r, d) == INSTANCE CommandTicket WITH
  MaxSends <- 1 + MaxRetries,
  sends    <- Cardinality(ChainOf(r, d)),
  verdicts <- Cardinality({x \in ChainOf(r, d) \X (1..2) : x[2] \in VerdictsOn(x[1])})
ImplementsTicket ==
  /\ \A r \in Requests, d \in Destinations : Ticket(r, d)!Init
  /\ [][\A r \in Requests, d \in Destinations :
          Ticket(r, d)!Next \/ UNCHANGED Ticket(r, d)!ticketVars]_vars

(* MapDashboard.js shows "delivered" as "received by the node".            *)
DeliveredMeansReceived ==
  \A p \in Ids : \A i \in DOMAIN outcome[p] :
    outcome[p][i] = "delivered" /\ sent[p].dst \in Nodes
      => fate[p] \in {"received", "acked"}

(* The fallback match exists "to avoid false ACK_TIMEOUT misses": a        *)
(* message whose acknowledgement the reader thread has seen is not         *)
(* reported missed afterwards.                                             *)
NoFalseMiss ==
  [][\A p \in Ids : Len(outcome[p]') > Len(outcome[p]) /\ outcome[p]'[Len(outcome[p]')] = "missed"
       => fate[p] \notin {"relayed", "acked"}]_vars

(* A retry goes out on the channel of the command it repeats.              *)
RetryKeepsChannel ==
  \A p, q \in Ids : Chain(p) = Chain(q) => sent[p].channel = sent[q].channel
=============================================================================
