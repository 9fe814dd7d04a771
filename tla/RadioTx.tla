-------------------------------- MODULE RadioTx --------------------------------
(***************************************************************************)
(* How a node's packets get on the air: MeshPacketQueue, the radio thread   *)
(* of RadioLibInterface with its single notification, and SX126xInterface.  *)
(* The methods run in the main loop and map the state of the interface to   *)
(* the next one; the operators below are composed as the methods call each  *)
(* other.  The chip and its interrupts are the environment.  An interrupt   *)
(* that arrives within a handler is taken to arrive after it.               *)
(***************************************************************************)
EXTENDS Integers, Sequences, FiniteSets, SequencesExt

CONSTANTS
  Packets, None,
  Priority,              \* MeshPacket.priority after fixPriority
  FromUs,                \* the packets this node has originated
  MAX_TX_QUEUE,
  MaxFailures,           \* bound: calls of startTransmit that fail
  Missable, MaxMissed,   \* interrupts whose edges may be lost; bound: losses
  MaxBusy,               \* bound: receptions begun, channel activity detected
  MaxUpkeep              \* bound: reconfigurations and AGC resets

ASSUME RadioAssumption ==
  /\ None \notin Packets /\ FromUs \subseteq Packets
  /\ Priority \in [Packets -> Nat]
  /\ MAX_TX_QUEUE \in Nat \ {0}
  /\ Missable \subseteq {"rx", "tx"}
  /\ {MaxFailures, MaxMissed, MaxBusy, MaxUpkeep} \subseteq Nat

VARIABLES
  radio,       \* queue, late, wait, sending, receiving, notif, irq, chip, fate, on
  mode,        \* "up", "asleep", "panic": failed assertion, "reboot": rebootAtMsec
  failures, missed, busies, upkeep

vars == <<radio, mode, failures, missed, busies, upkeep>>
bounds == <<failures, missed, busies, upkeep>>

-----------------------------------------------------------------------------
(* MeshPacketQueue.  late: packets with tx_after; wait: those whose tx_after*)
(* is in the future.                                                        *)

Before(r, p, q) ==
  IF (p \in r.late) # (q \in r.late) THEN p \notin r.late
  ELSE IF Priority[p] # Priority[q] THEN Priority[p] > Priority[q]
  ELSE p \notin FromUs /\ q \in FromUs

Without(r, p) == [r EXCEPT !.queue = RemoveAt(@, CHOOSE i \in DOMAIN @ : @[i] = p)]

Insert(r, p) ==
  LET at == 1 + Cardinality({i \in DOMAIN r.queue : ~Before(r, p, r.queue[i])})
  IN [r EXCEPT !.queue = InsertAt(@, at, p), !.fate[p] = "queued"]

(* What replaceLowerPriorityPacket evicts for p, which is not late.         *)
Victims(r, p) ==
  LET last   == r.queue[Len(r.queue)]
      normal == {i \in DOMAIN r.queue : r.queue[i] \notin r.late}
      lowest == {r.queue[i] : i \in {k \in normal : \A j \in normal : j <= k}}
  IN IF \E q \in lowest : Priority[q] < Priority[p] THEN lowest
     ELSE IF last \in r.late \ r.wait THEN {last} ELSE {}

(* Mutant of Enqueue: a full queue takes one packet more.                   *)
EnqueueOverfull(r, p) ==
  IF Len(r.queue) <= MAX_TX_QUEUE THEN Insert(r, p)
  ELSE [r EXCEPT !.fate[p] = "refused"]

(* enqueue; a packet that finds no room is released by its caller.          *)
Enqueue(r, p) ==
  IF Len(r.queue) < MAX_TX_QUEUE THEN Insert(r, p)
  ELSE IF Victims(r, p) = {} THEN [r EXCEPT !.fate[p] = "refused"]
  ELSE LET v == CHOOSE v \in Victims(r, p) : TRUE
       IN Insert([Without(r, v) EXCEPT !.fate[v] = "evicted", !.late = @ \ {v},
                                       !.wait = @ \ {v}], p)

-----------------------------------------------------------------------------
(* The radio thread.                                                        *)

(* notifyLater(TRANSMIT_DELAY_COMPLETED) does not overwrite a notification. *)
NotifyLater(r) == [r EXCEPT !.notif = IF @ = "none" THEN "delay" ELSE @]

(* Mutant of SetTransmitDelay: only an idle radio is given a timer.         *)
SetTransmitDelayIdle(r) ==
  IF r.queue = <<>> \/ r.sending # None \/ r.receiving THEN r ELSE NotifyLater(r)

SetTransmitDelay(r) ==
  IF r.queue = <<>> THEN r
  ELSE NotifyLater([r EXCEPT !.wait = IF Head(r.queue) \in r.late
                                      THEN @ \cup {Head(r.queue)} ELSE @])

(* The packet is counted as sent and released; fate tells what became of it.*)
CompleteSending(r) ==
  IF r.sending = None THEN r
  ELSE [r EXCEPT !.sending = None,
                 !.fate[r.sending] = CASE r.chip = "txdone" -> "sent"
                                       [] r.chip = "tx" -> "cut"
                                       [] OTHER -> "failed"]

(* setStandby when no notification is pending.                              *)
Standby(r) ==
  [CompleteSending(r) EXCEPT !.receiving = FALSE, !.irq = "none", !.chip = "standby"]

Listen(r) == [Standby(r) EXCEPT !.receiving = TRUE, !.irq = "rx", !.chip = "rx"]

(* Mutant of StartSend: after a failure the receiver stays off.             *)
StartSendDeaf(r, ok) ==
  LET p  == Head(r.queue)
      r1 == [r EXCEPT !.queue = Tail(@), !.late = @ \ {p}, !.wait = @ \ {p}]
  IN IF ok THEN [r1 EXCEPT !.sending = p, !.fate[p] = "sending", !.chip = "tx", !.irq = "tx"]
     ELSE [r1 EXCEPT !.fate[p] = "failed"]

(* startSend after dequeue; ok: startTransmit succeeds.                     *)
StartSend(r, ok) ==
  LET p  == Head(r.queue)
      r1 == [r EXCEPT !.queue = Tail(@), !.late = @ \ {p}, !.wait = @ \ {p}]
  IN IF ~r.on THEN [r1 EXCEPT !.fate[p] = "disabled"]
     ELSE LET r2 == [r1 EXCEPT !.sending = p, !.fate[p] = "sending"]
          IN IF ok THEN [r2 EXCEPT !.chip = "tx", !.irq = "tx"]
             ELSE Listen(CompleteSending(r2))

CanSendImmediately(r) == r.sending = None /\ ~(r.receiving /\ r.chip \in {"busy", "rxdone"})

(* TRANSMIT_DELAY_COMPLETED; active: the channel scan detects a packet.     *)
DelayCompleted(r, active, ok) ==
  CASE r.queue = <<>> -> r
    [] r.queue # <<>> /\ ~CanSendImmediately(r) -> SetTransmitDelay(r)
    [] r.queue # <<>> /\ CanSendImmediately(r) ->
         IF Head(r.queue) \in r.wait THEN NotifyLater(r)
         ELSE IF active THEN SetTransmitDelay(Listen(r)) ELSE StartSend(Standby(r), ok)

(* Mutant of CheckNotification: the timer is not set after a reception.     *)
CheckNotificationOnce(r, active, ok) ==
  LET r1 == [r EXCEPT !.notif = "none"] IN
  CASE r.notif = "none"  -> r
    [] r.notif = "delay" -> DelayCompleted(r1, active, ok)
    [] r.notif = "tx"    -> SetTransmitDelay(Listen(CompleteSending(r1)))
    [] r.notif = "rx"    -> Listen([r1 EXCEPT !.receiving = FALSE])

(* checkNotification and onNotify.                                          *)
CheckNotification(r, active, ok) ==
  LET r1 == [r EXCEPT !.notif = "none"] IN
  CASE r.notif = "none"  -> r
    [] r.notif = "delay" -> DelayCompleted(r1, active, ok)
    [] r.notif = "tx"    -> SetTransmitDelay(Listen(CompleteSending(r1)))
    [] r.notif = "rx"    -> SetTransmitDelay(Listen([r1 EXCEPT !.receiving = FALSE]))

SetStandby(r, active, ok)   == Standby(CheckNotification(r, active, ok))
StartReceive(r, active, ok) == Listen(CheckNotification(r, active, ok))

(* The node restarts if it is so a minute after the transmission began.     *)
Broken(r) == r.notif = "delay" /\ r.queue # <<>> /\ r.sending # None /\ r.chip = "txdone"

-----------------------------------------------------------------------------
(* Actions: the router's calls.                                             *)

Send(p) ==
  /\ mode = "up" /\ radio.fate[p] = "new"
  /\ radio' = IF ~radio.on THEN [radio EXCEPT !.fate[p] = "disabled"]
              ELSE LET r == Enqueue(radio, p)
                   IN IF r.fate[p] = "queued" THEN SetTransmitDelay(r) ELSE r
  /\ UNCHANGED <<mode, bounds>>

(* Mutant of CancelSending: the packet is released but stays queued.        *)
CancelReleases(p) ==
  /\ mode = "up" /\ radio.fate[p] = "queued"
  /\ radio' = [radio EXCEPT !.fate[p] = "cancelled"]
  /\ UNCHANGED <<mode, bounds>>

(* cancelSending, and removePendingTXPacket for the packet it replaces.     *)
CancelSending(p) ==
  /\ mode = "up" /\ radio.fate[p] = "queued"
  /\ radio' = [Without(radio, p) EXCEPT !.fate[p] = "cancelled", !.late = @ \ {p},
                                        !.wait = @ \ {p}]
  /\ UNCHANGED <<mode, bounds>>

(* Mutant of ClampToLate: the packet stays where it is in the queue.        *)
ClampInPlace(p) ==
  /\ mode = "up" /\ radio.fate[p] = "queued" /\ p \notin radio.late \cup FromUs
  /\ radio' = [radio EXCEPT !.late = @ \cup {p}, !.wait = @ \cup {p}]
  /\ UNCHANGED <<mode, bounds>>

(* clampToLateRebroadcastWindow: only packets of others, heard once more.   *)
ClampToLate(p) ==
  /\ mode = "up" /\ radio.fate[p] = "queued" /\ p \notin radio.late \cup FromUs
  /\ radio' = Enqueue([Without(radio, p) EXCEPT !.late = @ \cup {p}, !.wait = @ \cup {p}], p)
  /\ UNCHANGED <<mode, bounds>>

(* What the chip answers when it is asked to scan and to transmit.          *)
Answers(active, ok) ==
  /\ active => busies < MaxBusy
  /\ ~ok => failures < MaxFailures
  /\ busies' = busies + (IF active THEN 1 ELSE 0)
  /\ failures' = failures + (IF ok THEN 0 ELSE 1)

(* The radio thread runs: a notification from the chip, or its timer.       *)
RunOnce ==
  /\ mode = "up" /\ radio.notif # "none"
  /\ \E active, ok \in BOOLEAN :
       Answers(active, ok) /\ radio' = CheckNotification(radio, active, ok)
  /\ mode' \in IF Broken(radio) THEN {mode, "reboot"} ELSE {mode}
  /\ UNCHANGED <<missed, upkeep>>

(* The main loop: a missed RX_DONE edge.                                    *)
PollMissedIrqs ==
  /\ mode = "up" /\ radio.receiving /\ radio.chip = "rxdone" /\ radio.notif # "rx"
  /\ radio' = [radio EXCEPT !.notif = "rx"]
  /\ UNCHANGED <<mode, bounds>>

(* The main loop, once a minute: resetAGC puts the chip to sleep first.     *)
ResetAGC ==
  /\ mode = "up" /\ upkeep < MaxUpkeep /\ upkeep' = upkeep + 1
  /\ CanSendImmediately(radio)
  /\ \E active, ok \in BOOLEAN :
       /\ Answers(active, ok)
       /\ radio' = StartReceive([radio EXCEPT !.chip = "standby"], active, ok)
  /\ UNCHANGED <<mode, missed>>

(* A new configuration; on: config.lora.tx_enabled.                         *)
Reconfigure(on) ==
  /\ mode = "up" /\ upkeep < MaxUpkeep /\ upkeep' = upkeep + 1
  /\ \E active, ok \in BOOLEAN :
       /\ Answers(active, ok)
       /\ radio' = StartReceive(SetStandby([radio EXCEPT !.on = on], active, ok), active, ok)
  /\ UNCHANGED <<mode, missed>>

(* doDeepSleep: the main loop stands still while it waits for canSleep, so  *)
(* a queue that is not empty ends in the assertion after 30 s; from an empty*)
(* one nothing can be started.                                              *)
DeepSleep ==
  /\ mode = "up" /\ upkeep < MaxUpkeep /\ upkeep' = upkeep + 1
  /\ IF radio.queue # <<>> THEN mode' = "panic" /\ UNCHANGED radio
     ELSE mode' = "asleep" /\ radio' = SetStandby(radio, FALSE, TRUE)
  /\ UNCHANGED <<failures, missed, busies>>

-----------------------------------------------------------------------------
(* The environment: chip, channel and time.                                 *)

Raise(c, cause) ==
  \E seen \in BOOLEAN :
    /\ ~seen => missed < MaxMissed /\ cause \in Missable
    /\ missed' = missed + (IF seen THEN 0 ELSE 1)
    /\ radio' = IF seen THEN [radio EXCEPT !.chip = c, !.notif = cause, !.irq = "none"]
                ELSE [radio EXCEPT !.chip = c]

TxDone ==
  /\ mode = "up" /\ radio.chip = "tx" /\ radio.irq = "tx" /\ Raise("txdone", "tx")
  /\ UNCHANGED <<mode, failures, busies, upkeep>>

RxBegin ==
  /\ mode = "up" /\ radio.chip = "rx" /\ busies < MaxBusy /\ busies' = busies + 1
  /\ radio' = [radio EXCEPT !.chip = "busy"]
  /\ UNCHANGED <<mode, failures, missed, upkeep>>

RxDone ==
  /\ mode = "up" /\ radio.chip = "busy" /\ radio.irq = "rx" /\ Raise("rxdone", "rx")
  /\ UNCHANGED <<mode, failures, busies, upkeep>>

TxAfterPasses(p) ==
  /\ mode = "up" /\ p \in radio.wait
  /\ radio' = [radio EXCEPT !.wait = @ \ {p}]
  /\ UNCHANGED <<mode, bounds>>

-----------------------------------------------------------------------------
(* The interface after init: the chip receives.                             *)
Init ==
  /\ radio = [queue |-> <<>>, late |-> {}, wait |-> {}, sending |-> None,
              receiving |-> TRUE, notif |-> "none", irq |-> "rx", chip |-> "rx",
              fate |-> [p \in Packets |-> "new"], on |-> TRUE]
  /\ mode = "up" /\ failures = 0 /\ missed = 0 /\ busies = 0 /\ upkeep = 0

Calls == \E p \in Packets : Send(p) \/ CancelSending(p) \/ ClampToLate(p)
Upkeep == ResetAGC \/ (\E on \in BOOLEAN : Reconfigure(on)) \/ DeepSleep
Chip == TxDone \/ RxBegin \/ RxDone \/ \E p \in Packets : TxAfterPasses(p)

Next == Calls \/ RunOnce \/ PollMissedIrqs \/ Upkeep \/ Chip

Spec == Init /\ [][Next]_vars

(* The scheduler runs the thread and the loop polls; a transmission and a   *)
(* reception end; tx_after passes, though the packet may be put off again.  *)
Fairness ==
  /\ WF_vars(RunOnce) /\ WF_vars(PollMissedIrqs) /\ WF_vars(TxDone) /\ WF_vars(RxDone)
  /\ \A p \in Packets : SF_vars(TxAfterPasses(p)) /\ SF_vars(RunOnce /\ p \notin radio.wait)
FairSpec == Spec /\ Fairness

-----------------------------------------------------------------------------
(* Properties.                                                              *)

Fates == {"new", "queued", "sending", "sent", "cut", "failed", "disabled", "refused",
          "evicted", "cancelled"}

Radios == [queue : Seq(Packets), late : SUBSET Packets, wait : SUBSET Packets,
           sending : Packets \cup {None}, receiving : BOOLEAN,
           notif : {"none", "delay", "rx", "tx"}, irq : {"none", "rx", "tx"},
           chip : {"standby", "rx", "busy", "rxdone", "tx", "txdone"},
           fate : [Packets -> Fates], on : BOOLEAN]

TypeOK ==
  /\ radio \in Radios /\ Len(radio.queue) <= MAX_TX_QUEUE /\ radio.wait \subseteq radio.late
  /\ mode \in {"up", "asleep", "panic", "reboot"}
  /\ failures \in Nat /\ missed \in Nat /\ busies \in Nat /\ upkeep \in Nat

(* A packet the router has handed over is in the queue once, on the air or  *)
(* released, and never two of these, whatever evicts, cancels or moves it.  *)
OnePlace == \A p \in Packets :
  /\ radio.fate[p] = "queued" <=>
       Cardinality({i \in DOMAIN radio.queue : radio.queue[i] = p}) = 1
  /\ radio.fate[p] # "queued" => \A i \in DOMAIN radio.queue : radio.queue[i] # p
  /\ radio.fate[p] = "sending" <=> radio.sending = p

(* The queue stays sorted by what CompareMeshPacketFunc prefers, also when  *)
(* packets change their window while they wait: an alarm overtakes relays.  *)
Sorted == \A i, j \in DOMAIN radio.queue :
  i < j => ~Before(radio, radio.queue[j], radio.queue[i])

(* No lost wakeup: while packets wait, the thread has a notification to     *)
(* come, or a transmission that is to end in one.  A transmission that      *)
(* cannot be started leaves none, upkeep drops the timer, and the edge of a *)
(* TX_DONE may be lost (see QueueDrains).                                   *)
Awake == radio.queue # <<>> /\ failures = 0 /\ upkeep = 0 =>
           radio.notif # "none" \/ radio.sending # None

(* A node that is not sending listens to the mesh, also after a failure.    *)
Listens == upkeep = 0 /\ radio.sending = None => radio.receiving

(* Every packet in the queue leaves it, or the node restarts, unless a      *)
(* transmission fails, upkeep intervenes or the edge of a TX_DONE is lost.  *)
Disturbed == failures > 0 \/ upkeep > 0 \/ (radio.chip = "txdone" /\ radio.irq = "tx")
Leaves(p) == radio.fate[p] = "queued" ~> (radio.fate[p] # "queued" \/ mode # "up" \/ Disturbed)
QueueDrains == \A p \in Packets : Leaves(p)

(* RadioLibInterface.h: if something waits to be sent, a timer is started,  *)
(* also when the transmission before it failed.                             *)
FailureHoldsNothingUp == \A p \in Packets :
  radio.fate[p] = "queued" ~> (radio.fate[p] # "queued" \/ mode # "up")

(* RadioLibInterface.h: polling is a backup for the edges that are missed.  *)
MissedEdgesCaught ==
  (radio.chip \in {"rxdone", "txdone"}) ~> (radio.chip \notin {"rxdone", "txdone"} \/ mode # "up")

(* RadioLibInterface.h: resetAGC is safe to call, it skips while sending.   *)
AgcSafe == [][ResetAGC => \A p \in Packets : radio'.fate[p] = "cut" => radio.fate[p] = "cut"]_vars

(* RadioLibInterface.h: the board may sleep when nothing is being sent.     *)
SleepSafe == [][DeepSleep => \A p \in Packets : radio'.fate[p] = "cut" => radio.fate[p] = "cut"]_vars
===============================================================================
