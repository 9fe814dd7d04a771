----------------------------- MODULE AlertControl -----------------------------
(***************************************************************************)
(* The delivery board of the operators' alert page (AlertControl.js), one  *)
(* open page, and what engine/gateway.py writes to its WebSocket about     *)
(* alarm commands: the page's own and, foreign, those of other pages.      *)
(*                                                                         *)
(* The gateway is reduced to the order in which it writes messages.        *)
(* handle_command acknowledges the destinations one by one when it has     *)
(* sent to all of them; the verdict on a destination may come from the     *)
(* reader thread or the keep-alive loop as soon as the packet is on the    *)
(* air, which is before.                                                   *)
(*                                                                         *)
(* Nodes are those that the page does not ignore: neither the gateway's    *)
(* own node nor excluded.                                                  *)
(***************************************************************************)
EXTENDS Naturals, Sequences

CONSTANTS Nodes,       \* alarm nodes
          Own,         \* requests that this page issues
          Foreign,     \* requests that other pages issue
          MaxInbox,    \* bound: messages under way to the page
          MaxChatter   \* bound: packets of nodes that answer no command

Requests == Own \cup Foreign
NoReq    == "none"

ASSUME PageAssumption == /\ Own \cap Foreign = {} /\ NoReq \notin Requests
                         /\ MaxInbox \in Nat /\ MaxChatter \in Nat

VARIABLES
  phase,     \* handle_command: "idle", "queued", "sending", "acking", "done", "refused"
  todo,      \* ... destinations still to send to
  onAir,     \* ... destinations sent to (ok_results)
  acked,     \* ... destinations acknowledged to the pages
  retried,   \* destinations the keep-alive loop has sent to again
  verdict,   \* the outcome reported for a destination, or "none"
  late,      \* pairs whose verdict came after the summary
  chatter,   \* mesh:receive messages so far
  inbox,     \* the WebSocket: messages under way to the page
  current,   \* currentRequestIdRef
  packet,    \* currentPacketIdRef: the packet, by request and destination
  board,     \* deliveryByNode: what is shown for a node
  timer,     \* sendTimeoutRef: "off", "armed", "fired"
  heard      \* own requests of which the page has handled a message

gatewayVars == <<phase, todo, onAir, acked, retried, verdict, late, chatter>>
pageVars    == <<current, packet, board, timer, heard>>
vars        == <<gatewayVars, inbox, pageVars>>

Verdicts == {"delivered", "failed", "missed"}

Ack(r, n)         == [type |-> "ack", req |-> r, node |-> n]
Delivery(r, n, s) == [type |-> "delivery", req |-> r, node |-> n, status |-> s]
Summary(r)        == [type |-> "summary", req |-> r, nodes |-> onAir[r]]
Failure(r)        == [type |-> "error", req |-> r]
Receive(n)        == [type |-> "receive", node |-> n]

Messages ==
  [type : {"ack"}, req : Requests, node : Nodes]
    \cup [type : {"delivery"}, req : Requests, node : Nodes, status : Verdicts \cup {"pending"}]
    \cup [type : {"summary"}, req : Own, nodes : SUBSET Nodes]
    \cup [type : {"error"}, req : Own]
    \cup [type : {"receive"}, node : Nodes]

Init ==
  /\ phase = [r \in Requests |-> "idle"]
  /\ todo = [r \in Requests |-> {}]
  /\ onAir = [r \in Requests |-> {}]
  /\ acked = [r \in Requests |-> {}]
  /\ retried = {} /\ late = {} /\ chatter = 0
  /\ verdict = [r \in Requests |-> [n \in Nodes |-> "none"]]
  /\ inbox = <<>>
  /\ current = NoReq /\ packet = <<>>
  /\ board = [n \in Nodes |-> "none"]
  /\ timer = "off" /\ heard = {}

-----------------------------------------------------------------------------
(* The gateway.                                                            *)

Write(m) == Len(inbox) < MaxInbox /\ inbox' = Append(inbox, m)

(* The handler of one page takes one message at a time.                    *)
Busy == \E r \in Own : phase[r] \in {"sending", "acking"}

Accept(r, targets) ==
  /\ \/ r \in Foreign /\ phase[r] = "idle"
     \/ r \in Own /\ phase[r] = "queued" /\ ~ Busy
  /\ phase' = [phase EXCEPT ![r] = "sending"]
  /\ todo' = [todo EXCEPT ![r] = targets]
  /\ UNCHANGED <<onAir, acked, retried, verdict, late, chatter, inbox, pageVars>>

SendText(r, n, ok) ==
  /\ phase[r] = "sending" /\ n \in todo[r]
  /\ todo' = [todo EXCEPT ![r] = @ \ {n}]
  /\ onAir' = IF ok THEN [onAir EXCEPT ![r] = @ \cup {n}] ELSE onAir
  /\ UNCHANGED <<phase, acked, retried, verdict, late, chatter, inbox, pageVars>>

(* Mutant of SendsDone: every page gets the error.                         *)
SendsDoneTellsAll(r) ==
  /\ phase[r] = "sending" /\ todo[r] = {}
  /\ phase' = [phase EXCEPT ![r] = IF onAir[r] = {} THEN "refused" ELSE "acking"]
  /\ IF onAir[r] = {} THEN Write(Failure(r)) ELSE UNCHANGED inbox
  /\ UNCHANGED <<todo, onAir, acked, retried, verdict, late, chatter, pageVars>>

(* The lock is released: nothing was sent, and only the page that asked is *)
(* told; or the acknowledgements begin.                                    *)
SendsDone(r) ==
  /\ phase[r] = "sending" /\ todo[r] = {}
  /\ \/ /\ onAir[r] = {}
        /\ phase' = [phase EXCEPT ![r] = "refused"]
        /\ IF r \in Own THEN Write(Failure(r)) ELSE UNCHANGED inbox
     \/ /\ onAir[r] # {}
        /\ phase' = [phase EXCEPT ![r] = "acking"]
        /\ UNCHANGED inbox
  /\ UNCHANGED <<todo, onAir, acked, retried, verdict, late, chatter, pageVars>>

(* "ack" to the page that asked and "command:ack" to all of them.          *)
Acknowledge(r, n) ==
  /\ phase[r] = "acking" /\ n \in onAir[r] \ acked[r]
  /\ acked' = [acked EXCEPT ![r] = @ \cup {n}]
  /\ Write(Ack(r, n))
  /\ UNCHANGED <<phase, todo, onAir, retried, verdict, late, chatter, pageVars>>

Summarise(r) ==
  /\ phase[r] = "acking" /\ acked[r] = onAir[r]
  /\ phase' = [phase EXCEPT ![r] = "done"]
  /\ IF r \in Own THEN Write(Summary(r)) ELSE UNCHANGED inbox
  /\ UNCHANGED <<todo, onAir, acked, retried, verdict, late, chatter, pageVars>>

(* The outcome of a destination, told once to every page.                  *)
Resolve(r, n, s) ==
  /\ n \in onAir[r] /\ verdict[r][n] = "none"
  /\ verdict' = [verdict EXCEPT ![r][n] = s]
  /\ late' = IF phase[r] = "done" THEN late \cup {<<r, n>>} ELSE late
  /\ Write(Delivery(r, n, s))
  /\ UNCHANGED <<phase, todo, onAir, acked, retried, chatter, pageVars>>

(* A retry is announced as a delivery report with status "pending".        *)
Retry(r, n) ==
  /\ n \in onAir[r] /\ verdict[r][n] = "none" /\ <<r, n>> \notin retried
  /\ retried' = retried \cup {<<r, n>>}
  /\ Write(Delivery(r, n, "pending"))
  /\ UNCHANGED <<phase, todo, onAir, acked, verdict, late, chatter, pageVars>>

(* Any packet of a node is passed on as mesh:receive.                      *)
Chatter(n) ==
  /\ chatter < MaxChatter
  /\ chatter' = chatter + 1
  /\ Write(Receive(n))
  /\ UNCHANGED <<phase, todo, onAir, acked, retried, verdict, late, pageVars>>

Gateway ==
  \/ \E r \in Requests, targets \in SUBSET Nodes \ {{}} : Accept(r, targets)
  \/ \E r \in Requests, n \in Nodes, ok \in BOOLEAN : SendText(r, n, ok)
  \/ \E r \in Requests : SendsDone(r) \/ Summarise(r)
  \/ \E r \in Requests, n \in Nodes : Acknowledge(r, n) \/ Retry(r, n)
  \/ \E r \in Requests, n \in Nodes, s \in Verdicts : Resolve(r, n, s)
  \/ \E n \in Nodes : Chatter(n)

-----------------------------------------------------------------------------
(* The page.                                                               *)

(* The operator presses the button, perhaps while an earlier command is    *)
(* still being worked on: the board is emptied.                            *)
HandleSend(r) ==
  /\ r \in Own /\ phase[r] = "idle"
  /\ phase' = [phase EXCEPT ![r] = "queued"]
  /\ current' = r /\ packet' = <<>>
  /\ board' = [n \in Nodes |-> "none"]
  /\ timer' = "armed"
  /\ UNCHANGED <<todo, onAir, acked, retried, verdict, late, chatter, inbox, heard>>

SendTimeout ==
  /\ timer = "armed" /\ timer' = "fired"
  /\ UNCHANGED <<gatewayVars, inbox, current, packet, board, heard>>

Handle(type)  == /\ inbox # <<>> /\ Head(inbox).type = type
                 /\ inbox' = Tail(inbox)
                 /\ UNCHANGED gatewayVars
Ignore        == UNCHANGED pageVars
Show(n, what) == board' = [board EXCEPT ![n] = what]
ClearTimer    == timer' = IF timer = "armed" THEN "off" ELSE timer
Hear(m)       == heard' = IF m.req = current THEN heard \cup {current} ELSE heard

(* Mutant of OnAck: the send timer keeps running.                          *)
OnAckKeepsTimer ==
  /\ Handle("ack")
  /\ LET m == Head(inbox) IN
     \/ m.req # current /\ Ignore
     \/ /\ m.req = current
        /\ packet' = <<m.req, m.node>>
        /\ Show(m.node, "pending") /\ Hear(m)
        /\ UNCHANGED <<current, timer>>

(* ack and command:ack: the node is shown as pending, whatever was shown.  *)
OnAck ==
  /\ Handle("ack")
  /\ LET m == Head(inbox) IN
     \/ m.req # current /\ Ignore
     \/ /\ m.req = current
        /\ packet' = <<m.req, m.node>>
        /\ Show(m.node, "pending") /\ ClearTimer /\ Hear(m)
        /\ UNCHANGED current

(* Mutants of OnDelivery: reports are matched by packet only; not at all.  *)
OnDeliveryByPacket ==
  /\ Handle("delivery")
  /\ LET m == Head(inbox) IN
     \/ packet # <<m.req, m.node>> /\ Ignore
     \/ /\ packet = <<m.req, m.node>>
        /\ Show(m.node, m.status) /\ ClearTimer /\ Hear(m)
        /\ UNCHANGED <<current, packet>>
OnDeliveryOfAny ==
  /\ Handle("delivery")
  /\ LET m == Head(inbox) IN Show(m.node, m.status) /\ ClearTimer /\ Hear(m)
  /\ UNCHANGED <<current, packet>>

(* command:delivery, if it is about the current request or packet.         *)
OnDelivery ==
  /\ Handle("delivery")
  /\ LET m == Head(inbox) IN
     \/ m.req # current /\ packet # <<m.req, m.node>> /\ Ignore
     \/ /\ m.req = current \/ packet = <<m.req, m.node>>
        /\ Show(m.node, m.status) /\ ClearTimer /\ Hear(m)
        /\ UNCHANGED <<current, packet>>

(* command:summary: every destination is shown as pending again.           *)
OnSummary ==
  /\ Handle("summary")
  /\ LET m == Head(inbox) IN
     \/ m.req # current /\ Ignore
     \/ /\ m.req = current
        /\ board' = [n \in Nodes |-> IF n \in m.nodes THEN "pending" ELSE board[n]]
        /\ UNCHANGED <<current, packet, timer, heard>>

(* mesh:receive: whatever the node sent, it is shown as delivered.         *)
OnReceive ==
  /\ Handle("receive")
  /\ Show(Head(inbox).node, "delivered") /\ ClearTimer
  /\ UNCHANGED <<current, packet, heard>>

(* An error stops the timer, of whatever request it is.                    *)
OnError ==
  /\ Handle("error")
  /\ ClearTimer /\ Hear(Head(inbox))
  /\ UNCHANGED <<current, packet, board>>

Page == \/ \E r \in Own : HandleSend(r)
        \/ SendTimeout
        \/ OnAck \/ OnDelivery \/ OnSummary \/ OnReceive \/ OnError

Next == Gateway \/ Page

Spec == Init /\ [][Next]_vars

-----------------------------------------------------------------------------
(* Every variable stays in its type.                                       *)
TypeOK ==
  /\ phase \in [Requests -> {"idle", "queued", "sending", "acking", "done", "refused"}]
  /\ todo \in [Requests -> SUBSET Nodes]
  /\ onAir \in [Requests -> SUBSET Nodes]
  /\ acked \in [Requests -> SUBSET Nodes]
  /\ retried \subseteq Requests \X Nodes /\ late \subseteq Requests \X Nodes
  /\ verdict \in [Requests -> [Nodes -> Verdicts \cup {"none"}]]
  /\ chatter \in 0..MaxChatter
  /\ inbox \in Seq(Messages) /\ Len(inbox) <= MaxInbox
  /\ current \in Own \cup {NoReq}
  /\ packet \in (Requests \X Nodes) \cup {<<>>}
  /\ board \in [Nodes -> Verdicts \cup {"none", "pending"}]
  /\ timer \in {"off", "armed", "fired"}
  /\ heard \subseteq Own

(* What the page shows as pending, failed or missed is about the command   *)
(* the operator sent last: it was sent to that node, and a bad outcome is  *)
(* the one the gateway reported.  Nothing of an earlier command or of      *)
(* another page's shines through.                                          *)
BoardIsOfCurrent ==
  \A n \in Nodes :
    /\ board[n] \in {"pending", "failed", "missed"} =>
         current \in Own /\ n \in onAir[current]
    /\ board[n] \in {"failed", "missed"} => verdict[current][n] = board[n]

(* "Không nhận phản hồi từ gateway (timeout)" is shown only if no message  *)
(* about the current command was handled before.                           *)
TimeoutOnlyInSilence ==
  [][timer' = "fired" /\ timer # "fired" => current \notin heard]_vars

(* A verdict that comes after the summary ends up on the board: the page   *)
(* shows it as soon as it has read everything, unless a packet of the node *)
(* turned it to delivered.                                                 *)
Shows(n) == board[n] \in {verdict[current][n], "delivered"}
LateVerdictShown ==
  inbox = <<>> /\ current \in Own =>
    \A n \in Nodes : <<current, n>> \in late => Shows(n)

(* A node is shown as pending, "WAITING_ACK", only while there is still    *)
(* something to wait for.                                                  *)
PendingIsPending ==
  inbox = <<>> /\ current \in Own /\ phase[current] = "done" =>
    \A n \in onAir[current] : verdict[current][n] # "none" => Shows(n)

(* Once a command is issued, "delivered", as if the node had responded to  *)
(* it, is shown for a node only if the gateway reported it delivered there.*)
DeliveredIsReported ==
  current \in Own =>
    \A n \in Nodes : board[n] = "delivered" => verdict[current][n] = "delivered"
=============================================================================
