-------------------------- MODULE AlertControlProofs --------------------------
(***************************************************************************)
(* Theorems about AlertControl, for all sets of nodes and requests.        *)
(***************************************************************************)
EXTENDS AlertControl, TLAPS

(* What a message says was true of the gateway when it was written, and    *)
(* stays true: destinations are only added, and a verdict is final.        *)
Truthful(m) ==
  /\ m.type \in {"ack", "delivery"} => m.node \in onAir[m.req]
  /\ m.type = "delivery" => m.status = "pending" \/ m.status = verdict[m.req][m.node]
  /\ m.type = "summary" => m.nodes \subseteq onAir[m.req]
InboxInv == \A i \in 1..Len(inbox) : Truthful(inbox[i])

(* The packet that the page waits for belongs to the current request.      *)
PacketInv == packet # <<>> => current \in Own /\ packet[1] = current

IInv == TypeOK /\ InboxInv /\ PacketInv /\ BoardIsOfCurrent

-----------------------------------------------------------------------------
(* Messages of each type.                                                  *)
LEMMA MessageTypes ==
  /\ \A r \in Requests, n \in Nodes : Ack(r, n) \in Messages
  /\ \A r \in Requests, n \in Nodes, s \in Verdicts \cup {"pending"} :
       Delivery(r, n, s) \in Messages
  /\ \A r \in Own : onAir[r] \in SUBSET Nodes => Summary(r) \in Messages
  /\ \A r \in Own : Failure(r) \in Messages
  /\ \A n \in Nodes : Receive(n) \in Messages
BY DEF Messages, Ack, Delivery, Summary, Failure, Receive

(* What a message of a type carries.                                       *)
LEMMA MessageFields ==
  ASSUME NEW m \in Messages
  PROVE  /\ m.type = "ack" => m.req \in Requests /\ m.node \in Nodes
         /\ m.type = "delivery" => /\ m.req \in Requests /\ m.node \in Nodes
                                   /\ m.status \in Verdicts \cup {"pending"}
         /\ m.type = "summary" => m.req \in Own /\ m.nodes \in SUBSET Nodes
         /\ m.type = "error" => m.req \in Own
         /\ m.type = "receive" => m.node \in Nodes
BY DEF Messages

(* The gateway writes a message.                                           *)
LEMMA Written ==
  ASSUME TypeOK, NEW m \in Messages, Write(m)
  PROVE  /\ inbox' \in Seq(Messages) /\ Len(inbox') <= MaxInbox
         /\ Len(inbox') = Len(inbox) + 1 /\ Len(inbox) \in Nat
         /\ \A i \in 1..Len(inbox) : inbox'[i] = inbox[i]
         /\ inbox'[Len(inbox) + 1] = m
BY PageAssumption DEF TypeOK, Write

(* The page takes a message.                                               *)
LEMMA Handled ==
  ASSUME TypeOK, NEW type, Handle(type)
  PROVE  /\ inbox' \in Seq(Messages) /\ Len(inbox') <= MaxInbox
         /\ Len(inbox) \in Nat /\ Len(inbox) >= 1 /\ Len(inbox') = Len(inbox) - 1
         /\ \A i \in 1..Len(inbox') : i + 1 \in 1..Len(inbox) /\ inbox'[i] = inbox[i + 1]
         /\ Head(inbox) = inbox[1] /\ Head(inbox) \in Messages /\ Head(inbox).type = type
BY PageAssumption DEF TypeOK, Handle

(* Every variable keeps its type under a step of the gateway.              *)
LEMMA TypeGateway ==
  ASSUME TypeOK, Gateway
  PROVE  TypeOK'
<1> USE DEF pageVars
<1>1. ASSUME NEW r \in Requests, NEW targets \in SUBSET Nodes \ {{}}, Accept(r, targets)
      PROVE  TypeOK'
  BY <1>1 DEF Accept, TypeOK
<1>2. ASSUME NEW r \in Requests, NEW n \in Nodes, NEW ok \in BOOLEAN, SendText(r, n, ok)
      PROVE  TypeOK'
  BY <1>2 DEF SendText, TypeOK
<1>3. ASSUME NEW r \in Requests, SendsDone(r) PROVE TypeOK'
  <2>1. inbox' \in Seq(Messages) /\ Len(inbox') <= MaxInbox
    BY <1>3, Written, MessageTypes DEF SendsDone, TypeOK
  <2>2. QED
    BY <1>3, <2>1 DEF SendsDone, TypeOK
<1>4. ASSUME NEW r \in Requests, Summarise(r) PROVE TypeOK'
  <2>1. inbox' \in Seq(Messages) /\ Len(inbox') <= MaxInbox
    BY <1>4, Written, MessageTypes DEF Summarise, TypeOK, Requests
  <2>2. QED
    BY <1>4, <2>1 DEF Summarise, TypeOK
<1>5. ASSUME NEW r \in Requests, NEW n \in Nodes, Acknowledge(r, n) PROVE TypeOK'
  <2>1. inbox' \in Seq(Messages) /\ Len(inbox') <= MaxInbox
    BY <1>5, Written, MessageTypes DEF Acknowledge
  <2>2. QED
    BY <1>5, <2>1 DEF Acknowledge, TypeOK
<1>6. ASSUME NEW r \in Requests, NEW n \in Nodes, Retry(r, n) PROVE TypeOK'
  <2>1. inbox' \in Seq(Messages) /\ Len(inbox') <= MaxInbox
    BY <1>6, Written, MessageTypes DEF Retry
  <2>2. QED
    BY <1>6, <2>1 DEF Retry, TypeOK
<1>7. ASSUME NEW r \in Requests, NEW n \in Nodes, NEW s \in Verdicts, Resolve(r, n, s)
      PROVE  TypeOK'
  <2>1. inbox' \in Seq(Messages) /\ Len(inbox') <= MaxInbox
    BY <1>7, Written, MessageTypes DEF Resolve
  <2>2. QED
    BY <1>7, <2>1 DEF Resolve, TypeOK
<1>8. ASSUME NEW n \in Nodes, Chatter(n) PROVE TypeOK'
  <2>1. inbox' \in Seq(Messages) /\ Len(inbox') <= MaxInbox
    BY <1>8, Written, MessageTypes DEF Chatter
  <2>2. QED
    BY <1>8, <2>1, PageAssumption DEF Chatter, TypeOK
<1>9. QED
  BY <1>1, <1>2, <1>3, <1>4, <1>5, <1>6, <1>7, <1>8 DEF Gateway

(* Every variable keeps its type under a step of the page.                 *)
LEMMA TypePage ==
  ASSUME TypeOK, Page
  PROVE  TypeOK'
<1> USE DEF gatewayVars, pageVars, Show, ClearTimer, Hear, Ignore
<1>1. ASSUME NEW r \in Own, HandleSend(r) PROVE TypeOK'
  BY <1>1 DEF HandleSend, TypeOK, Requests
<1>2. CASE SendTimeout
  BY <1>2 DEF SendTimeout, TypeOK
<1>3. CASE OnAck
  <2>1. /\ inbox' \in Seq(Messages) /\ Len(inbox') <= MaxInbox
        /\ Head(inbox).req \in Requests /\ Head(inbox).node \in Nodes
    BY <1>3, Handled, MessageFields DEF OnAck
  <2>2. Head(inbox).req = current => current \in Own
    BY <2>1, PageAssumption DEF TypeOK
  <2>3. board' \in [Nodes -> Verdicts \cup {"none", "pending"}]
    BY <1>3, <2>1 DEF OnAck, TypeOK
  <2>4. packet' \in (Requests \X Nodes) \cup {<<>>} /\ heard' \subseteq Own
    BY <1>3, <2>1, <2>2 DEF OnAck, TypeOK
  <2>5. QED
    BY <1>3, <2>1, <2>3, <2>4 DEF OnAck, TypeOK, Handle
<1>4. CASE OnDelivery
  <2>1. /\ inbox' \in Seq(Messages) /\ Len(inbox') <= MaxInbox
        /\ Head(inbox).req \in Requests /\ Head(inbox).node \in Nodes
        /\ Head(inbox).status \in Verdicts \cup {"pending"}
    BY <1>4, Handled, MessageFields DEF OnDelivery
  <2>2. Head(inbox).req = current => current \in Own
    BY <2>1, PageAssumption DEF TypeOK
  <2>3. QED
    BY <1>4, <2>1, <2>2 DEF OnDelivery, TypeOK, Handle
<1>5. CASE OnSummary
  <2>1. inbox' \in Seq(Messages) /\ Len(inbox') <= MaxInbox
    BY <1>5, Handled DEF OnSummary
  <2>2. QED
    BY <1>5, <2>1 DEF OnSummary, TypeOK, Handle
<1>6. CASE OnReceive
  <2>1. /\ inbox' \in Seq(Messages) /\ Len(inbox') <= MaxInbox
        /\ Head(inbox).node \in Nodes
    BY <1>6, Handled, MessageFields DEF OnReceive
  <2>2. QED
    BY <1>6, <2>1 DEF OnReceive, TypeOK, Handle, Verdicts
<1>7. CASE OnError
  <2>1. /\ inbox' \in Seq(Messages) /\ Len(inbox') <= MaxInbox
        /\ Head(inbox).req \in Own
    BY <1>7, Handled, MessageFields DEF OnError
  <2>2. QED
    BY <1>7, <2>1 DEF OnError, TypeOK, Handle
<1>8. QED
  BY <1>1, <1>2, <1>3, <1>4, <1>5, <1>6, <1>7 DEF Page

(* Types hold initially.                                                   *)
LEMMA TypeInit == Init => TypeOK
BY PageAssumption DEF Init, TypeOK

(* Every variable keeps its type.                                          *)
THEOREM TypeCorrect == Spec => []TypeOK
<1>1. TypeOK /\ [Next]_vars => TypeOK'
  <2>1. CASE UNCHANGED vars
    BY <2>1 DEF vars, gatewayVars, pageVars, TypeOK
  <2>2. QED
    BY <2>1, TypeGateway, TypePage DEF Next
<1>2. QED
  BY <1>1, TypeInit, PTL DEF Spec

-----------------------------------------------------------------------------
(* The gateway's state grows.                                              *)
Grows == /\ \A r \in Requests : onAir[r] \subseteq onAir'[r]
         /\ \A r \in Requests, n \in Nodes :
              verdict[r][n] # "none" => verdict'[r][n] = verdict[r][n]

(* What was true stays true.                                               *)
LEMMA TruthStays ==
  ASSUME TypeOK, Grows, NEW m \in Messages, Truthful(m)
  PROVE  Truthful(m)'
<1>1. m.type \in {"ack", "delivery"} => m.req \in Requests /\ m.node \in Nodes
  BY MessageFields
<1>2. m.type = "summary" => m.req \in Requests
  BY MessageFields DEF Requests
<1>3. m.type = "delivery" /\ m.status # "pending" => m.status # "none"
  BY MessageFields DEF Verdicts
<1>4. QED
  BY <1>1, <1>2, <1>3 DEF Truthful, Grows

(* The gateway writes nothing.                                             *)
LEMMA InboxQuiet ==
  ASSUME TypeOK, InboxInv, Grows, UNCHANGED inbox
  PROVE  InboxInv'
<1>1. \A i \in 1..Len(inbox) : inbox[i] \in Messages
  BY DEF TypeOK
<1>2. QED
  BY <1>1, TruthStays DEF InboxInv, Truthful

(* The gateway writes something true.                                      *)
LEMMA InboxWritten ==
  ASSUME TypeOK, InboxInv, Grows, NEW m \in Messages, Write(m), Truthful(m)'
  PROVE  InboxInv'
<1>1. \A i \in 1..Len(inbox) : inbox[i] \in Messages
  BY DEF TypeOK
<1>2. SUFFICES ASSUME NEW i \in 1..Len(inbox') PROVE Truthful(inbox[i])'
  BY DEF InboxInv
<1>3. CASE i \in 1..Len(inbox)
  <2>1. inbox'[i] = inbox[i] /\ inbox[i] \in Messages /\ Truthful(inbox[i])
    BY <1>1, <1>3, Written DEF InboxInv
  <2>2. QED
    BY <2>1, TruthStays DEF Truthful
<1>4. CASE i = Len(inbox) + 1
  BY <1>4, Written DEF Truthful
<1>5. QED
  BY <1>3, <1>4, Written

(* What the board shows stays true when the gateway's state grows.         *)
LEMMA BoardStays ==
  ASSUME TypeOK, PacketInv, BoardIsOfCurrent, Grows, UNCHANGED pageVars
  PROVE  PacketInv' /\ BoardIsOfCurrent'
<1>1. UNCHANGED <<current, packet, board>>
  BY DEF pageVars
<1>2. ASSUME NEW n \in Nodes, board[n] \in {"pending", "failed", "missed"}
      PROVE  /\ current \in Own /\ n \in onAir'[current]
             /\ board[n] \in {"failed", "missed"} => verdict'[current][n] = board[n]
  <2>1. current \in Own /\ current \in Requests /\ n \in onAir[current]
    BY <1>2 DEF BoardIsOfCurrent, Requests
  <2>2. board[n] \in {"failed", "missed"} =>
          verdict[current][n] = board[n] /\ board[n] # "none"
    BY <1>2 DEF BoardIsOfCurrent
  <2>3. QED
    BY <2>1, <2>2 DEF Grows
<1>3. QED
  BY <1>1, <1>2 DEF PacketInv, BoardIsOfCurrent

(* The gateway writes the truth, and unmakes none.                         *)
LEMMA GatewayStep ==
  ASSUME IInv, Gateway
  PROVE  IInv'
<1>1. TypeOK /\ InboxInv /\ TypeOK'
  BY TypeGateway DEF IInv
<1>2. SUFFICES Grows /\ InboxInv' /\ UNCHANGED pageVars
  BY <1>1, BoardStays DEF IInv
<1>3. ASSUME NEW r \in Requests, NEW targets \in SUBSET Nodes \ {{}}, Accept(r, targets)
      PROVE  Grows /\ InboxInv' /\ UNCHANGED pageVars
  <2>1. Grows /\ UNCHANGED <<inbox, pageVars>>
    BY <1>3 DEF Accept, Grows
  <2>2. QED
    BY <1>1, <2>1, InboxQuiet
<1>4. ASSUME NEW r \in Requests, NEW n \in Nodes, NEW ok \in BOOLEAN, SendText(r, n, ok)
      PROVE  Grows /\ InboxInv' /\ UNCHANGED pageVars
  <2>1. Grows /\ UNCHANGED <<inbox, pageVars>>
    BY <1>1, <1>4 DEF SendText, Grows, TypeOK
  <2>2. QED
    BY <1>1, <2>1, InboxQuiet
<1>5. ASSUME NEW r \in Requests, SendsDone(r)
      PROVE  Grows /\ InboxInv' /\ UNCHANGED pageVars
  <2>1. Grows /\ UNCHANGED pageVars
    BY <1>5 DEF SendsDone, Grows
  <2>2. CASE UNCHANGED inbox
    BY <1>1, <2>1, <2>2, InboxQuiet
  <2>3. CASE r \in Own /\ Write(Failure(r))
    <3>1. Failure(r) \in Messages /\ Truthful(Failure(r))'
      BY <2>3, MessageTypes DEF Failure, Truthful
    <3>2. QED
      BY <1>1, <2>1, <2>3, <3>1, InboxWritten
  <2>4. QED
    BY <1>5, <2>2, <2>3 DEF SendsDone
<1>6. ASSUME NEW r \in Requests, Summarise(r)
      PROVE  Grows /\ InboxInv' /\ UNCHANGED pageVars
  <2>1. Grows /\ UNCHANGED pageVars /\ onAir' = onAir
    BY <1>6 DEF Summarise, Grows
  <2>2. CASE UNCHANGED inbox
    BY <1>1, <2>1, <2>2, InboxQuiet
  <2>3. CASE r \in Own /\ Write(Summary(r))
    <3>1. onAir[r] \in SUBSET Nodes
      BY <1>1 DEF TypeOK
    <3>2. Summary(r) \in Messages
      BY <2>3, <3>1, MessageTypes
    <3>3. /\ Summary(r).type = "summary" /\ Summary(r).req = r
          /\ Summary(r).nodes = onAir[r]
      BY DEF Summary
    <3>4. QED
      BY <1>1, <2>1, <2>3, <3>2, <3>3, InboxWritten DEF Truthful
  <2>4. QED
    BY <1>6, <2>2, <2>3 DEF Summarise
<1>7. ASSUME NEW r \in Requests, NEW n \in Nodes, Acknowledge(r, n)
      PROVE  Grows /\ InboxInv' /\ UNCHANGED pageVars
  <2>1. Grows /\ UNCHANGED pageVars /\ onAir' = onAir /\ n \in onAir[r] /\ Write(Ack(r, n))
    BY <1>7 DEF Acknowledge, Grows
  <2>2. Ack(r, n) \in Messages /\ Truthful(Ack(r, n))'
    BY <2>1, MessageTypes DEF Ack, Truthful
  <2>3. QED
    BY <1>1, <2>1, <2>2, InboxWritten
<1>8. ASSUME NEW r \in Requests, NEW n \in Nodes, Retry(r, n)
      PROVE  Grows /\ InboxInv' /\ UNCHANGED pageVars
  <2>1. /\ Grows /\ UNCHANGED pageVars /\ onAir' = onAir /\ n \in onAir[r]
        /\ Write(Delivery(r, n, "pending"))
    BY <1>8 DEF Retry, Grows
  <2>2. Delivery(r, n, "pending") \in Messages /\ Truthful(Delivery(r, n, "pending"))'
    BY <2>1, MessageTypes DEF Delivery, Truthful
  <2>3. QED
    BY <1>1, <2>1, <2>2, InboxWritten
<1>9. ASSUME NEW r \in Requests, NEW n \in Nodes, NEW s \in Verdicts, Resolve(r, n, s)
      PROVE  Grows /\ InboxInv' /\ UNCHANGED pageVars
  <2>1. /\ UNCHANGED pageVars /\ onAir' = onAir /\ n \in onAir[r]
        /\ verdict[r][n] = "none" /\ verdict' = [verdict EXCEPT ![r][n] = s]
        /\ Write(Delivery(r, n, s))
    BY <1>9 DEF Resolve
  <2>2. Grows /\ verdict'[r][n] = s
    BY <1>1, <2>1 DEF Grows, TypeOK
  <2>3. Delivery(r, n, s) \in Messages /\ Truthful(Delivery(r, n, s))'
    BY <2>1, <2>2, MessageTypes DEF Delivery, Truthful
  <2>4. QED
    BY <1>1, <2>1, <2>2, <2>3, InboxWritten
<1>10. ASSUME NEW n \in Nodes, Chatter(n) PROVE Grows /\ InboxInv' /\ UNCHANGED pageVars
  <2>1. Grows /\ UNCHANGED pageVars /\ Write(Receive(n))
    BY <1>10 DEF Chatter, Grows
  <2>2. Receive(n) \in Messages /\ Truthful(Receive(n))'
    BY MessageTypes DEF Receive, Truthful
  <2>3. QED
    BY <1>1, <2>1, <2>2, InboxWritten
<1>11. QED
  BY <1>3, <1>4, <1>5, <1>6, <1>7, <1>8, <1>9, <1>10 DEF Gateway

(* The page shows what it is told, if it is about the current request.     *)
LEMMA PageStep ==
  ASSUME IInv, Page
  PROVE  IInv'
<1> USE DEF Show, Ignore, pageVars
<1>1. TypeOK /\ InboxInv /\ PacketInv /\ BoardIsOfCurrent /\ TypeOK'
  BY TypePage DEF IInv
<1>2. ASSUME NEW type, Handle(type)
      PROVE  /\ Truthful(Head(inbox)) /\ Head(inbox) \in Messages /\ Head(inbox).type = type
             /\ InboxInv' /\ UNCHANGED <<onAir, verdict>>
  BY <1>1, <1>2, Handled DEF InboxInv, Truthful, Handle, gatewayVars
<1>3. ASSUME NEW r \in Own, HandleSend(r) PROVE IInv'
  <2>1. InboxInv'
    BY <1>1, <1>3 DEF HandleSend, InboxInv, Truthful
  <2>2. PacketInv' /\ BoardIsOfCurrent'
    BY <1>3 DEF HandleSend, PacketInv, BoardIsOfCurrent
  <2>3. QED
    BY <1>1, <2>1, <2>2 DEF IInv
<1>4. CASE SendTimeout
  BY <1>1, <1>4 DEF SendTimeout, IInv, InboxInv, Truthful, PacketInv, BoardIsOfCurrent,
     gatewayVars
<1>5. CASE OnAck
  <2>1. Handle("ack")
    BY <1>5 DEF OnAck
  <2>2. /\ Head(inbox).req \in Requests /\ Head(inbox).node \in Nodes
        /\ Head(inbox).node \in onAir[Head(inbox).req]
    BY <1>2, <2>1, MessageFields DEF Truthful
  <2>3. CASE Head(inbox).req # current
    BY <1>1, <1>2, <1>5, <2>1, <2>3 DEF OnAck, IInv, PacketInv, BoardIsOfCurrent
  <2>4. CASE Head(inbox).req = current
    <3>1. current \in Own /\ packet' = <<current, Head(inbox).node>> /\ current' = current
      BY <1>1, <1>5, <2>2, <2>4, PageAssumption DEF OnAck, TypeOK
    <3>2. board' = [board EXCEPT ![Head(inbox).node] = "pending"]
      BY <1>5, <2>4 DEF OnAck
    <3>3. PacketInv'
      BY <3>1 DEF PacketInv
    <3>4. BoardIsOfCurrent'
      BY <1>1, <1>2, <2>1, <2>2, <2>4, <3>1, <3>2 DEF BoardIsOfCurrent, TypeOK
    <3>5. QED
      BY <1>1, <1>2, <2>1, <3>3, <3>4 DEF IInv
  <2>5. QED
    BY <2>3, <2>4
<1>6. CASE OnDelivery
  <2>1. Handle("delivery")
    BY <1>6 DEF OnDelivery
  <2>2. /\ Head(inbox).req \in Requests /\ Head(inbox).node \in Nodes
        /\ Head(inbox).node \in onAir[Head(inbox).req]
        /\ \/ Head(inbox).status = "pending"
           \/ Head(inbox).status = verdict[Head(inbox).req][Head(inbox).node]
    BY <1>2, <2>1, MessageFields DEF Truthful
  <2>3. CASE Head(inbox).req # current /\ packet # <<Head(inbox).req, Head(inbox).node>>
    BY <1>1, <1>2, <1>6, <2>1, <2>3 DEF OnDelivery, IInv, PacketInv, BoardIsOfCurrent
  <2>4. CASE Head(inbox).req = current \/ packet = <<Head(inbox).req, Head(inbox).node>>
    <3>1. Head(inbox).req = current /\ current \in Own
      BY <1>1, <2>2, <2>4, PageAssumption DEF PacketInv, TypeOK
    <3>2. /\ UNCHANGED <<current, packet>>
          /\ board' = [board EXCEPT ![Head(inbox).node] = Head(inbox).status]
      BY <1>6, <2>4 DEF OnDelivery
    <3>3. PacketInv'
      BY <1>1, <3>2 DEF PacketInv
    <3>4. BoardIsOfCurrent'
      BY <1>1, <1>2, <2>1, <2>2, <3>1, <3>2 DEF BoardIsOfCurrent, TypeOK
    <3>5. QED
      BY <1>1, <1>2, <2>1, <3>3, <3>4 DEF IInv
  <2>5. QED
    BY <2>3, <2>4
<1>7. CASE OnSummary
  <2>1. Handle("summary")
    BY <1>7 DEF OnSummary
  <2>2. Head(inbox).req \in Own /\ Head(inbox).nodes \subseteq onAir[Head(inbox).req]
    BY <1>2, <2>1, MessageFields DEF Truthful
  <2>3. UNCHANGED <<current, packet>>
    BY <1>7 DEF OnSummary
  <2>4. BoardIsOfCurrent'
    <3>1. onAir' = onAir /\ verdict' = verdict
      BY <1>2, <2>1
    <3>2. CASE board' = board
      BY <1>1, <2>3, <3>1, <3>2 DEF BoardIsOfCurrent
    <3>3. CASE Head(inbox).req = current
      <4>1. board' = [n \in Nodes |-> IF n \in Head(inbox).nodes THEN "pending" ELSE board[n]]
            \/ board' = board
        BY <1>7 DEF OnSummary, Ignore, pageVars
      <4>2. ASSUME NEW n \in Nodes, board'[n] # board[n]
            PROVE  board'[n] = "pending" /\ current \in Own /\ n \in onAir[current]
        BY <2>2, <3>3, <4>1, <4>2
      <4>3. QED
        BY <1>1, <2>3, <3>1, <4>2 DEF BoardIsOfCurrent
    <3>4. QED
      BY <1>7, <3>2, <3>3 DEF OnSummary, Ignore, pageVars
  <2>5. QED
    BY <1>1, <1>2, <2>1, <2>3, <2>4 DEF IInv, PacketInv
<1>8. CASE OnReceive
  <2>1. Handle("receive") /\ UNCHANGED <<current, packet>>
        /\ board' = [board EXCEPT ![Head(inbox).node] = "delivered"]
    BY <1>8 DEF OnReceive
  <2>2. BoardIsOfCurrent'
    BY <1>1, <1>2, <2>1 DEF BoardIsOfCurrent, TypeOK
  <2>3. QED
    BY <1>1, <1>2, <2>1, <2>2 DEF IInv, PacketInv
<1>9. CASE OnError
  <2>1. Handle("error") /\ UNCHANGED <<current, packet, board>>
    BY <1>9 DEF OnError
  <2>2. QED
    BY <1>1, <1>2, <2>1 DEF IInv, PacketInv, BoardIsOfCurrent
<1>10. QED
  BY <1>3, <1>4, <1>5, <1>6, <1>7, <1>8, <1>9 DEF Page

(* The inductive invariant holds in every reachable state.                 *)
THEOREM Invariance == Spec => []IInv
<1>1. Init => IInv
  <2>1. Init => InboxInv /\ PacketInv /\ BoardIsOfCurrent
    BY DEF Init, InboxInv, PacketInv, BoardIsOfCurrent
  <2>2. QED
    BY <2>1, TypeInit DEF IInv
<1>2. IInv /\ [Next]_vars => IInv'
  <2>1. CASE UNCHANGED vars
    BY <2>1 DEF vars, gatewayVars, pageVars, IInv, TypeOK, InboxInv, Truthful, PacketInv,
       BoardIsOfCurrent
  <2>2. QED
    BY <2>1, GatewayStep, PageStep DEF Next
<1>3. QED
  BY <1>1, <1>2, PTL DEF Spec

(* The board is about the command sent last: no report of an earlier one   *)
(* or of another page's reaches it, in whatever order messages arrive.     *)
THEOREM BoardSound == Spec => []BoardIsOfCurrent
<1>1. IInv => BoardIsOfCurrent
  BY DEF IInv
<1>2. QED
  BY <1>1, Invariance, PTL

-----------------------------------------------------------------------------
(* The send timer.  A page that has handled a message about its current     *)
(* request has stopped the timer, and a request it has handled a message    *)
(* about cannot be issued again.                                            *)
HeardInv ==
  /\ current \in heard => timer # "armed"
  /\ \A r \in Own : r \in heard \/ r = current => phase[r] # "idle"

LEMMA HeardInit == Init => HeardInv
BY PageAssumption DEF Init, HeardInv, Requests

LEMMA HeardStep == IInv /\ HeardInv /\ [Next]_vars => HeardInv'
<1> SUFFICES ASSUME IInv, HeardInv, [Next]_vars PROVE HeardInv'
  OBVIOUS
<1>0. TypeOK /\ Own \subseteq Requests /\ NoReq \notin Own
  BY PageAssumption DEF IInv, Requests
<1>1. ASSUME UNCHANGED <<current, timer, heard>>,
             \A r \in Own : phase[r] # "idle" => phase'[r] # "idle"
      PROVE  HeardInv'
  BY <1>1 DEF HeardInv
<1>2. CASE Gateway
  <2>1. UNCHANGED <<current, timer, heard>>
    BY <1>2 DEF Gateway, Accept, SendText, SendsDone, Acknowledge, Summarise, Resolve, Retry,
       Chatter, pageVars
  <2>2. ASSUME NEW q \in Own, phase[q] # "idle" PROVE phase'[q] # "idle"
    BY <1>0, <1>2, <2>2 DEF Gateway, Accept, SendText, SendsDone, Acknowledge, Summarise,
       Resolve, Retry, Chatter, TypeOK
  <2> QED BY <1>1, <2>1, <2>2
<1>3. ASSUME NEW r \in Own, HandleSend(r) PROVE HeardInv'
  BY <1>0, <1>3 DEF HandleSend, HeardInv, TypeOK
<1>4. CASE SendTimeout
  BY <1>4 DEF SendTimeout, HeardInv, gatewayVars
(* A message of the gateway: whoever hears it stops the timer.              *)
<1>5. ASSUME UNCHANGED <<phase, current>>,
             \/ UNCHANGED <<timer, heard>>
             \/ timer' # "armed" /\ heard' \subseteq heard \cup {current}
      PROVE  HeardInv'
  BY <1>5 DEF HeardInv
<1>6. CASE OnAck \/ OnDelivery \/ OnSummary \/ OnReceive \/ OnError
  <2>1. UNCHANGED <<phase, current>>
    BY <1>6 DEF OnAck, OnDelivery, OnSummary, OnReceive, OnError, Handle, gatewayVars,
       Ignore, pageVars
  <2>2. \/ UNCHANGED <<timer, heard>>
        \/ timer' # "armed" /\ heard' \subseteq heard \cup {current}
    BY <1>6 DEF OnAck, OnDelivery, OnSummary, OnReceive, OnError, Ignore, pageVars, Hear,
       ClearTimer
  <2> QED BY <1>5, <2>1, <2>2
<1>7. CASE UNCHANGED vars
  BY <1>7 DEF vars, gatewayVars, pageVars, HeardInv
<1> QED BY <1>2, <1>3, <1>4, <1>6, <1>7 DEF Next, Page

(* The timeout is shown only if the page has handled no message about the   *)
(* current command, whatever the order of messages, retries and commands.   *)
THEOREM TimeoutMeansSilence == Spec => TimeoutOnlyInSilence
<1>1. HeardInv /\ [Next]_vars => [timer' = "fired" /\ timer # "fired" => current \notin heard]_vars
  <2> SUFFICES ASSUME HeardInv, Next, timer' = "fired", timer # "fired"
               PROVE  current \notin heard
    OBVIOUS
  <2>1. CASE Gateway
    BY <2>1 DEF Gateway, Accept, SendText, SendsDone, Acknowledge, Summarise, Resolve, Retry,
       Chatter, pageVars
  <2>2. CASE SendTimeout
    BY <2>2 DEF SendTimeout, HeardInv
  <2>3. ASSUME NEW r \in Own, HandleSend(r) PROVE FALSE
    BY <2>3 DEF HandleSend
  <2>4. ~(OnAck \/ OnDelivery \/ OnSummary \/ OnReceive \/ OnError)
    BY DEF OnAck, OnDelivery, OnSummary, OnReceive, OnError, Ignore, pageVars, ClearTimer
  <2> QED BY <2>1, <2>2, <2>3, <2>4 DEF Next, Page
<1>2. Spec => []HeardInv
  BY HeardInit, HeardStep, Invariance, PTL DEF Spec
<1> QED BY <1>1, <1>2, PTL DEF Spec, TimeoutOnlyInSilence

-----------------------------------------------------------------------------
(* Verdicts that come after the summary.  Such a verdict is final and the   *)
(* last word about its destination: once it is written nothing that would   *)
(* turn the board back to pending is written after it.                      *)
About(m, r, n) ==
  \/ m.type \in {"ack", "delivery"} /\ m.req = r /\ m.node = n
  \/ m.type = "summary" /\ m.req = r /\ n \in m.nodes

OnItsWay(n) == \E i \in 1..Len(inbox) :
  /\ inbox[i] = Delivery(current, n, verdict[current][n])
  /\ \A j \in i+1..Len(inbox) : ~About(inbox[j], current, n)
Settled(n) == Shows(n) /\ \A i \in 1..Len(inbox) : ~About(inbox[i], current, n)

LateIsFinal == \A r \in Requests, n \in Nodes :
  <<r, n>> \in late => phase[r] = "done" /\ verdict[r][n] # "none"
LateInv ==
  /\ LateIsFinal
  /\ current \in Own =>
       \A n \in Nodes : <<current, n>> \in late => OnItsWay(n) \/ Settled(n)

LEMMA LateInit == Init => LateInv
BY DEF Init, LateInv, LateIsFinal

(* A step of the gateway that settles nothing late.                         *)
LEMMA LateQuiet ==
  ASSUME IInv, LateInv, Grows, UNCHANGED <<current, board, late>>,
         \A r \in Requests : phase[r] = "done" => phase'[r] = "done",
         \/ UNCHANGED inbox
         \/ \E m \in Messages :
              /\ Write(m)
              /\ \A n \in Nodes : current \in Own /\ <<current, n>> \in late =>
                   ~About(m, current, n)
  PROVE  LateInv'
<1>0. TypeOK /\ Own \subseteq Requests
  BY DEF IInv, Requests
<1>1. LateIsFinal'
  BY <1>0 DEF LateInv, LateIsFinal, Grows
<1>2. ASSUME current \in Own, NEW n \in Nodes, <<current, n>> \in late
      PROVE  OnItsWay(n)' \/ Settled(n)'
  <2>1. verdict'[current][n] = verdict[current][n] /\ (OnItsWay(n) \/ Settled(n))
    BY <1>0, <1>2 DEF LateInv, LateIsFinal, Grows
  <2>2. CASE UNCHANGED inbox
    BY <2>1, <2>2 DEF OnItsWay, Settled, Shows, About
  <2>3. ASSUME NEW m \in Messages, Write(m), ~About(m, current, n)
        PROVE  OnItsWay(n)' \/ Settled(n)'
    <3>1. /\ Len(inbox) \in Nat /\ Len(inbox') = Len(inbox) + 1
          /\ \A i \in 1..Len(inbox) : inbox'[i] = inbox[i]
          /\ inbox'[Len(inbox) + 1] = m
      BY <1>0, <2>3, Written
    <3>2. \A j \in 1..Len(inbox') : j \in 1..Len(inbox) \/ j = Len(inbox) + 1
      BY <3>1
    <3>3. CASE OnItsWay(n)
      <4>1. PICK i \in 1..Len(inbox) :
              /\ inbox[i] = Delivery(current, n, verdict[current][n])
              /\ \A j \in i+1..Len(inbox) : ~About(inbox[j], current, n)
        BY <3>3 DEF OnItsWay
      <4>2. i \in 1..Len(inbox') /\ inbox'[i] = Delivery(current, n, verdict'[current][n])
        BY <2>1, <3>1, <4>1
      <4>3. ASSUME NEW j \in i+1..Len(inbox') PROVE ~About(inbox'[j], current, n)
        <5>1. CASE j = Len(inbox) + 1
          BY <2>3, <3>1, <5>1
        <5>2. CASE j # Len(inbox) + 1
          <6>1. j \in i+1..Len(inbox) /\ j \in 1..Len(inbox)
            BY <3>1, <5>2
          <6> QED BY <3>1, <4>1, <6>1
        <5> QED BY <5>1, <5>2
      <4>4. \A j \in i+1..Len(inbox') : ~About(inbox'[j], current', n)
        BY <4>3
      <4>5. Delivery(current, n, verdict'[current][n]) = Delivery(current', n, verdict'[current'][n])
        OBVIOUS
      <4> QED BY <4>2, <4>4, <4>5 DEF OnItsWay, About, Delivery
    <3>4. CASE Settled(n)
      <4>1. \A j \in 1..Len(inbox') : ~About(inbox'[j], current', n)
        BY <2>3, <3>1, <3>2, <3>4 DEF Settled
      <4>2. Shows(n)'
        BY <2>1, <3>4 DEF Settled, Shows
      <4> QED BY <4>1, <4>2 DEF Settled, About
    <3> QED BY <2>1, <3>3, <3>4
  <2> QED BY <1>2, <2>2, <2>3
<1> QED BY <1>1, <1>2 DEF LateInv

(* The gateway: after the summary it neither acknowledges nor summarises,   *)
(* after the verdict it neither retries nor reports once more.              *)
LEMMA LateGateway ==
  ASSUME IInv, LateInv, Gateway
  PROVE  LateInv'
<1>0. TypeOK /\ Own \subseteq Requests /\ LateIsFinal
  BY DEF IInv, Requests, LateInv
<1>1. ASSUME NEW r \in Requests, NEW targets \in SUBSET Nodes \ {{}}, Accept(r, targets)
      PROVE  LateInv'
  <2>1. /\ Grows /\ UNCHANGED <<current, board, late, inbox>> /\ phase[r] # "done"
        /\ phase' = [phase EXCEPT ![r] = "sending"]
    BY <1>1 DEF Accept, Grows, pageVars
  <2>2. \A q \in Requests : phase[q] = "done" => phase'[q] = "done"
    BY <1>0, <2>1 DEF TypeOK
  <2> QED BY <2>1, <2>2, LateQuiet
<1>2. ASSUME NEW r \in Requests, NEW n \in Nodes, NEW ok \in BOOLEAN, SendText(r, n, ok)
      PROVE  LateInv'
  <2>1. Grows /\ UNCHANGED <<current, board, late, inbox, phase>>
    BY <1>0, <1>2 DEF SendText, Grows, TypeOK, pageVars
  <2> QED BY <2>1, LateQuiet
<1>3. ASSUME NEW r \in Requests, SendsDone(r) PROVE LateInv'
  <2>1. /\ Grows /\ UNCHANGED <<current, board, late>> /\ phase[r] = "sending"
        /\ \E p \in {"refused", "acking"} : phase' = [phase EXCEPT ![r] = p]
        /\ UNCHANGED inbox \/ (r \in Own /\ Write(Failure(r)))
    BY <1>3 DEF SendsDone, Grows, pageVars
  <2>2. \A q \in Requests : phase[q] = "done" => phase'[q] = "done"
    BY <1>0, <2>1 DEF TypeOK
  <2>3. CASE UNCHANGED inbox
    BY <2>1, <2>2, <2>3, LateQuiet
  <2>4. CASE r \in Own /\ Write(Failure(r))
    <3>1. Failure(r) \in Messages /\ \A n \in Nodes : ~About(Failure(r), current, n)
      BY <2>4, MessageTypes DEF About, Failure
    <3> QED BY <2>1, <2>2, <2>4, <3>1, LateQuiet
  <2> QED BY <2>1, <2>3, <2>4
<1>4. ASSUME NEW r \in Requests, Summarise(r) PROVE LateInv'
  <2>1. /\ Grows /\ UNCHANGED <<current, board, late, onAir>> /\ phase[r] = "acking"
        /\ phase' = [phase EXCEPT ![r] = "done"]
        /\ UNCHANGED inbox \/ (r \in Own /\ Write(Summary(r)))
    BY <1>4 DEF Summarise, Grows, pageVars
  <2>2. \A q \in Requests : phase[q] = "done" => phase'[q] = "done"
    BY <1>0, <2>1 DEF TypeOK
  <2>3. CASE UNCHANGED inbox
    BY <2>1, <2>2, <2>3, LateQuiet
  <2>4. CASE r \in Own /\ Write(Summary(r))
    <3>1. onAir[r] \in SUBSET Nodes
      BY <1>0 DEF TypeOK
    <3>2. Summary(r) \in Messages
      BY <2>4, <3>1, MessageTypes
    <3>3. \A n \in Nodes : current \in Own /\ <<current, n>> \in late =>
            ~About(Summary(r), current, n)
      BY <1>0, <2>1 DEF LateIsFinal, About, Summary
    <3> QED BY <2>1, <2>2, <2>4, <3>2, <3>3, LateQuiet
  <2> QED BY <2>1, <2>3, <2>4
<1>5. ASSUME NEW r \in Requests, NEW n \in Nodes, Acknowledge(r, n) PROVE LateInv'
  <2>1. /\ Grows /\ UNCHANGED <<current, board, late, phase>> /\ phase[r] = "acking"
        /\ Write(Ack(r, n))
    BY <1>5 DEF Acknowledge, Grows, pageVars
  <2>2. Ack(r, n) \in Messages
    BY MessageTypes
  <2>3. \A k \in Nodes : current \in Own /\ <<current, k>> \in late =>
          ~About(Ack(r, n), current, k)
    BY <1>0, <2>1 DEF LateIsFinal, About, Ack
  <2> QED BY <2>1, <2>2, <2>3, LateQuiet
<1>6. ASSUME NEW r \in Requests, NEW n \in Nodes, Retry(r, n) PROVE LateInv'
  <2>1. /\ Grows /\ UNCHANGED <<current, board, late, phase>> /\ verdict[r][n] = "none"
        /\ Write(Delivery(r, n, "pending"))
    BY <1>6 DEF Retry, Grows, pageVars
  <2>2. Delivery(r, n, "pending") \in Messages
    BY MessageTypes
  <2>3. \A k \in Nodes : current \in Own /\ <<current, k>> \in late =>
          ~About(Delivery(r, n, "pending"), current, k)
    BY <1>0, <2>1 DEF LateIsFinal, About, Delivery
  <2> QED BY <2>1, <2>2, <2>3, LateQuiet
<1>7. ASSUME NEW n \in Nodes, Chatter(n) PROVE LateInv'
  <2>1. Grows /\ UNCHANGED <<current, board, late, phase>> /\ Write(Receive(n))
    BY <1>7 DEF Chatter, Grows, pageVars
  <2>2. Receive(n) \in Messages /\ \A k \in Nodes : ~About(Receive(n), current, k)
    BY MessageTypes DEF About, Receive
  <2> QED BY <2>1, <2>2, LateQuiet
(* The verdict itself: the last message about its destination.              *)
<1>8. ASSUME NEW r \in Requests, NEW n \in Nodes, NEW s \in Verdicts, Resolve(r, n, s)
      PROVE  LateInv'
  <2> DEFINE m == Delivery(r, n, s)
  <2>1. /\ UNCHANGED <<current, board, phase, onAir>> /\ verdict[r][n] = "none"
        /\ verdict' = [verdict EXCEPT ![r][n] = s] /\ Write(m)
        /\ late' = IF phase[r] = "done" THEN late \cup {<<r, n>>} ELSE late
    BY <1>8 DEF Resolve, pageVars
  <2>2. m \in Messages
    BY MessageTypes
  <2>3. /\ Len(inbox) \in Nat /\ Len(inbox') = Len(inbox) + 1
        /\ \A i \in 1..Len(inbox) : inbox'[i] = inbox[i]
        /\ inbox'[Len(inbox) + 1] = m
    BY <1>0, <2>1, <2>2, Written
  <2>4. /\ verdict'[r][n] = s /\ s # "none"
        /\ \A q \in Requests, k \in Nodes : <<q, k>> # <<r, n>> => verdict'[q][k] = verdict[q][k]
    BY <1>0, <2>1 DEF TypeOK, Verdicts
  <2>5. LateIsFinal'
    BY <1>0, <2>1, <2>4 DEF LateIsFinal
  <2>6. ASSUME current \in Own, NEW k \in Nodes, <<current, k>> \in late'
        PROVE  OnItsWay(k)' \/ Settled(k)'
    <3>1. CASE <<current, k>> = <<r, n>>
      <4>1. inbox'[Len(inbox)+1] = Delivery(current', k, verdict'[current'][k])
        BY <2>1, <2>3, <2>4, <3>1
      <4>2. Len(inbox)+1 \in 1..Len(inbox') /\ (Len(inbox)+1)+1..Len(inbox') = {}
        BY <2>3
      <4> QED BY <4>1, <4>2 DEF OnItsWay, Delivery, About
    <3>2. CASE <<current, k>> # <<r, n>>
      <4>1. /\ <<current, k>> \in late /\ verdict'[current][k] = verdict[current][k]
            /\ (OnItsWay(k) \/ Settled(k)) /\ ~About(m, current, k)
        BY <1>0, <2>1, <2>4, <2>6, <3>2 DEF LateInv, About, Delivery
      <4>2. CASE OnItsWay(k)
        <5>1. PICK i \in 1..Len(inbox) :
                /\ inbox[i] = Delivery(current, k, verdict[current][k])
                /\ \A j \in i+1..Len(inbox) : ~About(inbox[j], current, k)
          BY <4>2 DEF OnItsWay
        <5>2. i \in 1..Len(inbox') /\ inbox'[i] = Delivery(current', k, verdict'[current'][k])
          BY <2>1, <2>3, <4>1, <5>1
        <5>3. ~About(m, current, k)
          BY <3>2 DEF About, Delivery
        <5>4. ASSUME NEW j \in i+1..Len(inbox') PROVE ~About(inbox'[j], current', k)
          <6>1. CASE j = Len(inbox) + 1
            BY <2>1, <2>3, <5>3, <6>1
          <6>2. CASE j # Len(inbox) + 1
            <7>1. j \in i+1..Len(inbox) /\ j \in 1..Len(inbox)
              BY <2>3, <6>2
            <7> QED BY <2>1, <2>3, <5>1, <7>1
          <6> QED BY <6>1, <6>2
        <5> QED BY <5>2, <5>4 DEF OnItsWay, About, Delivery
      <4>3. CASE Settled(k)
        <5>1. ~About(m, current, k)
          BY <3>2 DEF About, Delivery
        <5>2. \A j \in 1..Len(inbox') : j \in 1..Len(inbox) \/ j = Len(inbox) + 1
          BY <2>3
        <5>3. \A j \in 1..Len(inbox') : ~About(inbox'[j], current', k)
          BY <2>1, <2>3, <4>3, <5>1, <5>2 DEF Settled
        <5>4. Shows(k)'
          BY <2>1, <4>1, <4>3 DEF Settled, Shows
        <5> QED BY <5>3, <5>4 DEF Settled, About
      <4> QED BY <4>1, <4>2, <4>3
    <3> QED BY <3>1, <3>2
  <2> QED BY <2>1, <2>5, <2>6 DEF LateInv
<1> QED BY <1>1, <1>2, <1>3, <1>4, <1>5, <1>6, <1>7, <1>8 DEF Gateway

(* The page takes a message: what was on its way comes nearer.              *)
LEMMA LateRead ==
  ASSUME IInv, LateInv, NEW type, Handle(type), UNCHANGED current,
         \A n \in Nodes : current \in Own /\ board'[n] # board[n] =>
           board'[n] = "delivered" \/ About(Head(inbox), current, n),
         \A n \in Nodes :
           current \in Own /\ Head(inbox) = Delivery(current, n, verdict[current][n]) => Shows(n)'
  PROVE  LateInv'
<1>0. /\ TypeOK /\ UNCHANGED <<phase, verdict, late>>
      /\ Len(inbox) \in Nat /\ Len(inbox) >= 1 /\ Len(inbox') = Len(inbox) - 1
      /\ \A i \in 1..Len(inbox') : i + 1 \in 1..Len(inbox) /\ inbox'[i] = inbox[i + 1]
      /\ Head(inbox) = inbox[1]
  BY Handled DEF IInv, Handle, gatewayVars
<1>1. LateIsFinal'
  BY <1>0 DEF LateInv, LateIsFinal
<1>2. ASSUME current \in Own, NEW n \in Nodes, <<current, n>> \in late
      PROVE  OnItsWay(n)' \/ Settled(n)'
  <2>1. CASE Settled(n)
    <3>1. ~About(Head(inbox), current, n)
      BY <1>0, <2>1 DEF Settled
    <3>2. Shows(n)'
      BY <1>0, <1>2, <2>1, <3>1 DEF Settled, Shows
    <3>3. \A i \in 1..Len(inbox') : ~About(inbox'[i], current', n)
      BY <1>0, <2>1 DEF Settled
    <3> QED BY <3>2, <3>3 DEF Settled, About
  <2>2. CASE OnItsWay(n)
    <3>1. PICK i \in 1..Len(inbox) :
            /\ inbox[i] = Delivery(current, n, verdict[current][n])
            /\ \A j \in i+1..Len(inbox) : ~About(inbox[j], current, n)
      BY <2>2 DEF OnItsWay
    <3>2. CASE i = 1
      <4>1. Shows(n)'
        BY <1>0, <1>2, <3>1, <3>2
      <4>2. ASSUME NEW j \in 1..Len(inbox') PROVE ~About(inbox'[j], current', n)
        <5>1. j + 1 \in i+1..Len(inbox) /\ inbox'[j] = inbox[j + 1]
          BY <1>0, <3>2
        <5> QED BY <3>1, <5>1
      <4> QED BY <4>1, <4>2 DEF Settled, About
    <3>3. CASE i # 1
      <4>1. i - 1 \in 1..Len(inbox') /\ (i - 1) + 1 = i
        BY <1>0, <3>3
      <4>2. inbox'[i - 1] = Delivery(current', n, verdict'[current'][n])
        BY <1>0, <3>1, <4>1
      <4>3. ASSUME NEW j \in (i-1)+1..Len(inbox') PROVE ~About(inbox'[j], current', n)
        <5>1. j \in 1..Len(inbox') /\ j + 1 \in i+1..Len(inbox)
          BY <1>0
        <5> QED BY <1>0, <3>1, <5>1
      <4> QED BY <4>1, <4>2, <4>3 DEF OnItsWay, About, Delivery
    <3> QED BY <3>2, <3>3
  <2> QED BY <1>0, <1>2, <2>1, <2>2 DEF LateInv
<1> QED BY <1>0, <1>1, <1>2 DEF LateInv

LEMMA LatePage ==
  ASSUME IInv, LateInv, Page
  PROVE  LateInv'
<1> USE DEF Show, Ignore, pageVars
<1>0. TypeOK /\ PacketInv /\ Own \subseteq Requests /\ LateIsFinal
  BY DEF IInv, Requests, LateInv
<1>1. ASSUME NEW r \in Own, HandleSend(r) PROVE LateInv'
  <2>1. /\ phase[r] = "idle" /\ phase' = [phase EXCEPT ![r] = "queued"] /\ current' = r
        /\ UNCHANGED <<late, verdict>>
    BY <1>1 DEF HandleSend
  <2>2. LateIsFinal'
    BY <1>0, <2>1 DEF LateIsFinal, TypeOK
  <2>3. \A n \in Nodes : <<current', n>> \notin late'
    BY <1>0, <2>1 DEF LateIsFinal
  <2> QED BY <2>2, <2>3 DEF LateInv
<1>2. CASE SendTimeout
  BY <1>2 DEF SendTimeout, gatewayVars, LateInv, LateIsFinal, OnItsWay, Settled, Shows, About,
     Delivery
<1>3. CASE OnAck
  <2>1. Handle("ack") /\ current' = current /\ Head(inbox) \in Messages /\ Head(inbox).type = "ack"
    BY <1>0, <1>3, Handled DEF OnAck
  <2>2. \A n \in Nodes : board'[n] # board[n] => About(Head(inbox), current, n)
    BY <1>0, <1>3, <2>1, MessageFields DEF OnAck, TypeOK, About
  <2>3. \A n \in Nodes : Head(inbox) # Delivery(current, n, verdict[current][n])
    BY <2>1 DEF Delivery
  <2> QED BY <2>1, <2>2, <2>3, LateRead
<1>4. CASE OnDelivery
  <2> DEFINE m == Head(inbox)
  <2>1. /\ Handle("delivery") /\ current' = current /\ m \in Messages
        /\ m.type = "delivery" /\ verdict' = verdict
    BY <1>0, <1>4, Handled DEF OnDelivery, Handle, gatewayVars
  <2>2. m.req \in Requests /\ m.node \in Nodes
    BY <2>1, MessageFields
  <2>3. \A n \in Nodes : current \in Own /\ board'[n] # board[n] => About(m, current, n)
    BY <1>0, <1>4, <2>1, <2>2 DEF OnDelivery, TypeOK, About, PacketInv
  <2>4. ASSUME NEW n \in Nodes, current \in Own, m = Delivery(current, n, verdict[current][n])
        PROVE  Shows(n)'
    <3>1. m.req = current /\ m.node = n /\ m.status = verdict[current][n]
      BY <2>4 DEF Delivery
    <3>2. board' = [board EXCEPT ![n] = verdict[current][n]]
      BY <1>4, <3>1 DEF OnDelivery
    <3>3. board'[n] = verdict'[current'][n]
      BY <1>0, <2>1, <3>2 DEF TypeOK
    <3> QED BY <3>3 DEF Shows
  <2> QED BY <2>1, <2>3, <2>4, LateRead
<1>5. CASE OnSummary
  <2>1. /\ Handle("summary") /\ current' = current /\ Head(inbox) \in Messages
        /\ Head(inbox).type = "summary"
    BY <1>0, <1>5, Handled DEF OnSummary
  <2>2. \A n \in Nodes : board'[n] # board[n] => About(Head(inbox), current, n)
    BY <1>0, <1>5, <2>1, MessageFields DEF OnSummary, TypeOK, About
  <2>3. \A n \in Nodes : Head(inbox) # Delivery(current, n, verdict[current][n])
    BY <2>1 DEF Delivery
  <2> QED BY <2>1, <2>2, <2>3, LateRead
<1>6. CASE OnReceive
  <2>1. /\ Handle("receive") /\ current' = current /\ Head(inbox) \in Messages
        /\ Head(inbox).type = "receive"
    BY <1>0, <1>6, Handled DEF OnReceive
  <2>2. \A n \in Nodes : board'[n] # board[n] => board'[n] = "delivered"
    BY <1>0, <1>6, <2>1, MessageFields DEF OnReceive, TypeOK
  <2>3. \A n \in Nodes : Head(inbox) # Delivery(current, n, verdict[current][n])
    BY <2>1 DEF Delivery
  <2> QED BY <2>1, <2>2, <2>3, LateRead
<1>7. CASE OnError
  <2>1. /\ Handle("error") /\ current' = current /\ board' = board
        /\ Head(inbox).type = "error"
    BY <1>0, <1>7, Handled DEF OnError
  <2>2. \A n \in Nodes : Head(inbox) # Delivery(current, n, verdict[current][n])
    BY <2>1 DEF Delivery
  <2> QED BY <2>1, <2>2, LateRead
<1> QED BY <1>1, <1>2, <1>3, <1>4, <1>5, <1>6, <1>7 DEF Page

(* A verdict that comes after the summary is shown once the page has read   *)
(* everything: no later message about the destination takes it back.        *)
THEOREM LateVerdictsReachBoard == Spec => []LateVerdictShown
<1>1. IInv /\ LateInv /\ [Next]_vars => LateInv'
  <2>1. CASE UNCHANGED vars
    BY <2>1 DEF vars, gatewayVars, pageVars, LateInv, LateIsFinal, OnItsWay, Settled, Shows,
       About, Delivery
  <2> QED BY <2>1, LateGateway, LatePage DEF Next
<1>2. TypeOK /\ LateInv => LateVerdictShown
  <2> SUFFICES ASSUME LateInv, inbox = <<>>, current \in Own, NEW n \in Nodes,
                      <<current, n>> \in late
               PROVE  Shows(n)
    BY DEF LateVerdictShown
  <2>1. OnItsWay(n) \/ Settled(n)
    BY DEF LateInv
  <2>2. 1..Len(inbox) = {}
    OBVIOUS
  <2>3. ~OnItsWay(n)
    BY <2>2 DEF OnItsWay
  <2> QED BY <2>1, <2>3 DEF Settled
<1>3. IInv => TypeOK
  BY DEF IInv
<1> QED BY <1>1, <1>2, <1>3, LateInit, Invariance, PTL DEF Spec
=============================================================================
