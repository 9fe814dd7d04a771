------------------------------- MODULE MCRadioTx -------------------------------
(***************************************************************************)
(* Instances of RadioTx for TLC: an acknowledgement, a message of this node *)
(* and relays, one more than the queue holds.                               *)
(***************************************************************************)
EXTENDS RadioTx

CONSTANTS ack, own, relay1, relay2

Ranks == [p \in Packets |-> IF p = ack THEN 120 ELSE IF p = own THEN 100 ELSE 64]
===============================================================================
