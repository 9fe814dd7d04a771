---------------------------- MODULE CommandTicket ----------------------------
(***************************************************************************)
(* What the gateway promises about an alarm command and one destination of *)
(* it, a ticket: the message is put on the air at most MaxSends times, and *)
(* the operators are told at most once how it ended, after which it is     *)
(* never sent again.  The gateway of module CommandDelivery implements     *)
(* this with a dictionary of pending packets, a lock, a periodic sweep and *)
(* a reader thread.                                                        *)
(***************************************************************************)
EXTENDS Naturals

CONSTANT MaxSends     \* first transmission and automatic retries

VARIABLES sends,      \* how often the message was transmitted
          verdicts    \* how many final reports the operators received

ticketVars == <<sends, verdicts>>

Init == sends = 0 /\ verdicts = 0

(* The message of an open ticket is transmitted, for the first time or     *)
(* again.                                                                  *)
Send == /\ verdicts = 0 /\ sends < MaxSends
        /\ sends' = sends + 1
        /\ UNCHANGED verdicts

(* The ticket is closed: delivered, failed or missed.                      *)
Close == /\ verdicts = 0 /\ sends > 0
         /\ verdicts' = 1
         /\ UNCHANGED sends

Next == Send \/ Close

Spec == Init /\ [][Next]_ticketVars
=============================================================================
