------------------------------ MODULE MCNodeBoard ------------------------------
(***************************************************************************)
(* Instances of NodeBoard for TLC.                                          *)
(***************************************************************************)
EXTENDS NodeBoard

CONSTANTS alarm1, alarm2, map, alert

(* Three events with one node and no page; two with one node and two        *)
(* pages, or with two nodes, one of which sends no packet, and one page.    *)
Seen == {n \in Nodes : db[n] # "absent" \/ n \in DOMAIN nodes \/ n = rx}

Scenario ==
  \/ Seen \subseteq {alarm1} /\ (events <= 2 \/ clients = {})
  \/ rx # alarm2 /\ events <= 2 /\ clients \subseteq {map}

(* The longer one: three events with one node and one page as well, packets *)
(* of both nodes.                                                           *)
LongScenario ==
  /\ events <= 2 \/ (clients \subseteq {map} /\ Seen \subseteq {alarm1})
  /\ clients \subseteq {map} \/ Seen \subseteq {alarm1}
=================================================================================
