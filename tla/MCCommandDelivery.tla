-------------------------- MODULE MCCommandDelivery --------------------------
(***************************************************************************)
(* Instances of CommandDelivery for TLC.                                   *)
(***************************************************************************)
EXTENDS CommandDelivery, TLC

CONSTANTS n1, n2,   \* alarm nodes
          r1, r2    \* requests

OneNode   == {n1}
TwoNodes  == {n1, n2}
OneReq    == {r1}
TwoReqs   == {r1, r2}
NoNodes   == {}

Direct    == {n1}
Fanout    == {Broadcast}
AnyNode   == {n1, n2, Broadcast}
AllKinds  == {n1, Broadcast, Local, Channel}

Symmetry == Permutations({n1, n2}) \cup Permutations({r1, r2})

(* One request: to one node; or to all, with a failure somewhere and no     *)
(* reconnection after it.  Two requests to the same node.                   *)
Alone(r) == \A q \in Requests \ {r} : hpc[q] = "idle"
Scenario ==
  \/ faults = 0 /\ \E r \in Requests : Alone(r)
  \/ faults = 0 /\ \E n \in Nodes : \A r \in Requests : target[r] = n
  \/ lock # "connector" /\ \E r \in Requests : Alone(r) /\ target[r] = Broadcast
=============================================================================
