---------------------------- MODULE MCAlertControl ----------------------------
(***************************************************************************)
(* Instances of AlertControl for TLC.                                      *)
(***************************************************************************)
EXTENDS AlertControl, TLC

CONSTANTS n1, n2,   \* alarm nodes
          r1, r2,   \* requests of the page
          f1        \* a request of another page

OneNode   == {n1}
TwoNodes  == {n1, n2}
OneOwn    == {r1}
TwoOwn    == {r1, r2}
NoForeign  == {}
OneForeign == {f1}

NodeSymmetry == Permutations({n1, n2})

(* One request to both nodes; or three requests to the same node.           *)
Scenario ==
  \/ \A r \in Requests \ {r1} : phase[r] = "idle"
  \/ /\ chatter = 0 /\ Len(inbox) < MaxInbox
     /\ \E n \in Nodes : \A r \in Requests : todo[r] \cup onAir[r] \subseteq {n}
=============================================================================
