---------------------------- MODULE MCMeshRouting ----------------------------
(***************************************************************************)
(* Instances of MeshRouting for TLC: small meshes of given shape.           *)
(***************************************************************************)
EXTENDS MeshRouting

CONSTANTS n1, n2, n3, n4, gone

(* A clique of three; n1 - n2 - n3 - n4; and n4 heard by n3 only of a       *)
(* clique.                                                                  *)
Order  == <<n1, n2, n3, n4>>
Line   == [n \in Nodes |-> {Order[j] : j \in {j \in 1..4 :
             \E i \in 1..4 : Order[i] = n /\ (i = j + 1 \/ j = i + 1)}} \cap Nodes]
Kite   == [n \in Nodes |-> CASE n = n4 -> {n3} [] n = n3 -> {n1, n2, n4}
                             [] n = n2 -> {n1, n3} [] OTHER -> {n2, n3}]
(* n1 - n2 - n3 only; n3 amid the others.                                   *)
Short  == [n \in Nodes |-> Line[n] \cap IF n = n4 THEN {} ELSE {n1, n2, n3}]
Star   == [n \in Nodes |-> IF n = n3 THEN Nodes \ {n3} ELSE {n3}]
(* n3 does not hear n2.                                                     *)
OneWay == [n \in Nodes |-> CASE n = n1 -> {n2, n3} [] n = n2 -> {n1, n4}
                             [] n = n3 -> {n1, n2, n4} [] OTHER -> {n2, n3}]

Client  == [n \in Nodes |-> "CLIENT"]
RouterB == [Client EXCEPT ![n2] = "ROUTER"]
Nobody  == [n \in Nodes |-> {}]
Unknown == [n \in Nodes |-> [m \in Nodes |-> NoNode]]
ViaC    == [n \in Nodes |-> [m \in Nodes |->
              IF n = m THEN NoNode ELSE IF n3 \in {n, m} THEN m ELSE n3]]

Plain(shape, to) ==
  [dest |-> to, neighbours |-> shape, role |-> Client, favorites |-> Nobody,
   route |-> Unknown, patient |-> FALSE, maxLost |-> 0, maxReboots |-> 0]

(* A broadcast where routers do not count the hop between them, with a loss;*)
(* or with a restart.                                                       *)
Routers == [Plain(Kite, Broadcast) EXCEPT !.role = RouterB,
              !.favorites = [n \in Nodes |-> Nodes \ {n}]]
(* A direct message down a line, whose timers may come too early.           *)
Direct  == [Plain(Short, n3) EXCEPT !.maxLost = 1]
(* A direct message over a known next hop that may fail or restart.         *)
Routed  == [Plain(Star, n4) EXCEPT !.route = ViaC, !.patient = TRUE,
              !.maxLost = 2, !.maxReboots = 1]

Various == {[Routers EXCEPT !.maxLost = 1], [Routers EXCEPT !.maxReboots = 1],
            Direct, Routed}

(* FairSpec with the weak fairness of System written out, in the form TLC   *)
(* checks faster: the steps of System are those that do not change reboots. *)
QuickFairSpec == Spec /\ ([]<>~CanMove \/ []<><<reboots' = reboots>>_vars)

(* The meshes of the reproductions.                                         *)
Quiet     == {[Plain(Kite, Broadcast) EXCEPT !.patient = TRUE]}
Early     == {Direct}
(* gone, which n2 takes for the next hop to n4, has left the mesh.          *)
Departed  == {[Plain(Line, n4) EXCEPT !.patient = TRUE,
                 !.route = [Unknown EXCEPT ![n1][n4] = n2, ![n2][n4] = gone]]}
Asymmetric == {[Plain(OneWay, n4) EXCEPT !.patient = TRUE, !.maxLost = 1]}
=============================================================================
