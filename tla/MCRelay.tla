------------------------------- MODULE MCRelay -------------------------------
(* Instances of Relay for TLC.                                             *)
EXTENDS Relay

CONSTANTS w1, w2

\* The first relay serves every lane; the second, where there is one, lane 1.
EveryLane == [w \in Relays |-> IF w = w1 THEN Lanes ELSE {1}]

Sizes == [l \in Lanes |-> IF l = 1 THEN 2 ELSE 1]

\* Row 3 and those after it are in the second lane.
FirstTwo == [r \in Rows |-> IF r <= 2 THEN 1 ELSE 2]
=============================================================================
