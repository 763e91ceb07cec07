----------------------------- MODULE MCDelivery -----------------------------
(* Instances of Delivery for TLC.                                          *)
EXTENDS Delivery

CONSTANTS w1, w2, t1, t2, r1, r2, v1

\* Every row of an instance belongs to one event.
OneEvent == [r \in Rows |-> v1]
=============================================================================
