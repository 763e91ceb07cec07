---------------------------- MODULE MCRetention -----------------------------
(* Instances of Retention for TLC.                                         *)
EXTENDS Retention

CONSTANTS p1, p2, o1, q1

\* Event 1 has rows 1 and 2, of receivers 1 and 2; event 2 has rows 3
\* and 4, of the same receivers.
FirstTwo == [r \in Rows |-> IF r <= 2 THEN 1 ELSE 2]
Alternate == [r \in Rows |-> IF r \in {2, 4} THEN 2 ELSE 1]

Consuming == [e \in Events |-> IF e = 1 THEN "succeeded" ELSE "settled"]
Windows == [e \in Events |-> "window"]
=============================================================================
