------------------------------ MODULE MCFiring -------------------------------
(* Instances of Firing for TLC.                                            *)
EXTENDS Firing

CONSTANTS order, note

\* Receivers 1 to 3 are order's, one of each mode; receiver 4 is note's.
ThreeAndOne == [r \in Receivers |-> IF r = 4 THEN note ELSE order]

Modes4 == [r \in Receivers |->
  CASE r = 1 -> "INLINE" [] r \in {2, 4} -> "DURABLE" [] OTHER -> "ON_COMMIT"]

\* One that marks order, and one that discards everything.
MarkingOrDiscarding ==
  {[classes |-> {order}, record |-> TRUE], [classes |-> Classes, record |-> FALSE]}

OfTheUser == [a \in Actors |-> "user:1"]

\* A request of the user's, and a job of the system's in a chain of its own.
RequestAndJob ==
  {[actor |-> "user", key |-> "", chain |-> 0], [actor |-> "", key |-> "system", chain |-> 100]}
=============================================================================
