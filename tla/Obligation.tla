----------------------------- MODULE Obligation -----------------------------
(***************************************************************************)
(* What the outbox promises of a delivery, without claims, leases or       *)
(* workers: once it is owed it is discharged at most once, and its effect  *)
(* and its verdict appear in the same step.  Only an operator opens it     *)
(* again.                                                                  *)
(***************************************************************************)
EXTENDS Naturals

CONSTANTS Rows   \* the deliveries

VARIABLES
  state,    \* "absent", "owed", or how the delivery was settled
  effects   \* effects of the receiver that stand since it was last opened

vars == <<state, effects>>

Settled == {"succeeded", "dead", "orphaned", "cancelled"}

Init ==
  /\ state = [r \in Rows |-> "absent"]
  /\ effects = [r \in Rows |-> 0]

\* Recorded by fire, or opened (again) by replay or requeue.
Open(r) ==
  /\ state[r] \in Settled \cup {"absent"}
  /\ state'[r] = "owed" /\ effects'[r] = 0

\* The receiver's work and its acknowledgement.
Discharge(r) ==
  /\ state[r] = "owed" /\ effects[r] = 0
  /\ state'[r] = "succeeded" /\ effects'[r] = 1

\* Dead-lettered, orphaned or withdrawn: settled with no effect.
Drop(r) ==
  /\ state[r] = "owed" /\ effects[r] = 0
  /\ state'[r] \in Settled \ {"succeeded"} /\ effects'[r] = 0

Stay(r) == state'[r] = state[r] /\ effects'[r] = effects[r]

\* One statement may change many deliveries.
Next == \A r \in Rows : Open(r) \/ Discharge(r) \/ Drop(r) \/ Stay(r)

Spec == Init /\ [][Next]_vars
=============================================================================
