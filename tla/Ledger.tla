------------------------------- MODULE Ledger -------------------------------
(***************************************************************************)
(* What retention promises of the event log: an event is deleted only once *)
(* nothing is owed on it, for good, and what is known of each receiver's   *)
(* newest success outlives the rows it was read from.                      *)
(***************************************************************************)
EXTENDS Naturals

CONSTANTS Events, Keys

VARIABLES
  kept,     \* [Events -> {"absent", "owed", "settled", "gone"}]
  newest    \* [Keys -> Nat], when each receiver last succeeded, 0 for never

vars == <<kept, newest>>

Init ==
  /\ kept = [e \in Events |-> "absent"]
  /\ newest = [k \in Keys |-> 0]

Record(e) ==
  /\ kept[e] = "absent"
  /\ kept' \in {[kept EXCEPT ![e] = s] : s \in {"owed", "settled"}}
  /\ UNCHANGED newest

\* One delivery ends, and the event may be settled by it.
Progress(e) ==
  /\ kept[e] = "owed"
  /\ kept' \in {kept, [kept EXCEPT ![e] = "settled"]}
  /\ \/ UNCHANGED newest
     \/ \E k \in Keys :
          /\ newest'[k] > newest[k]
          /\ \A other \in Keys \ {k} : newest'[other] = newest[other]

\* Events are cancelled or owed again.
Reconsider ==
  /\ \A e \in Events :
       \/ kept'[e] = kept[e]
       \/ kept[e] \in {"owed", "settled"} /\ kept'[e] \in {"owed", "settled"}
  /\ UNCHANGED newest

Delete ==
  /\ \A e \in Events : kept'[e] # kept[e] => kept[e] = "settled" /\ kept'[e] = "gone"
  /\ UNCHANGED newest

Next == (\E e \in Events : Record(e) \/ Progress(e)) \/ Reconsider \/ Delete

Spec == Init /\ [][Next]_vars
=============================================================================
