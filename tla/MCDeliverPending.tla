--------------------------- MODULE MCDeliverPending --------------------------
(* Instances of DeliverPending for TLC.                                    *)
EXTENDS DeliverPending

\* Rows 1 and 2 in the first lane, the others in the second.
TwoLanes == [r \in Rows |-> IF r <= 2 THEN 1 ELSE 2]

Sizes == [l \in Lanes |-> 3 - l]

AnyCall == [limit: {2, 3, NoLimit}, told: BOOLEAN, ignore_backoff: BOOLEAN]
=============================================================================
