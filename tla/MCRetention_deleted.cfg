\* Liveness: two sweeps that are stopped and die, over events with windows of
\* their own, one of them as large as a batch.
SPECIFICATION FairSpec
CONSTANTS
  p1 = p1  p2 = p2  o1 = o1  q1 = q1
  Events = {1, 2}  Rows = {1, 2, 3}  Keys = {1, 2}
  EventOf <- FirstTwo  KeyOf <- Alternate  Policy <- Windows
  Pruners = {p1, p2}  Operators = {}  Readers = {}
  Size = 2  Times = {1}  Nobody = Nobody
INVARIANTS BatchBounded NoWaitCycle
PROPERTIES DueIsDeleted
