\* A sweep, an operator and a report: an event as large as a batch, and one without rows.
SPECIFICATION Spec
CONSTANTS
  p1 = p1  p2 = p2  o1 = o1  q1 = q1
  Events = {1, 2}  Rows = {1}  Keys = {1, 2}
  EventOf <- FirstTwo  KeyOf <- Alternate  Policy <- Consuming
  Pruners = {p1}  Operators = {o1}  Readers = {q1}
  Size = 1  Times = {1}  Nobody = Nobody
INVARIANTS IInv
PROPERTIES KeepsPromise DeletedOnlyWhenDue
