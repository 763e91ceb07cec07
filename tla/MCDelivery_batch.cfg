\* Batches of two rows, one run in place and one handed to a queue.
SPECIFICATION Spec
CONSTANTS
  w1 = w1  w2 = w2  t1 = t1  t2 = t2  r1 = r1  r2 = r2  v1 = v1
  Events = {v1}  Rows = {r1, r2}  EventOf <- OneEvent
  TaskRows = {r2}  UnboundedRows = {}
  Workers = {w1, w2}  Drainers = {}  Eager = {w2}  Tasks = {t1}
  Stamps = {1}  BatchSize = 2  MaxAttempts = 1
  Verdicts = {"success", "defer"}
  NoRow = NoRow  Nobody = Nobody  NoStamp = NoStamp
INVARIANTS IInv
PROPERTIES HandBackTakesNothing
