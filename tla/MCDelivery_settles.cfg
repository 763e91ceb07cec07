\* Liveness: a row two workers claim, one of them draining, and only a task runs.
SPECIFICATION FairSpec
CONSTANTS
  w1 = w1  w2 = w2  t1 = t1  t2 = t2  r1 = r1  r2 = r2  v1 = v1
  Events = {v1}  Rows = {r1}  EventOf <- OneEvent
  TaskRows = {r1}  UnboundedRows = {}
  Workers = {w1, w2}  Drainers = {w2}  Eager = {}  Tasks = {t1}
  Stamps = {1}  BatchSize = 1  MaxAttempts = 2
  Verdicts = {"success", "failure", "defer"}
  NoRow = NoRow  Nobody = Nobody  NoStamp = NoStamp
PROPERTIES OwedIsSettled
