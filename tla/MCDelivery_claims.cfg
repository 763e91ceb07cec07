\* Two workers churning over one row run in place, every verdict and operation.
SPECIFICATION Spec
CONSTANTS
  w1 = w1  w2 = w2  t1 = t1  t2 = t2  r1 = r1  r2 = r2  v1 = v1
  Events = {v1}  Rows = {r1}  EventOf <- OneEvent
  TaskRows = {}  UnboundedRows = {}
  Workers = {w1, w2}  Drainers = {w2}  Eager = {}  Tasks = {}
  Stamps = {1, 2}  BatchSize = 1  MaxAttempts = 2
  Verdicts = {"success", "failure", "permanent", "defer", "not_yet", "orphan"}
  NoRow = NoRow  Nobody = Nobody  NoStamp = NoStamp
INVARIANTS CommittedOnce
PROPERTIES VerdictStands AttemptsCountOutcomes LiveClaimsAreKept ImplementsObligation
