\* Every way to call, over a lane of two rows and a lane of a task's row.
SPECIFICATION FairSpec
CONSTANTS
  Lanes = {1, 2}  Rows = {1, 2, 3}  LaneOf <- TwoLanes
  TaskRows = {3}  Deferring = {1, 2}
  Calls <- AnyCall  SizeOf <- Sizes  MaxAttempts = 2  NoLimit = NoLimit
INVARIANTS IInv LimitSpentByAttempts LanesGetTheirShare NothingIsLeft PutOffOnce
PROPERTIES CallEnds
CHECK_DEADLOCK FALSE
