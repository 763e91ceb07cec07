\* Two relays share a lane whose receiver defers.
SPECIFICATION Spec
CONSTANTS
  w1 = w1  w2 = w2
  Relays = {w1, w2}  Daemons = {w1}  Lanes = {1}  Rows = {1, 2}
  Served <- EveryLane  SizeOf <- Sizes  LaneOf <- FirstTwo
  Deferring = {1}  TaskRows = {2}  MaxPause = 1
  Tasks = Tasks  Nobody = Nobody
INVARIANTS IInv HoldsNothingBetweenTurns RecordsTellThePauses
PROPERTIES PausedLaneRests
