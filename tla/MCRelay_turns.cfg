\* One relay, two lanes, a receiver that defers for ever.
SPECIFICATION FairSpec
CONSTANTS
  w1 = w1  w2 = w2
  Relays = {w1}  Daemons = {w1}  Lanes = {1, 2}  Rows = {1, 2, 3}
  Served <- EveryLane  SizeOf <- Sizes  LaneOf <- FirstTwo
  Deferring = {1}  TaskRows = {3}  MaxPause = 1
  Tasks = Tasks  Nobody = Nobody
INVARIANTS LanesShareTheRelay
PROPERTIES NoLaneStarves StopEnds
