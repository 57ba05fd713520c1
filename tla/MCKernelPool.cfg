SPECIFICATION FairSpec
CONSTANTS
  LaneCount = 2
  EpochModulus = 3
  ClaimsPerLane = 1
  Counts = {2, 5}
  Modes = {"run", "run_lanes"}
  MixesModes = FALSE
  MaxBatches = 3
INVARIANTS RunsOnceEach
PROPERTIES EveryCallReturns PoolStops
CHECK_DEADLOCK FALSE
