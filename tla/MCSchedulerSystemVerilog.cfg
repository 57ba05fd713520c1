SPECIFICATION Spec
CONSTANTS
  Orders = {1, 2}
  MaxTick = 0
  MaxSequence = 3
  MaxDeltaCycles = 2
  MaxEpoch = 0
  BatchChunk = 2
  UsedPhases = {0, 2}
  Calls = {"systemverilog_batchable", "next_delta_batchable", "reserve", "running_active", "at", "stop"}
INVARIANTS CycleLimitHolds
PROPERTIES StopIsPrompt FrozenBatchRunsToCompletion DeltaAdvancesWhenSettled ActiveReceiptExact StartsInKeyOrder
