SPECIFICATION FairSpec
CONSTANTS
  Orders = {1}
  MaxTick = 1
  MaxSequence = 2
  MaxDeltaCycles = 4
  MaxEpoch = 1
  BatchChunk = 2
  UsedPhases = {0, 7}
  Calls = {"at", "after_cancelable", "cancel", "next_delta", "discard", "systemverilog_at", "systemverilog_after_cancelable", "end_of_time_slot"}
INVARIANTS EveryTaskAccountedFor SlotOwnsThePresent NoWorkStranded
PROPERTIES PostponedWorkRunsLast RunResultIsTrue EveryTaskFinishes
