SPECIFICATION FairSpec
CONSTANTS
  MaxCount = 6
  Jobs = 3
  Grain = 2
  ChunksPerWorker = 1
INVARIANTS NoIndexTwice NothingRunsAfterReturn EndsAsSerialLoop
PROPERTIES CallReturns
CHECK_DEADLOCK FALSE
