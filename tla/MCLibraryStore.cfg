\* Three commands of two writers, four artifacts, one crash or I/O error.
SPECIFICATION Spec
CONSTANTS
  x = x
  y = y
  Contenders = {x, y}
  Processes = {x, y}
  ProcessOf <- Separate
  MaxAttempts <- Attempts
  Faults = {"crash", "io"}
  MaxFaults = 1
  Outputs <- MCOutputs
  NeedsOf <- MCNeedsOf
  Vhdl <- MCVhdl
  PrimaryOf <- MCPrimaryOf
  Groupings <- MCGroupings
  MaxRevisions = 4
INVARIANTS RecordsBacked NoRecordObsolete
PROPERTIES RecoveryDeletesOnlyStaleLocks NoGarbageAfterCollection
CHECK_DEADLOCK FALSE
