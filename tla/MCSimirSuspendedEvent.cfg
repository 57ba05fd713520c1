\* One process waits for the event, the other suspends and resumes it.
SPECIFICATION Spec
CONSTANTS
  Processes = {1, 2, 3, 4}
  Roots = {1, 2}
  Designs <- SuspendedWaiters
  Branches = {0, 1, 2}
  MaxEpoch = 1
  Capacity = 1
  Keys = 0
  Requests = {1, 2}
  MaxKeys = 2
  MaxPuts = 2
\* A design may end, or wait for ever for what nobody does.
CHECK_DEADLOCK FALSE
INVARIANT NoProcessStranded
