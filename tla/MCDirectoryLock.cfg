SPECIFICATION LockSpec
CONSTANTS
  w = w
  x = x
  y = y
  z = z
  Contenders = {w, x, y, z}
  Processes = {w, x, y, z}
  ProcessOf <- Separate
  MaxAttempts <- Once
  Faults = {"crash"}
  MaxFaults = 1
SYMMETRY Interchangeable
INVARIANT MutualExclusion
CHECK_DEADLOCK FALSE
