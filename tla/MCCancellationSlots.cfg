SPECIFICATION Spec
CONSTANTS
  Tasks = {t1, t2, t3, t4, t5}
  MaxGeneration = 3
  NoTask = NoTask
SYMMETRY TaskSymmetry
INVARIANTS CancelledIffRequested EntryFindsItsTask CancelledNeverRuns FreeListExact
