\* Three registrations, two changes, callbacks nested two deep.
SPECIFICATION Spec
CONSTANTS
  Kinds = {"value", "timed", "end", "next", "slot", "life", "assert"}
  Nested = {"register", "remove", "change", "dispatch"}
  MaxIds = 3
  MaxChanges = 2
  MaxDepth = 2
INVARIANTS
  OneShotOnce
  RetiredLeavesNothing
  ChangesDelivered
\* The simulation may end, and callbacks may be registered no more.
CHECK_DEADLOCK FALSE
