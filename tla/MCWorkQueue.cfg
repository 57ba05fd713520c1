SPECIFICATION Spec
CONSTANTS
  Keys = {1, 2, 3, 4}
  Groups = {g}
  NoGroup = NoGroup
  CompactThreshold = 2
  MaxTickets = 1
  MaxMembers = 3
  MaxSize = 4
INVARIANTS NextIsLeast
PROPERTIES ImplementsOrderedQueue
