\* Two processes of the design, up to two forked ones; the puts are bounded
\* so that a full mailbox, a waiting reader and a waiting writer all occur.
SPECIFICATION Spec
CONSTANTS
  Processes = {1, 2, 3, 4}
  Roots = {1, 2}
  Designs <- SoundDesigns
  Branches = {0, 1, 2}
  MaxEpoch = 1
  Capacity = 1
  Keys = 0
  Requests = {1, 2}
  MaxKeys = 2
  MaxPuts = 2
INVARIANTS
  NoProcessStranded
  NoSpuriousWake
  KilledFamiliesEnd
  MailboxFair
  SemaphoreFair
\* A design may end, or wait for ever for what nobody does.
CHECK_DEADLOCK FALSE
