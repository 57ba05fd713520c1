\* Up to six mutations, nested three deep: enough for a drop whose callback
\* raises and drops again while another drain is pending.
SPECIFICATION FairSpec
CONSTANTS
  Sources = {"test", "sequence"}
  Descriptions = {"main", "extra"}
  Reentrant = {"raised", "dropped", "all_dropped", "ready_to_end"}
  maximum_count = 2
  maximum_callback_reentries = 2
  MaxMutations = 6
  MaxDepth = 3
INVARIANTS
  DrainsExact
PROPERTIES
  LastDropEndsPhase
\* The testbench may stop calling.
CHECK_DEADLOCK FALSE
