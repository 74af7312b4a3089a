\* Two replicas share two partitions; signals, crashes, failed calls, evictions, rebalances.
SPECIFICATION Spec
CONSTANTS
  Replicas = {r1, r2}
  Partitions = {"a", "b"}
  LogEnd = 2
  Rows <- TwoPartitions
  BatchSize = 2
  MaxDisturbances = 1
  MaxGeneration = 2
SYMMETRY Symmetry
INVARIANTS
  IdleOwesNothing
  DuplicatesNeedACause
PROPERTIES
  ImplementsAtLeastOnce
  RewindsNeedARebalance
