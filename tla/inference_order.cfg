\* The assertion of observe() against a rebalance that finds a partial batch.
SPECIFICATION Spec
CONSTANTS
  Replicas = {r1, r2}
  Partitions = {"a"}
  LogEnd = 3
  Rows <- OnePartition
  BatchSize = 2
  MaxDisturbances = 0
  MaxGeneration = 2
INVARIANT ObservedInOrder
