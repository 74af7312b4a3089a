\* Two replicas share two partitions; signals, crashes, failed calls, evictions, rebalances.
SPECIFICATION LiveSpec
CONSTANTS
  Replicas = {r1, r2}
  Partitions = {"a", "b"}
  LogEnd = 2
  Kind <- Mixed
  Auditing = TRUE
  MaxDisturbances = 2
  Many = 2
INVARIANTS
  TypeOK
  PublishedIsAudited
  DuplicatesNeedAFailure
PROPERTIES
  NeverRewinds
  ImplementsAtLeastOnce

  EventuallyCommitted
