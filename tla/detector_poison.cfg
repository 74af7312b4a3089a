\* With audit files an incomplete record is never skipped.
SPECIFICATION LiveSpec
CONSTANTS
  Replicas = {r1}
  Partitions = {"a", "b"}
  LogEnd = 2
  Kind <- Mixed
  Auditing = TRUE
  MaxDisturbances = 0
  Many = 1
PROPERTY InvalidIsSkipped
