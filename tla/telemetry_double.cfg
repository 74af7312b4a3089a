\* One failed commit against the promise that duplicates do not double count.
SPECIFICATION TelemetrySpec
CONSTANTS
  Events <- EventIds
  At <- Times
  Flow <- FlowOf
  Packets <- PacketsOf
  Width = 2
  Lateness = 1
  IdleFlush = 1
  MaxCopies = 2
  LastArrival = 2
  MaxClock = 7
  Partitions = {"a", "b"}
  LogEnd = 2
  Batch <- Log
  Invalid <- Broken
  MayFail = {"commit"}
  MaxFailures = 1
  MaxSignals = 0
INVARIANT FlowsAddUp
