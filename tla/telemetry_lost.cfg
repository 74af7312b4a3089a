\* One failed write against the promise that offsets follow the next stage.
SPECIFICATION TelemetrySpec
CONSTANTS
  Events <- EventIds
  At <- Times
  Flow <- FlowOf
  Packets <- PacketsOf
  Width = 2
  Lateness = 1
  IdleFlush = 1
  MaxCopies = 2
  LastArrival = 2
  MaxClock = 7
  Partitions = {"a", "b"}
  LogEnd = 2
  Batch <- Log
  Invalid <- Broken
  MayFail = {"write"}
  MaxFailures = 1
  MaxSignals = 0
INVARIANT CommittedIsCounted
