\* One telemetry service: signals, crashes, failed writes and commits, idle heartbeats.
SPECIFICATION TelemetryLiveSpec
CONSTANTS
  Events <- EventIds
  At <- Times
  Flow <- FlowOf
  Packets <- PacketsOf
  Width = 2
  Lateness = 1
  IdleFlush = 1
  MaxCopies = 2
  LastArrival = 2
  MaxClock = 7
  Partitions = {"a", "b"}
  LogEnd = 2
  Batch <- Log
  Invalid <- Broken
  MayFail = {"crash", "write", "commit"}
  MaxFailures = 1
  MaxSignals = 1
INVARIANTS
  TelemetryTypeOK
  EveryCommittedOnce
  FilesAgree
PROPERTIES
  ImplementsAtLeastOnce
  EventuallyCounted
