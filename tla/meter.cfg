\* Two flow keys, four packets with or without data, two captures; the broker stores, refuses or stays silent.
SPECIFICATION LiveSpec
CONSTANTS
  Keys = {"k1", "k2"}
  Times <- PacketTimes
  IdleTimeout = 3
  ActiveTimeout = 5
  Interval = 1
  ScanInterval = 2
  ScanBudget = 1
  FlushRate = 4
  CleanupFlush = 2
  MaxPending = 2
  Sources = 2
  MaxPackets = 4
INVARIANTS
  TypeOK
  EveryPacketInOneFlow
  ScanMissesNothing
  SendsAreChecked
  SnapshotsAdvance
PROPERTIES
  ImplementsFlowSource
  EventuallyEnds
CHECK_DEADLOCK FALSE
