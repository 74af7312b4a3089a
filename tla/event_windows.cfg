\* Four snapshots in any order, two of them twice as far apart as a window is wide.
SPECIFICATION Spec
CONSTANTS
  Events <- EventIds
  At <- Times
  Flow <- FlowOf
  Packets <- PacketsOf
  Width = 2
  Lateness = 1
  IdleFlush = 1
  MaxCopies = 2
  LastArrival = 4
  MaxClock = 6
INVARIANTS
  EverySnapshotOnce
  WindowsAddUp
PROPERTIES
  DrainedIntoItsTarget
  OnTimeIsNotLate
CHECK_DEADLOCK FALSE
