\* Three meters with two, one and one flows; one of them may die and one may fail.
SPECIFICATION LiveSpec
CONSTANTS
  Meters = 3
  Flows <- TwoAndOne
  Capacity = 2
  Limits = {0, 2}
  MaxKills = 1
  MaxFailures = 1
INVARIANTS
  TypeOK
  OutcomeIsTrue
  YieldedInOrder
PROPERTY EventuallyEnds
CHECK_DEADLOCK FALSE
