\* One upload and two trainings; two replicas.
SPECIFICATION LiveSpec
CONSTANTS
  Uploaders = {"u1"}
  Trainings = {"t1", "t2"}
  Replicas = {"r1", "r2"}
  Artifacts = {"a", "b", "c"}
  Classes = {0, 1}
  ClassesOf <- ClassesIn
  Garbage = "garbage"
  Files <- FilesToUpload
  Fits <- FitsOf
  Base <- BaseOf
  Name <- NameOf
  Selector = "m"
  Pin = "a"
  Nothing = Nothing
  SearchSize = 2
  MaxRetries = 2
  MaxFaults = 2
INVARIANTS
  TypeOK
  LoadedIsVerified
  CorruptNeedsACollision
  AnsweredIsLoadable
PROPERTY EventuallyRunning
CHECK_DEADLOCK FALSE
