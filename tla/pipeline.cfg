\* One ai-inference replica with one failure, and one failure further down the pipeline.
SPECIFICATION PipelineLiveSpec
CONSTANTS
  Replicas = {r1}
  Partitions = {"a"}
  LogEnd = 3
  Rows <- OnePartition
  BatchSize = 2
  MaxDisturbances = 1
  MaxGeneration = 3
  Defects <- SomeDefects
  Auditing = TRUE
  MaxMishaps = 1
INVARIANTS
  PipelineTypeOK
  NothingInBetween
  RefusalNeedsADefect
PROPERTIES
  EventuallyCommitted
  AnsweredIsSettled
