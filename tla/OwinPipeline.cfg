SPECIFICATION Spec
CONSTANTS
  LastStage = 3
  MaxEntries = 4
INVARIANTS
  OnePipelineRuns
  MiddlewareOnTime
  CleanupInReverse
PROPERTIES
  RequestEnds
