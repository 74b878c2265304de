\* One part at a time: two cells, prescriptions of both protocols, a v1 pair.
SPECIFICATION ArmsSpec
CONSTANTS
  Cells <- MCCells
  MaxB1Executions = 3
  MaxKills = 1
  MaxParallel = 1
  Specs <- MCSpecs
  Swallows = TRUE
  Executions <- MCExecutions
  MaxExecutions = 3
  MaxCrashes = 1
INVARIANTS
  LeakIsVoid
  VerdictIsOfTheRuns
  GenerationIsConstrained
  JudgedOnThePast
  AssemblyIsSound
  V1LabelIsEarned
\* Each part has an end.
CHECK_DEADLOCK FALSE
