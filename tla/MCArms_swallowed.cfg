\* One part at a time; SWE-agent may swallow what a hook raises.
SPECIFICATION ArmsSpec
CONSTANTS
  Cells <- MCCells
  MaxB1Executions = 3
  MaxKills = 1
  MaxParallel = 1
  Specs <- MCSpecs
  Swallows = TRUE
  Executions <- MCExecutions
  MaxExecutions = 3
  MaxCrashes = 1
INVARIANT
  BlockIsReported
\* Each part has an end.
CHECK_DEADLOCK FALSE
