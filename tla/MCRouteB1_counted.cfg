\* One execution, no death.
SPECIFICATION B1Spec
CONSTANTS
  Cells <- MCCells
  MaxB1Executions = 1
  MaxKills = 0
  MaxParallel = 1
INVARIANT
  CountedRepSawPayload
