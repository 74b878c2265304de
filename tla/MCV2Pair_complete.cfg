\* Is a pair that is shown as evaluated evaluated?
SPECIFICATION Spec
CONSTANTS
  Executions <- MCExecutions
  MaxExecutions = 2
  MaxCrashes = 0
INVARIANT CompleteIsEvaluated
CHECK_DEADLOCK FALSE
