\* Up to four executions of the two arms and two process deaths.
SPECIFICATION Spec
CONSTANTS
  Executions <- MCExecutions
  MaxExecutions = 4
  MaxCrashes = 2
INVARIANTS
  LabelIsEarned
  ScorecardIsEvidenced
PROPERTIES
  AssemblyIsDecided
\* A pair with its label, or with nothing left to execute, stops.
CHECK_DEADLOCK FALSE
