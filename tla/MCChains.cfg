\* One chain at a time; the bounds of each are in MCChains.
SPECIFICATION ChainsSpec
CONSTANTS
  Missing = Missing
  None = None
  CandidateFiles <- MCCandidateFiles
  Trajectories <- MCTrajectories
  Outcomes <- MCOutcomes
  Roots <- MCRoots
  TargetPairs = 2
  MaxCalls = 5
  MaxStageDeaths = 1
  MaxEvaluations = 1
  Pairs <- MCPairs
  TaskOf <- MCTaskOf
  Classes <- MCClasses
  RefLists <- MCRefLists
  V1TargetPairs = 2
  MaxRows = 2
  MaxFaults = 1
  Files <- DiagnosedFiles
  ArmReports <- MCArmReports
  ROLE_POLICY_QUOTAS <- MCQuotas
  MAX_PER_FAMILY <- MCPerFamily
  CallLimit = 1
  MainTarget = 2
  MinPairs = 1
  MaxPairs = 2
  MaxSteps = 2
  MaxDeaths = 1
INVARIANTS
  AdmittedWasFresh
  AdmissionIsGrounded
  AdmittedReplayIsScreened
  PassedChainIsPrepared
  PlanIsFair
  HooksFireOnTime
  ReadyIsTreated
PROPERTY
  NoStageDisagrees
\* The bounds are spent.
CHECK_DEADLOCK FALSE
