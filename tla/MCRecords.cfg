\* One part at a time.
SPECIFICATION RecordsSpec
SYMMETRY Symmetry
CONSTANTS
  Scripts <- WithUnknownTool
  Policies <- MCPolicies
  Workspaces <- MCWorkspaces
  Files = {f1, f2}
  Contents = {a, b, c}
  Absent = Absent
  MaxWrites = 2
  MaxOps = 4
  s1 = s1  s2 = s2
  Candidates <- MCCandidates
  States = {s1, s2}
  Endings <- MCEndings
  Replay = 1
  MaxQueries = 2
  MaxExecutions = 3
  MaxDeaths = 1
  MaxEvaluations = 1
  MaxEdits = 1
  None = None
  NoFile = NoFile
  Places <- MCPlaces
  Dataset <- MCDataset
  EffectLabels = {"control_only"}
  Mentions <- MCMentions
  MaxInstances = 2
  MaxReports = 2
  MaxCommands = 3
  MaxKills = 1
  NoSummary = NoSummary
  PairEvidence <- MCPairEvidence
  BatchTarget = 2
  MaxBatch = 3
INVARIANTS
  TraceIsRecord
  CutTraceIsSound
  ReplayFindsTheCut
  ChangesAreAccounted
  RestoreIsProved
  InjectedAtTheFork
  LabelIsComparable
  HarvestIsUnseen
  LiveIsClean
  BatchRuleHolds
\* A run has ended, or the bounds are spent.
CHECK_DEADLOCK FALSE
