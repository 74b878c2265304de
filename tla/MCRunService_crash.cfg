\* The same liveness property once a process may die between two steps.
SPECIFICATION FairSpec
CONSTANTS
  RunIds = {r1}
  Clients = {c1}
  Workers = {w1}
  MaxAttempts = 2
  Delay <- MCDelay
  SkipLocked = TRUE
  MaxCrashes = 1
PROPERTY
  QueuedRunSettles
