\* Liveness: two workers, no process death, any number of caught failures.
SPECIFICATION FairSpec
CONSTANTS
  RunIds = {r1, r2}
  Clients = {c1}
  Workers = {w1, w2}
  MaxAttempts = 2
  Delay <- MCDelay
  SkipLocked = TRUE
  MaxCrashes = 0
PROPERTY
  QueuedRunSettles
