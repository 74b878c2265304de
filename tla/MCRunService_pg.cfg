\* Two workers on the Postgres store, two request threads, two process deaths.
SPECIFICATION Spec
CONSTANTS
  RunIds = {r1, r2}
  Clients = {c1, c2}
  Workers = {w1, w2}
  MaxAttempts = 3
  Delay <- MCDelay
  SkipLocked = TRUE
  MaxCrashes = 2
SYMMETRY Symmetry
INVARIANTS
  TypeOK
  ExclusiveClaim
  ClaimCurrent
  AttemptBudget
  DoneIsRecorded
  NothingForgotten
PROPERTIES
  DoneRecordFrozen
  ImplementsContract
