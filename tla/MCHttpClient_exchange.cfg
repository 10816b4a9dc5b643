SPECIFICATION MCSpec
CHECK_DEADLOCK FALSE
CONSTANTS
  MaxAttempts = 3
  Timeout = 3
  ProbeTimeout = 2
  PollTimeout = 5
  BaseDelay = 3
  MaxDelay = 5
  Spread = 3
  MaxRetryAfter = 4
  Wishes <- MCWishes
INVARIANTS
  EndsInTime
  ReadyIsFound
PROPERTIES
  KeepsPromise
  Terminates
