SPECIFICATION MCFairSpec
CONSTANTS
  Tasks = {t1}
  Workers = {w1}
  Relays = {r1}
  UnguardedTasks = {}
  Null = Null
  Gone = Gone
  MaxRetries = 1
  LeaseTime = 2
  TaskTimeout = 3
  ClaimTime = 1
  RelayBackoff = 1
  RetryDelay = 1
  RetryRecovery = 2
  StaleQueued = 2
  Bucket = 2
  MaxAge = 0
  MaxRuns = 1
PROPERTIES Settles
