SPECIFICATION MCSpec
CONSTANTS
  Tasks = {t1}
  Workers = {w1, w2}
  Relays = {r1}
  UnguardedTasks = {}
  Null = Null
  Gone = Gone
  MaxRetries = 1
  LeaseTime = 3
  TaskTimeout = 3
  ClaimTime = 1
  RelayBackoff = 1
  RetryDelay = 1
  RetryRecovery = 2
  StaleQueued = 2
  Bucket = 2
  MaxAge = 1
  MaxRuns = 3
SYMMETRY Symmetry
INVARIANTS Recoverable QuestionIsOpen DecisionIsCarriedOut
PROPERTIES OvertakenRunsAreFenced ImplementsSafeTask
