CONSTANTS
  w1 = w1
  Workers = {w1}
  Null = Null
  Gone = Gone
  MaxRetries = 2
  MaxReads = 2
  MaxReopens = 1
  Faults = {"loss", "slow", "read", "database", "budget", "disable", "disconnect",
            "cleanup"}
SPECIFICATION Spec
INVARIANTS NoFalseFailure
PROPERTIES ImplementsSafeAction
CHECK_DEADLOCK FALSE
