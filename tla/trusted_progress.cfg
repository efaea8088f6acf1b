CONSTANTS
  w1 = w1
  Workers = {w1}
  Null = Null
  Gone = Gone
  MaxRetries = 2
  MaxReads = 2
  MaxReopens = 1
  Faults = {"disable"}
SPECIFICATION FairSpec
PROPERTIES ClaimedSettles
CHECK_DEADLOCK FALSE
