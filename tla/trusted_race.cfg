CONSTANTS
  w1 = w1
  w2 = w2
  Workers = {w1, w2}
  Null = Null
  Gone = Gone
  MaxRetries = 2
  MaxReads = 1
  MaxReopens = 0
  Faults = {"slow", "disconnect"}
SPECIFICATION Spec
SYMMETRY Symmetry
INVARIANTS AtMostOneEffect
CHECK_DEADLOCK FALSE
