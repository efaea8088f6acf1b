\* Two controllers, two attempts of two dumps, two psql processes, two faults.
SPECIFICATION Spec
CONSTANTS
  None = None
  Maint = Maint
  c1 = c1
  c2 = c2
  d1 = d1
  d2 = d2
  Controllers <- MCControllers
  Dumps <- MCDumps
  MaxAttempts = 2
  MaxCalls = 2
  MaxReopens = 2
  MaxFaults = 2
INVARIANT RestoresAlone
INVARIANT VerdictsTrue
INVARIANT OpenIsWhole
INVARIANT NextIsLetIn
PROPERTY ImplementsSafeRestore
SYMMETRY Symmetry
CHECK_DEADLOCK FALSE
