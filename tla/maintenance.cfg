SPECIFICATION MCSpec
CONSTANTS
  Messages = {m1, m2}
  MaxMishaps = 2
  Hosts = {h1, h2}
  Nowhere = Nowhere
  MaxRuns = 2
  Daily = 1
  Weekly = 1
  DaysPerWeek = 2
  MaxDay = 1
  MaxFailures = 2
  Pairs = {p1, p2}
  Commands = {c1, c2}
  None = None
  Life = 2
  Margin = 1
  MaxTime = 1
  MaxAttempts = 2
SYMMETRY MCSymmetry
INVARIANTS NextIsAdmitted IdentityHolds NothingLabelled MarkerIsWhole NewestStays LegacyIsMarked NextPlanWorks
CHECK_DEADLOCK FALSE
