SPECIFICATION Spec
CONSTANTS
  Objects = {o}
  Scopes = {home, other}
  Home = home
  Shared = {home}
  Sessions = {s1, s2}
  None = None
  MaxChange = 4
  MaxRevision = 3
SYMMETRY MCSymmetry
INVARIANTS  RemovedIsGone DirectoryIsNewest
CHECK_DEADLOCK FALSE
