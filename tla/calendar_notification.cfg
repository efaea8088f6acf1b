SPECIFICATION Spec
CONSTANTS
  Proposals = {p, q}
  Created = {p}
  Calendars = {home, work}
  Home = home
  Times = {t1, t2}
  Sessions = {s1, s2}
  Keys = {k}
  None = None
  MaxVersion = 3
  MaxEtag = 3
SYMMETRY MCSymmetry
INVARIANTS NothingConfirmedUnseen
CHECK_DEADLOCK FALSE
