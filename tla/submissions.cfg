SPECIFICATION MCSpec
CONSTANTS
  Proposals = {p, q}
  Created = {p}
  Calendars = {home, work}
  Home = home
  Times = {t1, t2}
  Sessions = {s1, s2}
  Keys = {k}
  None = None
  MaxVersion = 2
  MaxEtag = 3
  Drafts = {d}
  Conns = {c1, c2}
  CreationKeys = {n}
  SubmitKeys = {k1, k2}
  Generations = {g}
  MaxMailVersion = 3
  MaxTasks = 2
  MaxItemVersion = 4
  MaxRequests = 3
SYMMETRY MCSymmetry
INVARIANTS ConfirmedIsShown FrozenIsCurrent MailFrozenIsCurrent RevocationComplete NothingLost DefiniteIsTrue
PROPERTIES OverwritesOnlyShown RestoreStartsFresh
CHECK_DEADLOCK FALSE
