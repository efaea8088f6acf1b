SPECIFICATION Spec
CONSTANTS
  Workers = {r, w}
  Writers = {w}
  Attempts = {a1, a2}
  Capabilities = {"mail.read", "mail.send"}
  Reads <- MCReads
  Needs <- MCNeeds
  Uses <- MCUses
  Nobody = Nobody
  MaxGrants = 2
  MaxGeneration = 2
SYMMETRY MCSymmetry
INVARIANTS DeadTokenFenced
PROPERTIES NoSpentGrant StaleCallbackHarmless NoRevival
CHECK_DEADLOCK FALSE
