SPECIFICATION Spec
CONSTANTS
  p1 = p1  p2 = p2
  h1 = h1  h2 = h2
  r1 = r1
  k1 = k1
  Provider = {p1, p2}
  Key = {k1}
  Handler = {h1, h2}
  Run = {r1}
  Local = {p2}
  EnvProvider = {}
  Pinned = None
  EnvKey = EnvKey
  None = None
  Keep = Keep
  MaxAttempts = 2
  MaxRepairs = 1
  StoredRows <- MCStoredRows
  MaxChanges = 2
SYMMETRY Symmetry
INVARIANTS
  SettingsTakeEffect
  OffersAreServed
  CallsAreBounded
CHECK_DEADLOCK FALSE
