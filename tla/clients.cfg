SPECIFICATION ClientsSpec
CONSTANTS
  Desks = {"server", "browser", "loads", "admin", "requests"}
  Accounts = {a1}
  Tokens = {t1, t2, t3}
  Handlers = {h1, h2}
  None = None
  MaxChanges = 1
  Tabs = {w1}
  MaxOpens = 2
  MaxLosses = 1
  Users = {u1, u2}
  Loads = {f1, f2}
  Lifetime = 2
  LastTick = 2
  MaxVersion = 1
  MaxReloads = 2
  MaxWrites = 2
  Sites = {b1, b2}
  MaxMoves = 2
SYMMETRY Symmetric
INVARIANTS NoNeedlessRefusal RestoreSafe ReloadIsNew ShownAfterWrite DecidedAsKnown
PROPERTIES RevokedStays SessionsAreKeyRings
CHECK_DEADLOCK FALSE
