SPECIFICATION Spec
CONSTANTS
  Accounts = {a1}
  Tokens = {t1, t2, t3}
  Handlers = {h1, h2}
  None = None
  MaxChanges = 1
SYMMETRY Symmetric
INVARIANT ChangeEndsSessions
