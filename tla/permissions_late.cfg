SPECIFICATION Spec
CONSTANTS
  Envs = {"lambda", "server"}
  Serial = {"lambda"}
  Lifetime = 2
  ReadLimit = 2
  LastTick = 4
  MaxChanges = 1
  Handlers = {h1, h2}
  None = None
INVARIANT WithinLifetime
CHECK_DEADLOCK FALSE
