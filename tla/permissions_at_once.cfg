SPECIFICATION Spec
CONSTANTS
  Envs = {"lambda", "server"}
  Serial = {"lambda"}
  Lifetime = 2
  ReadLimit = 1
  LastTick = 3
  MaxChanges = 2
  Handlers = {h1, h2}
  None = None
INVARIANT AppliedAtOnce
CHECK_DEADLOCK FALSE
