SPECIFICATION Spec
CONSTANTS
  Members = {m1}
  Slots = {s1}
  Prices = {0, 1}
  Capacities = {0, 1}
  Handlers = {h1, h2}
  None = None
INVARIANT NobodyLeftOut
CHECK_DEADLOCK FALSE
