SPECIFICATION Spec
CONSTANTS
  m1 = m1  m2 = m2  m3 = m3  s1 = s1  p1 = p1  b1 = b1  b2 = b2
  None = None
  Members = {m1, m2}
  Slots = {s1}
  Programs = {p1}
  Branches = {b1}
  Rsv = {r1, r2, r3}
  Handlers = {h1, h2}
  ProgramOf <- OneProgramOf
  BranchOf <- OneBranchOf
  HomeBranch <- AllHome
  Reservable = {p1}
  Paid = {p1}
  Capacity <- OneSeat
  StartAt <- StartsAtTwo
  Deadline = 2
  DayHours = 3
  MaxNow = 2
  ProgramAsks = {"RUNNING", "PAUSED", "ENDED"}
  ContractAsks = {"TERMINATED"}
INVARIANTS Capacities PaymentAgrees
PROPERTIES NoBookingAtTerminated ProgramLifecycle LedgerSpec
SYMMETRY RowSymmetry
CHECK_DEADLOCK FALSE
