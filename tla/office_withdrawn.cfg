SPECIFICATION OfficeSpec
CONSTANTS
  Desks = {"accounts"}
  Handlers = {h1, h2}
  None = None
  Branches = {i1, i2}
  AttendanceDays = 2
  MaxMoves = 1
  Corrections <- SmallCorrections
  LeaveDays = {1, 2, 3}
  Leaves = {k1, k2, k3}
  LeaveAsks <- SmallLeaveAsks
  Members = {m1, m2}
  Accounts = {i1, i2}
  Emails = {i1, i2}
  AtDesk = {m1}
  Paths = {k1, k2, k3}
  Files = {k1, k2, k3}
  PerPost = 2
  Dates = {1, 2}
  FirstTerm <- SmallFirstTerm
  Terms <- SmallTerms
  Fixes <- SmallFixes
  LastDay = 3
  MaxRounds = 2
  Retention = 1
  ContractAsks = {"ACTIVE", "TERMINATED"}
  Visitors = {m1}
  Slots = {m1}
  Prices = {0, 1}
  Capacities = {0, 1}
  Envs = {"lambda", "server"}
  Serial = {"lambda"}
  Lifetime = 2
  ReadLimit = 1
  LastTick = 3
  MaxChanges = 2
  ChangeIds = {i1, i2}
  Names = {"n1", "n2"}
  AssetIds = {i1, i2}
  AssetMoves = 2
  RoomSizes = {2, 3}
  Counts = {0, 3}
  SupportIds = {m1}
  Handling = {"q1", "q2"}
  Docs = {i1, i2}
  Enrollments = {m1}
  Packages = {m1}
  PackageSizes = {1, 2}
  PostIds = {m1}
  MaxEdits = 2
SYMMETRY Symmetric
INVARIANT WithdrawnCannotLogIn
CHECK_DEADLOCK FALSE
