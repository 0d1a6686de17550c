SPECIFICATION Spec
CONSTANTS
  s1 = s1  s2 = s2  m1 = m1  b1 = b1  b2 = b2
  None = None
  Staff = {s1, s2}
  Members = {m1}
  Branches = {b1, b2}
  Handlers = {h1, h2}
  MemberBranch <- MemberAtFirst
  FirstStaff = {s1}
  FirstMembers = {}
  FirstBranch = b1
  Teachers = {s1}
  ContractAsks = {"ACTIVE", "TERMINATED"}
INVARIANTS OpenAtHome ResignedIsGone NoOpenAtTerminated
PROPERTIES NoRegistrationAtTerminated EndedAreReported RosterSpec
SYMMETRY HandlerSymmetry
CHECK_DEADLOCK FALSE
