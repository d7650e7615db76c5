CONSTANTS
  Values = {v1}
  v1 = v1
  BuiltIn = v1
  Upgraded = TRUE
  MaxEdits = 1
  MaxFaults = 1
  Clusters = {c1, c2}
  RoleNames = {"a", "b"}
  Nil = nil
  nil = nil
  MaxMembers = 2
  IntMax = 7
  MaxChanges = 3
  NodeApps <- MCNodeApps
  FirstApp <- MCFirstApp
  Requests <- MCRequests
SPECIFICATION Spec
SYMMETRY Symmetry
INVARIANTS TypeOK Conforms WithinLimits PortsComplete
PROPERTIES KeyKept AppUnchanged
CHECK_DEADLOCK FALSE
