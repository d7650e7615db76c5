CONSTANTS
  Values = {v1}
  v1 = v1
  BuiltIn = v1
  Upgraded = FALSE
  MaxEdits = 0
  MaxFaults = 0
  Clusters = {c1}
  RoleNames = {"a", "b"}
  Nil = nil
  nil = nil
  MaxMembers = 3
  IntMax = 7
  MaxChanges = 2
  NodeApps <- MCNodeApps
  FirstApp <- MCFirstApp
  Requests <- MCRequests
SPECIFICATION Spec
INVARIANTS NotMisled
CHECK_DEADLOCK FALSE
