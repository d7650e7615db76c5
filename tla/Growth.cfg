CONSTANTS
  a = a
  b = b
  Roles = {a}
  Packaged = {a}
  Persistent = {}
  EventList <- AllEvents
  MaxMembers = 2
  InitialSpec <- One
  SpecMoves <- Growth
  MaxChanges = 1
  MaxConnects = 1
  FaultKinds = {"restart", "exec", "script", "api"}
  MaxFaults = 1
SPECIFICATION Spec
INVARIANTS GenerationsOrdered RestingViews
