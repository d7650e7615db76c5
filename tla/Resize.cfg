CONSTANTS
  a = a
  b = b
  Roles = {a}
  Packaged = {a}
  Persistent = {}
  EventList <- AllEvents
  MaxMembers = 2
  InitialSpec <- Two
  SpecMoves <- ToZero
  MaxChanges = 2
  MaxConnects = 0
  FaultKinds = {"restart", "ssetDelete"}
  MaxFaults = 1
SPECIFICATION Spec
INVARIANTS RequestedPrefix RestingSsets RestingMeta RestingViewsComplete
PROPERTIES ScaleDownSparesMembers ActsAsMemberList
