CONSTANTS
  a = a
  b = b
  Roles = {a}
  Packaged = {a}
  Persistent = {}
  EventList <- AllEvents
  MaxMembers = 2
  InitialSpec <- Two
  SpecMoves <- ToZero
  MaxChanges = 2
  MaxConnects = 0
  FaultKinds = {"restart", "exec", "crash"}
  MaxFaults = 1
SPECIFICATION FairSpec
PROPERTIES Converges
