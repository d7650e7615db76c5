CONSTANTS
  a = a
  b = b
  Roles = {a, b}
  Packaged = {a, b}
  EventList <- FewerEvents
  Persistent = {}
  MaxMembers = 1
  InitialSpec <- OneNone
  SpecMoves <- Roles01
  MaxChanges = 2
  MaxConnects = 1
  FaultKinds = {"restart"}
  MaxFaults = 1
SPECIFICATION Spec
INVARIANTS TypeOK ReadyIsTracked
PROPERTIES GenMovesWithMembers
