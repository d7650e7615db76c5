CONSTANTS
  a = a
  b = b
  Roles = {a}
  Packaged = {a}
  Persistent = {a}
  EventList <- AllEvents
  MaxMembers = 2
  InitialSpec <- Two
  SpecMoves <- Resizing
  MaxChanges = 2
  MaxConnects = 0
  FaultKinds = {"restart", "script", "crash", "exec"}
  MaxFaults = 1
SPECIFICATION Spec
INVARIANTS FreshMemberFreshDisk
PROPERTIES ConfiguredMeansDone ConfigureOncePerContainer RetryFromScratch
