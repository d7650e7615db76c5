CONSTANTS
  Components = {sset, service}
  Connected = {secret}
  Referenced = {claim}
  AllowWithoutConnections = FALSE
  QueuedInBackup = FALSE
  MaxFaults = 1
SPECIFICATION FairSpec
INVARIANTS TypeOK NothingDoubled
PROPERTIES Resumes
CHECK_DEADLOCK FALSE
