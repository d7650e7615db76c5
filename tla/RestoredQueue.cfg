CONSTANTS
  Components = {sset, service}
  Connected = {secret}
  Referenced = {claim}
  AllowWithoutConnections = FALSE
  QueuedInBackup = TRUE
  MaxFaults = 0
SPECIFICATION FairSpec
PROPERTIES Resumes
CHECK_DEADLOCK FALSE
