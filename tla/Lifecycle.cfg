CONSTANTS
  MaxEffects = 1
  MaxEdits = 1
  MaxHashes = 1
  MaxFaults = 1
SPECIFICATION Spec
INVARIANTS TypeOK SyncsOnLatest NobodyLockedOut Released
PROPERTIES AppKept
CHECK_DEADLOCK FALSE
