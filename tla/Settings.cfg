CONSTANTS
  Values = {v1, v2}
  BuiltIn = v2
  Upgraded = TRUE
  MaxEdits = 3
  MaxFaults = 2
SPECIFICATION FairSettings
INVARIANTS SettingsTypeOK KeyIsStored StaysEditable
PROPERTIES SettingsArrive ActsAsRegister
CHECK_DEADLOCK FALSE
