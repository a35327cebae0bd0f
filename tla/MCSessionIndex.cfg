SPECIFICATION Spec
CONSTANTS
  Ids = {chat, local}
  Imported = {chat}
  MaxVersion = 3
  MaxCalls = 4
  MaxFaults = 2
  MaxCrashes = 1
CHECK_DEADLOCK FALSE
INVARIANTS SavedMeansDurable  ImportsAreWhole
