SPECIFICATION Spec
CONSTANTS
  Keys = {"a", "b"}
  Values = {"short", "long"}
  Hash <- MCHash
  Length <- MCLength
  LinksPerBlock = 6
  EntriesPerBlock = 1
  BUFFER = 1
  CrashesAnywhere = FALSE
  MaxCalls = 5
INVARIANTS  StoreSound
CHECK_DEADLOCK FALSE
