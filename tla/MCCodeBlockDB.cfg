CONSTANTS
  Positions = {1, 2}
  Codes <- MCCodes
  Base = 4
  IntWidth = 1
  SizeWidth = 2
  MaxAllocs = 3
  DebugBuild = TRUE
  CrashInWrite = TRUE
SPECIFICATION Spec
INVARIANT TypeOK
INVARIANT NoDanglingCode
INVARIANT DisposeSafe
PROPERTY PersistRoundTrip
CHECK_DEADLOCK FALSE
