CONSTANTS
  Positions = {1, 2}
  Codes <- MCCodes
  Base = 4
  IntWidth = 1
  SizeWidth = 2
  MaxAllocs = 3
  DebugBuild = TRUE
  CrashInWrite = TRUE
SPECIFICATION Spec
INVARIANT ReadStaysInBuffer
