CONSTANTS
  Null = Null
  Garbage = Garbage
  Shims <- MCCheckValueShims
  Outcomes <- MCOutcomes
SPECIFICATION Spec
INVARIANT LoadFailsCleanly
CHECK_DEADLOCK FALSE
