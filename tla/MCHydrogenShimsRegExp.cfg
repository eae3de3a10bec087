CONSTANTS
  Null = Null
  Garbage = Garbage
  Shims <- MCRegExpShims
  Outcomes <- MCRegExpOutcomes
SPECIFICATION Spec
INVARIANT LoadFailsCleanly
CHECK_DEADLOCK FALSE
