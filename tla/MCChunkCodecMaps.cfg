SPECIFICATION Spec
CONSTANTS
  f1 = f1
  m1 = m1
  m2 = m2
  s1 = s1
  Fns = {f1}
  Maps = {m1, m2}
  Sfis = {s1}
  Chunks <- MCChunksMaps
  DebugBuild = TRUE
INVARIANT LoadFailsCleanly
CHECK_DEADLOCK FALSE
