CONSTANTS
  Null = Null
  NotFound = NotFound
  Values <- MCValues
  Exts <- MCExts
  Accessors <- MCAccessors
  DestRegistry <- MCNoDestRegistry
SPECIFICATION Spec
INVARIANT ValueRoundTrip
\* The codec is one-shot: a save, then a load, then the value is used.
CHECK_DEADLOCK FALSE
