CONSTANTS
  Null = Null
  NotFound = NotFound
  Values <- MCLocalSymbolValues
  Exts <- MCExts
  Accessors <- MCAccessors
  DestRegistry <- MCDestRegistry
SPECIFICATION Spec
INVARIANT FailsCleanly
\* The codec is one-shot: a save, then a load, then the value is used.
CHECK_DEADLOCK FALSE
