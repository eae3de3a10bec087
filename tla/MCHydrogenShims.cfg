CONSTANTS
  Null = Null
  Garbage = Garbage
  Shims <- MCShims
  Outcomes <- MCOutcomes
SPECIFICATION Spec
INVARIANTS
  TypeOK
  ShimRoundTrip
  AlignedWhileOk
\* The codec is one-shot: Save, then Load, then the shim is in the chunk.
CHECK_DEADLOCK FALSE
