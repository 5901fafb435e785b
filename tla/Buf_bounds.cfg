\* Every sequence of appends, resets, takes and frees.
SPECIFICATION FairBufSpec
CONSTANTS
  SizeMax = 15
  Initial = 2
  Limits <- MCLimits
INVARIANTS
  InBounds
PROPERTIES
  ErrorsTell
  OperationsEnd
