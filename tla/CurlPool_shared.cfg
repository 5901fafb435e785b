\* Three calls that may all be in the pool at once.
SPECIFICATION FairPoolSpec
CONSTANTS
  a = a
  b = b
  c = c
  h1 = h1
  h2 = h2
  h3 = h3
  none = none
  Calls <- MCCalls
  Handles <- MCHandles
  Cap = 2
  None <- none
INVARIANTS
  HandlesAreOwn
  Accounted
PROPERTIES
  TransientOnlyWhenFull
  CallsReturn
\* A destroyed transport is not called.
CHECK_DEADLOCK FALSE
