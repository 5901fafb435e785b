\* The wall clock is set once while a thread sleeps.
SPECIFICATION Spec
CONSTANTS
  w1 = w1
  w2 = w2
  c1 = c1
  c2 = c2
  forever = forever
  Waiters <- MCWaiters
  Controllers <- MCControllers
  Forever <- forever
  Waits <- MCWaits
  Chunk = 1
  MaxTime = 2
  MaxWaits = 1
  MaxCalls = 0
  MaxSpurious = 0
  MaxSteps = 1
INVARIANT
  SleepEndsByDeadline
\* The threads stop when their bounds are used up.
CHECK_DEADLOCK FALSE
