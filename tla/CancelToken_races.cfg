\* Waits, triggers and resets in every order, spurious wakeups and a wall
\* clock that is set included.
SPECIFICATION FairSpec
CONSTANTS
  w1 = w1
  w2 = w2
  c1 = c1
  c2 = c2
  forever = forever
  Waiters <- MCWaiters
  Controllers <- MCControllers
  Forever <- forever
  Waits <- MCFewWaits
  Chunk = 1
  MaxTime = 2
  MaxWaits = 2
  MaxCalls = 2
  MaxSpurious = 1
  MaxSteps = 1
INVARIANT
  NoLostWakeup
PROPERTIES
  ImplementsWait
  WaitsEnd
\* The threads stop when their bounds are used up.
CHECK_DEADLOCK FALSE
