\* Two calls on one queue, one token and one clock.
SPECIFICATION FairSpec
CONSTANTS
  infinite = infinite
  call1 = call1
  call2 = call2
  Infinite <- infinite
  Calls = {call1, call2}
  HasToken = TRUE
  HasSink = TRUE
  Responses <- MCResponses
  Timeouts <- MCTimeouts
  Chunk = 2
  FirstCap = 1
  MaxRead = 1
  MaxPushed = 2
INVARIANTS
  PlaysScript
PROPERTIES
  ImplementsTransport
  CallsReturn
