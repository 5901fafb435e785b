\* Budgets, responses and triggers.
SPECIFICATION FairSpec
CONSTANTS
  infinite = infinite
  Infinite <- infinite
  Timeouts <- MCTimeouts
  HasToken = TRUE
  HasSink = TRUE
  Poll = 2
  Slack = 1
  DefaultConnect = 5
  MaxHeaders = 2
  MaxHeaderBytes = 2
  MaxHeadersBytes = 3
  Lengths = {1, 2, 3}
  MayTunnel = TRUE
  MaxCalls = 5
  MaxTime = 6
INVARIANT
  EndsInTime
  HeadersOfFirstBlock
PROPERTIES
  ImplementsTransport
  TriggerEndsTransfer
