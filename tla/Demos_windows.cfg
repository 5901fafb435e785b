SPECIFICATION Spec
CONSTANTS
  MaxTurns = 4
  PendingCap = 1
  DeltaSizes = {1, 2}
  LineCap = 1
  AutoFrames = 0
  MaxSends = 3
  MaxDeltas = 2
  Letters = {"o", "r"}
  QueueCap = 2
  NBackends = 3
  Tries = 2
  Scenario <- MCScenario
  ReplyDeltas = 1
  StreamCap = 2
  LogLines = 2
  MaxPushed = 1
  MaxFires = 2
  MaxClears = 1
INVARIANTS
  ShownAsSaid
  BelievedIsSo
  Ownership
PROPERTIES
  Closes
\* Both programs end.
CHECK_DEADLOCK FALSE
