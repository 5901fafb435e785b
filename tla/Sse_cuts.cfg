\* Streams cut into chunks at every place, and streams against a limit.
SPECIFICATION Spec
CONSTANTS
  CR = CR
  LF = LF
  Colon = Colon
  Space = Space
  Data = Data
  Text = Text
  bom1 = bom1
  bom2 = bom2
  bom3 = bom3
  Bom <- MCBom
  Settings <- MCSettings
  MaxChunk = 3
INVARIANTS
  EventsOfStream
  LimitIsExact
\* The stream ends.
CHECK_DEADLOCK FALSE
