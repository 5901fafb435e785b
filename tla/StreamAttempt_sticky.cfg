\* A caller without on_delta: nothing is ever delivered.
SPECIFICATION Spec
CONSTANTS
  Cap = 2
  ExcerptMax = 2
  Modes = {TRUE}
  Replies <- MCReplies
  Events <- MCFewEvents
  Accumulate = TRUE
  HasDelta = FALSE
  AfterDeltas = FALSE
  MaxAttempts = 2
  MaxEvents = 2
INVARIANT
  TooBigOnItsOwn
\* The call is over when its round trips are.
CHECK_DEADLOCK FALSE
