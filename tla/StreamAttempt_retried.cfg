\* Round trips retried after deltas, the answer accumulated.
SPECIFICATION Spec
CONSTANTS
  Cap = 3
  ExcerptMax = 2
  Modes = {TRUE, FALSE}
  Replies <- MCReplies
  Events <- MCEvents
  Accumulate = TRUE
  HasDelta = TRUE
  AfterDeltas = TRUE
  MaxAttempts = 3
  MaxEvents = 3
INVARIANTS
  ResultIsLastAnswer
  AbortIsExplained
  CallbackIsHeeded
\* The call is over when its round trips are.
CHECK_DEADLOCK FALSE
