\* The default policy: nothing is retried after bytes were delivered.
SPECIFICATION CancelSpec
CONSTANTS
  N = 2
  MaxTries = 2
  ValidationRetries = 1
  AfterDeltas = FALSE
  HasToken = TRUE
  HasValidator = TRUE
  Assisted = {1}
  RawJson = TRUE
  Policy <- MCPolicy
  Outcomes <- MCOutcomes
INVARIANTS
  CommitRule
  AttemptBudget
  NoPrematureFallback
  StatusTellsRecords
  CancelStopsTrips
PROPERTIES
  ImplementsChain
  CallReturns
