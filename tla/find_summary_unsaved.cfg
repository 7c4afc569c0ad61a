\* A progressive summarizer and a conversation store together.
SPECIFICATION Spec
CONSTANTS
  Keep = 1
  TailBudget = FALSE
  MaxMessages = 0
  MaxLen = 7
  MaxSerial = 4
  MaxBatch = 1
  Setups <- SummariesSaved
  MinTarget = 2
  Marker = 1
  BatchSize = 2
  MaxItems = 2
  MaxFindings = 3
INVARIANT CrashLosesInFlightTurn
CHECK_DEADLOCK FALSE
