\* Parallel tool rounds, structured output and answer verification with
\* correction rounds, a budget, queued messages and a failing store, under fair
\* scheduling of the run thread.
SPECIFICATION FairSpec
CONSTANTS
  Keep = 1
  TailBudget = TRUE
  MaxMessages = 0
  FlashCap = 2
  MaxCap = 3
  Threshold = 1
  Override = 0
  HasSchema = TRUE
  SchemaRetries = 1
  HasVerifier = TRUE
  VerifyRetries = 1
  CallBudget = 3
  SpentBefore = 1
  HasStuckDetector = TRUE
  Parallel = TRUE
  MaxBatch = 2
  CanCompact = TRUE
  StoreFails = TRUE
  Faults = {"llm", "gate"}
  Controls = {"cancel", "pause", "send"}
  MaxRuns = 1
  MaxSends = 1
INVARIANTS HistoryReplayValid RejectedAnswerHeld RequestsBounded PauseTakesEffect
PROPERTIES RunEnds
CHECK_DEADLOCK FALSE
