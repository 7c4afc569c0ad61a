\* Sequential tool rounds under cancellation, crashes and compaction; two runs
\* of one conversation.  Threshold < FlashCap < MaxCap as 3 < 5 < 50 in the code.
SPECIFICATION Spec
CONSTANTS
  Keep = 1
  TailBudget = FALSE
  MaxMessages = 0
  FlashCap = 3
  MaxCap = 4
  Threshold = 2
  Override = 0
  HasSchema = FALSE
  SchemaRetries = 0
  HasVerifier = FALSE
  VerifyRetries = 0
  CallBudget = 0
  SpentBefore = 0
  HasStuckDetector = TRUE
  Parallel = FALSE
  MaxBatch = 2
  CanCompact = TRUE
  StoreFails = FALSE
  Faults = {"llm"}
  Controls = {"cancel", "crash"}
  MaxRuns = 2
  MaxSends = 0
INVARIANTS HistoryReplayValid CrashLosesOneTurn
PROPERTIES MaxIsSticky
CHECK_DEADLOCK FALSE
