\* Parallel and sequential tool rounds with transient failures, a verifier, queued
\* messages, every control call and a crash, against the synchronous loop.
SPECIFICATION Spec
CONSTANTS
  Keep = 1
  TailBudget = FALSE
  MaxMessages = 0
  FlashCap = 2
  MaxCap = 3
  Threshold = 1
  Override = 0
  HasSchema = TRUE
  SchemaRetries = 1
  HasVerifier = TRUE
  VerifyRetries = 1
  CallBudget = 3
  SpentBefore = 1
  HasStuckDetector = TRUE
  Parallel = TRUE
  MaxBatch = 2
  CanCompact = TRUE
  StoreFails = TRUE
  Faults = {"llm", "gate"}
  Controls = {"cancel", "pause", "send", "crash"}
  MaxRuns = 1
  MaxSends = 1
  MaxTransient = 1
PROPERTIES ImplementsSync
CHECK_DEADLOCK FALSE
