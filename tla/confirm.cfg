\* Sequential and parallel rounds, with and without a recorder and crashes.
SPECIFICATION Spec
CONSTANTS
  Keep = 5
  TailBudget = FALSE
  MaxMessages = 0
  Setups <- SafeSetups
  MaxBatch = 3
  MaxCalls = 4
  MaxResumes = 3
INVARIANTS ResumedHistoryValid NoUnapprovedExecution ExecutedAtMostOnce
CHECK_DEADLOCK FALSE
