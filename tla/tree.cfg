\* Pools and delegating roots under fair scheduling.
SPECIFICATION FairSpec
CONSTANTS
  MaxAgents = 3
  MaxTotalCalls = 3
  MaxRepeats = 1
  Setups <- SafeSetups
  Tools = {"x"}
  MaxBatch = 2
INVARIANTS BudgetHeld NoOrphans
PROPERTIES TreeTerminates
CHECK_DEADLOCK FALSE
