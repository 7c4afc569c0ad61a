\* Histories of about 8 messages with batches of up to 3 calls; the two most
\* recent tool results are protected, so a batch can straddle the anchor.
SPECIFICATION Spec
CONSTANTS
  Keep = 2
  TailBudget = FALSE
  MaxMessages = 0
  MaxLen = 8
  MaxSerial = 6
  MaxBatch = 3
  Setups <- MCSetups
  MinTarget = 2
  Marker = 1
  BatchSize = 2
  MaxItems = 2
  MaxFindings = 3
INVARIANTS PairingSurvives FindingsSurvive
PROPERTIES RecentPastSurvives
CHECK_DEADLOCK FALSE
