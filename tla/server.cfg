SPECIFICATION ServerFairSpec
CONSTANTS
  h1 = h1
  h2 = h2
  h3 = h3
  Handlers = {h1, h2, h3}
  None = none
  MaxConcurrent = 2
  MaxRunRecords = 2
  RateWindow = 1
  MaxNow = 2
  Settings <- MCSettings
INVARIANTS TurnsDoNotInterleave DrainHonoured
PROPERTIES EveryoneLeaves
CHECK_DEADLOCK FALSE
