\* Up to five entries, one failing write.
SPECIFICATION EventsSpec
CONSTANTS
  Runners = {"main", "sub"}
  Configs <- MCConfigs
  MaxEntries = 5
  MaxFaults = 1
INVARIANTS SpansNest ReplayRepeats
PROPERTIES SoloCallsAreSaved
CHECK_DEADLOCK FALSE
