SPECIFICATION ExtSpec
CONSTANTS
  w1 = w1
  w2 = w2
  Workers = {w1, w2}
  Owner = owner
  None = none
  Denied = {w2}
  Setups <- MCSetups
  MaxGens = 2
  Libraries <- MCLibraries
  Isolations = {"docker", "in-process"}
  BreakerSettings <- MCBreakerSettings
  Cooldown = 2
  MaxTicks = 7
  MaxApproved = 2
  Installers = {1, 2}
  Installations <- MCInstallations
  MaxEntries = 7
  MaxTotal = 7
  MaxScan = 2
  MaxCrashes = 1
  ToolCalls <- MCToolCalls
  ToolTimeout = 2
  ToolMaxTimeout = 3
  RunTimeout = 1
  SearchTimeout = 2
  MaxResults = 2
  MaxRgLines = 3
  RgLines = 4
INVARIANTS AnswerIsOwn MismatchHasCause BadPluginsContained  NothingLeftBehind BreakerHolds InstalledIsVetted
PROPERTIES CallsReturn
CHECK_DEADLOCK FALSE
