SPECIFICATION Spec
CONSTANTS
  Keep = 1
  TailBudget = FALSE
  MaxMessages = 0
  Setups <- SomeSetups
  Profiles <- ThreeProfiles
  MaxRetries = 1
  Errors <- SomeErrors
  Turns <- SomeTurns
  Histories <- ValidHistories
  MaxCalls = 2
INVARIANTS TurnDelivered FallbackExhausted WirePaired
CHECK_DEADLOCK FALSE
