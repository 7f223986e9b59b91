\* A disconnect may come after a connect overtook one that still waits.
SPECIFICATION LifecycleSpec
CONSTANTS
  Profile = {"node"}
  NoProfile = NoProfile
  Fallback <- MCFallback
  AutoReconnect = FALSE
  MaxAttempts = 0
  MaxQueue = 4
  MaxSleepers = 1
  MaxRecovery = 2
  KillConfirms = TRUE
  MayDisconnectAgain = TRUE
  MayUpdate = FALSE
INVARIANTS DisconnectIsFinal
CHECK_DEADLOCK FALSE
