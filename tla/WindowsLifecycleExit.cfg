\* The application quits.
SPECIFICATION LifecycleSpec
CONSTANTS
  Profile = {"node"}
  NoProfile = NoProfile
  Fallback <- MCFallback
  AutoReconnect = FALSE
  MaxAttempts = 0
  MaxQueue = 4
  MaxSleepers = 1
  MaxRecovery = 2
  KillConfirms = TRUE
  MayDisconnectAgain = FALSE
  MayUpdate = FALSE
INVARIANTS ProxyIsOffAfterExit
CHECK_DEADLOCK FALSE
