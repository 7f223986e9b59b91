\* One disconnect at a time; kills may time out, settings may change.
SPECIFICATION LifecycleSpec
CONSTANTS
  Profile = {"node", "other"}
  NoProfile = NoProfile
  Fallback <- MCFallback
  AutoReconnect = FALSE
  MaxAttempts = 0
  MaxQueue = 4
  MaxSleepers = 1
  MaxRecovery = 2
  KillConfirms = FALSE
  MayDisconnectAgain = FALSE
  MayUpdate = TRUE
INVARIANTS OneRecoveryAtATime DisconnectIsFinal HashIsApplied LatestRequestWins
CHECK_DEADLOCK FALSE
