\* Every kill is confirmed and no setting changes: recovery does its work.
SPECIFICATION LifecycleFairSpec
CONSTANTS
  Profile = {"node"}
  NoProfile = NoProfile
  Fallback <- MCFallback
  AutoReconnect = FALSE
  MaxAttempts = 0
  MaxQueue = 4
  MaxSleepers = 1
  MaxRecovery = 2
  KillConfirms = TRUE
  MayDisconnectAgain = TRUE
  MayUpdate = FALSE
INVARIANTS RecoveryIsPending
PROPERTIES FailureIsRetried RecoveryEnds
CHECK_DEADLOCK FALSE
