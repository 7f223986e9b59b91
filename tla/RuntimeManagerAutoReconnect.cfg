\* The default options: autoReconnect true.
SPECIFICATION FairSpec
CONSTANTS
  Profile = {"auto", "node"}
  NoProfile = NoProfile
  Fallback <- MCFallback
  AutoReconnect = TRUE
  MaxAttempts = 2
  MaxQueue = 2
  MaxSleepers = 2
PROPERTIES StartsOnlyIfDesired DisconnectHolds CrashIsRetried
CHECK_DEADLOCK FALSE
