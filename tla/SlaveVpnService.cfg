\* A user who waits for each command; everything else happens at any time.
SPECIFICATION FairSpec
CONSTANTS
  Tuns = {t1, t2}
  Jobs = {j1, j2}
  MaxInstances = 2
  Events = {"die", "roam", "revoke", "toggle", "alwaysOn"}
  NoTun = NoTun
  NoJob = NoJob
INVARIANTS TunnelIsReleased DisconnectClearsFlag RecoveryIsArmed
PROPERTIES KillSwitchHolds SettlesAsShown ConnectingEnds
CHECK_DEADLOCK FALSE
