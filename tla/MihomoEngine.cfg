\* Every call of the interface: those RuntimeManager makes on Windows, and
\* restart('crashed'), which it makes with autoReconnect.
SPECIFICATION FairSpec
CONSTANTS
  Pids = {p1, p2}
  Hards = {"h1", "h2"}
  Softs = {"s1", "s2"}
  Targets = {"auto", "node"}
  AutoTarget = "auto"
  GroupOf <- MCGroupOf
  Requests <- MCRequests
  Calls = {"start", "stop", "update", "restart", "dispose"}
  NoPid = NoPid
  NoTarget = NoTarget
  NoConfig = NoConfig
  NoProfile = NoProfile
  NoKernel = NoKernel
INVARIANTS TypeOK NoOrphan CleanClassification RunningMatchesProfile EgressConverges StateIsHonest
PROPERTIES ConfigGuard ImplementsContract CallsReturn
CHECK_DEADLOCK FALSE
