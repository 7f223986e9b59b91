\* The calls RuntimeManager makes on Windows (autoReconnect: false).
SPECIFICATION Spec
CONSTANTS
  Pids = {p1, p2}
  Hards = {"h1", "h2"}
  Softs = {"s1", "s2"}
  Targets = {"auto", "node"}
  AutoTarget = "auto"
  GroupOf <- MCGroupOf
  Requests <- MCRequests
  Calls = {"start", "stop", "update", "dispose"}
  NoPid = NoPid
  NoTarget = NoTarget
  NoConfig = NoConfig
  NoProfile = NoProfile
  NoKernel = NoKernel
INVARIANT RunningHasProcess
CHECK_DEADLOCK FALSE
