\* The user does not wait, and the network changes.
SPECIFICATION FairSpec
CONSTANTS
  Tuns = {t1, t2, t3}
  Jobs = {j1, j2, j3}
  MaxInstances = 2
  Events = {"roam", "impatient"}
  NoTun = NoTun
  NoJob = NoJob
INVARIANTS DisconnectClearsFlag
CHECK_DEADLOCK FALSE
