\* What comments of the code say, with a user who waits; refuted, see README.md.
SPECIFICATION FairSpec
CONSTANTS
  Tuns = {t1, t2}
  Jobs = {j1, j2}
  MaxInstances = 2
  Events = {"die", "roam", "revoke", "toggle", "alwaysOn"}
  NoTun = NoTun
  NoJob = NoJob
INVARIANTS NoDescriptorIsLost
PROPERTIES NothingIsExposed
CHECK_DEADLOCK FALSE
