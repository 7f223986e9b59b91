\* The choice of the user outlives a reconnect: not from the cached bundle.
SPECIFICATION StoreSpec
CONSTANTS
  Servers = {"a", "b"}
  AutoGroup = AutoGroup
  Unseen = Unseen
  NoServer = NoServer
INVARIANTS SelectionPersists
CHECK_DEADLOCK FALSE
