\* An error the poll has seen is shown: not when it is the error of before.
SPECIFICATION StoreSpec
CONSTANTS
  Servers = {"a", "b"}
  AutoGroup = AutoGroup
  Unseen = Unseen
  NoServer = NoServer
INVARIANTS FailureIsSeen
CHECK_DEADLOCK FALSE
