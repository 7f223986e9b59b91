SPECIFICATION Spec
CONSTANTS
  Ids = {"a", "b"}
  Accounts = {"x"}
  Data = {"d"}
  Twins = {"a"}
  Covered = {"b"}
  Intervals = {0, 60}
  Edits = {"add", "remove", "toggle", "interval", "reorder", "account", "logout"}
  Default = 60
  MaxEdits = 2
  MaxWaiting = 1
  NotFetched = "not fetched"
  NoServers = "no servers"
  NoAccount = "no account"
  NoJob = NoJob
  NoSnapshot = NoSnapshot

PROPERTIES LogoutForgets
CHECK_DEADLOCK FALSE
