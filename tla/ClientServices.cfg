\* Nine services, one at a time.
SPECIFICATION ServicesSpec
CONSTANTS
  MaxPatches = 5
  FileIds = {"a", "b", "c"}
  FileSource <- MCFileSource
  Restarts = TRUE
  Reqs = {"r1", "r2", "r3"}
  MaxTokens = 6
  Setups <- MCSetups
  NoTokens = NoTokens
  MaxSets = 4
  MaxTries = 2
  NoRead = NoRead
  MaxStarts = 6
  NoVerdict = NoVerdict
  NoRetry = NoRetry
  Modes = {"blocked", "full"}
  DefaultMode = "blocked"
  Ops = {"o1", "o2"}
  MaxIntents = 2
  Happens = {"roam", "tile", "reload", "die", "boot", "always"}
  NoMode = NoMode
  NoOp = NoOp
  Servers = {"a", "b"}
  AutoGroup = AutoGroup
  Unseen = Unseen
  NoServer = NoServer
  Selectable = {"roscomvpn-default", "smart-russia-bypass", "ai-services"}
  Connections <- MCConnections
  MaxRules = 2
  Earlier = 149
  EarlierApps = 40
  Nodes = {"n1", "n2"}
  MaxRounds = 3
  NoNode = NoNode
INVARIANTS ListSurvives SessionIsKept NothingResurrected VerdictIsFresh ModeTakesEffect OffStaysOff NoRejectedClaim RoutesAsPromised
PROPERTIES ImplementsRegister BalancesOnlyWhenOn
CHECK_DEADLOCK FALSE
