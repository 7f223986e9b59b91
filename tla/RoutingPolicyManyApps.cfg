\* The 42nd application of the split list comes after the first rule of the user.
SPECIFICATION RoutingSpec
CONSTANTS
  Selectable = {"roscomvpn-default", "smart-russia-bypass", "ai-services"}
  Connections <- MCConnections
  MaxRules = 2
  Earlier = 0
  EarlierApps = 41
INVARIANTS RoutesAsPromised
CHECK_DEADLOCK FALSE
