\* The 152nd rule of the user shares its place with a scenario.
SPECIFICATION RoutingSpec
CONSTANTS
  Selectable = {"roscomvpn-default", "smart-russia-bypass", "ai-services"}
  Connections <- MCConnections
  MaxRules = 2
  Earlier = 150
  EarlierApps = 0
INVARIANTS RoutesAsPromised
CHECK_DEADLOCK FALSE
