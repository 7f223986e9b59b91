\* The split list and the local network; the ad block beside a bypass.
SPECIFICATION RoutingSpec
CONSTANTS
  Selectable = {"smart-russia-bypass", "ad-block"}
  Connections <- MCConnections
  MaxRules = 2
  Earlier = 0
  EarlierApps = 0
INVARIANTS LocalStaysLocal AdsAreBlocked
CHECK_DEADLOCK FALSE
