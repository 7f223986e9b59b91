SPECIFICATION Spec
CONSTANTS
  Modes = {m1, m2}
  Nodes = {"n1"}
  AutoGroup = "AUTO"
  Subs = {"c1", "c2"}
  NodesOf <- MCNodesOf
  Ops = {o1, o2}
  Commands = {"disconnect", "mode", "proxy", "offline", "subs", "profile", "crash"}
  NoOp = NoOp
  NoProfile = NoProfile
  Nobody = "-"
  MayRefuse = TRUE
  MayFailToStore = TRUE
  MayChangeWhileStarting = FALSE
INVARIANTS RunsWhatIsAsked ShownIsReal
SYMMETRY MCSymmetry
CHECK_DEADLOCK FALSE
