SPECIFICATION Spec
CONSTANTS
  Modes = {m1, m2}
  Nodes = {"n1"}
  AutoGroup = "AUTO"
  Subs = {"c1", "c2"}
  NodesOf <- MCNodesOf
  Ops = {o1, o2}
  Commands = {"proxy"}
  NoOp = NoOp
  NoProfile = NoProfile
  Nobody = "-"
  MayRefuse = TRUE
  MayFailToStore = FALSE
  MayChangeWhileStarting = FALSE
INVARIANTS SelectionIsRestored
SYMMETRY MCSymmetry
CHECK_DEADLOCK FALSE
