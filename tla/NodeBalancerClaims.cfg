\* What the balancer's comments claim of names, samples and the stored switch.
SPECIFICATION BalancerSpec
CONSTANTS
  Nodes = {"n1", "n2"}
  MaxRounds = 3
  NoNode = NoNode
INVARIANTS SavedIsDone
PROPERTIES FreshNames SamplesMoveOn
CHECK_DEADLOCK FALSE
