CONSTANTS
  NPoints <- MCNPoints
  DemandValues <- MCDemandValues
  PerPodResources = 20
  MaxReplicas = 4
  ACL = 2
  Targets <- MCTargets
  RedLineNum = 4
  RedLineDen = 5

SPECIFICATION Spec

INVARIANT TypeOK
INVARIANT SupplyBounded
PROPERTY NoOverdueTimer

CHECK_DEADLOCK FALSE
INVARIANT SimulateAgrees
