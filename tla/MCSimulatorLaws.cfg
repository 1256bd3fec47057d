CONSTANTS
  NPoints <- MCNPoints
  DemandValues <- MCDemandValues
  PerPodResources = 20
  MaxReplicas = 6
  ACL = 2
  Targets <- MCTargets
  RedLineNum = 4
  RedLineDen = 5

SPECIFICATION Spec

INVARIANT MonotoneSafety

CHECK_DEADLOCK FALSE
