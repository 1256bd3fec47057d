CONSTANTS
  NPoints <- MCNPoints
  DemandValues <- MCDemandValues
  PerPodResources = 20
  MaxReplicas = 3
  ACL = 1
  TargetRanges <- MCTargetRanges
  RedLineNum = 4
  RedLineDen = 5

SPECIFICATION Spec

INVARIANT BestScoredOnItsOwn

CHECK_DEADLOCK FALSE
