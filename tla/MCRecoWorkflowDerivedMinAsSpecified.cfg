CONSTANTS
  i1 = i1
  i2 = i2
  Iterators <- MCIterators
  Catalog <- MCCatalog
  RecoConfigs <- MCRecoConfigs
  MinReplicaInputs <- MCMinReplicaInputs
  NoPolicy = NoPolicy
  PIError = PIError
  RecoError = RecoError

SPECIFICATION Spec

INVARIANT DerivedMinAsSpecified


CHECK_DEADLOCK FALSE
