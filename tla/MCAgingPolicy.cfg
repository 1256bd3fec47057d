CONSTANTS
  Catalog <- MCCatalog
  Age = 4
  GetFails = FALSE
  EmptyName <- MCEmptyName

SPECIFICATION Spec

INVARIANT TypeOK
PROPERTY PolicyHeldForAge
PROPERTY AgingProgress
PROPERTY NeverRegresses
