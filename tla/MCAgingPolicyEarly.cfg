CONSTANTS
  Catalog <- MCCatalog
  Age = 4
  GetFails = TRUE
  EmptyName <- MCEmptyName

SPECIFICATION Spec

PROPERTY PolicyHeldForAge
