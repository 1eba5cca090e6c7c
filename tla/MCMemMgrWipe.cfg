SPECIFICATION Spec
CONSTANTS
  Maps <- MCMaps
  ModLists <- MCModListsValid
  KernelAt = 1
  KernelSize = 1
  Limit = 16
  BlkCount = 5
  EntsSize = 1
  Share = 2
  Parts = 4
INVARIANTS WipesUnused
CHECK_DEADLOCK FALSE
