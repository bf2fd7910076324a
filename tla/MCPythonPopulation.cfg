SPECIFICATION Spec
CONSTANTS
  NAME <- MCName
  Versions <- MCVersions
  PLATFORMS <- MCPlatforms
  Mac = "macosx_"
  Machines <- MCMachines
  Host = "manylinux"
  Dists <- MCDists
  None = None
  Killings = 2
CHECK_DEADLOCK FALSE
INVARIANT StagedIsPopulation
