SPECIFICATION Spec
CONSTANTS
  LastClient = 2
  MaxLaunches = 2
  MaxConfigs = 2
  MaxResumes = 1
INVARIANT NextSessionFresh
CHECK_DEADLOCK FALSE
