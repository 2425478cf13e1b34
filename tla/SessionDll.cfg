SPECIFICATION Spec
CONSTANTS
  LastClient = 2
  MaxLaunches = 2
  MaxConfigs = 2
  MaxResumes = 1
PROPERTY DllFreshEachSession
CHECK_DEADLOCK FALSE
