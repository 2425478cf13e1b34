\* Two clients in turn; a launch that follows another one, a configurationDone
\* too many, and a resume for the next client to inherit.
SPECIFICATION Spec
CONSTANTS
  LastClient = 2
  MaxLaunches = 2
  MaxConfigs = 2
  MaxResumes = 1
INVARIANTS
  TypeOK
  StopsOwn
  EntryStopOnce
  CleanAccept
  SessionHasProgram
PROPERTIES
  FreshDll
  EntryStopArrives
\* The clients stop coming.
CHECK_DEADLOCK FALSE
