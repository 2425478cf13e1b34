SPECIFICATION Spec
CONSTANTS
  MaxRequests = 3
  MaxMoves = 2
INVARIANTS
  TypeOK
  Truthful
  NoNesting
  DllExclusive
  ShadowStackAlone
  RunInv
PROPERTIES
  UninitWhenIdle
  ResumeAnswered
\* The session ends, and a client that has sent its requests may stay idle.
CHECK_DEADLOCK FALSE
