SPECIFICATION Spec
CONSTANTS
  MaxRequests = 3
  MaxMoves = 2
INVARIANT PauseLeavesDllIdle
CHECK_DEADLOCK FALSE
