SPECIFICATION Spec
CONSTANTS
  MaxRequests = 3
  MaxMoves = 2
INVARIANT StoppedAfterHalt
CHECK_DEADLOCK FALSE
