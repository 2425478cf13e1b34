SPECIFICATION Spec
CONSTANTS
  MaxRequests = 3
  MaxMoves = 2
PROPERTY DropUninitWhenIdle
CHECK_DEADLOCK FALSE
