\* The promise of run_control.cpp:794-796 on the same instance.
CONSTANTS
  f1 = f1
  f2 = f2
  MaxBreakpoints = 3
  MaxUserBreakpoints = 2
  Files <- MCFiles
  Addr = {0, 1, 2}
  Requests <- MCRequests
  Exits <- MCExits
SPECIFICATION Spec
INVARIANT OnlyAskedForArmed
