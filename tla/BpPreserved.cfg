\* The promise of bp_manager.h:8-10 on the same instance.
CONSTANTS
  f1 = f1
  f2 = f2
  MaxBreakpoints = 3
  MaxUserBreakpoints = 2
  Files <- MCFiles
  Addr = {0, 1, 2}
  Requests <- MCRequests
  Exits <- MCExits
SPECIFICATION Spec
INVARIANT OtherFilesPreserved
