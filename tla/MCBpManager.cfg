\* One rebuild pushes against the limit: 2 user slots, 3 nodes, so a step-out
\* with two exits exhausts the pool.
CONSTANTS
  f1 = f1
  f2 = f2
  MaxBreakpoints = 3
  MaxUserBreakpoints = 2
  Files <- MCFiles
  Addr = {0, 1, 2}
  Requests <- MCRequests
  Exits <- MCExits
SPECIFICATION Spec
INVARIANTS TypeOK ListRepresented LoopInv DllMirror UserLimit ArmedAsPlanned
PROPERTIES HandlerCompletes KeepsPromise
