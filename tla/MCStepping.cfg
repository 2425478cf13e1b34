CONSTANTS
  SymbolReach = 40
  LineReach = 8
  PrologueReach = 8
  UpperCase <- MCUpperCase
  DefaultLevels = 2
  Images <- MCImages
  MaxDepth = 2
  MaxFrames = 5
  NextMoves = 3
  InMoves = 3
  NextScan = 20
  InScan = 8
  OutScan = 40
  FunctionCap = 20
  MaxLine = 99
SPECIFICATION Spec
INVARIANTS TypeOK NextStaysUp StepInGoesDownOnce StepOutReturns BreakpointEndsStep ShadowAccurate TracePages
PROPERTY StepEnds
