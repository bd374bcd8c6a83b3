SPECIFICATION Spec
CONSTANTS
  N = 10
  InitMem <- MCMem
  InitProt <- MCProt
  Chunk = 3
  RowSizes = {1, 2}
  Align = 2
  VisRows = 1
  DisRows = 2
  ExtraRows = 1
  Lookback = 3
  Notch = 1
  ScrollSteps = 3
  FillBytes = {3}
  Patterns <- MCPatterns
  GotoTargets = {0, 3}
  Rips = {4}
  TargetWrites <- MCTargetWrites
  MaxWrites = 1
  MaxHistory = 1
  MaxInUse = 2
CONSTRAINT FewInUse
PROPERTIES FindExact MenuActsOnCapture
CHECK_DEADLOCK FALSE
