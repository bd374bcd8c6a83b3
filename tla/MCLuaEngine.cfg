SPECIFICATION Spec
CONSTANTS
  Pids = {p1, p2}
  Nil = Nil
  Fns = {f, g}
  Tids = {t1, t2}
  MaxHandles = 3
  MaxObjects = 2
  MaxDepth = 3
  MaxStops = 2
  MaxCalls <- MCMaxCalls
INVARIANTS
  RefsOwned
  ScriptsUseLive
  StopAccounted
SYMMETRY Symmetry
CHECK_DEADLOCK FALSE
