SPECIFICATION Spec
CONSTANTS
  Threads = {1, 2}
  Born = {1}
  Finders = {"hw", "st", "sw", "trace"}
  Calls = {"alloc", "inject", "thread"}
  MaxSignals = 1
  MaxTouches = 2
  MaxSteps = 1
  MaxStarts = 2
  MaxCalls = 1
  Candidates = 2
  Passes = 6
INVARIANTS LeftClean HitsAreAccesses
PROPERTIES FindersHarmless
CHECK_DEADLOCK FALSE
