SPECIFICATION Spec
CONSTANTS
  Addrs = {a1, a2}
  Conditions = {"", "false"}
  DebugRegs = 1
  MaxRows = 1
  MaxIds = 2
  MaxEvents = 2
  MaxWatches = 2
INVARIANTS ChecksArePlanted StopShown
CHECK_DEADLOCK FALSE
SYMMETRY AddrSymmetry
CONSTRAINT Live
