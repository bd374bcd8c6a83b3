SPECIFICATION Spec
CONSTANTS
    Pids = {1}
    RemotePid = 2
    MaxHandles = 2
    s1 = s1
    s2 = s2
    Slots = {s1, s2}
SYMMETRY SlotSymmetry
INVARIANTS
    Severed
    ScanKeepsHandle
    PausedStays
CHECK_DEADLOCK FALSE
