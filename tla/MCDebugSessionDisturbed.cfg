SPECIFICATION Spec
CONSTANTS
    Threads = {main, new}
    Initial = {main}
    Main = main
    Code <- LongCode
    Flow <- LongFlow
    DebugRegs = {0}
    Moves = {"clone", "exit", "runTo"}
INVARIANTS TracedFrozen
CHECK_DEADLOCK FALSE
