SPECIFICATION FairSpec
CONSTANTS
    Threads = {main, worker}
    Initial = {main, worker}
    Main = main
    Code <- LongCode
    Flow <- LongFlow
    DebugRegs = {0}
    Moves = {"runTo", "signal", "setRegs"}
INVARIANTS TypeOK Transparent NoStrayTraps ContextCurrent
PROPERTIES TracerReturns DetachEnds
CHECK_DEADLOCK FALSE
