SPECIFICATION ScannersSpec
CONSTANTS
    BitsPerByte = 2
    Unit = 10
    PlausibleMax = 100
    FrameSpan = 4
    FlushAt = 2
    Space = 12
    PageSize = 4
    Regions <- SmallRegions
    MinSkip = 4
    ThreadCount = 2
    Batch = 2
    MTFloor = 4
    Scenarios <- SmallScenarios
    Writable = {4}
    Written = {0, 1}
    CellValues = 64
    Symbols <- NoSymbols
    PtrLow = 2
    PtrHigh = 62
    ReadWindow = 5
    ResultCap = 3
    Journeys <- SmallJourneys
INVARIANTS FirstScanExact NextScanExact StoreFaithful PathsReach FollowedAlike
CHECK_DEADLOCK FALSE
