SPECIFICATION FairSpec
CONSTANT Clients = {c1, c2, c3}
INVARIANTS TypeOK NoStrandedCaller
PROPERTIES ImplementsService EveryCallReturns
CHECK_DEADLOCK FALSE
