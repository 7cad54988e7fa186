\* Three descriptors for a table of two slots, one failure of epoll_ctl().
CONSTANTS
    Fd = {5, 6, 7}
    Arg = {a, b}
    MaxEvents = 2
    MaxFailures = 1
    None = None
SPECIFICATION FairSpec
INVARIANTS
    TypeOK
    HandlesOwned
    CountDrift
    FullOnlyWhenFull
PROPERTIES
    ImplementsTable
    DispatchesToOwner
    NoStarvationButBehindOne
