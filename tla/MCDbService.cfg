\* Four queries are configured: a query that reconnects, the row of a connection, its id, and
\* an insert into another table. MaxTried and MaxCounter stand for 60 and 20.
CONSTANTS
    Configured = {"check_available", "established", "begin", "last_insert_id", "not_allowed"}
    MaxTried = 3
    MaxCounter = 1
    MaxFaults = 3
    Slow = FALSE
SPECIFICATION FairSpec
INVARIANTS
    NoUseAfterClose
    ConnectionAgrees
    RightRowIfBegun
PROPERTIES
    OperationEnds
    RecoversAfterIdle
