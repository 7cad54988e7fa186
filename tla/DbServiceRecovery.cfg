\* A single fault is enough.
CONSTANTS
    Configured = {"check_available", "last_insert_id"}
    MaxTried = 2
    MaxCounter = 1
    MaxFaults = 1
    Slow = FALSE
SPECIFICATION FairSpec
PROPERTY Recovers
