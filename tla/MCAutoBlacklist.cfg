\* Addresses 1 and 3 share bucket 1, bucket 0 stays empty; the clock runs through two
\* windows.  The clock and the connections are bounded, so the system may stop.
CONSTANTS
    Ip = {1, 3}
    HashSize = 2
    Entry = {e1, e2, e3}
    Reserved = 2
    MaxTime = 5
    MaxAccess = 3
    None = None
SPECIFICATION Spec
SYMMETRY Symmetry
CHECK_DEADLOCK FALSE
INVARIANTS
    ListsIntact
    NoActiveEntryFreed
    CountsRight
