\* One address is enough for the two threads to get into each other's way.
CONSTANTS
    Ip = {1}
    HashSize = 1
    Entry = {e1, e2, e3}
    Reserved = 2
    MaxTime = 5
    MaxAccess = 3
    None = None
SPECIFICATION Spec
SYMMETRY Symmetry
CHECK_DEADLOCK FALSE
INVARIANT CountsWindowAlways
