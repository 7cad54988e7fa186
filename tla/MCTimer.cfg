\* Descriptors for two connections. The process may end.
CONSTANTS
    e1 = e1
    e2 = e2
    Fd = {4, 5, 6, 7}
    None = None
SPECIFICATION AllSpec
CHECK_DEADLOCK FALSE
 
PROPERTY IdleExpires
