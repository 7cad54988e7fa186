\* The same clients, with a database that may fail.
CONSTANTS
    Ip = {p4, p6, other}
    V4 = {p4}
    WhiteList = {p4, p6}
    Servers = 2
    ConfChannel = {0, 3}
    RequestChannel = {1, 2}
    Threshold = 2
    PersistThreshold = 3
    MaxWindow = 4
    MaxHeld = 1
    None = None
SPECIFICATION Spec
INVARIANT ServedWithinThresholdUnlessVip
