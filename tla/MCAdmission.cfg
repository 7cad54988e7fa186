\* An IPv4 and an IPv6 client of the white list and a client outside it; the counter goes
\* past both thresholds; channels 2 and 3 are no servers.
CONSTANTS
    Ip = {p4, p6, other}
    V4 = {p4}
    WhiteList = {p4, p6}
    Servers = 2
    ConfChannel = {0, 3}
    RequestChannel = {2}
    Threshold = 2
    PersistThreshold = 3
    MaxWindow = 4
    MaxHeld = 1
    None = None
SPECIFICATION Spec
VIEW View
INVARIANTS
    TypeOK
    ServedWithinThreshold
    BlacklistedServedOnce
    
    
