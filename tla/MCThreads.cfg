\* Two connections or clients, two loadings of the plugin; one connection to relay, whose
\* peers send two bytes each while the kernel holds one. The processes may end.
CONSTANTS
    c1 = c1
    c2 = c2
    Clients = {c1, c2}
    Conn = {c1}
    None = None
    MaxLoads = 2
    LogFile = {"absent", "string", "list"}
    Names = {"syslog", "console", "file"}
    Commands = {3}
    Capacity = 3
    Reserve = 2
    Timeout = TRUE
    MaxAsked = 2
    MaxPrints = 2
    Chunk = 2
    Window = 1
    MaxAllowedRequests = 0
    MaxBytes = 2
SPECIFICATION AllSpec
CHECK_DEADLOCK FALSE
INVARIANTS
    
    
    
    RelaySafe
 
