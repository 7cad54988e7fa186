\* Two connections at a time, descriptors for both, one handle too few.
CONSTANTS
    Entry = {e1, e2}
    Fd = {4, 5, 6, 7}
    Handle = {1, 2, 3}
    MaxAllowedRequests = 0
    None = None
SPECIFICATION Spec
SYMMETRY Symmetry
VIEW View
INVARIANTS
    TypeOK
    
    
    
    
    RelayedIsLive
    RequestBound
