\* Two connections, either of which may become active while it is examined.
CONSTANTS
    Entry = {e1, e2}
    Fd = {4, 5, 6, 7}
    Handle = {1, 2, 3}
    MaxAllowedRequests = 0
    None = None
SPECIFICATION Spec
INVARIANT ExpiredWasIdle
