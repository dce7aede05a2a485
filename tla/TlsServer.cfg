CONSTANTS
    Clients = {a, b}
    Backlog = 1
    Limits = {1, 2}
    MaxSent = 1
SPECIFICATION Spec
INVARIANT CtxAlive
PROPERTIES Streams StopsOutsideWindow HandshakeEnds
