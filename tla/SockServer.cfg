CONSTANTS
    Servers = {s, t}
    Clients = {a, b}
    None = None
    Backlog = 1
    Limit = 1
    Room = 1
    MaxSent = 2
SPECIFICATION Spec
PROPERTIES Streams NameComesBack Released Freed
CHECK_DEADLOCK FALSE
