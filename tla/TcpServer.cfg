CONSTANTS
    Clients = {a, b}
    Fds = {4}
    None = None
    Backlog = 1
    MaxSent = 2
SPECIFICATION Spec
INVARIANTS OwnSocket NoDescriptorLost
PROPERTIES Streams StopsOutsideWindow AllReceived ClientLearns
