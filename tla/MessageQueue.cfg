CONSTANTS
    Producers = {p}
    Consumers = {c}
    MaxMsg = 2
    MaxCount = 4
SPECIFICATION Spec
INVARIANT OnlyLastLost
PROPERTIES Streams StopOutsideWindow Received
