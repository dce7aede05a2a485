CONSTANTS
    Clients = {a, b, c}
    Backlog = 2
    Limit = 2
SPECIFICATION UvSpec
PROPERTIES ClientLearns ServerLearns
CHECK_DEADLOCK FALSE
