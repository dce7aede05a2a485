CONSTANTS
    Receivers = {r1}
    Senders = {s1, s2}
SPECIFICATION Spec
INVARIANTS FiltersSeeOwnName InOrder
PROPERTY EndToEnd
CHECK_DEADLOCK FALSE
