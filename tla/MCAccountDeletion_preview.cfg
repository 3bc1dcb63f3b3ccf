SPECIFICATION Spec
CONSTANTS
    a = a
    b = b
    c = c
    Old = Old
    Nobody = Nobody
    Requests = {a}
    Kinds <- PreviewOnly
    Starts <- OneComing
    MaxAttempts = 1
CHECK_DEADLOCK FALSE
INVARIANT PreviewRemovesNothing
