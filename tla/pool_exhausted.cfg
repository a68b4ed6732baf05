SPECIFICATION Spec
CONSTANTS
    s1 = s1
    s2 = s2
    Sessions <- Two
    PoolSize = 2
    MaxAsks = 1
    Faults = {}
INVARIANTS
    AnsweredIsDelivered
CHECK_DEADLOCK FALSE
