SPECIFICATION FairSpec
CONSTANTS
    s1 = s1
    s2 = s2
    Sessions <- Two
    PoolSize = 4
    MaxAsks = 1
    Faults = {"db"}
INVARIANTS
    AnsweredIsDelivered
    NoLostWakeup
    ConnectionToSpare
PROPERTIES
    ReplyArrives
    CancelArrives
CHECK_DEADLOCK FALSE
