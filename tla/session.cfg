SPECIFICATION FairSpec
CONSTANTS
    MaxTurns = 2
    MaxProse = 1
    EventBuffer = 1
    Forked = TRUE
    TrailsLate = FALSE
    BigPrompts = {1}
    Faults = {"setup", "create", "pod", "attach", "grace", "db", "delete", "post", "stop"}
INVARIANTS
    NoStaleEnd
    
    RunCleansUp
    EveryEndIsTold
PROPERTIES
    ImplementsTranscript
    EveryRunEnds
    CancelHeeded
CHECK_DEADLOCK FALSE
