SPECIFICATION FairSpec
CONSTANTS
    Faults = {"attach", "exec", "api", "pod", "stop"}
    NoRefusal = NoRefusal
    TurnTicks = 3
    GraceTicks = 1
    Unarmed = Unarmed
    Steps = {"s1", "s2"}
    SessionsKept = TRUE
    Patience = 2
INVARIANTS
    RunsInItsBranch
    RefusalIsTruthful
    PairInTimeIsReported
    AbsenceIsEstablished
    GoodArtifactsAreKept
PROPERTIES
    WaitsEnd
