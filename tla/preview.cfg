SPECIFICATION FairSpec
CONSTANTS
    build = build
    test = test
    Jobs <- BuildAndTest
    TestRuns <- OnlyTest
    Faults = {"bringup", "register", "teardown", "crash", "replace"}
INVARIANTS
    PreviewServes
    TornDownIsGone
PROPERTIES
    ImplementsRegistry
    RegisteredIsCollected
CHECK_DEADLOCK FALSE
