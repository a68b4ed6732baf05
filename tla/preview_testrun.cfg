SPECIFICATION FairSpec
CONSTANTS
    build = build
    test = test
    Jobs <- BuildAndTest
    TestRuns <- OnlyTest
    Faults = {}
PROPERTIES
    TestRunIsServed
CHECK_DEADLOCK FALSE
