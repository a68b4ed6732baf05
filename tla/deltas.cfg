SPECIFICATION FairSpec
CONSTANTS
    MaxEvents = 5
    MaxBytes = 3
    MaxDelta = 2
INVARIANTS
    BufferIsTimed
PROPERTIES
    ImplementsRelay
    DeltaIsForwarded
CHECK_DEADLOCK FALSE
