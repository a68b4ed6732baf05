SPECIFICATION Spec
CONSTANTS
    r1 = r1
    r2 = r2
    NoReplica = NoReplica
    Replicas <- TwoReplicas
    NJobs = 2
    Project <- OneProject
    Eligible = {1}
    MaxPreviews = 1
    MaxConcurrent = 2
    Faults = {"db", "teardown", "stop"}
SYMMETRY Symmetry
INVARIANTS
    TypeOK
    SingleRunner
    SlotsAccounted
PROPERTIES
    ImplementsRegistry
    ImplementsLifecycle
