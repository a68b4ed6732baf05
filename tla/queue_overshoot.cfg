SPECIFICATION Spec
CONSTANTS
    r1 = r1
    r2 = r2
    NoReplica = NoReplica
    Replicas <- OneReplica
    NJobs = 4
    Project <- OneProject
    Eligible <- AllEligible
    MaxPreviews = 1
    MaxConcurrent = 2
    Faults = {"teardown"}
INVARIANTS
    OvershootBounded
