SPECIFICATION FairSpec
CONSTANTS
    r1 = r1
    r2 = r2
    NoReplica = NoReplica
    Replicas <- OneReplica
    NJobs = 3
    Project <- OneProject
    Eligible <- Mixed
    MaxPreviews = 1
    MaxConcurrent = 2
    Faults = {"teardown"}
PROPERTIES
    RunningEnds
    OthersKeepFlowing
    QueuedIsClaimed
