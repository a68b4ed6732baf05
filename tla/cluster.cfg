SPECIFICATION Spec
CONSTANTS
    j1 = j1
    j2 = j2
    Jobs <- TwoJobs
    Faults = {"api", "k8s", "helm", "stop"}
    Project <- OneProject
    Versions = 2
    Broken = {2}
    TTL = 1
    FetchBound = 1
    NoEntry = NoEntry
    Settings = 1
    NoObject = NoObject
    TargetRevision = 1
    Attempts = 2
    MaxLost = 1
    NoReport = NoReport
    Namings <- BothNamings
    NoJob = NoJob
SYMMETRY Symmetry
CHECK_DEADLOCK FALSE
INVARIANTS
    DeployLedgerIsTrue
    LiveIsRecorded
    BuiltImageExists
PROPERTIES
    ClusterIsRecent
    ForeignLimitsKept
    ImplementsHistory
