SPECIFICATION Spec
CONSTANTS
    j1 = j1
    j2 = j2
    Jobs <- TwoJobs
    Faults = {}
    Project <- OneProject
    Versions = 1
    Broken = {}
    TTL = 1
    FetchBound = 1
    NoEntry = NoEntry
    Settings = 1
    NoObject = NoObject
    TargetRevision = 1
    Attempts = 2
    MaxLost = 0
    NoReport = NoReport
    Namings <- OnlyOwn
    NoJob = NoJob
SYMMETRY Symmetry
CHECK_DEADLOCK FALSE
INVARIANT RollbackLedgerIsTrue
