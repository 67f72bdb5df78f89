SPECIFICATION FairSpec
CONSTANTS
    Poller = {p1}
    NumRoles = 1
    MaxId = 2
    Body = {b1}
    NoBody = nobody
    Flags <- SomeFlags
    OperatorIds = {}
    Archivable = {1}
    MaxFaults = 2
INVARIANTS TypeOK
PROPERTIES EventuallyStored HistoryNeverRestarted
