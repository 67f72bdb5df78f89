SPECIFICATION IngestSpec
CONSTANTS
    Poller = {p1}
    Ingester = {q1}
    SyncBodies = {"fetched"}
    NumRoles = 1
    MaxId = 2
    Body = {b1}
    NoBody = nobody
    Flags <- DefaultFlags
    OperatorIds = {}
    Archivable = {}
    MaxFaults = 2
INVARIANTS GapsAreLostLines MarkIsStored
