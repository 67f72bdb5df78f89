SPECIFICATION Spec
CONSTANTS
    Poller = {p1}
    NumRoles = 2
    MaxId = 2
    Body = {b1, b2}
    NoBody = nobody
    Flags <- DefaultFlags
    OperatorIds = {}
    Archivable = {}
    MaxFaults = 1
INVARIANTS OneBodyPerPass EmittedIsStored
