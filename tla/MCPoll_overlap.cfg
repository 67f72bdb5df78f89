SPECIFICATION Spec
CONSTANTS
    Poller = {p1, p2}
    NumRoles = 1
    MaxId = 3
    Body = {b1}
    NoBody = nobody
    Flags <- DefaultFlags
    OperatorIds = {0}
    Archivable = {}
    MaxFaults = 1
INVARIANTS Contiguous EmittedOnce StreamedUnlessFault
PROPERTIES ImplementsFeed
