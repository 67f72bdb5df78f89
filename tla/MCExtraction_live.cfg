SPECIFICATION FairSpec
CONSTANTS
    Extractor = {x1}
    Reextractor = {}
    NumMsgs = 3
    Child = {}
    Event = {}
    Guardian = {}
    Poison = {}
    MaxVer = 1
    Limit = 2
    MaxAttempts = 2
    AbortAfter = 2
    MaxRuns = 8
    MaxFaults = 1
INVARIANTS BudgetIsFinite
PROPERTIES QueueDrains
CHECK_DEADLOCK FALSE
