SPECIFICATION Spec
CONSTANTS
    Extractor = {x1}
    Reextractor = {r1}
    NumMsgs = 2
    Child = {}
    Event = {}
    Guardian = {}
    Poison = {2}
    MaxVer = 2
    Limit = 2
    MaxAttempts = 2
    AbortAfter = 2
    MaxRuns = 3
    MaxFaults = 1
INVARIANTS TypeOK RetryBudget NoDoubleExtraction VersionIsShown
CHECK_DEADLOCK FALSE
