SPECIFICATION Spec
CONSTANTS
    Extractor = {x1}
    Reextractor = {}
    NumMsgs = 1
    Child = {}
    Event = {e1}
    Guardian = {}
    Poison = {1}
    MaxVer = 1
    Limit = 2
    MaxAttempts = 2
    AbortAfter = 2
    MaxRuns = 3
    MaxFaults = 0
INVARIANTS BudgetIsFinite
CHECK_DEADLOCK FALSE
