SPECIFICATION Spec
CONSTANTS
    Extractor = {x1}
    Reextractor = {r1}
    NumMsgs = 1
    Child = {}
    Event = {e1}
    Guardian = {}
    Poison = {}
    MaxVer = 1
    Limit = 2
    MaxAttempts = 2
    AbortAfter = 2
    MaxRuns = 3
    MaxFaults = 0
PROPERTIES NotRequeued
CHECK_DEADLOCK FALSE
