SPECIFICATION Spec
CONSTANTS
    Extractor = {x1, x2}
    Reextractor = {r1}
    NumMsgs = 1
    Child = {c1}
    Event = {e1, g1}
    Guardian = {g1}
    Poison = {}
    MaxVer = 1
    Limit = 2
    MaxAttempts = 2
    AbortAfter = 2
    MaxRuns = 2
    MaxFaults = 1
SYMMETRY Symmetry
INVARIANTS AnswerIsCurrent ReachesLinkedChildren
PROPERTIES ImplementsGenerations
CHECK_DEADLOCK FALSE
