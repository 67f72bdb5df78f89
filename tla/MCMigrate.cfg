SPECIFICATION FairSpec
CONSTANTS
    Opener = {p1, p2}
    m1 = m1
    Msg = {m1, m2}
    Event = {e1, e2}
    About <- AboutOne
    MaxRuns = 3
    MaxFaults = 1
INVARIANTS TypeOK AttachedWhole OrphansExplained BackfillIsOldest
PROPERTIES AttachedOnce Attaches
CHECK_DEADLOCK FALSE
