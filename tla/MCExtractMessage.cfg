SPECIFICATION Spec
CONSTANTS
    Budgets <- SomeBudgets
    Statuses = {0, 200, 304, 400, 429, 500, 599}
    Messages <- SomeMessages
    Candidates <- SomeCandidates
INVARIANTS TypeOK WaitsBounded RightDate UnflaggedIsPlausible SeriesGoesOn ShownWhenDue
PROPERTIES ImplementsModelCall
CHECK_DEADLOCK FALSE
