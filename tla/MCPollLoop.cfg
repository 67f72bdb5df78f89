SPECIFICATION FairSpec
CONSTANTS
    Child = {c1, c2}
    Unnamed = unnamed
    Wanted = {}
    DeadAnswers = {"envelope", "page"}
    GiveUp = 5
    MaxFaults = 4
INVARIANTS TypeOK LateRequests ZeroMeansAll LoggedOutOnlyIfRefused
PROPERTIES ImplementsSupervisor Recovers StopsWhenAsked
CHECK_DEADLOCK FALSE
