SPECIFICATION FairSpec
CHECK_DEADLOCK FALSE
CONSTANTS
    Accounts = {"a", "b", "c"}
    Scenarios <- MCScenarios
    Callers = {"c1"}
    MaxPool = 2
    Idle = 1
    Life = 2
    Reserved = 1
    MaxSess = 3
    MaxRows = 2
    MaxVers = 4
    MaxFaults = 2
INVARIANTS OneBrowserPerProfile AccountDesktopIsPrivate ShownIsTrue
PROPERTIES SameOwner SessionsEnd
