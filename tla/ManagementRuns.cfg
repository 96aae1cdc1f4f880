SPECIFICATION FairSpec
CONSTANTS
    r1 = r1
    r2 = r2
    i1 = i1
    i2 = i2
    w1 = w1
    w2 = w2
    Runs = {r1, r2}
    Items = {i1, i2}
    Clients = {"ui", "admin", "sched", "verify"}
    Workers = {w1, w2}
    Scenarios <- MCScenarios
    NoRun = NoRun
    Nobody = Nobody
    MaxFaults = 1
    MaxCrashes = 1
CHECK_DEADLOCK FALSE
INVARIANTS CatalogueIsRight LostAnswerIsTold
PROPERTIES RunsEnd
