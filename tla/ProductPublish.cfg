SPECIFICATION FairSpec
CONSTANTS
    t1 = t1
    t2 = t2
    k1 = k1
    k2 = k2
    c1 = c1
    w1 = w1
    w2 = w2
    Tasks = {t1, t2}
    Keys = {k1, k2}
    Callers = {c1}
    Workers = {w1, w2}
    Scenarios <- MCScenarios
    NoTask = NoTask
    NoKey = NoKey
    Nobody = Nobody
INVARIANTS OneItemPerJob OutcomeHonest ImageKept
PROPERTIES JobsEnd
