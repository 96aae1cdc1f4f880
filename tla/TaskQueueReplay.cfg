SPECIFICATION FairSpec
CONSTANTS
    t1 = t1
    t2 = t2
    t3 = t3
    ka = ka
    kb = kb
    Tasks = {t1}
    Workers = {w1, w2}
    Callers = {c1}
    Keys = {ka}
    KeyOf <- OneKey
    KindOf <- DeleteAndPublish
    RetryOf <- NoRetries
    Delays = {0}
    RetryDelay = 1
    Lease = 1
    Concurrency = 1
    MaxCalls = 2
    NoTask = NoTask
    NoWorker = NoWorker
INVARIANTS NoReplay
PROPERTIES StaleAttemptHarmless TasksEnd
