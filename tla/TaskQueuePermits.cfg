SPECIFICATION Spec
CONSTANTS
    t1 = t1
    t2 = t2
    t3 = t3
    ka = ka
    kb = kb
    Tasks = {t1, t2, t3}
    Workers = {w1}
    Callers = {c1}
    Keys = {ka, kb}
    KeyOf <- TwoKeys
    KindOf <- WebhookRetryPublish
    RetryOf <- RetryT2
    Delays = {0}
    RetryDelay = 1
    Lease = 1
    Concurrency = 1
    MaxCalls = 2
    NoTask = NoTask
    NoWorker = NoWorker
INVARIANTS WorkerLeaksNothing
