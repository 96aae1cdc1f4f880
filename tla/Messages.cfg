SPECIFICATION FairSpec
CHECK_DEADLOCK FALSE
CONSTANTS
    Scenarios <- MCScenarios
    Reqs = {1}
    Callers = {c1, c2}
    PushCapacity = 2
    PushWorkers = 2
    SideCapacity = 1
    MaxMsgs = 3
    MaxFaults = 1
    MaxBreaks = 1
INVARIANTS SentAsTold UnreadKept
PROPERTIES HandsOff RepliesOnce MarkIsRight
