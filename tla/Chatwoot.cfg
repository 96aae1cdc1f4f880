SPECIFICATION FairSpec
CHECK_DEADLOCK FALSE
CONSTANTS
    Scenarios <- MCScenarios
    Locals = {1}
    States = {"online", "offline"}
    Retries = 2
    MaxCw = 4
    MaxMoves = 3
    MaxFaults = 2
INVARIANTS CopiedOnce NotedOnce RecallAsTold AgentTakesOver
PROPERTIES SyncEnds
