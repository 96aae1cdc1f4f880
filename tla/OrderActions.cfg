SPECIFICATION Spec
CONSTANTS
    r1 = r1
    r2 = r2
    k1 = k1
    k2 = k2
    Requests = {r1, r2}
    Keys = {k1, k2}
    Scenarios <- MCScenarios
INVARIANTS OneWritePerKey OutcomeHonest SuccessStaysShown PreflightRespected
