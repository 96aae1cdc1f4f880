SPECIFICATION FairRenewal
CHECK_DEADLOCK FALSE
CONSTANTS
    Clients = {p1}
    Scenarios <- MCScenarios
    AttemptIds = {a1, a2}
    NoAttempt = NoAttempt
    MaxCrashes = 1
INVARIANTS OperatorCookieKept LoginNeedsTwoChecks AttemptsTracked
PROPERTIES RenewalGoesOn
