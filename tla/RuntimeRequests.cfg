SPECIFICATION FairSpec
CONSTANTS
    p1 = p1
    p2 = p2
    wd = wd
    Callers = {p1, wd}
    Watchdog = wd
    Ops = {"start", "startAll", "restart", "stop", "enable", "disable", "delete"}
    MaxFaults = 2
INVARIANTS NeverMuted OnlineShown
PROPERTIES RuntimeGoesOn
