----------------------------- MODULE MCChatwoot -----------------------------
EXTENDS Chatwoot

\* Copies out; copies in beside a backfill; agents' messages of every type and
\* their resolution; an agent before the mapping; deletions and recalls from
\* each side; the switches; alerts.
S(ops, types, start, m, f) ==
    [ops |-> ops, types |-> types, start |-> start, moves |-> m, faults |-> f]
MCScenarios ==
    {S({"out"}, {}, "fresh", 0, 2),
     S({"in", "meta"}, {}, "legacy", 1, 1),
     S({"agent", "resolve"}, {"both", "audio"}, "mapped", 0, 1),
     S({"agent", "in"}, {"text"}, "fresh", 0, 1),
     S({"agent", "delete"}, {"text"}, "mapped", 0, 1),
     S({"in", "recall", "delete"}, {}, "mapped", 0, 1),
     S({"out", "recall", "delete"}, {}, "mapped", 0, 0),
     S({"in", "agent", "switch"}, {"text"}, "mapped", 1, 1),
     S({"alert"}, {}, "mapped", 3, 1)}
=============================================================================
