------------------------- MODULE MCBrowserSessions -------------------------
EXTENDS BrowserSessions

MCScen(o, e, s, f, n, v) ==
    [ops |-> o, exists |-> e, scan |-> s, faults |-> f, sess |-> n, vers |-> v]
\* Three account browsers; a browser beside edits and renewals; verifications;
\* a login by poll and by browser, of a new account and of one that is edited;
\* a login, a browser and a deletion; an API that dies, with
\* account browsers, one verification, and those of two accounts.
MCScenarios == {
    MCScen({"vnc"}, {"a", "b", "c"}, "a", 0, 3, 1),
    MCScen({"vnc", "edit"}, {"a"}, "a", 0, 2, 4),
    MCScen({"ver", "edit", "identity"}, {"a"}, "a", 1, 0, 3),
    MCScen({"qr", "poll"}, {}, "new", 0, 0, 3),
    MCScen({"qr", "edit"}, {"a"}, "a", 0, 0, 4),
    MCScen({"vnc", "qr", "identity"}, {"a"}, "a", 0, 1, 2),
    MCScen({"vnc", "delete", "renew"}, {"a"}, "a", 0, 1, 2),
    MCScen({"qr", "delete"}, {"a"}, "a", 0, 0, 3),
    MCScen({"vnc", "crash", "stop", "ticket"}, {"a", "b"}, "a", 1, 3, 1),
    MCScen({"ver", "crash"}, {"a"}, "a", 2, 0, 3),
    MCScen({"ver", "crash", "stop"}, {"a", "b"}, "a", 1, 0, 1)}
=============================================================================
