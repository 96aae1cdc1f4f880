-------------------------- MODULE MCManagementRuns --------------------------
(* A small instance of ManagementRuns for TLC.                             *)
EXTENDS ManagementRuns

CONSTANTS r1, r2, i1, i2, w1, w2

Scenario(o, b, f, i, with) == [ops |-> o, by |-> b, full |-> f, items |-> i, with |-> with]
MCScenarios == {
    Scenario({"sync", "delete"}, {"ui"}, {TRUE}, {i1}, {}),
    Scenario({"sync"}, {"ui"}, {TRUE}, {i1}, {"seller"}),
    Scenario({"sync"}, {"sched"}, {FALSE, TRUE}, {i1}, {}),
    Scenario({"offline"}, {"ui", "verify"}, {FALSE}, {i1}, {"crash"}),
    Scenario({"offline"}, {"ui"}, {FALSE}, {i1, i2}, {}),
    Scenario({"sync"}, {"ui", "verify"}, {FALSE}, {i1}, {"publish"}),
    Scenario({"polish"}, {"ui"}, {FALSE}, {i1}, {}),
    Scenario({"polish"}, {"sched", "admin"}, {FALSE}, {i1, i2}, {}),
    Scenario({"bought"}, {"sched", "admin"}, {TRUE}, {}, {"crash"}),
    Scenario({"sold"}, {"ui"}, {FALSE, TRUE}, {}, {"crash"})}
=============================================================================
