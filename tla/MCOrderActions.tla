--------------------------- MODULE MCOrderActions ---------------------------
(* The instance of OrderActions for TLC.                                   *)
EXTENDS OrderActions

CONSTANTS r1, r2, k1, k2

Scenario(calls, writers, moves, bargain, unreadable, lost, crashed) ==
    [calls |-> calls, writers |-> writers, moves |-> moves, conversation |-> TRUE,
     bargain |-> bargain, unreadable |-> unreadable, faults |-> lost, crashes |-> crashed]

\* Two requests with one key, among all writers, an answer lost and a crash.
SameKey ==
    Scenario({r1, r2} \X {"free_shipping"} \X {k1}, {"sched", "list", "message"}, {"pay"},
             TRUE, TRUE, 1, 1)
\* An operation races refreshes that asked the platform before it.
Refreshes ==
    Scenario({r1} \X {"confirm_shipping", "close_order", "rate_buyer"} \X {k1},
             {"ui", "sched"}, {"pay", "deliver", "receive", "cancel"}, FALSE, FALSE, 0, 0)
\* The buyer claims a refund between the look at the order and the write.
Refunds ==
    Scenario({r1} \X {"refuse_refund", "close_order", "offline_shipping", "rate_buyer"}
                \X {k1, k2},
             {"sched"}, AllMoves, TRUE, FALSE, 0, 0)
\* The write is rejected, or its answer lost, or its cookies are not merged.
Rejected ==
    Scenario({r1} \X {"close_order"} \X {k1}, {}, {"cancel"}, FALSE, FALSE, 1, 0)
MCScenarios == {SameKey, Rejected, Refreshes, Refunds}
=============================================================================
