-------------------------- MODULE MCProductPublish --------------------------
(* The instance of ProductPublish for TLC.                                 *)
EXTENDS ProductPublish

CONSTANTS t1, t2, k1, k2, c1, w1, w2

Op(op, key, mode) == [op |-> op, key |-> key, mode |-> mode]

\* A job and its retry, two workers, lost answers and a crash.
Jobs ==
    [ops |-> {Op("job", k1, "platform_api"), Op("retry", k2, "platform_api"),
              Op("enqueue", NoKey, "platform_api")},
     cleanup |-> FALSE, tasks |-> Tasks, workers |-> Workers, faults |-> 2, crashes |-> 1]

OneTask(ops, cleanup) ==
    [ops |-> ops, cleanup |-> cleanup, tasks |-> {t1}, workers |-> {w1}, faults |-> 0,
     crashes |-> 0]
\* A draft is published while its image is being removed.
Images == OneTask({Op("draftQueued", NoKey, "platform_api"), Op("hide", NoKey, "platform_api")},
                  TRUE)
\* One key for the two endpoints of a draft; jobs that are hidden.
Drafts == OneTask({Op("draft", k1, "platform_api"), Op("draftQueued", k1, "manual_export")},
                  FALSE)
Hidden == OneTask({Op("job", k2, "platform_api"), Op("hide", NoKey, "platform_api")}, TRUE)

MCScenarios == {Jobs, Images, Drafts, Hidden}
=============================================================================
