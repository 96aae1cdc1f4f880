---------------------------- MODULE MCTaskQueue ----------------------------
(* Small instances of TaskQueue for TLC.                                   *)
EXTENDS TaskQueue

CONSTANTS t1, t2, t3, ka, kb

\* Two tasks of one account and none of another.
OneKey == [t \in Tasks |-> ka]
\* t1 has the account ka, every other task its own key.
TwoKeys == [t \in Tasks |-> IF t = t1 THEN ka ELSE kb]

NoRetries == [t \in Tasks |-> NoTask]
\* t2 is the chatwoot-retry row of t1.
RetryT2 == [t \in Tasks |-> IF t = t1 THEN t2 ELSE NoTask]

DeleteAndPublish == [t \in Tasks |-> IF t = t1 THEN "delete" ELSE "publish"]
WebhookRetryPublish ==
    [t \in Tasks |-> IF t = t1 THEN "webhook" ELSE IF t = t2 THEN "retry" ELSE "publish"]
=============================================================================
