------------------------------ MODULE TaskQueue ------------------------------
(***************************************************************************)
(* The background task queue: durable task rows in the database, the Redis *)
(* list that carries task ids, the API handlers that create and enqueue    *)
(* tasks, and the worker processes that fetch, claim, execute and finish   *)
(* them under a lease.                                                     *)
(*                                                                         *)
(* Time is relative: a lease and a run_after are the ticks that are left,  *)
(* 0 meaning "passed" (the code compares them with now by <=).             *)
(***************************************************************************)
EXTENDS Integers, Sequences, FiniteSets

CONSTANTS
    Tasks,       \* task rows, one per dedupe key
    Workers,     \* worker ids; _new_worker_id never repeats one
    Callers,     \* concurrent API requests
    Keys,        \* account_key: an account, or the task itself if it has none
    KeyOf,       \* [Tasks -> Keys]
    KindOf,      \* [Tasks -> Kinds]: which handler creates the task
    RetryOf,     \* [Tasks -> Tasks \cup {NoTask}]: the chatwoot-retry row of a task
    Delays,      \* the run_after delays, in ticks, a request may ask for
    RetryDelay,  \* the delay of a chatwoot retry
    Lease,       \* worker_lease_seconds, in ticks
    Concurrency, \* worker_concurrency
    MaxCalls,    \* bound: API requests in a behaviour
    NoTask, NoWorker

Kinds == {"submit", "delivery", "delete", "publish", "run", "webhook", "sync", "retry"}

ASSUME KeyOfAssumption == KeyOf \in [Tasks -> Keys]
ASSUME KindOfAssumption == KindOf \in [Tasks -> Kinds]
ASSUME RetryOfAssumption == RetryOf \in [Tasks -> Tasks \cup {NoTask}]
ASSUME TimeAssumption ==
    /\ Lease \in Nat \ {0}
    /\ RetryDelay \in Nat \ {0}
    /\ Delays \subseteq Nat
ASSUME SizeAssumption == Concurrency \in Nat \ {0} /\ MaxCalls \in Nat
ASSUME SentinelAssumption == NoTask \notin Tasks /\ NoWorker \notin Workers

VARIABLES
    rows,      \* background_tasks: [Tasks -> Row]
    order,     \* existing rows by coalesce(run_after, created_at), created_at
    redis,     \* the Redis list; LPUSH at the head, BRPOP at the last element
    api,       \* [Callers -> what the request does next and the row it read]
    calls,     \* requests started so far
    resets,    \* history: successful resets of each task
    up,        \* [Workers -> life of the process]
    fetch,     \* [Workers -> step of the run_worker loop and the id in hand]
    prefetch,  \* [Workers -> free permits of prefetch_slots]
    slots,     \* [Workers -> free permits of global_slots]
    scheduled, \* [Workers -> scheduled_ids]
    queues,    \* [Workers -> [Keys -> account_queues entry]]
    consumer   \* [Workers -> [Keys -> the _account_consumer task]]

apiVars    == <<api, calls>>
dbVars     == <<rows, order, resets>>
workerVars == <<up, fetch, prefetch, slots, scheduled, queues, consumer>>
vars       == <<dbVars, redis, apiVars, workerVars>>

-----------------------------------------------------------------------------
Statuses == {"absent", "pending", "running", "success", "failed"}
Errors   == {"none", "queue", "expired", "stopped", "exec"}

Row == [status : Statuses, error : Errors, worker : Workers \cup {NoWorker},
        lease : Nat, delay : Nat, queued : BOOLEAN, attempts : Nat]

AbsentRow == [status |-> "absent", error |-> "none", worker |-> NoWorker,
              lease |-> 0, delay |-> 0, queued |-> FALSE, attempts |-> 0]

Phases   == {"idle", "wait", "exec", "finish", "retry"}
Consumer == [phase : Phases, task : Tasks \cup {NoTask}, attempt : Nat,
             renewing : BOOLEAN, ok : BOOLEAN]
Held(phase, t, n, renewing, ok) ==
    [phase |-> phase, task |-> t, attempt |-> n, renewing |-> renewing, ok |-> ok]
Idle     == Held("idle", NoTask, 0, FALSE, FALSE)

At(pc, t) == [pc |-> pc, task |-> t]
ApiIdle   == At("idle", NoTask)
FetchIdle == At("acquire", NoTask)

PrefetchLimit == 4 * Concurrency

Init ==
    /\ rows = [t \in Tasks |-> AbsentRow]
    /\ order = <<>>
    /\ redis = <<>>
    /\ api = [c \in Callers |-> ApiIdle]
    /\ calls = 0
    /\ resets = [t \in Tasks |-> 0]
    /\ up = [w \in Workers |-> "new"]
    /\ fetch = [w \in Workers |-> FetchIdle]
    /\ prefetch = [w \in Workers |-> PrefetchLimit]
    /\ slots = [w \in Workers |-> Concurrency]
    /\ scheduled = [w \in Workers |-> {}]
    /\ queues = [w \in Workers |-> [k \in Keys |-> <<>>]]
    /\ consumer = [w \in Workers |-> [k \in Keys |-> Idle]]

-----------------------------------------------------------------------------
(* Row operations of the store.                                            *)

\* create_background_task: a row with this dedupe key is returned unchanged.
\* A new row enters the polling order after every row whose key is not later.
CreateRow(t, d) ==
    IF rows[t].status # "absent"
    THEN UNCHANGED <<rows, order>>
    ELSE /\ rows' = [rows EXCEPT ![t] = [AbsentRow EXCEPT !.status = "pending",
                                                         !.delay = d]]
         /\ \E i \in 0..Len(order) :
               /\ \A j \in 1..Len(order) :
                     (j <= i) <=> (rows[order[j]].delay <= d)
               /\ order' = SubSeq(order, 1, i) \o <<t>>
                              \o SubSeq(order, i + 1, Len(order))

\* reset_background_task_for_retry: only a failed row; attempt_count and
\* run_after are kept.
ResetRow(row) ==
    IF row.status = "failed"
    THEN [row EXCEPT !.status = "pending", !.error = "none", !.worker = NoWorker,
                     !.lease = 0, !.queued = FALSE]
    ELSE row

\* mark_background_task_queued.
QueuedRow(row) ==
    IF row.status = "pending" THEN [row EXCEPT !.queued = TRUE] ELSE row

\* The WHERE clause shared by get_next_pending and claim.
Due(row) == row.status = "pending" /\ row.delay = 0

\* claim_background_task, when its UPDATE matches.
ClaimedRow(row, w) ==
    [row EXCEPT !.status = "running", !.error = "none", !.worker = w,
                !.lease = Lease, !.attempts = @ + 1]

\* The WHERE clause of renew and of finish with a worker id.
MutOwnsAny(row, w) == row.status = "running"
Owns(row, w) == row.status = "running" /\ row.worker = w

\* finish_background_task with a worker id: a compare-and-set.
FinishedRow(row, w, status, error) ==
    IF Owns(row, w)
    THEN [row EXCEPT !.status = status, !.error = error, !.lease = 0]
    ELSE row

\* finish_background_task without a worker id: no condition on the row.
OverwrittenRow(row) ==
    [row EXCEPT !.status = "failed", !.error = "queue", !.lease = 0]

\* fail_stale_background_tasks, for one row.
MutSweptToPending(row) ==
    IF row.status = "running" /\ row.lease = 0
    THEN [row EXCEPT !.status = "pending", !.error = "expired"]
    ELSE row
SweptRow(row) ==
    IF row.status = "running" /\ row.lease = 0
    THEN [row EXCEPT !.status = "failed", !.error = "expired"]
    ELSE row

-----------------------------------------------------------------------------
(* API requests: create, perhaps reset, push to Redis, mark queued.        *)

Locked    == {"delivery", "publish"}        \* per-record asyncio.Lock
Tolerant  == {"webhook", "sync"}            \* an enqueue failure is only logged
AlwaysPush == {"submit", "webhook"}         \* no status check before enqueue

MustReset(t, row) ==
    /\ row.status = "failed"
    /\ \/ KindOf[t] \in {"delivery", "delete"}
       \/ KindOf[t] = "publish" /\ row.error = "queue"

MustPush(t, row) ==
    \/ KindOf[t] \in AlwaysPush
    \/ KindOf[t] = "sync" /\ row.status = "pending"
    \/ row.status = "pending" /\ ~row.queued

\* What the request does after it has read `row`.
Proceed(t, row) ==
    IF MustReset(t, row) THEN At("reset", t)
    ELSE IF MustPush(t, row) THEN At("push", t)
    ELSE ApiIdle

Submit(c, t, d) ==
    /\ api[c].pc = "idle"
    /\ calls < MaxCalls
    /\ KindOf[t] # "retry"
    /\ d = 0 \/ KindOf[t] \in {"submit", "sync"}
    /\ KindOf[t] \in Locked => \A c2 \in Callers : api[c2].task # t
    /\ calls' = calls + 1
    /\ CreateRow(t, d)
    /\ api' = [api EXCEPT ![c] = Proceed(t, rows'[t])]
    /\ UNCHANGED <<redis, resets, workerVars>>

ResetForRetry(c) ==
    LET t == api[c].task IN
    /\ api[c].pc = "reset"
    /\ rows' = [rows EXCEPT ![t] = ResetRow(@)]
    /\ resets' = [resets EXCEPT ![t] = IF rows[t].status = "failed" THEN @ + 1 ELSE @]
    /\ api' = [api EXCEPT ![c] = IF rows'[t].status = "pending" /\ ~rows'[t].queued
                                 THEN At("push", t)
                                 ELSE ApiIdle]
    /\ UNCHANGED <<order, redis, calls, workerVars>>

\* The except branch of an enqueue.
EnqueueFailed(c) ==
    api' = [api EXCEPT ![c] = IF KindOf[api[c].task] \in Tolerant
                              THEN ApiIdle ELSE At("fail", api[c].task)]

\* LPUSH may succeed, fail, or reach Redis and still raise.
Push(c) ==
    /\ api[c].pc = "push"
    /\ \/ /\ redis' = <<api[c].task>> \o redis
          /\ api' = [api EXCEPT ![c] = At("mark", api[c].task)]
       \/ /\ redis' \in {redis, <<api[c].task>> \o redis}
          /\ EnqueueFailed(c)
    /\ UNCHANGED <<dbVars, calls, workerVars>>

MarkQueued(c) ==
    /\ api[c].pc = "mark"
    /\ \/ /\ rows' = [rows EXCEPT ![api[c].task] = QueuedRow(@)]
          /\ api' = [api EXCEPT ![c] = ApiIdle]
       \/ /\ UNCHANGED rows
          /\ EnqueueFailed(c)
    /\ UNCHANGED <<order, resets, redis, calls, workerVars>>

\* _enqueue_or_fail after a failure: the row is overwritten whatever it is.
FailEnqueue(c) ==
    /\ api[c].pc = "fail"
    /\ rows' = [rows EXCEPT ![api[c].task] = OverwrittenRow(@)]
    /\ api' = [api EXCEPT ![c] = ApiIdle]
    /\ UNCHANGED <<order, resets, redis, calls, workerVars>>

\* The API process dies; every request in it is lost where it stands.
ApiCrash ==
    /\ \E c \in Callers : api[c].pc # "idle"
    /\ api' = [c \in Callers |-> ApiIdle]
    /\ UNCHANGED <<dbVars, redis, calls, workerVars>>

\* Redis restarts without its list.
RedisLoss ==
    /\ redis # <<>>
    /\ redis' = <<>>
    /\ UNCHANGED <<dbVars, apiVars, workerVars>>

-----------------------------------------------------------------------------
(* The worker's fetch loop.                                                *)

StartWorker(w) ==
    /\ up[w] = "new"
    /\ up' = [up EXCEPT ![w] = "up"]
    /\ UNCHANGED <<dbVars, redis, apiVars, fetch, prefetch, slots, scheduled,
                   queues, consumer>>

MutNoDatabasePoll(w) == {}
\* Positions in the polling order that get_next_pending may return.
Candidates(w) ==
    {i \in 1..Len(order) : Due(rows[order[i]]) /\ order[i] \notin scheduled[w]}

\* Acquire a prefetch permit and ask the database first.
FetchPending(w) ==
    /\ up[w] = "up" /\ fetch[w].pc = "acquire" /\ prefetch[w] > 0
    /\ prefetch' = [prefetch EXCEPT ![w] = @ - 1]
    /\ \/ /\ Candidates(w) = {}
          /\ fetch' = [fetch EXCEPT ![w] = At("pop", NoTask)]
       \/ \E i \in Candidates(w) :
             /\ \A j \in Candidates(w) : i <= j
             /\ fetch' = [fetch EXCEPT ![w] = At("read", order[i])]
    /\ UNCHANGED <<dbVars, redis, apiVars, up, slots, scheduled, queues, consumer>>

\* BRPOP returns the oldest id ...
PopRedis(w) ==
    /\ up[w] = "up" /\ fetch[w].pc = "pop" /\ redis # <<>>
    /\ fetch' = [fetch EXCEPT ![w] = At("read", redis[Len(redis)])]
    /\ redis' = SubSeq(redis, 1, Len(redis) - 1)
    /\ UNCHANGED <<dbVars, apiVars, up, prefetch, slots, scheduled, queues, consumer>>

\* ... or times out or fails, and the loop gives its permit back.
PopNothing(w) ==
    /\ up[w] = "up" /\ fetch[w].pc = "pop"
    /\ fetch' = [fetch EXCEPT ![w] = FetchIdle]
    /\ prefetch' = [prefetch EXCEPT ![w] = @ + 1]
    /\ UNCHANGED <<dbVars, redis, apiVars, up, slots, scheduled, queues, consumer>>

\* The re-check after get_background_task.
Accept(w, t) == rows[t].status = "pending" /\ t \notin scheduled[w]

ReadTask(w) ==
    LET t == fetch[w].task IN
    /\ up[w] = "up" /\ fetch[w].pc = "read"
    /\ fetch' = [fetch EXCEPT ![w] = FetchIdle]
    /\ \/ /\ Accept(w, t)
          /\ scheduled' = [scheduled EXCEPT ![w] = @ \cup {t}]
          /\ queues' = [queues EXCEPT ![w][KeyOf[t]] = Append(@, t)]
          /\ UNCHANGED prefetch
       \/ /\ ~Accept(w, t)
          /\ prefetch' = [prefetch EXCEPT ![w] = @ + 1]
          /\ UNCHANGED <<scheduled, queues>>
    /\ UNCHANGED <<dbVars, redis, apiVars, up, slots, consumer>>

-----------------------------------------------------------------------------
(* The per-account consumers.                                              *)

MutReleaseKeepsId(w, k) ==
    /\ UNCHANGED scheduled
    /\ prefetch' = [prefetch EXCEPT ![w] = @ + 1]
    /\ consumer' = [consumer EXCEPT ![w][k] = Idle]
\* The consumer's finally block: the id and its prefetch permit are given back.
Release(w, k) ==
    /\ scheduled' = [scheduled EXCEPT ![w] = @ \ {consumer[w][k].task}]
    /\ prefetch' = [prefetch EXCEPT ![w] = @ + 1]
    /\ consumer' = [consumer EXCEPT ![w][k] = Idle]

TakeTask(w, k) ==
    /\ up[w] = "up" /\ consumer[w][k].phase = "idle" /\ queues[w][k] # <<>>
    /\ consumer' = [consumer EXCEPT ![w][k] =
                       Held("wait", Head(queues[w][k]), 0, FALSE, FALSE)]
    /\ queues' = [queues EXCEPT ![w][k] = Tail(@)]
    /\ UNCHANGED <<dbVars, redis, apiVars, up, fetch, prefetch, slots, scheduled>>

HasSlot(w) == slots[w] > 0

\* With a global slot in hand, the claim UPDATE either matches one row ...
ClaimTask(w, k) ==
    LET t == consumer[w][k].task IN
    /\ up[w] = "up" /\ consumer[w][k].phase = "wait" /\ HasSlot(w)
    /\ Due(rows[t])
    /\ rows' = [rows EXCEPT ![t] = ClaimedRow(@, w)]
    /\ slots' = [slots EXCEPT ![w] = @ - 1]
    /\ consumer' = [consumer EXCEPT ![w][k] =
                       Held("exec", t, rows[t].attempts + 1, TRUE, FALSE)]
    /\ UNCHANGED <<order, resets, redis, apiVars, up, fetch, prefetch, scheduled, queues>>

\* ... or none (or raises), and the consumer lets the task go.
ClaimNothing(w, k) ==
    /\ up[w] = "up" /\ consumer[w][k].phase = "wait" /\ HasSlot(w)
    /\ Release(w, k)
    /\ UNCHANGED <<dbVars, redis, apiVars, up, fetch, slots, queues>>

\* One round of _renew_task_lease; it gives up once the row is not its own.
\* A round that raises changes nothing and is a stuttering step.
RenewLease(w, k) ==
    LET c == consumer[w][k] IN
    /\ up[w] = "up" /\ c.phase = "exec" /\ c.renewing
    /\ \/ /\ Owns(rows[c.task], w)
          /\ rows' = [rows EXCEPT ![c.task] = [@ EXCEPT !.lease = Lease]]
          /\ UNCHANGED consumer
       \/ /\ ~Owns(rows[c.task], w)
          /\ consumer' = [consumer EXCEPT ![w][k] =
                             Held("exec", c.task, c.attempt, FALSE, FALSE)]
          /\ UNCHANGED rows
    /\ UNCHANGED <<order, resets, redis, apiVars, up, fetch, prefetch, slots,
                   scheduled, queues>>

\* execute_task returns or raises; finish() first cancels the renewer.
ExecuteTask(w, k) ==
    /\ up[w] = "up" /\ consumer[w][k].phase = "exec"
    /\ \E ok \in BOOLEAN :
          consumer' = [consumer EXCEPT ![w][k] =
                          Held("finish", @.task, @.attempt, FALSE, ok)]
    /\ UNCHANGED <<dbVars, redis, apiVars, up, fetch, prefetch, slots, scheduled, queues>>

MustRetry(t, ok) ==
    ~ok /\ KindOf[t] \in {"webhook", "sync", "retry"} /\ RetryOf[t] # NoTask

\* The compare-and-set finish, whose rejection is only logged.
FinishTask(w, k) ==
    LET c == consumer[w][k] IN
    /\ up[w] \in {"up", "stopping"} /\ c.phase = "finish"
    /\ rows' = [rows EXCEPT ![c.task] =
                   FinishedRow(@, w, IF c.ok THEN "success" ELSE "failed",
                                     IF c.ok THEN "none" ELSE "exec")]
    /\ \/ /\ MustRetry(c.task, c.ok)
          /\ consumer' = [consumer EXCEPT ![w][k] =
                             Held("retry", c.task, c.attempt, FALSE, FALSE)]
          /\ UNCHANGED <<scheduled, prefetch, slots>>
       \/ /\ ~MustRetry(c.task, c.ok)
          /\ Release(w, k)
          /\ slots' = [slots EXCEPT ![w] = @ + 1]
    /\ UNCHANGED <<order, resets, redis, apiVars, up, fetch, queues>>

\* A failed Chatwoot task leaves a delayed retry row for the database poll.
CreateRetry(w, k) ==
    /\ up[w] \in {"up", "stopping"} /\ consumer[w][k].phase = "retry"
    /\ CreateRow(RetryOf[consumer[w][k].task], RetryDelay)
    /\ Release(w, k)
    /\ slots' = [slots EXCEPT ![w] = @ + 1]
    /\ UNCHANGED <<resets, redis, apiVars, up, fetch, queues>>

\* The store raises in finish or in the creation of the retry row, or the
\* consumer is cancelled there: the row stays as it is, without a renewer.
AbandonFinish(w, k) ==
    /\ up[w] \in {"up", "stopping"} /\ consumer[w][k].phase \in {"finish", "retry"}
    /\ Release(w, k)
    /\ slots' = [slots EXCEPT ![w] = @ + 1]
    /\ UNCHANGED <<dbVars, redis, apiVars, up, fetch, queues>>

-----------------------------------------------------------------------------
(* Shutdown, crash, the sweeper and time.                                  *)

\* Bound: worker ids are finite here, while the supervisor starts a new
\* process for every one that dies, so the last process left does not die.
Replaceable(w) == \E v \in Workers \ {w} : up[v] \in {"new", "up"}

\* The loop is cancelled; every consumer gets a CancelledError where it waits.
StopWorker(w) ==
    /\ up[w] = "up" /\ Replaceable(w)
    /\ up' = [up EXCEPT ![w] = "stopping"]
    /\ UNCHANGED <<dbVars, redis, apiVars, fetch, prefetch, slots, scheduled,
                   queues, consumer>>

\* A consumer that waits for a slot or for its claim lets the task go.
CancelWait(w, k) ==
    /\ up[w] = "stopping" /\ consumer[w][k].phase = "wait"
    /\ Release(w, k)
    /\ UNCHANGED <<dbVars, redis, apiVars, up, fetch, slots, queues>>

\* The shielded finish of a cancelled execution.
CancelTask(w, k) ==
    /\ up[w] = "stopping" /\ consumer[w][k].phase = "exec"
    /\ rows' = [rows EXCEPT ![consumer[w][k].task] =
                   FinishedRow(@, w, "failed", "stopped")]
    /\ Release(w, k)
    /\ slots' = [slots EXCEPT ![w] = @ + 1]
    /\ UNCHANGED <<order, resets, redis, apiVars, up, fetch, queues>>

\* The process dies; only the database and Redis remain.
CrashWorker(w) ==
    /\ up[w] \in {"up", "stopping"} /\ Replaceable(w)
    /\ up' = [up EXCEPT ![w] = "down"]
    /\ fetch' = [fetch EXCEPT ![w] = FetchIdle]
    /\ prefetch' = [prefetch EXCEPT ![w] = PrefetchLimit]
    /\ slots' = [slots EXCEPT ![w] = Concurrency]
    /\ scheduled' = [scheduled EXCEPT ![w] = {}]
    /\ queues' = [queues EXCEPT ![w] = [k \in Keys |-> <<>>]]
    /\ consumer' = [consumer EXCEPT ![w] = [k \in Keys |-> Idle]]
    /\ UNCHANGED <<dbVars, redis, apiVars>>

SweepStale(w) ==
    /\ up[w] = "up"
    /\ \E t \in Tasks : SweptRow(rows[t]) # rows[t]
    /\ rows' = [t \in Tasks |-> SweptRow(rows[t])]
    /\ UNCHANGED <<order, resets, redis, apiVars, workerVars>>

Elapse(n) == IF n > 0 THEN n - 1 ELSE 0

Tick ==
    /\ \E t \in Tasks : rows[t].lease > 0 \/ rows[t].delay > 0
    /\ rows' = [t \in Tasks |-> [rows[t] EXCEPT !.lease = Elapse(@), !.delay = Elapse(@)]]
    /\ UNCHANGED <<order, resets, redis, apiVars, workerVars>>

-----------------------------------------------------------------------------
ApiNext ==
    \E c \in Callers :
        \/ \E t \in Tasks, d \in Delays : Submit(c, t, d)
        \/ ResetForRetry(c)
        \/ Push(c)
        \/ MarkQueued(c)
        \/ FailEnqueue(c)

LoopNext(w) ==
    \/ StartWorker(w)
    \/ FetchPending(w)
    \/ PopRedis(w)
    \/ PopNothing(w)
    \/ ReadTask(w)
    \/ SweepStale(w)

ConsumerNext(w, k) ==
    \/ TakeTask(w, k)
    \/ ClaimTask(w, k)
    \/ ClaimNothing(w, k)
    \/ RenewLease(w, k)
    \/ ExecuteTask(w, k)
    \/ FinishTask(w, k)
    \/ CreateRetry(w, k)
    \/ AbandonFinish(w, k)
    \/ CancelWait(w, k)
    \/ CancelTask(w, k)

Next ==
    \/ ApiNext
    \/ ApiCrash
    \/ RedisLoss
    \/ Tick
    \/ \E w \in Workers :
          \/ LoopNext(w)
          \/ \E k \in Keys : ConsumerNext(w, k)
          \/ StopWorker(w)
          \/ CrashWorker(w)

Spec == Init /\ [][Next]_vars

\* The event loop keeps running its tasks, an execution ends (every external
\* call has a timeout), time passes, and the store does not raise for ever on
\* a claim that is tried again and again.
Fairness ==
    /\ WF_vars(Tick)
    /\ \A w \in Workers :
          /\ WF_vars(StartWorker(w))
          /\ WF_vars(FetchPending(w))
          /\ WF_vars(PopRedis(w) \/ PopNothing(w))
          /\ WF_vars(ReadTask(w))
          /\ WF_vars(SweepStale(w))
          /\ \A k \in Keys :
                /\ WF_vars(TakeTask(w, k))
                /\ SF_vars(ClaimTask(w, k))
                /\ WF_vars(ClaimTask(w, k) \/ ClaimNothing(w, k))
                /\ WF_vars(ExecuteTask(w, k))
                /\ WF_vars(FinishTask(w, k) \/ CreateRetry(w, k) \/ AbandonFinish(w, k))

FairSpec == Spec /\ Fairness

-----------------------------------------------------------------------------
(* Properties.                                                             *)

\* Type invariant: counters never go negative and every field keeps its range.
TypeOK ==
    /\ rows \in [Tasks -> Row]
    /\ order \in Seq(Tasks)
    /\ redis \in Seq(Tasks)
    /\ api \in [Callers -> [pc : {"idle", "reset", "push", "mark", "fail"},
                            task : Tasks \cup {NoTask}]]
    /\ calls \in 0..MaxCalls
    /\ resets \in [Tasks -> Nat]
    /\ up \in [Workers -> {"new", "up", "stopping", "down"}]
    /\ fetch \in [Workers -> [pc : {"acquire", "pop", "read"},
                              task : Tasks \cup {NoTask}]]
    /\ prefetch \in [Workers -> Nat]
    /\ slots \in [Workers -> Nat]
    /\ scheduled \in [Workers -> SUBSET Tasks]
    /\ queues \in [Workers -> [Keys -> Seq(Tasks)]]
    /\ consumer \in [Workers -> [Keys -> Consumer]]

\* A task body is started at most once for its creation and once more for each
\* explicit reset by an API handler: no crash, lapsed lease, lost or repeated
\* Redis message, or second worker makes claim_background_task replay it.
NoReplay ==
    \A t \in Tasks :
        rows[t].attempts + (IF rows[t].status = "pending" THEN 1 ELSE 0)
            <= 1 + resets[t]

\* What a consumer does after its attempt was superseded (its lease lapsed, the
\* row was overwritten, reset, and claimed again) leaves the row as it is: the
\* owner check of finish and renew, keyed by worker id alone, never lets the
\* outcome of one attempt land on another.
StaleAttemptHarmless ==
    [][\A w \in Workers, k \in Keys :
          LET c == consumer[w][k] IN
          /\ c.phase \in {"exec", "finish"}
          /\ rows[c.task].attempts # c.attempt
          /\ consumer'[w][k] # c
          => rows'[c.task] = rows[c.task]]_vars

Executing(w) == {k \in Keys : consumer[w][k].phase \in {"exec", "finish", "retry"}}

PermitsConserved ==
    \A w \in Workers :
        /\ slots[w] + Cardinality(Executing(w)) = Concurrency
        /\ prefetch[w] + Cardinality(scheduled[w])
              + (IF fetch[w].pc = "acquire" THEN 0 ELSE 1) = PrefetchLimit

ScheduledIsHeld ==
    \A w \in Workers : \A t \in scheduled[w] :
        \/ consumer[w][KeyOf[t]].task = t
        \/ \E i \in 1..Len(queues[w][KeyOf[t]]) : queues[w][KeyOf[t]][i] = t

\* Nothing leaks in a worker, the consumers' failures included: the permits of
\* prefetch_slots and global_slots are neither lost nor duplicated, and every id
\* in scheduled_ids waits in its account's queue or is in the hands of that
\* account's consumer. A lost permit would end in a worker that fetches or
\* executes nothing, and an id left behind would be excluded from the database
\* poll and refused from Redis for the life of the worker.
WorkerLeaksNothing == PermitsConserved /\ ScheduledIsHeld

PendingIsServed ==
    \A t \in Tasks : (rows[t].status = "pending") ~> (rows[t].status # "pending")
RunningEnds ==
    \A t \in Tasks : (rows[t].status = "running") ~> (rows[t].status # "running")

\* Every task comes to an end: a pending one is claimed or failed, with or
\* without Redis, since the database poll finds what Redis lost and what an API
\* process left behind; and a running one does not stay running after its worker
\* died or lost it.
TasksEnd == PendingIsServed /\ RunningEnds

-----------------------------------------------------------------------------
(* What one would expect of the code and does not hold: see README.md.      *)

\* A task recorded as successful stays successful.
SuccessIsFinal ==
    [][\A t \in Tasks : rows[t].status = "success" => rows'[t].status = "success"]_vars
=============================================================================
