--------------------------- MODULE TaskQueueProofs ---------------------------
(***************************************************************************)
(* Proofs about TaskQueue for every set of tasks, workers, callers and     *)
(* keys, and every lease, delay and bound.                                 *)
(***************************************************************************)
EXTENDS TaskQueue, FiniteSetTheorems, TLAPS

(* The type invariant with what is needed to make it inductive: a step     *)
(* that has a task in hand has a real one, a consumer only holds and       *)
(* queues tasks of its own key, and a retry is only due where there is one.*)

DbTyped ==
    /\ rows \in [Tasks -> Row]
    /\ order \in Seq(Tasks)
    /\ resets \in [Tasks -> Nat]

ApiTyped ==
    /\ redis \in Seq(Tasks)
    /\ calls \in 0..MaxCalls
    /\ api \in [Callers -> [pc : {"idle", "reset", "push", "mark", "fail"},
                            task : Tasks \cup {NoTask}]]
    /\ \A c \in Callers : api[c].pc # "idle" => api[c].task \in Tasks

LoopTyped ==
    /\ up \in [Workers -> {"new", "up", "stopping", "down"}]
    /\ fetch \in [Workers -> [pc : {"acquire", "pop", "read"},
                              task : Tasks \cup {NoTask}]]
    /\ \A w \in Workers : fetch[w].pc = "read" => fetch[w].task \in Tasks
    /\ prefetch \in [Workers -> Nat]
    /\ slots \in [Workers -> Nat]
    /\ scheduled \in [Workers -> SUBSET Tasks]

QueuesTyped ==
    /\ queues \in [Workers -> [Keys -> Seq(Tasks)]]
    /\ \A w \in Workers, k \in Keys : \A i \in 1..Len(queues[w][k]) :
          KeyOf[queues[w][k][i]] = k

ConsumerOf(k) ==
    {c \in Consumer : /\ c.phase # "idle" => c.task \in Tasks /\ KeyOf[c.task] = k
                      /\ c.phase = "retry" => RetryOf[c.task] \in Tasks}

ConsumersTyped ==
    /\ consumer \in [Workers -> [Keys -> Consumer]]
    /\ \A w \in Workers, k \in Keys : consumer[w][k] \in ConsumerOf(k)

Typed == DbTyped /\ ApiTyped /\ LoopTyped /\ QueuesTyped /\ ConsumersTyped

USE KeyOfAssumption, KindOfAssumption, RetryOfAssumption, TimeAssumption,
    SizeAssumption, SentinelAssumption

-----------------------------------------------------------------------------
(* The row operations keep rows well formed.                               *)

\* Every row operation that names no worker maps a row to a row.
LEMMA RowOps ==
    ASSUME NEW row \in Row
    PROVE  /\ ResetRow(row) \in Row
           /\ QueuedRow(row) \in Row
           /\ OverwrittenRow(row) \in Row
           /\ SweptRow(row) \in Row
           /\ [row EXCEPT !.lease = Lease] \in Row
           /\ [row EXCEPT !.lease = Elapse(@), !.delay = Elapse(@)] \in Row
  <1> USE DEF Row, Statuses, Errors
  <1>1. ResetRow(row) \in Row
    BY DEF ResetRow
  <1>2. QueuedRow(row) \in Row
    BY DEF QueuedRow
  <1>3. OverwrittenRow(row) \in Row
    BY DEF OverwrittenRow
  <1>4. SweptRow(row) \in Row
    BY DEF SweptRow
  <1>5. [row EXCEPT !.lease = Lease] \in Row
    OBVIOUS
  <1>6. Elapse(row.lease) \in Nat /\ Elapse(row.delay) \in Nat
    BY DEF Elapse
  <1>7. [row EXCEPT !.lease = Elapse(@), !.delay = Elapse(@)] \in Row
    BY <1>6
  <1> QED BY <1>1, <1>2, <1>3, <1>4, <1>5, <1>7

\* So do the claim and the finish of a worker.
LEMMA WorkerRowOps ==
    ASSUME NEW row \in Row, NEW w \in Workers
    PROVE  /\ ClaimedRow(row, w) \in Row
           /\ FinishedRow(row, w, "success", "none") \in Row
           /\ FinishedRow(row, w, "failed", "exec") \in Row
           /\ FinishedRow(row, w, "failed", "stopped") \in Row
  <1> USE DEF Row, Statuses, Errors
  <1>1. row.attempts + 1 \in Nat
    OBVIOUS
  <1>2. ClaimedRow(row, w) \in Row
    BY <1>1 DEF ClaimedRow
  <1>3. FinishedRow(row, w, "success", "none") \in Row
    BY DEF FinishedRow, Owns
  <1>4. FinishedRow(row, w, "failed", "exec") \in Row
    BY DEF FinishedRow, Owns
  <1>5. FinishedRow(row, w, "failed", "stopped") \in Row
    BY DEF FinishedRow, Owns
  <1> QED BY <1>2, <1>3, <1>4, <1>5

\* create_background_task keeps the rows and the polling order well formed.
LEMMA CreateRowType ==
    ASSUME NEW t \in Tasks, NEW d \in Nat, DbTyped, CreateRow(t, d)
    PROVE  rows' \in [Tasks -> Row] /\ order' \in Seq(Tasks)
  <1>1. CASE rows[t].status # "absent"
    BY <1>1 DEF CreateRow, DbTyped
  <1>2. CASE rows[t].status = "absent"
    <2>1. [AbsentRow EXCEPT !.status = "pending", !.delay = d] \in Row
      BY DEF AbsentRow, Row, Statuses, Errors
    <2>2. rows' \in [Tasks -> Row]
      BY <1>2, <2>1 DEF CreateRow, DbTyped
    <2>3. PICK i \in 0..Len(order) :
             order' = SubSeq(order, 1, i) \o <<t>> \o SubSeq(order, i + 1, Len(order))
      BY <1>2 DEF CreateRow
    <2>4. /\ SubSeq(order, 1, i) \in Seq(Tasks)
          /\ SubSeq(order, i + 1, Len(order)) \in Seq(Tasks)
      BY DEF DbTyped
    <2>5. order' \in Seq(Tasks)
      BY <2>3, <2>4
    <2> QED BY <2>2, <2>5
  <1> QED BY <1>1, <1>2

\* What Append makes of a sequence.
LEMMA AppendOne ==
    ASSUME NEW S, NEW s \in Seq(S), NEW e \in S
    PROVE  /\ Append(s, e) \in Seq(S)
           /\ Len(Append(s, e)) = Len(s) + 1
           /\ \A i \in 1..Len(s) : Append(s, e)[i] = s[i]
           /\ Append(s, e)[Len(s) + 1] = e
  OBVIOUS

\* Writing one consumer's state keeps the table of consumers well formed.
LEMMA SetConsumer ==
    ASSUME ConsumersTyped, NEW w \in Workers, NEW k \in Keys, NEW c \in ConsumerOf(k),
           consumer' = [consumer EXCEPT ![w][k] = c]
    PROVE  ConsumersTyped'
  BY DEF ConsumersTyped, ConsumerOf

\* What a finished, failed or cancelled consumer gives back.
LEMMA ReleaseType ==
    ASSUME ConsumersTyped, LoopTyped, NEW w \in Workers, NEW k \in Keys, Release(w, k)
    PROVE  /\ ConsumersTyped'
           /\ prefetch' \in [Workers -> Nat]
           /\ scheduled' \in [Workers -> SUBSET Tasks]
  <1>1. Idle \in ConsumerOf(k)
    BY DEF Idle, Held, ConsumerOf, Consumer, Phases
  <1>2. ConsumersTyped'
    BY <1>1, SetConsumer DEF Release
  <1>3. prefetch' \in [Workers -> Nat] /\ scheduled' \in [Workers -> SUBSET Tasks]
    BY DEF Release, LoopTyped
  <1> QED BY <1>2, <1>3

-----------------------------------------------------------------------------
(* Type correctness, one lemma per group of actions.                       *)

LEMMA TypedInit == Init => Typed
  <1> SUFFICES ASSUME Init PROVE Typed OBVIOUS
  <1>1. AbsentRow \in Row
    BY DEF AbsentRow, Row, Statuses, Errors
  <1>2. \A k \in Keys : Idle \in ConsumerOf(k)
    BY DEF Idle, Held, ConsumerOf, Consumer, Phases
  <1>3. DbTyped /\ ApiTyped
    BY <1>1 DEF Init, DbTyped, ApiTyped, ApiIdle, At
  <1>4. LoopTyped
    BY DEF Init, LoopTyped, FetchIdle, At, PrefetchLimit
  <1>5. QueuesTyped
    BY DEF Init, QueuesTyped
  <1>6. ConsumersTyped
    BY <1>2 DEF Init, ConsumersTyped, ConsumerOf
  <1> QED BY <1>3, <1>4, <1>5, <1>6 DEF Typed

\* The steps of an API request leave the workers alone.
LEMMA TypedApi == Typed /\ ApiNext => Typed'
  <1> SUFFICES ASSUME Typed, NEW c \in Callers,
                      \/ \E t \in Tasks, d \in Delays : Submit(c, t, d)
                      \/ ResetForRetry(c) \/ Push(c) \/ MarkQueued(c) \/ FailEnqueue(c)
               PROVE  Typed'
    BY DEF ApiNext
  <1> USE DEF Typed
  <1>1. UNCHANGED workerVars
    BY DEF Submit, ResetForRetry, Push, MarkQueued, FailEnqueue
  <1>2. LoopTyped' /\ QueuesTyped' /\ ConsumersTyped'
    BY <1>1 DEF workerVars, LoopTyped, QueuesTyped, ConsumersTyped
  <1>3. api' \in [Callers -> [pc : {"idle", "reset", "push", "mark", "fail"},
                              task : Tasks \cup {NoTask}]]
        /\ \A c1 \in Callers : api'[c1].pc # "idle" => api'[c1].task \in Tasks
    <2> SUFFICES ASSUME NEW t \in Tasks, NEW pc \in {"reset", "push", "mark", "fail"},
                        api' \in {[api EXCEPT ![c] = At(pc, t)],
                                  [api EXCEPT ![c] = ApiIdle]}
                 PROVE  api' \in [Callers -> [pc : {"idle", "reset", "push", "mark", "fail"},
                                             task : Tasks \cup {NoTask}]]
                        /\ \A c1 \in Callers : api'[c1].pc # "idle" => api'[c1].task \in Tasks
      <3>1. ASSUME NEW t \in Tasks, NEW d \in Delays, Submit(c, t, d)
            PROVE  \E pc \in {"reset", "push"} :
                      api' \in {[api EXCEPT ![c] = At(pc, t)], [api EXCEPT ![c] = ApiIdle]}
        BY <3>1 DEF Submit, Proceed
      <3>2. api[c].pc # "idle" => api[c].task \in Tasks
        BY DEF ApiTyped
      <3>3. ResetForRetry(c) => /\ api[c].task \in Tasks
                                /\ api' \in {[api EXCEPT ![c] = At("push", api[c].task)],
                                             [api EXCEPT ![c] = ApiIdle]}
        BY <3>2 DEF ResetForRetry
      <3>4. Push(c) => /\ api[c].task \in Tasks
                       /\ \E pc \in {"mark", "fail"} :
                             api' \in {[api EXCEPT ![c] = At(pc, api[c].task)],
                                       [api EXCEPT ![c] = ApiIdle]}
        BY <3>2 DEF Push, EnqueueFailed
      <3>5. MarkQueued(c) => /\ api[c].task \in Tasks
                             /\ api' \in {[api EXCEPT ![c] = At("fail", api[c].task)],
                                          [api EXCEPT ![c] = ApiIdle]}
        BY <3>2 DEF MarkQueued, EnqueueFailed
      <3>6. FailEnqueue(c) => /\ api[c].task \in Tasks
                              /\ api' = [api EXCEPT ![c] = ApiIdle]
        BY <3>2 DEF FailEnqueue
      <3> QED BY <3>1, <3>3, <3>4, <3>5, <3>6
    <2>1. CASE api' = [api EXCEPT ![c] = At(pc, t)]
      BY <2>1 DEF ApiTyped, At
    <2>2. CASE api' = [api EXCEPT ![c] = ApiIdle]
      BY <2>2 DEF ApiTyped, At, ApiIdle
    <2> QED BY <2>1, <2>2
  <1>4. redis' \in Seq(Tasks) /\ calls' \in 0..MaxCalls
    <2>1. CASE Push(c)
      <3>1. <<api[c].task>> \o redis \in Seq(Tasks)
        BY <2>1 DEF ApiTyped, Push
      <3>2. redis' \in {redis, <<api[c].task>> \o redis} /\ calls' = calls
        BY <2>1 DEF Push
      <3> QED BY <3>1, <3>2 DEF ApiTyped
    <2>2. ASSUME NEW t \in Tasks, NEW d \in Delays, Submit(c, t, d)
          PROVE  redis' \in Seq(Tasks) /\ calls' \in 0..MaxCalls
      BY <2>2 DEF Submit, ApiTyped
    <2>3. CASE ResetForRetry(c) \/ MarkQueued(c) \/ FailEnqueue(c)
      BY <2>3 DEF ResetForRetry, MarkQueued, FailEnqueue, ApiTyped
    <2> QED BY <2>1, <2>2, <2>3
  <1>5. DbTyped'
    <2>1. ASSUME NEW t \in Tasks, NEW d \in Delays, Submit(c, t, d) PROVE DbTyped'
      BY <2>1, CreateRowType DEF Submit, DbTyped
    <2>2. CASE ResetForRetry(c)
      <3>1. api[c].task \in Tasks
        BY <2>2 DEF ResetForRetry, ApiTyped
      <3>2. ResetRow(rows[api[c].task]) \in Row
        BY <3>1, RowOps DEF DbTyped
      <3>3. rows' \in [Tasks -> Row]
        BY <2>2, <3>1, <3>2 DEF ResetForRetry, DbTyped
      <3>4. resets' \in [Tasks -> Nat]
        BY <2>2, <3>1 DEF ResetForRetry, DbTyped
      <3> QED BY <2>2, <3>3, <3>4 DEF ResetForRetry, DbTyped
    <2>3. CASE Push(c)
      BY <2>3 DEF Push, DbTyped, dbVars
    <2>4. CASE MarkQueued(c)
      <3>1. api[c].task \in Tasks
        BY <2>4 DEF MarkQueued, ApiTyped
      <3>2. CASE UNCHANGED rows
        BY <2>4, <3>2 DEF DbTyped, MarkQueued
      <3>3. CASE rows' = [rows EXCEPT ![api[c].task] = QueuedRow(@)]
        BY <2>4, <3>1, <3>3, RowOps DEF DbTyped, MarkQueued
      <3> QED BY <2>4, <3>2, <3>3 DEF MarkQueued
    <2>5. CASE FailEnqueue(c)
      <3>1. api[c].task \in Tasks
        BY <2>5 DEF FailEnqueue, ApiTyped
      <3> QED BY <2>5, <3>1, RowOps DEF FailEnqueue, DbTyped
    <2> QED BY <2>1, <2>2, <2>3, <2>4, <2>5
  <1> QED BY <1>2, <1>3, <1>4, <1>5 DEF ApiTyped

\* The worker's loop, its start and its end.
LEMMA TypedLoop ==
    ASSUME Typed, NEW w \in Workers, LoopNext(w) \/ StopWorker(w) \/ CrashWorker(w)
    PROVE  Typed'
  <1> USE DEF Typed
  <1>1. CASE StartWorker(w) \/ StopWorker(w)
    <2>1. /\ \E life \in {"up", "stopping"} : up' = [up EXCEPT ![w] = life]
          /\ UNCHANGED <<dbVars, redis, apiVars, fetch, prefetch, slots, scheduled,
                         queues, consumer>>
      BY <1>1 DEF StartWorker, StopWorker
    <2>2. DbTyped' /\ ApiTyped' /\ QueuesTyped' /\ ConsumersTyped'
      BY <2>1 DEF DbTyped, ApiTyped, QueuesTyped, ConsumersTyped, dbVars, apiVars
    <2>3. LoopTyped'
      BY <2>1 DEF LoopTyped
    <2> QED BY <2>2, <2>3
  <1>2. CASE FetchPending(w)
    <2>1. /\ DbTyped' /\ ApiTyped' /\ QueuesTyped' /\ ConsumersTyped'
      BY <1>2 DEF FetchPending, DbTyped, ApiTyped, QueuesTyped, ConsumersTyped,
                  dbVars, apiVars
    <2>2. \/ fetch' = [fetch EXCEPT ![w] = At("pop", NoTask)]
          \/ \E i \in 1..Len(order) : fetch' = [fetch EXCEPT ![w] = At("read", order[i])]
      BY <1>2 DEF FetchPending, Candidates
    <2>3. \A i \in 1..Len(order) : order[i] \in Tasks
      BY DEF DbTyped
    <2>4. prefetch' \in [Workers -> Nat]
      BY <1>2 DEF FetchPending, LoopTyped
    <2>5. PICK pc \in {"pop", "read"}, t \in Tasks \cup {NoTask} :
             (pc = "read" => t \in Tasks) /\ fetch' = [fetch EXCEPT ![w] = At(pc, t)]
      BY <2>2, <2>3
    <2>6. At(pc, t) \in [pc : {"acquire", "pop", "read"}, task : Tasks \cup {NoTask}]
      BY DEF At
    <2>7. /\ fetch' \in [Workers -> [pc : {"acquire", "pop", "read"},
                                      task : Tasks \cup {NoTask}]]
          /\ \A v \in Workers : fetch'[v].pc = "read" => fetch'[v].task \in Tasks
      BY <2>5, <2>6 DEF LoopTyped, At
    <2>8. LoopTyped'
      BY <1>2, <2>4, <2>7 DEF FetchPending, LoopTyped
    <2> QED BY <2>1, <2>8
  <1>3. CASE PopRedis(w)
    <2>1. /\ DbTyped' /\ QueuesTyped' /\ ConsumersTyped'
      BY <1>3 DEF PopRedis, DbTyped, QueuesTyped, ConsumersTyped, dbVars
    <2>2. redis[Len(redis)] \in Tasks /\ redis' \in Seq(Tasks)
      BY <1>3 DEF PopRedis, ApiTyped
    <2>3. ApiTyped'
      BY <1>3, <2>2 DEF PopRedis, ApiTyped, apiVars
    <2>4. LoopTyped'
      BY <1>3, <2>2 DEF PopRedis, LoopTyped, At
    <2> QED BY <2>1, <2>3, <2>4
  <1>4. CASE PopNothing(w)
    BY <1>4 DEF PopNothing, DbTyped, ApiTyped, LoopTyped, QueuesTyped, ConsumersTyped,
                dbVars, apiVars, FetchIdle, At
  <1>5. CASE ReadTask(w)
    <2> DEFINE t == fetch[w].task
    <2>1. /\ DbTyped' /\ ApiTyped' /\ ConsumersTyped'
      BY <1>5 DEF ReadTask, DbTyped, ApiTyped, ConsumersTyped, dbVars, apiVars
    <2>2. t \in Tasks /\ KeyOf[t] \in Keys
      BY <1>5 DEF ReadTask, LoopTyped
    <2>3. prefetch' \in [Workers -> Nat] /\ scheduled' \in [Workers -> SUBSET Tasks]
      <3>1. CASE Accept(w, t)
        <4>1. scheduled' = [scheduled EXCEPT ![w] = @ \cup {t}] /\ UNCHANGED prefetch
          BY <1>5, <3>1 DEF ReadTask
        <4>2. scheduled[w] \cup {t} \in SUBSET Tasks
          BY <2>2 DEF LoopTyped
        <4> QED BY <4>1, <4>2 DEF LoopTyped
      <3>2. CASE ~Accept(w, t)
        BY <1>5, <3>2 DEF ReadTask, LoopTyped
      <3> QED BY <3>1, <3>2
    <2>4. LoopTyped'
      BY <1>5, <2>3 DEF ReadTask, LoopTyped, FetchIdle, At
    <2>5. QueuesTyped'
      <3>1. CASE Accept(w, t)
        <4>1. queues' = [queues EXCEPT ![w][KeyOf[t]] = Append(@, t)]
          BY <1>5, <3>1 DEF ReadTask
        <4> DEFINE q == queues[w][KeyOf[t]]
        <4>3. q \in Seq(Tasks) /\ \A i \in 1..Len(q) : KeyOf[q[i]] = KeyOf[t]
          BY <2>2 DEF QueuesTyped
        <4>4. /\ Append(q, t) \in Seq(Tasks)
              /\ Len(Append(q, t)) = Len(q) + 1
              /\ \A i \in 1..Len(q) : Append(q, t)[i] = q[i]
              /\ Append(q, t)[Len(q) + 1] = t
          <5> HIDE DEF q, t
          <5> QED BY <2>2, <4>3, AppendOne
        <4> HIDE DEF q
        <4>5. \A i \in 1..Len(Append(q, t)) : KeyOf[Append(q, t)[i]] = KeyOf[t]
          BY <4>3, <4>4
        <4>2. /\ Append(queues[w][KeyOf[t]], t) \in Seq(Tasks)
              /\ \A i \in 1..Len(Append(queues[w][KeyOf[t]], t)) :
                    KeyOf[Append(queues[w][KeyOf[t]], t)[i]] = KeyOf[t]
          BY <4>4, <4>5 DEF q
        <4> QED BY <2>2, <4>1, <4>2 DEF QueuesTyped
      <3>2. CASE ~Accept(w, t)
        BY <1>5, <3>2 DEF ReadTask, QueuesTyped
      <3> QED BY <3>1, <3>2
    <2> QED BY <2>1, <2>4, <2>5
  <1>6. CASE SweepStale(w)
    <2>1. rows' \in [Tasks -> Row]
      BY <1>6, RowOps DEF SweepStale, DbTyped
    <2> QED BY <1>6, <2>1 DEF SweepStale, DbTyped, ApiTyped, LoopTyped, QueuesTyped,
                              ConsumersTyped, apiVars, workerVars
  <1>7. CASE CrashWorker(w)
    <2>1. \A k \in Keys : Idle \in ConsumerOf(k)
      BY DEF Idle, Held, ConsumerOf, Consumer, Phases
    <2>2. DbTyped' /\ ApiTyped'
      BY <1>7 DEF CrashWorker, DbTyped, ApiTyped, dbVars, apiVars
    <2>3. LoopTyped'
      BY <1>7 DEF CrashWorker, LoopTyped, FetchIdle, At, PrefetchLimit
    <2>4. QueuesTyped'
      BY <1>7 DEF CrashWorker, QueuesTyped
    <2>5. ConsumersTyped'
      BY <1>7, <2>1 DEF CrashWorker, ConsumersTyped, ConsumerOf
    <2> QED BY <2>2, <2>3, <2>4, <2>5
  <1> QED BY <1>1, <1>2, <1>3, <1>4, <1>5, <1>6, <1>7 DEF LoopNext

\* The consumers.
LEMMA TypedConsumer ==
    ASSUME Typed, NEW w \in Workers, NEW k \in Keys, ConsumerNext(w, k)
    PROVE  Typed'
  <1> USE DEF Typed
  <1> DEFINE c == consumer[w][k]
  <1>1. c \in ConsumerOf(k) /\ c \in Consumer
    BY DEF ConsumersTyped, ConsumerOf
  <1>2. c.phase # "idle" => /\ c.task \in Tasks /\ KeyOf[c.task] = k
                            /\ rows[c.task] \in Row
    BY <1>1 DEF ConsumerOf, DbTyped
  <1>3. CASE TakeTask(w, k)
    <2> DEFINE t == Head(queues[w][k])
    <2>1. queues[w][k] \in Seq(Tasks) /\ queues[w][k] # <<>>
      BY <1>3 DEF TakeTask, QueuesTyped
    <2>2. t \in Tasks /\ KeyOf[t] = k
      BY <2>1 DEF QueuesTyped
    <2>3. Held("wait", t, 0, FALSE, FALSE) \in ConsumerOf(k)
      BY <2>2 DEF Held, ConsumerOf, Consumer, Phases
    <2>4. ConsumersTyped'
      BY <1>3, <2>3, SetConsumer DEF TakeTask
    <2>5. /\ Tail(queues[w][k]) \in Seq(Tasks)
          /\ \A i \in 1..Len(Tail(queues[w][k])) : KeyOf[Tail(queues[w][k])[i]] = k
      BY <2>1 DEF QueuesTyped
    <2>6. QueuesTyped'
      <3>1. queues' = [queues EXCEPT ![w][k] = Tail(queues[w][k])]
        BY <1>3 DEF TakeTask
      <3> DEFINE q == Tail(queues[w][k])
      <3>2. q \in Seq(Tasks) /\ (\A i \in 1..Len(q) : KeyOf[q[i]] = k)
            /\ queues' = [queues EXCEPT ![w][k] = q]
        BY <2>5, <3>1
      <3> HIDE DEF q
      <3> QED BY <3>2 DEF QueuesTyped
    <2> QED BY <1>3, <2>4, <2>6 DEF TakeTask, DbTyped, ApiTyped, LoopTyped, dbVars, apiVars
  <1>4. CASE ClaimTask(w, k)
    <2>1. c.task \in Tasks /\ KeyOf[c.task] = k /\ rows[c.task] \in Row
      BY <1>2, <1>4 DEF ClaimTask
    <2>2. rows[c.task].attempts + 1 \in Nat
      BY <2>1 DEF Row
    <2>3. Held("exec", c.task, rows[c.task].attempts + 1, TRUE, FALSE) \in ConsumerOf(k)
      BY <2>1, <2>2 DEF Held, ConsumerOf, Consumer, Phases
    <2>4. ConsumersTyped'
      BY <1>4, <2>3, SetConsumer DEF ClaimTask
    <2>5. ClaimedRow(rows[c.task], w) \in Row
      BY <2>1, WorkerRowOps
    <2>6. DbTyped'
      BY <1>4, <2>1, <2>5 DEF ClaimTask, DbTyped
    <2>7. LoopTyped'
      BY <1>4 DEF ClaimTask, HasSlot, LoopTyped
    <2> QED BY <1>4, <2>4, <2>6, <2>7 DEF ClaimTask, ApiTyped, QueuesTyped, apiVars
  <1>5. CASE ClaimNothing(w, k) \/ CancelWait(w, k)
    <2>1. Release(w, k) /\ UNCHANGED <<dbVars, redis, apiVars, up, fetch, slots, queues>>
      BY <1>5 DEF ClaimNothing, CancelWait
    <2> QED BY <2>1, ReleaseType DEF DbTyped, ApiTyped, LoopTyped, QueuesTyped, dbVars, apiVars
  <1>6. CASE RenewLease(w, k)
    <2>1. c.task \in Tasks /\ KeyOf[c.task] = k /\ rows[c.task] \in Row
      BY <1>2, <1>6 DEF RenewLease
    <2>2. Held("exec", c.task, c.attempt, FALSE, FALSE) \in ConsumerOf(k)
      BY <1>1, <2>1 DEF Held, ConsumerOf, Consumer, Phases
    <2>3. [rows[c.task] EXCEPT !.lease = Lease] \in Row
      BY <2>1, RowOps
    <2>4. DbTyped' /\ ConsumersTyped'
      <3>1. CASE Owns(rows[c.task], w)
        <4>1. rows' = [rows EXCEPT ![c.task] = [rows[c.task] EXCEPT !.lease = Lease]]
              /\ UNCHANGED <<consumer, order, resets>>
          BY <1>6, <3>1 DEF RenewLease
        <4>2. DbTyped'
          BY <2>1, <2>3, <4>1 DEF DbTyped
        <4>3. ConsumersTyped'
          BY <4>1 DEF ConsumersTyped
        <4> QED BY <4>2, <4>3
      <3>2. CASE ~Owns(rows[c.task], w)
        <4>1. ConsumersTyped'
          BY <1>6, <2>2, <3>2, SetConsumer DEF RenewLease
        <4> QED BY <1>6, <3>2, <4>1 DEF RenewLease, DbTyped
      <3> QED BY <3>1, <3>2
    <2>5. UNCHANGED <<redis, apiVars, up, fetch, prefetch, slots, scheduled, queues>>
      BY <1>6 DEF RenewLease
    <2>6. ApiTyped' /\ LoopTyped' /\ QueuesTyped'
      BY <2>5 DEF ApiTyped, LoopTyped, QueuesTyped, apiVars
    <2> QED BY <2>4, <2>6
  <1>7. CASE ExecuteTask(w, k)
    <2>1. PICK ok \in BOOLEAN :
             consumer' = [consumer EXCEPT ![w][k] =
                             Held("finish", c.task, c.attempt, FALSE, ok)]
      BY <1>7 DEF ExecuteTask
    <2>2. c.task \in Tasks /\ KeyOf[c.task] = k
      BY <1>2, <1>7 DEF ExecuteTask
    <2>3. Held("finish", c.task, c.attempt, FALSE, ok) \in ConsumerOf(k)
      BY <1>1, <2>2 DEF Held, ConsumerOf, Consumer, Phases
    <2>4. ConsumersTyped'
      BY <2>1, <2>3, SetConsumer
    <2> QED BY <1>7, <2>4 DEF ExecuteTask, DbTyped, ApiTyped, LoopTyped, QueuesTyped,
                              dbVars, apiVars
  <1>8. CASE FinishTask(w, k)
    <2>1. c.task \in Tasks /\ KeyOf[c.task] = k /\ rows[c.task] \in Row
      BY <1>2, <1>8 DEF FinishTask
    <2>2. \/ rows' = [rows EXCEPT ![c.task] = FinishedRow(@, w, "success", "none")]
          \/ rows' = [rows EXCEPT ![c.task] = FinishedRow(@, w, "failed", "exec")]
      BY <1>8 DEF FinishTask
    <2>3. DbTyped'
      BY <1>8, <2>1, <2>2, WorkerRowOps DEF FinishTask, DbTyped
    <2>4. LoopTyped' /\ ConsumersTyped'
      <3>1. CASE MustRetry(c.task, c.ok)
        <4>1. Held("retry", c.task, c.attempt, FALSE, FALSE) \in ConsumerOf(k)
          BY <1>1, <2>1, <3>1 DEF Held, ConsumerOf, Consumer, Phases, MustRetry
        <4>2. consumer' = [consumer EXCEPT ![w][k] =
                              Held("retry", c.task, c.attempt, FALSE, FALSE)]
          BY <1>8, <3>1 DEF FinishTask
        <4>3. ConsumersTyped'
          BY <4>1, <4>2, SetConsumer
        <4> QED BY <1>8, <3>1, <4>3 DEF FinishTask, LoopTyped
      <3>2. CASE ~MustRetry(c.task, c.ok)
        <4>1. Release(w, k) /\ slots' = [slots EXCEPT ![w] = @ + 1]
          BY <1>8, <3>2 DEF FinishTask
        <4> QED BY <1>8, <4>1, ReleaseType DEF FinishTask, LoopTyped
      <3> QED BY <3>1, <3>2
    <2> QED BY <1>8, <2>3, <2>4 DEF FinishTask, ApiTyped, QueuesTyped, apiVars
  <1>9. CASE CreateRetry(w, k)
    <2>1. RetryOf[c.task] \in Tasks
      BY <1>1, <1>9 DEF CreateRetry, ConsumerOf
    <2>2. rows' \in [Tasks -> Row] /\ order' \in Seq(Tasks)
      BY <1>9, <2>1, CreateRowType DEF CreateRetry
    <2>3. Release(w, k) /\ slots' = [slots EXCEPT ![w] = @ + 1]
      BY <1>9 DEF CreateRetry
    <2>4. LoopTyped' /\ ConsumersTyped'
      BY <1>9, <2>3, ReleaseType DEF CreateRetry, LoopTyped
    <2> QED BY <1>9, <2>2, <2>4 DEF CreateRetry, DbTyped, ApiTyped, QueuesTyped, apiVars
  <1>10. CASE AbandonFinish(w, k)
    <2>1. Release(w, k) /\ slots' = [slots EXCEPT ![w] = @ + 1]
      BY <1>10 DEF AbandonFinish
    <2>2. LoopTyped' /\ ConsumersTyped'
      BY <1>10, <2>1, ReleaseType DEF AbandonFinish, LoopTyped
    <2> QED BY <1>10, <2>2 DEF AbandonFinish, DbTyped, ApiTyped, QueuesTyped, dbVars, apiVars
  <1>11. CASE CancelTask(w, k)
    <2>1. c.task \in Tasks /\ rows[c.task] \in Row
      BY <1>2, <1>11 DEF CancelTask
    <2>2. DbTyped'
      BY <1>11, <2>1, WorkerRowOps DEF CancelTask, DbTyped
    <2>3. Release(w, k) /\ slots' = [slots EXCEPT ![w] = @ + 1]
      BY <1>11 DEF CancelTask
    <2>4. LoopTyped' /\ ConsumersTyped'
      BY <1>11, <2>3, ReleaseType DEF CancelTask, LoopTyped
    <2> QED BY <1>11, <2>2, <2>4 DEF CancelTask, ApiTyped, QueuesTyped, apiVars
  <1> QED BY <1>3, <1>4, <1>5, <1>6, <1>7, <1>8, <1>9, <1>10, <1>11 DEF ConsumerNext

LEMMA TypedNext == Typed /\ [Next]_vars => Typed'
  <1> SUFFICES ASSUME Typed, [Next]_vars PROVE Typed' OBVIOUS
  <1>1. CASE ApiNext
    BY <1>1, TypedApi
  <1>2. CASE ApiCrash \/ RedisLoss
    <2>1. DbTyped' /\ LoopTyped' /\ QueuesTyped' /\ ConsumersTyped'
      BY <1>2 DEF Typed, ApiCrash, RedisLoss, DbTyped, LoopTyped, QueuesTyped,
                  ConsumersTyped, dbVars, workerVars
    <2>2. CASE ApiCrash
      <3>1. ApiTyped'
        BY <2>2 DEF Typed, ApiCrash, ApiTyped, ApiIdle, At
      <3> QED BY <2>1, <3>1 DEF Typed
    <2>3. CASE RedisLoss
      <3>1. ApiTyped'
        BY <2>3 DEF Typed, RedisLoss, ApiTyped, apiVars
      <3> QED BY <2>1, <3>1 DEF Typed
    <2> QED BY <1>2, <2>2, <2>3
  <1>3. CASE Tick
    <2>1. rows' \in [Tasks -> Row]
      BY <1>3, RowOps DEF Tick, Typed, DbTyped
    <2> QED BY <1>3, <2>1 DEF Tick, Typed, DbTyped, ApiTyped, LoopTyped, QueuesTyped,
                              ConsumersTyped, apiVars, workerVars
  <1>4. ASSUME NEW w \in Workers, LoopNext(w) \/ StopWorker(w) \/ CrashWorker(w)
        PROVE  Typed'
    BY <1>4, TypedLoop
  <1>5. ASSUME NEW w \in Workers, NEW k \in Keys, ConsumerNext(w, k) PROVE Typed'
    BY <1>5, TypedConsumer
  <1>6. CASE UNCHANGED vars
    BY <1>6 DEF vars, Typed, DbTyped, ApiTyped, LoopTyped, QueuesTyped,
                ConsumersTyped, dbVars, apiVars, workerVars
  <1> QED BY <1>1, <1>2, <1>3, <1>4, <1>5, <1>6 DEF Next

\* Every reachable state is well typed: no counter goes negative and no step
\* is taken with a task that does not exist.
THEOREM TypeCorrect == Spec => []TypeOK
  <1>1. Typed => TypeOK
    BY DEF Typed, TypeOK, DbTyped, ApiTyped, LoopTyped, QueuesTyped, ConsumersTyped
  <1> QED BY <1>1, TypedInit, TypedNext, PTL DEF Spec

-----------------------------------------------------------------------------
(* What one step may do to one row. Everything else about rows follows.    *)

Keeps(t) ==
    /\ rows'[t].attempts = rows[t].attempts
    /\ rows'[t].status = "pending" => rows[t].status = "pending"
    /\ \A v \in Workers : Owns(rows'[t], v) => Owns(rows[t], v)
    /\ resets'[t] = resets[t]

Creates(t) ==
    /\ rows'[t].attempts = 0
    /\ rows'[t].status = "pending"
    /\ resets'[t] = resets[t]

Resets(t) ==
    /\ rows'[t].attempts = rows[t].attempts
    /\ rows'[t].status = "pending"
    /\ resets'[t] = resets[t] + 1

Claims(t, v) ==
    /\ rows[t].status = "pending"
    /\ rows'[t].status = "running"
    /\ rows'[t].worker = v
    /\ rows'[t].attempts = rows[t].attempts + 1
    /\ resets'[t] = resets[t]
    /\ consumer[v][KeyOf[t]].phase = "wait"
    /\ consumer'[v][KeyOf[t]].phase = "exec"
    /\ consumer'[v][KeyOf[t]].task = t
    /\ consumer'[v][KeyOf[t]].attempt = rows'[t].attempts

RowStep(t) ==
    Keeps(t) \/ Creates(t) \/ Resets(t) \/ \E v \in Workers : Claims(t, v)

\* The row operations other than create, reset and claim start nothing and
\* make nobody an owner.
Milder(new, row) ==
    /\ new.attempts = row.attempts
    /\ new.status = "pending" => row.status = "pending"
    /\ \A v \in Workers : Owns(new, v) => Owns(row, v)

LEMMA MildOps ==
    ASSUME NEW row \in Row
    PROVE  /\ Milder(QueuedRow(row), row)
           /\ Milder(OverwrittenRow(row), row)
           /\ Milder(SweptRow(row), row)
           /\ Milder([row EXCEPT !.lease = Lease], row)
           /\ Milder([row EXCEPT !.lease = Elapse(@), !.delay = Elapse(@)], row)
  <1> USE DEF Row, Milder, Owns
  <1>1. Milder(QueuedRow(row), row)
    BY DEF QueuedRow
  <1>2. Milder(OverwrittenRow(row), row)
    BY DEF OverwrittenRow
  <1>3. Milder(SweptRow(row), row)
    BY DEF SweptRow
  <1>4. Milder([row EXCEPT !.lease = Lease], row)
    OBVIOUS
  <1>5. Milder([row EXCEPT !.lease = Elapse(@), !.delay = Elapse(@)], row)
    OBVIOUS
  <1> HIDE DEF Milder
  <1> QED BY <1>1, <1>2, <1>3, <1>4, <1>5

\* A finish is a compare-and-set: without ownership it changes nothing.
LEMMA FinishIsFenced ==
    ASSUME NEW row \in Row, NEW w \in Workers,
           NEW new \in {FinishedRow(row, w, "success", "none"),
                        FinishedRow(row, w, "failed", "exec"),
                        FinishedRow(row, w, "failed", "stopped")}
    PROVE  /\ Milder(new, row)
           /\ ~Owns(row, w) => new = row
  <1> USE DEF Row
  <1>1. CASE new = FinishedRow(row, w, "success", "none")
    BY <1>1 DEF FinishedRow, Owns, Milder
  <1>2. CASE new = FinishedRow(row, w, "failed", "exec")
    BY <1>2 DEF FinishedRow, Owns, Milder
  <1>3. CASE new = FinishedRow(row, w, "failed", "stopped")
    BY <1>3 DEF FinishedRow, Owns, Milder
  <1> QED BY <1>1, <1>2, <1>3

\* If only the row t0 changes, and mildly, every row is kept.
LEMMA OneMildWrite ==
    ASSUME DbTyped, NEW t0 \in Tasks, NEW new \in Row, Milder(new, rows[t0]),
           rows' = [rows EXCEPT ![t0] = new], UNCHANGED resets
    PROVE  \A t \in Tasks : Keeps(t)
  BY DEF DbTyped, Milder, Keeps

LEMMA NoWrite ==
    ASSUME UNCHANGED <<rows, resets>>
    PROVE  \A t \in Tasks : Keeps(t)
  BY DEF Keeps

\* Creating a row: the other rows are kept.
LEMMA CreateSteps ==
    ASSUME DbTyped, NEW t0 \in Tasks, NEW d \in Nat, CreateRow(t0, d), UNCHANGED resets
    PROVE  \A t \in Tasks : Keeps(t) \/ Creates(t)
  <1>1. CASE rows[t0].status # "absent"
    BY <1>1, NoWrite DEF CreateRow
  <1>2. CASE rows[t0].status = "absent"
    <2> DEFINE new == [AbsentRow EXCEPT !.status = "pending", !.delay = d]
    <2>1. new.attempts = 0 /\ new.status = "pending"
      BY DEF AbsentRow
    <2>2. rows' = [rows EXCEPT ![t0] = new]
      BY <1>2 DEF CreateRow
    <2> HIDE DEF new
    <2> QED BY <2>1, <2>2 DEF DbTyped, Keeps, Creates
  <1> QED BY <1>1, <1>2

LEMMA ApiRowSteps == Typed /\ ApiNext => \A t \in Tasks : RowStep(t)
  <1> SUFFICES ASSUME Typed, NEW c \in Callers,
                      \/ \E t \in Tasks, d \in Delays : Submit(c, t, d)
                      \/ ResetForRetry(c) \/ Push(c) \/ MarkQueued(c) \/ FailEnqueue(c)
               PROVE  \A t \in Tasks : RowStep(t)
    BY DEF ApiNext
  <1> USE DEF Typed
  <1> DEFINE t0 == api[c].task
  <1>1. ASSUME NEW t \in Tasks, NEW d \in Delays, Submit(c, t, d)
        PROVE  \A t1 \in Tasks : RowStep(t1)
    BY <1>1, CreateSteps DEF Submit, RowStep
  <1>2. CASE ResetForRetry(c)
    <2>1. t0 \in Tasks /\ rows[t0] \in Row /\ resets[t0] \in Nat
      BY <1>2 DEF ResetForRetry, ApiTyped, DbTyped
    <2>2. ASSUME NEW t \in Tasks, t # t0 PROVE Keeps(t)
      BY <1>2, <2>2 DEF ResetForRetry, Keeps, DbTyped
    <2>3. CASE rows[t0].status = "failed"
      <3>1. rows'[t0] = ResetRow(rows[t0]) /\ resets'[t0] = resets[t0] + 1
        BY <1>2, <2>1, <2>3 DEF ResetForRetry, DbTyped
      <3>2. ResetRow(rows[t0]).status = "pending"
            /\ ResetRow(rows[t0]).attempts = rows[t0].attempts
        BY <2>1, <2>3 DEF ResetRow, Row
      <3>3. Resets(t0)
        BY <3>1, <3>2 DEF Resets
      <3> QED BY <2>2, <3>3 DEF RowStep
    <2>4. CASE rows[t0].status # "failed"
      <3>1. rows'[t0] = rows[t0] /\ resets'[t0] = resets[t0]
        BY <1>2, <2>1, <2>4 DEF ResetForRetry, DbTyped, ResetRow
      <3> QED BY <2>2, <3>1 DEF RowStep, Keeps
    <2> QED BY <2>3, <2>4
  <1>3. CASE Push(c)
    BY <1>3, NoWrite DEF Push, dbVars, RowStep
  <1>4. CASE MarkQueued(c)
    <2>1. t0 \in Tasks /\ rows[t0] \in Row
      BY <1>4 DEF MarkQueued, ApiTyped, DbTyped
    <2>2. CASE UNCHANGED rows
      BY <1>4, <2>2, NoWrite DEF MarkQueued, RowStep
    <2>3. CASE rows' = [rows EXCEPT ![t0] = QueuedRow(rows[t0])]
      BY <1>4, <2>1, <2>3, RowOps, MildOps, OneMildWrite DEF MarkQueued, RowStep
    <2> QED BY <1>4, <2>2, <2>3 DEF MarkQueued
  <1>5. CASE FailEnqueue(c)
    <2>1. t0 \in Tasks /\ rows[t0] \in Row
      BY <1>5 DEF FailEnqueue, ApiTyped, DbTyped
    <2>2. rows' = [rows EXCEPT ![t0] = OverwrittenRow(rows[t0])] /\ UNCHANGED resets
      BY <1>5 DEF FailEnqueue
    <2>3. OverwrittenRow(rows[t0]) \in Row /\ Milder(OverwrittenRow(rows[t0]), rows[t0])
      BY <2>1, RowOps, MildOps
    <2> QED BY <2>1, <2>2, <2>3, OneMildWrite DEF RowStep
  <1> QED BY <1>1, <1>2, <1>3, <1>4, <1>5

LEMMA ConsumerRowSteps ==
    ASSUME Typed, NEW w \in Workers, NEW k \in Keys, ConsumerNext(w, k)
    PROVE  \A t \in Tasks : RowStep(t)
  <1> USE DEF Typed
  <1> DEFINE c == consumer[w][k]
             t0 == c.task
  <1>1. c \in ConsumerOf(k) /\ c \in Consumer
    BY DEF ConsumersTyped, ConsumerOf
  <1>2. c.phase # "idle" => t0 \in Tasks /\ KeyOf[t0] = k /\ rows[t0] \in Row
    BY <1>1 DEF ConsumerOf, DbTyped
  <1>3. CASE \/ TakeTask(w, k) \/ ClaimNothing(w, k) \/ CancelWait(w, k)
             \/ ExecuteTask(w, k) \/ AbandonFinish(w, k)
    <2>1. UNCHANGED <<rows, resets>>
      BY <1>3 DEF TakeTask, ClaimNothing, CancelWait, ExecuteTask, AbandonFinish, dbVars
    <2> QED BY <2>1, NoWrite DEF RowStep
  <1>4. CASE ClaimTask(w, k)
    <2>1. t0 \in Tasks /\ KeyOf[t0] = k /\ rows[t0] \in Row
      BY <1>2, <1>4 DEF ClaimTask
    <2>2. /\ rows' = [rows EXCEPT ![t0] = ClaimedRow(rows[t0], w)]
          /\ UNCHANGED resets
          /\ consumer' = [consumer EXCEPT ![w][k] =
                             Held("exec", t0, rows[t0].attempts + 1, TRUE, FALSE)]
          /\ c.phase = "wait" /\ rows[t0].status = "pending"
      BY <1>4 DEF ClaimTask, Due
    <2>3. /\ ClaimedRow(rows[t0], w).status = "running"
          /\ ClaimedRow(rows[t0], w).worker = w
          /\ ClaimedRow(rows[t0], w).attempts = rows[t0].attempts + 1
      BY <2>1 DEF ClaimedRow, Row
    <2>4. consumer'[w][k] = Held("exec", t0, rows[t0].attempts + 1, TRUE, FALSE)
      BY <2>2 DEF ConsumersTyped
    <2>5. rows'[t0] = ClaimedRow(rows[t0], w)
      BY <2>1, <2>2 DEF DbTyped
    <2>6. Claims(t0, w)
      BY <2>1, <2>2, <2>3, <2>4, <2>5 DEF Claims, Held
    <2>7. ASSUME NEW t \in Tasks, t # t0 PROVE Keeps(t)
      BY <2>2, <2>7 DEF Keeps, DbTyped
    <2> QED BY <2>6, <2>7 DEF RowStep
  <1>5. CASE RenewLease(w, k)
    <2>1. t0 \in Tasks /\ rows[t0] \in Row
      BY <1>2, <1>5 DEF RenewLease
    <2>2. CASE UNCHANGED rows
      BY <1>5, <2>2, NoWrite DEF RenewLease, RowStep
    <2>3. CASE rows' = [rows EXCEPT ![t0] = [rows[t0] EXCEPT !.lease = Lease]]
      <3>1. /\ [rows[t0] EXCEPT !.lease = Lease] \in Row
            /\ Milder([rows[t0] EXCEPT !.lease = Lease], rows[t0])
        BY <2>1, RowOps, MildOps
      <3> QED BY <1>5, <2>1, <2>3, <3>1, OneMildWrite DEF RenewLease, RowStep
    <2> QED BY <1>5, <2>2, <2>3 DEF RenewLease
  <1>6. CASE FinishTask(w, k) \/ CancelTask(w, k)
    <2>1. t0 \in Tasks /\ rows[t0] \in Row
      BY <1>2, <1>6 DEF FinishTask, CancelTask
    <2>2. PICK new \in {FinishedRow(rows[t0], w, "success", "none"),
                        FinishedRow(rows[t0], w, "failed", "exec"),
                        FinishedRow(rows[t0], w, "failed", "stopped")} :
             rows' = [rows EXCEPT ![t0] = new] /\ UNCHANGED resets
      BY <1>6 DEF FinishTask, CancelTask
    <2>3. new \in Row /\ Milder(new, rows[t0])
      BY <2>1, WorkerRowOps, FinishIsFenced
    <2> QED BY <2>1, <2>2, <2>3, OneMildWrite DEF RowStep
  <1>7. CASE CreateRetry(w, k)
    <2>1. RetryOf[t0] \in Tasks
      BY <1>1, <1>7 DEF CreateRetry, ConsumerOf
    <2> QED BY <1>7, <2>1, CreateSteps DEF CreateRetry, RowStep
  <1> QED BY <1>3, <1>4, <1>5, <1>6, <1>7 DEF ConsumerNext

LEMMA RowSteps == Typed /\ [Next]_vars => \A t \in Tasks : RowStep(t)
  <1> SUFFICES ASSUME Typed, [Next]_vars PROVE \A t \in Tasks : RowStep(t)
    OBVIOUS
  <1>1. CASE ApiNext
    BY <1>1, ApiRowSteps
  <1>2. CASE ApiCrash \/ RedisLoss \/ UNCHANGED vars
    BY <1>2, NoWrite DEF ApiCrash, RedisLoss, vars, dbVars, RowStep
  <1>3. CASE Tick
    BY <1>3, MildOps DEF Tick, Typed, DbTyped, Milder, Keeps, RowStep
  <1>4. ASSUME NEW w \in Workers, LoopNext(w) \/ StopWorker(w) \/ CrashWorker(w)
        PROVE  \A t \in Tasks : RowStep(t)
    <2>1. CASE SweepStale(w)
      BY <2>1, MildOps DEF SweepStale, Typed, DbTyped, Milder, Keeps, RowStep
    <2>2. CASE ~SweepStale(w)
      <3>1. UNCHANGED <<rows, resets>>
        BY <1>4, <2>2 DEF LoopNext, StartWorker, FetchPending, PopRedis, PopNothing,
                          ReadTask, StopWorker, CrashWorker, dbVars
      <3> QED BY <3>1, NoWrite DEF RowStep
    <2> QED BY <2>1, <2>2
  <1>5. ASSUME NEW w \in Workers, NEW k \in Keys, ConsumerNext(w, k)
        PROVE  \A t \in Tasks : RowStep(t)
    BY <1>5, ConsumerRowSteps
  <1> QED BY <1>1, <1>2, <1>3, <1>4, <1>5 DEF Next

-----------------------------------------------------------------------------
\* No crash, lapsed lease, lost or repeated Redis message or second worker
\* starts a task again: a start is backed by the creation of the row or by an
\* explicit reset. NoReplay is inductive once rows are well typed.
THEOREM TasksAreNotReplayed == Spec => []NoReplay
  <1>1. Init => NoReplay
    BY DEF Init, NoReplay, AbsentRow
  <1>2. ASSUME Typed, NoReplay, [Next]_vars PROVE NoReplay'
    <2> SUFFICES ASSUME NEW t \in Tasks
                 PROVE  rows'[t].attempts + (IF rows'[t].status = "pending" THEN 1 ELSE 0)
                            <= 1 + resets'[t]
      BY DEF NoReplay
    <2>1. rows[t].attempts \in Nat /\ resets[t] \in Nat
      BY <1>2 DEF Typed, DbTyped, Row
    <2>2. rows[t].attempts + (IF rows[t].status = "pending" THEN 1 ELSE 0)
              <= 1 + resets[t]
      BY <1>2 DEF NoReplay
    <2>3. RowStep(t)
      BY <1>2, RowSteps
    <2>4. CASE Keeps(t)
      BY <2>1, <2>2, <2>4 DEF Keeps
    <2>5. CASE Creates(t)
      BY <2>1, <2>5 DEF Creates
    <2>6. CASE Resets(t)
      BY <2>1, <2>2, <2>6 DEF Resets
    <2>7. CASE \E v \in Workers : Claims(t, v)
      BY <2>1, <2>2, <2>7 DEF Claims
    <2> QED BY <2>3, <2>4, <2>5, <2>6, <2>7 DEF RowStep
  <1> QED BY <1>1, <1>2, TypedInit, TypedNext, PTL DEF Spec

-----------------------------------------------------------------------------
(* The fence. Owner checks compare worker ids only, so the argument needs  *)
(* that a worker has one execution of a task at a time: a consumer serves  *)
(* one task of its key at a time.                                          *)

Executes(w, k) == consumer[w][k].phase \in {"exec", "finish"}

\* While a worker still owns the row of a task it executes, the row is at the
\* attempt that this execution was started for.
OwnedIsCurrent ==
    \A w \in Workers, k \in Keys :
        Executes(w, k) /\ Owns(rows[consumer[w][k].task], w)
            => rows[consumer[w][k].task].attempts = consumer[w][k].attempt

\* A step of one consumer changes no other consumer.
LEMMA OnlyOwnConsumer ==
    ASSUME ConsumersTyped, NEW v \in Workers, NEW j \in Keys, ConsumerNext(v, j),
           NEW w \in Workers, NEW k \in Keys, w # v \/ k # j
    PROVE  consumer'[w][k] = consumer[w][k]
  <1>1. \/ UNCHANGED consumer
        \/ \E x : consumer' = [consumer EXCEPT ![v][j] = x]
    BY DEF ConsumerNext, TakeTask, ClaimTask, ClaimNothing, RenewLease, ExecuteTask,
           FinishTask, CreateRetry, AbandonFinish, CancelWait, CancelTask, Release
  <1> QED BY <1>1 DEF ConsumersTyped

\* A consumer that executes after a step executed the same attempt before it,
\* unless the step is its claim.
LEMMA ExecutesBefore ==
    ASSUME Typed, [Next]_vars, NEW w \in Workers, NEW k \in Keys,
           consumer'[w][k].phase \in {"exec", "finish"}
    PROVE  \/ ClaimTask(w, k)
           \/ /\ Executes(w, k)
              /\ consumer'[w][k].task = consumer[w][k].task
              /\ consumer'[w][k].attempt = consumer[w][k].attempt
  <1> USE DEF Typed
  <1>1. CASE UNCHANGED consumer
    BY <1>1 DEF Executes
  <1>2. ASSUME NEW v \in Workers, CrashWorker(v)
        PROVE  v # w /\ consumer'[w][k] = consumer[w][k]
    BY <1>2 DEF CrashWorker, ConsumersTyped, Idle, Held
  <1>3. ASSUME NEW v \in Workers, NEW j \in Keys, ConsumerNext(v, j)
        PROVE  \/ ClaimTask(w, k)
               \/ /\ Executes(w, k)
                  /\ consumer'[w][k].task = consumer[w][k].task
                  /\ consumer'[w][k].attempt = consumer[w][k].attempt
    <2>1. CASE w # v \/ k # j
      BY <1>3, <2>1, OnlyOwnConsumer DEF Executes
    <2>2. CASE w = v /\ k = j
      <3> USE DEF ConsumersTyped, Executes, Held
      <3>1. CASE TakeTask(w, k)
        BY <3>1 DEF TakeTask
      <3>2. CASE \/ ClaimNothing(w, k) \/ CancelWait(w, k) \/ CreateRetry(w, k)
                 \/ AbandonFinish(w, k) \/ CancelTask(w, k)
        BY <3>2 DEF ClaimNothing, CancelWait, CreateRetry, AbandonFinish, CancelTask,
                    Release, Idle
      <3>3. CASE RenewLease(w, k)
        BY <3>3 DEF RenewLease
      <3>4. CASE ExecuteTask(w, k)
        BY <3>4 DEF ExecuteTask
      <3>5. CASE FinishTask(w, k)
        <4>1. \/ consumer' = [consumer EXCEPT ![w][k] = Idle]
              \/ \E t, n : consumer' = [consumer EXCEPT ![w][k] =
                                           Held("retry", t, n, FALSE, FALSE)]
          BY <3>5 DEF FinishTask, Release
        <4> QED BY <4>1 DEF Idle
      <3> QED BY <1>3, <2>2, <3>1, <3>2, <3>3, <3>4, <3>5 DEF ConsumerNext
    <2> QED BY <2>1, <2>2
  <1>4. \/ UNCHANGED consumer
        \/ \E v \in Workers : CrashWorker(v)
        \/ \E v \in Workers, j \in Keys : ConsumerNext(v, j)
    BY DEF Next, vars, workerVars, ApiNext, Submit, ResetForRetry, Push, MarkQueued,
           FailEnqueue, ApiCrash, RedisLoss, Tick, LoopNext, StartWorker, FetchPending,
           PopRedis, PopNothing, ReadTask, SweepStale, StopWorker
  <1> QED BY <1>1, <1>2, <1>3, <1>4 DEF Executes

LEMMA OwnedIsCurrentNext ==
    ASSUME Typed, OwnedIsCurrent, [Next]_vars PROVE OwnedIsCurrent'
  <1> SUFFICES ASSUME NEW w \in Workers, NEW k \in Keys,
                      consumer'[w][k].phase \in {"exec", "finish"},
                      Owns(rows'[consumer'[w][k].task], w)
               PROVE  rows'[consumer'[w][k].task].attempts = consumer'[w][k].attempt
    BY DEF OwnedIsCurrent, Executes, Owns
  <1> DEFINE t == consumer'[w][k].task
  <1>1. t \in Tasks /\ KeyOf[t] = k
    BY TypedNext DEF Typed, ConsumersTyped, ConsumerOf
  <1>2. RowStep(t)
    BY <1>1, RowSteps
  <1>3. CASE \E v \in Workers : Claims(t, v)
    <2>1. PICK v \in Workers : Claims(t, v)
      BY <1>3
    <2>2. v = w
      BY <2>1 DEF Claims, Owns
    <2> QED BY <1>1, <2>1, <2>2 DEF Claims
  <1>4. CASE Keeps(t)
    <2>1. Owns(rows[t], w) /\ rows'[t].attempts = rows[t].attempts
      BY <1>4 DEF Keeps
    <2>2. CASE ClaimTask(w, k)
      <3>1. t = consumer[w][k].task
        BY <2>2 DEF ClaimTask, Typed, ConsumersTyped, Held
      <3> QED BY <2>1, <2>2, <3>1 DEF ClaimTask, Due, Owns
    <2>3. CASE /\ Executes(w, k)
               /\ t = consumer[w][k].task
               /\ consumer'[w][k].attempt = consumer[w][k].attempt
      BY <2>1, <2>3 DEF OwnedIsCurrent
    <2> QED BY <2>2, <2>3, ExecutesBefore
  <1>5. CASE Creates(t) \/ Resets(t)
    BY <1>5 DEF Creates, Resets, Owns
  <1> QED BY <1>2, <1>3, <1>4, <1>5 DEF RowStep

\* The outcome of one attempt never lands on another: whatever an execution
\* whose attempt was superseded does next, its row stays as it is.
THEOREM SupersededAttemptsAreHarmless == Spec => StaleAttemptHarmless
  <1> DEFINE IInv == Typed /\ OwnedIsCurrent
  <1>1. Init => IInv
    <2>1. Init => OwnedIsCurrent
      BY DEF Init, OwnedIsCurrent, Executes, Idle, Held
    <2> QED BY <2>1, TypedInit
  <1>2. IInv /\ [Next]_vars => IInv'
    BY TypedNext, OwnedIsCurrentNext
  <1>3. ASSUME IInv, [Next]_vars, NEW w \in Workers, NEW k \in Keys,
               Executes(w, k),
               rows[consumer[w][k].task].attempts # consumer[w][k].attempt,
               consumer'[w][k] # consumer[w][k]
        PROVE  rows'[consumer[w][k].task] = rows[consumer[w][k].task]
    <2> DEFINE t == consumer[w][k].task
    <2>1. t \in Tasks /\ rows[t] \in Row /\ ~Owns(rows[t], w)
      BY <1>3 DEF Typed, DbTyped, ConsumersTyped, ConsumerOf, OwnedIsCurrent, Executes
    <2>2. ASSUME NEW v \in Workers, CrashWorker(v) PROVE rows'[t] = rows[t]
      BY <2>2 DEF CrashWorker, dbVars
    <2>3. ASSUME NEW v \in Workers, NEW j \in Keys, ConsumerNext(v, j)
          PROVE  rows'[t] = rows[t]
      <3>1. v = w /\ j = k
        BY <1>3, <2>3, OnlyOwnConsumer DEF Typed
      <3>2. CASE FinishTask(w, k) \/ CancelTask(w, k)
        <4>1. PICK new \in {FinishedRow(rows[t], w, "success", "none"),
                            FinishedRow(rows[t], w, "failed", "exec"),
                            FinishedRow(rows[t], w, "failed", "stopped")} :
                 rows' = [rows EXCEPT ![t] = new]
          BY <3>2 DEF FinishTask, CancelTask
        <4>2. new = rows[t]
          BY <2>1, FinishIsFenced
        <4> QED BY <1>3, <2>1, <4>1, <4>2 DEF Typed, DbTyped
      <3>3. CASE RenewLease(w, k)
        BY <2>1, <3>3 DEF RenewLease
      <3>4. CASE \/ TakeTask(w, k) \/ ClaimTask(w, k) \/ CreateRetry(w, k)
        BY <1>3, <3>4 DEF TakeTask, ClaimTask, CreateRetry, Executes
      <3>5. CASE \/ ClaimNothing(w, k) \/ CancelWait(w, k)
                 \/ ExecuteTask(w, k) \/ AbandonFinish(w, k)
        BY <3>5 DEF ClaimNothing, CancelWait, ExecuteTask, AbandonFinish, dbVars
      <3> QED BY <2>3, <3>1, <3>2, <3>3, <3>4, <3>5 DEF ConsumerNext
    <2>4. \/ UNCHANGED consumer
          \/ \E v \in Workers : CrashWorker(v)
          \/ \E v \in Workers, j \in Keys : ConsumerNext(v, j)
      BY <1>3 DEF Next, vars, workerVars, ApiNext, Submit, ResetForRetry, Push,
             MarkQueued, FailEnqueue, ApiCrash, RedisLoss, Tick, LoopNext, StartWorker,
             FetchPending, PopRedis, PopNothing, ReadTask, SweepStale, StopWorker
    <2> QED BY <1>3, <2>2, <2>3, <2>4
  <1>4. IInv /\ [Next]_vars =>
           [\A w \in Workers, k \in Keys :
              LET c == consumer[w][k] IN
              /\ c.phase \in {"exec", "finish"}
              /\ rows[c.task].attempts # c.attempt
              /\ consumer'[w][k] # c
              => rows'[c.task] = rows[c.task]]_vars
    BY <1>3 DEF Executes
  <1> QED BY <1>1, <1>2, <1>4, PTL DEF Spec, StaleAttemptHarmless

-----------------------------------------------------------------------------
(* Nothing leaks in a worker. What a worker has scheduled is finite though *)
(* tasks and keys may not be; an id is in one place only, so that giving   *)
(* it back once takes it out of scheduled_ids everywhere.                  *)

Busy(c) == c.phase \in {"exec", "finish", "retry"}

SlotsKept(w) ==
    IsFiniteSet(Executing(w)) /\ slots[w] + Cardinality(Executing(w)) = Concurrency

PrefetchKept(w) ==
    /\ IsFiniteSet(scheduled[w])
    /\ prefetch[w] + Cardinality(scheduled[w])
          + (IF fetch[w].pc = "acquire" THEN 0 ELSE 1) = PrefetchLimit

\* A consumer has its task in hand and the task is scheduled, or it has none.
Hands(w) ==
    \A k \in Keys : IF consumer[w][k].phase = "idle" THEN consumer[w][k].task = NoTask
                     ELSE consumer[w][k].task \in scheduled[w]

\* A queued id is scheduled, queued once, and not in its consumer's hands.
Lines(w) ==
    \A k \in Keys : \A i \in 1..Len(queues[w][k]) :
        /\ queues[w][k][i] \in scheduled[w]
        /\ consumer[w][k].task # queues[w][k][i]
        /\ \A j \in 1..Len(queues[w][k]) : queues[w][k][j] = queues[w][k][i] => j = i

Reached(w) ==
    \A t \in scheduled[w] :
        \/ consumer[w][KeyOf[t]].task = t
        \/ \E i \in 1..Len(queues[w][KeyOf[t]]) : queues[w][KeyOf[t]][i] = t

Places(w) == Hands(w) /\ Lines(w) /\ Reached(w)
NoLeak(w) == SlotsKept(w) /\ PrefetchKept(w) /\ Places(w)

\* Nothing of a worker's memory changes.
Still(w) ==
    /\ fetch'[w] = fetch[w] /\ prefetch'[w] = prefetch[w] /\ slots'[w] = slots[w]
    /\ scheduled'[w] = scheduled[w] /\ queues'[w] = queues[w] /\ consumer'[w] = consumer[w]

LEMMA StillNoLeak ==
    ASSUME NEW w \in Workers, NoLeak(w), Still(w)
    PROVE  NoLeak(w)'
  <1>1. Executing(w)' = Executing(w)
    BY DEF Executing, Still
  <1>2. SlotsKept(w)' /\ PrefetchKept(w)'
    BY <1>1 DEF NoLeak, SlotsKept, PrefetchKept, Still
  <1>3. Hands(w)' /\ Lines(w)' /\ Reached(w)'
    BY DEF NoLeak, Places, Hands, Lines, Reached, Still
  <1> QED BY <1>2, <1>3 DEF NoLeak, Places

\* A worker works in its own memory.
LEMMA OthersStill ==
    ASSUME Typed, NEW w \in Workers, NEW v \in Workers, v # w,
           LoopNext(w) \/ StopWorker(w) \/ CrashWorker(w) \/ \E k \in Keys : ConsumerNext(w, k)
    PROVE  Still(v)
  <1> USE DEF Typed, LoopTyped, QueuesTyped, ConsumersTyped
  <1>1. CASE StartWorker(w) \/ StopWorker(w) \/ SweepStale(w)
    BY <1>1 DEF StartWorker, StopWorker, SweepStale, workerVars, Still
  <1>2. CASE FetchPending(w)
    BY <1>2 DEF FetchPending, Still
  <1>3. CASE PopRedis(w) \/ PopNothing(w)
    BY <1>3 DEF PopRedis, PopNothing, Still
  <1>4. CASE ReadTask(w)
    BY <1>4 DEF ReadTask, Still
  <1>5. CASE CrashWorker(w)
    BY <1>5 DEF CrashWorker, Still
  <1>6. ASSUME NEW k \in Keys, ConsumerNext(w, k) PROVE Still(v)
    <2>1. /\ consumer' = consumer \/ \E c : consumer' = [consumer EXCEPT ![w][k] = c]
          /\ prefetch' = prefetch \/ \E c : prefetch' = [prefetch EXCEPT ![w] = c]
          /\ slots' = slots \/ \E c : slots' = [slots EXCEPT ![w] = c]
      BY <1>6 DEF ConsumerNext, TakeTask, ClaimTask, ClaimNothing, RenewLease, ExecuteTask,
           FinishTask, CreateRetry, AbandonFinish, CancelWait, CancelTask, Release
    <2>2. /\ scheduled' = scheduled \/ \E c : scheduled' = [scheduled EXCEPT ![w] = c]
          /\ queues' = queues \/ \E c : queues' = [queues EXCEPT ![w][k] = c]
          /\ fetch' = fetch
      BY <1>6 DEF ConsumerNext, TakeTask, ClaimTask, ClaimNothing, RenewLease, ExecuteTask,
           FinishTask, CreateRetry, AbandonFinish, CancelWait, CancelTask, Release
    <2> QED BY <2>1, <2>2 DEF Still
  <1> QED BY <1>1, <1>2, <1>3, <1>4, <1>5, <1>6 DEF LoopNext

\* A slot is taken when a consumer starts to execute and given back when it
\* stops.
LEMMA SlotsStep ==
    ASSUME Typed, NEW w \in Workers, NEW k \in Keys, NEW c, SlotsKept(w),
           consumer' = [consumer EXCEPT ![w][k] = c],
           \/ Busy(c) /\ ~Busy(consumer[w][k]) /\ slots' = [slots EXCEPT ![w] = @ - 1]
           \/ ~Busy(c) /\ Busy(consumer[w][k]) /\ slots' = [slots EXCEPT ![w] = @ + 1]
           \/ (Busy(c) <=> Busy(consumer[w][k])) /\ UNCHANGED slots
    PROVE  SlotsKept(w)'
  <1> DEFINE E == Executing(w)
  <1>0. slots[w] \in Nat /\ slots \in [Workers -> Nat] /\ Concurrency \in Nat
    BY DEF Typed, LoopTyped
  <1>1. \A j \in Keys : consumer'[w][j] = IF j = k THEN c ELSE consumer[w][j]
    BY DEF Typed, ConsumersTyped
  <1>2. \A j : j \in E <=> j \in Keys /\ Busy(consumer[w][j])
    BY DEF Executing, Busy
  <1>3. \A j : j \in Executing(w)' <=> j \in Keys /\ Busy(consumer'[w][j])
    BY DEF Executing, Busy
  <1>4. IsFiniteSet(E) /\ slots[w] + Cardinality(E) = Concurrency /\ Cardinality(E) \in Nat
    BY FS_CardinalityType DEF SlotsKept
  <1>5. CASE Busy(c) /\ ~Busy(consumer[w][k]) /\ slots' = [slots EXCEPT ![w] = @ - 1]
    <2>1. Executing(w)' = E \cup {k} /\ k \notin E
      BY <1>1, <1>2, <1>3, <1>5
    <2> HIDE DEF E
    <2>2. IsFiniteSet(E \cup {k}) /\ Cardinality(E \cup {k}) = Cardinality(E) + 1
      BY <1>4, <2>1, FS_AddElement
    <2>3. slots'[w] = slots[w] - 1
      BY <1>0, <1>5
    <2> QED BY <1>0, <1>4, <2>1, <2>2, <2>3 DEF SlotsKept
  <1>6. CASE ~Busy(c) /\ Busy(consumer[w][k]) /\ slots' = [slots EXCEPT ![w] = @ + 1]
    <2>1. Executing(w)' = E \ {k} /\ k \in E
      BY <1>1, <1>2, <1>3, <1>6
    <2> HIDE DEF E
    <2>2. IsFiniteSet(E \ {k}) /\ Cardinality(E \ {k}) = Cardinality(E) - 1
      BY <1>4, <2>1, FS_RemoveElement
    <2>3. slots'[w] = slots[w] + 1
      BY <1>0, <1>6
    <2> QED BY <1>0, <1>4, <2>1, <2>2, <2>3 DEF SlotsKept
  <1>7. CASE (Busy(c) <=> Busy(consumer[w][k])) /\ UNCHANGED slots
    <2>1. Executing(w)' = E
      BY <1>1, <1>2, <1>3, <1>7
    <2> QED BY <1>4, <1>7, <2>1 DEF SlotsKept
  <1> QED BY <1>5, <1>6, <1>7

\* Facts about the places of one worker.
LEMMA PlaceTypes ==
    ASSUME Typed, NEW w \in Workers, NEW k \in Keys
    PROVE  /\ scheduled[w] \subseteq Tasks
           /\ queues[w][k] \in Seq(Tasks) /\ Len(queues[w][k]) \in Nat
           /\ \A i \in 1..Len(queues[w][k]) :
                 queues[w][k][i] \in Tasks /\ KeyOf[queues[w][k][i]] = k
           /\ consumer[w][k].phase # "idle" =>
                 consumer[w][k].task \in Tasks /\ KeyOf[consumer[w][k].task] = k
  <1>1. queues[w][k] \in Seq(Tasks) /\ scheduled[w] \subseteq Tasks
    BY DEF Typed, QueuesTyped, LoopTyped
  <1>2. \A i \in 1..Len(queues[w][k]) : queues[w][k][i] \in Tasks /\ KeyOf[queues[w][k][i]] = k
    BY <1>1 DEF Typed, QueuesTyped
  <1>3. consumer[w][k].phase # "idle" =>
                 consumer[w][k].task \in Tasks /\ KeyOf[consumer[w][k].task] = k
    BY DEF Typed, ConsumersTyped, ConsumerOf
  <1> QED BY <1>1, <1>2, <1>3

\* The consumer goes on with the task it has.
LEMMA SameHand ==
    ASSUME Typed, NEW w \in Workers, NEW k \in Keys, NEW c, Places(w),
           consumer' = [consumer EXCEPT ![w][k] = c],
           c.task = consumer[w][k].task, c.phase # "idle", consumer[w][k].phase # "idle",
           UNCHANGED <<scheduled, queues>>
    PROVE  Places(w)'
  <1>1. \A j \in Keys : consumer'[w][j] = IF j = k THEN c ELSE consumer[w][j]
    BY DEF Typed, ConsumersTyped
  <1>2. \A j \in Keys : consumer'[w][j].task = consumer[w][j].task
                        /\ (consumer'[w][j].phase = "idle" <=> consumer[w][j].phase = "idle")
    BY <1>1
  <1>3. Hands(w)'
    BY <1>2 DEF Places, Hands
  <1>4. Lines(w)'
    BY <1>2 DEF Places, Lines
  <1>5. \A t \in scheduled[w] : KeyOf[t] \in Keys
    BY PlaceTypes
  <1>6. Reached(w)'
    BY <1>2, <1>5 DEF Places, Reached
  <1> QED BY <1>3, <1>4, <1>6 DEF Places

\* The finally block of a consumer gives back the one task it has.
LEMMA ReleaseKeeps ==
    ASSUME Typed, NEW w \in Workers, NEW k \in Keys, PrefetchKept(w), Places(w),
           consumer[w][k].phase # "idle", Release(w, k), UNCHANGED <<fetch, queues>>
    PROVE  PrefetchKept(w)' /\ Places(w)'
  <1> DEFINE t == consumer[w][k].task
             S == scheduled[w]
  <1>1. t \in Tasks /\ KeyOf[t] = k /\ t \in S /\ S \subseteq Tasks
    BY PlaceTypes DEF Places, Hands
  <1>2. scheduled'[w] = S \ {t} /\ prefetch'[w] = prefetch[w] + 1 /\ prefetch[w] \in Nat
    BY DEF Release, Typed, LoopTyped
  <1>3. \A j \in Keys : consumer'[w][j] = IF j = k THEN Idle ELSE consumer[w][j]
    BY DEF Release, Typed, ConsumersTyped
  <1>4. Idle.task = NoTask /\ Idle.phase = "idle"
    BY DEF Idle, Held
  <1>5. PrefetchKept(w)'
    <2>1. IsFiniteSet(S) /\ Cardinality(S) \in Nat
      BY FS_CardinalityType DEF PrefetchKept
    <2>2. IsFiniteSet(S \ {t}) /\ Cardinality(S \ {t}) = Cardinality(S) - 1
      <3> HIDE DEF S, t
      <3> QED BY <1>1, <2>1, FS_RemoveElement
    <2>3. fetch'[w].pc = fetch[w].pc
      OBVIOUS
    <2> QED BY <1>2, <2>1, <2>2, <2>3 DEF PrefetchKept
  <1>6. Hands(w)'
    <2>1. ASSUME NEW j \in Keys, j # k, consumer[w][j].phase # "idle"
          PROVE  consumer[w][j].task \in S \ {t}
      <3>1. consumer[w][j].task \in S /\ KeyOf[consumer[w][j].task] = j
        BY <2>1, PlaceTypes DEF Places, Hands
      <3> QED BY <1>1, <2>1, <3>1
    <2> QED BY <1>2, <1>3, <1>4, <2>1 DEF Places, Hands
  <1>7. Lines(w)'
    <2>1. ASSUME NEW j \in Keys, NEW i \in 1..Len(queues[w][j])
          PROVE  /\ queues[w][j][i] \in S \ {t}
                 /\ consumer'[w][j].task # queues[w][j][i]
                 /\ \A m \in 1..Len(queues[w][j]) : queues[w][j][m] = queues[w][j][i] => m = i
      <3>1. queues[w][j][i] \in Tasks /\ KeyOf[queues[w][j][i]] = j
        BY <2>1, PlaceTypes
      <3>2. /\ queues[w][j][i] \in S /\ consumer[w][j].task # queues[w][j][i]
            /\ \A m \in 1..Len(queues[w][j]) : queues[w][j][m] = queues[w][j][i] => m = i
        BY <2>1 DEF Places, Lines
      <3>3. queues[w][j][i] # t
        BY <1>1, <3>1, <3>2
      <3>4. consumer'[w][j].task # queues[w][j][i]
        BY <1>3, <1>4, <3>1, <3>2, SentinelAssumption
      <3> QED BY <3>2, <3>3, <3>4
    <2> QED BY <1>2, <2>1 DEF Lines
  <1>8. Reached(w)'
    <2>1. ASSUME NEW s \in S, s # t
          PROVE  \/ consumer'[w][KeyOf[s]].task = s
                 \/ \E i \in 1..Len(queues[w][KeyOf[s]]) : queues[w][KeyOf[s]][i] = s
      <3>1. s \in Tasks /\ KeyOf[s] \in Keys
        BY <1>1, <2>1
      <3>2. CASE consumer[w][KeyOf[s]].task = s
        BY <1>3, <2>1, <3>1, <3>2
      <3>3. CASE \E i \in 1..Len(queues[w][KeyOf[s]]) : queues[w][KeyOf[s]][i] = s
        BY <3>3
      <3> QED BY <2>1, <3>2, <3>3 DEF Places, Reached
    <2> QED BY <1>2, <2>1 DEF Reached
  <1> QED BY <1>5, <1>6, <1>7, <1>8 DEF Places

\* An idle consumer takes the head of its queue.
LEMMA TakeKeeps ==
    ASSUME Typed, NEW w \in Workers, NEW k \in Keys, Places(w), TakeTask(w, k)
    PROVE  Places(w)'
  <1>0. PICK q : q = queues[w][k]
    OBVIOUS
  <1>1. PICK c : c = Held("wait", Head(q), 0, FALSE, FALSE)
    OBVIOUS
  <1>2. /\ q \in Seq(Tasks) /\ q # <<>> /\ Len(q) \in Nat
        /\ \A i \in 1..Len(q) : q[i] \in Tasks /\ KeyOf[q[i]] = k
    BY <1>0, PlaceTypes DEF TakeTask
  <1>3. /\ c.task = q[1] /\ c.phase = "wait" /\ 1 \in 1..Len(q)
        /\ Tail(q) \in Seq(Tasks) /\ Len(Tail(q)) = Len(q) - 1
        /\ \A i \in 1..Len(Tail(q)) : i + 1 \in 1..Len(q) /\ Tail(q)[i] = q[i + 1]
    BY <1>1, <1>2 DEF Held
  <1>4. consumer' = [consumer EXCEPT ![w][k] = c] /\ UNCHANGED scheduled
    BY <1>0, <1>1 DEF TakeTask
  <1>5. \A j \in Keys : consumer'[w][j] = IF j = k THEN c ELSE consumer[w][j]
    BY <1>4 DEF Typed, ConsumersTyped
  <1>6. \A j \in Keys : queues'[w][j] = IF j = k THEN Tail(q) ELSE queues[w][j]
    BY <1>0 DEF TakeTask, Typed, QueuesTyped
  <1>7. consumer[w][k].task = NoTask
    BY DEF TakeTask, Places, Hands
  <1>8. \A i \in 1..Len(q) : /\ q[i] \in scheduled[w]
                             /\ \A m \in 1..Len(q) : q[m] = q[i] => m = i
    BY <1>0 DEF Places, Lines
  <1>9. Hands(w)'
    <2>1. ASSUME NEW j \in Keys PROVE IF consumer'[w][j].phase = "idle" THEN consumer'[w][j].task = NoTask
                                     ELSE consumer'[w][j].task \in scheduled'[w]
      <3>1. CASE j = k
        BY <1>3, <1>4, <1>5, <1>8, <3>1
      <3>2. CASE j # k
        BY <1>4, <1>5, <3>2 DEF Places, Hands
      <3> QED BY <3>1, <3>2
    <2> QED BY <2>1 DEF Hands
  <1>10. Lines(w)'
    <2>1. ASSUME NEW j \in Keys, NEW i \in 1..Len(queues'[w][j])
          PROVE  /\ queues'[w][j][i] \in scheduled'[w]
                 /\ consumer'[w][j].task # queues'[w][j][i]
                 /\ \A m \in 1..Len(queues'[w][j]) : queues'[w][j][m] = queues'[w][j][i] => m = i
      <3>1. CASE j = k
        <4>1. queues'[w][j] = Tail(q) /\ consumer'[w][j] = c /\ scheduled' = scheduled
          BY <1>4, <1>5, <1>6, <3>1
        <4>2. i \in 1..Len(Tail(q)) /\ i + 1 \in 1..Len(q) /\ Tail(q)[i] = q[i + 1] /\ i \in Nat
          BY <1>3, <2>1, <4>1
        <4>3. q[i + 1] # q[1]
          <5>1. i + 1 # 1
            BY <4>2
          <5> QED BY <1>3, <1>8, <4>2, <5>1
        <4>4. ASSUME NEW m \in 1..Len(Tail(q)), Tail(q)[m] = Tail(q)[i] PROVE m = i
          <5>1. m + 1 \in 1..Len(q) /\ Tail(q)[m] = q[m + 1] /\ m \in Nat
            BY <1>2, <1>3, <4>4
          <5>2. m + 1 = i + 1
            BY <1>8, <4>2, <4>4, <5>1
          <5> QED BY <4>2, <5>1, <5>2
        <4> QED BY <1>3, <1>8, <4>1, <4>2, <4>3, <4>4
      <3>2. CASE j # k
        BY <1>4, <1>5, <1>6, <2>1, <3>2 DEF Places, Lines
      <3> QED BY <3>1, <3>2
    <2> QED BY <2>1 DEF Lines
  <1>11. Reached(w)'
    <2>1. ASSUME NEW s \in scheduled[w]
          PROVE  \/ consumer'[w][KeyOf[s]].task = s
                 \/ \E i \in 1..Len(queues'[w][KeyOf[s]]) : queues'[w][KeyOf[s]][i] = s
      <3>1. s \in Tasks /\ KeyOf[s] \in Keys
        BY PlaceTypes
      <3>2. CASE KeyOf[s] # k
        BY <1>5, <1>6, <3>1, <3>2 DEF Places, Reached
      <3>3. CASE KeyOf[s] = k
        <4>1. PICK i \in 1..Len(q) : q[i] = s
          BY <1>0, <1>7, <3>1, <3>3, SentinelAssumption DEF Places, Reached
        <4>2. CASE i = 1
          BY <1>3, <1>5, <3>1, <3>3, <4>1, <4>2
        <4>3. CASE i # 1
          <5>1. i - 1 \in 1..Len(Tail(q)) /\ (i - 1) + 1 = i
            BY <1>2, <1>3, <4>3
          <5>2. Tail(q)[i - 1] = q[i]
            BY <1>3, <5>1
          <5>3. queues'[w][KeyOf[s]] = Tail(q)
            BY <1>6, <3>3
          <5> QED BY <4>1, <5>1, <5>2, <5>3
        <4> QED BY <4>2, <4>3
      <3> QED BY <3>2, <3>3
    <2> QED BY <1>4, <2>1 DEF Reached
  <1> QED BY <1>9, <1>10, <1>11 DEF Places

\* The loop schedules a task that it has not scheduled yet.
LEMMA AcceptKeeps ==
    ASSUME Typed, NEW w \in Workers, NEW t \in Tasks, Places(w), t \notin scheduled[w],
           scheduled' = [scheduled EXCEPT ![w] = @ \cup {t}],
           queues' = [queues EXCEPT ![w][KeyOf[t]] = Append(@, t)], UNCHANGED consumer
    PROVE  Places(w)'
  <1> DEFINE k == KeyOf[t]
  <1>0. PICK q : q = queues[w][k]
    OBVIOUS
  <1>1. k \in Keys /\ scheduled'[w] = scheduled[w] \cup {t}
    BY DEF Typed, LoopTyped
  <1>2. q \in Seq(Tasks) /\ Len(q) \in Nat
    BY <1>0, <1>1, PlaceTypes
  <1>3. /\ Len(Append(q, t)) = Len(q) + 1 /\ Append(q, t)[Len(q) + 1] = t
        /\ \A i \in 1..Len(q) : Append(q, t)[i] = q[i]
        /\ \A i \in 1..Len(Append(q, t)) : i \in 1..Len(q) \/ i = Len(q) + 1
    BY <1>2
  <1>4. \A j \in Keys : queues'[w][j] = IF j = k THEN Append(q, t) ELSE queues[w][j]
    BY <1>0, <1>1 DEF Typed, QueuesTyped
  <1>5. consumer[w][k].task # t
    BY <1>1, SentinelAssumption DEF Places, Hands
  <1>6. \A i \in 1..Len(q) : /\ q[i] \in scheduled[w] /\ consumer[w][k].task # q[i] /\ q[i] # t
                             /\ \A m \in 1..Len(q) : q[m] = q[i] => m = i
    BY <1>0, <1>1 DEF Places, Lines
  <1>7. Hands(w)'
    BY <1>1 DEF Places, Hands
  <1>8. Lines(w)'
    <2>1. ASSUME NEW j \in Keys, NEW i \in 1..Len(queues'[w][j])
          PROVE  /\ queues'[w][j][i] \in scheduled'[w]
                 /\ consumer'[w][j].task # queues'[w][j][i]
                 /\ \A m \in 1..Len(queues'[w][j]) : queues'[w][j][m] = queues'[w][j][i] => m = i
      <3>1. CASE j = k
        <4> HIDE DEF k
        <4>1. queues'[w][j] = Append(q, t) /\ consumer'[w][j] = consumer[w][k]
          BY <1>4, <3>1
        <4>2. CASE i \in 1..Len(q)
          <5>1. Append(q, t)[i] = q[i]
            BY <1>3, <4>2
          <5>2. ASSUME NEW m \in 1..Len(Append(q, t)), Append(q, t)[m] = q[i] PROVE m = i
            <6>1. m \in 1..Len(q) \/ m = Len(q) + 1
              BY <1>3
            <6>2. m # Len(q) + 1
              BY <1>3, <1>6, <4>2, <5>2
            <6>3. Append(q, t)[m] = q[m]
              BY <1>3, <6>1, <6>2
            <6> QED BY <1>6, <4>2, <5>2, <6>1, <6>2, <6>3
          <5> QED BY <1>1, <1>6, <4>1, <4>2, <5>1, <5>2
        <4>3. CASE i = Len(q) + 1
          <5>1. ASSUME NEW m \in 1..Len(Append(q, t)), Append(q, t)[m] = t PROVE m = i
            BY <1>3, <1>6, <4>3, <5>1
          <5> QED BY <1>1, <1>3, <1>5, <4>1, <4>3, <5>1
        <4> QED BY <1>3, <2>1, <4>1, <4>2, <4>3
      <3>2. CASE j # k
        BY <1>1, <1>4, <2>1, <3>2 DEF Places, Lines
      <3> QED BY <3>1, <3>2
    <2> QED BY <2>1 DEF Lines
  <1>9. Reached(w)'
    <2>1. ASSUME NEW s \in scheduled[w]
          PROVE  \/ consumer'[w][KeyOf[s]].task = s
                 \/ \E i \in 1..Len(queues'[w][KeyOf[s]]) : queues'[w][KeyOf[s]][i] = s
      <3>1. s \in Tasks /\ KeyOf[s] \in Keys
        BY PlaceTypes
      <3>2. CASE consumer[w][KeyOf[s]].task = s
        BY <3>2
      <3>3. CASE KeyOf[s] # k
        BY <1>4, <3>1, <3>3 DEF Places, Reached
      <3>4. CASE KeyOf[s] = k /\ consumer[w][KeyOf[s]].task # s
        <4> HIDE DEF k
        <4>1. PICK i \in 1..Len(q) : q[i] = s
          BY <1>0, <3>4 DEF Places, Reached
        <4>2. i \in 1..Len(Append(q, t)) /\ Append(q, t)[i] = s
          BY <1>2, <1>3, <4>1
        <4> QED BY <1>4, <3>1, <3>4, <4>2
      <3> QED BY <3>2, <3>3, <3>4
    <2>2. \E i \in 1..Len(queues'[w][k]) : queues'[w][k][i] = t
      <3> HIDE DEF k
      <3>1. queues'[w][k] = Append(q, t)
        BY <1>1, <1>4
      <3>2. Len(q) + 1 \in 1..Len(Append(q, t))
        BY <1>2, <1>3
      <3> QED BY <1>3, <3>1, <3>2
    <2> QED BY <1>1, <2>1, <2>2 DEF Reached
  <1> QED BY <1>7, <1>8, <1>9 DEF Places

LEMMA NoLeakLoop ==
    ASSUME Typed, NEW w \in Workers, NoLeak(w), LoopNext(w) \/ StopWorker(w) \/ CrashWorker(w)
    PROVE  NoLeak(w)'
  <1>0. /\ prefetch \in [Workers -> Nat] /\ prefetch[w] \in Nat /\ PrefetchLimit \in Nat
        /\ scheduled \in [Workers -> SUBSET Tasks]
        /\ fetch \in [Workers -> [pc : {"acquire", "pop", "read"}, task : Tasks \cup {NoTask}]]
    BY DEF Typed, LoopTyped, PrefetchLimit
  <1>a. IsFiniteSet(scheduled[w]) /\ Cardinality(scheduled[w]) \in Nat
    BY FS_CardinalityType DEF NoLeak, PrefetchKept
  <1>b. ASSUME UNCHANGED <<slots, consumer>> PROVE SlotsKept(w)'
    <2>1. Executing(w)' = Executing(w)
      BY <1>b DEF Executing
    <2> QED BY <1>b, <2>1 DEF NoLeak, SlotsKept
  <1>c. ASSUME UNCHANGED <<scheduled, queues, consumer>> PROVE Places(w)'
    BY <1>c DEF NoLeak, Places, Hands, Lines, Reached
  <1>1. CASE StartWorker(w) \/ StopWorker(w) \/ SweepStale(w)
    <2>1. Still(w)
      BY <1>1 DEF StartWorker, StopWorker, SweepStale, workerVars, Still
    <2> QED BY <2>1, StillNoLeak
  <1>2. CASE FetchPending(w)
    <2>1. /\ fetch[w].pc = "acquire" /\ prefetch'[w] = prefetch[w] - 1
          /\ UNCHANGED <<slots, scheduled, queues, consumer>>
      BY <1>0, <1>2 DEF FetchPending
    <2>2. fetch'[w].pc # "acquire"
      BY <1>0, <1>2 DEF FetchPending, At
    <2>3. PrefetchKept(w)'
      BY <1>0, <1>a, <2>1, <2>2 DEF NoLeak, PrefetchKept
    <2> QED BY <1>b, <1>c, <2>1, <2>3 DEF NoLeak
  <1>3. CASE PopRedis(w)
    <2>1. /\ fetch[w].pc = "pop" /\ fetch'[w].pc = "read"
          /\ UNCHANGED <<prefetch, slots, scheduled, queues, consumer>>
      BY <1>0, <1>3 DEF PopRedis, At
    <2>2. PrefetchKept(w)'
      BY <2>1 DEF NoLeak, PrefetchKept
    <2> QED BY <1>b, <1>c, <2>1, <2>2 DEF NoLeak
  <1>4. CASE PopNothing(w)
    <2>1. /\ fetch[w].pc = "pop" /\ fetch'[w].pc = "acquire" /\ prefetch'[w] = prefetch[w] + 1
          /\ UNCHANGED <<slots, scheduled, queues, consumer>>
      BY <1>0, <1>4 DEF PopNothing, FetchIdle, At
    <2>2. PrefetchKept(w)'
      BY <1>0, <1>a, <2>1 DEF NoLeak, PrefetchKept
    <2> QED BY <1>b, <1>c, <2>1, <2>2 DEF NoLeak
  <1>5. CASE ReadTask(w)
    <2> DEFINE t == fetch[w].task
    <2>1. /\ fetch[w].pc = "read" /\ fetch'[w].pc = "acquire" /\ UNCHANGED <<slots, consumer>>
          /\ t \in Tasks
      BY <1>0, <1>5 DEF ReadTask, FetchIdle, At, Typed, LoopTyped
    <2>2. CASE Accept(w, t)
      <3>1. /\ t \notin scheduled[w] /\ scheduled' = [scheduled EXCEPT ![w] = @ \cup {t}]
            /\ queues' = [queues EXCEPT ![w][KeyOf[t]] = Append(@, t)] /\ UNCHANGED prefetch
        BY <1>5, <2>2 DEF ReadTask, Accept
      <3> HIDE DEF t
      <3>2. scheduled'[w] = scheduled[w] \cup {t}
        BY <1>0, <3>1
      <3>3. /\ IsFiniteSet(scheduled[w] \cup {t})
            /\ Cardinality(scheduled[w] \cup {t}) = Cardinality(scheduled[w]) + 1
        BY <1>a, <3>1, FS_AddElement
      <3>4. PrefetchKept(w)'
        BY <1>0, <1>a, <2>1, <3>1, <3>2, <3>3 DEF NoLeak, PrefetchKept
      <3>5. Places(w)'
        BY <2>1, <3>1, AcceptKeeps DEF NoLeak
      <3> QED BY <1>b, <2>1, <3>4, <3>5 DEF NoLeak
    <2>3. CASE ~Accept(w, t)
      <3>1. prefetch'[w] = prefetch[w] + 1 /\ UNCHANGED <<scheduled, queues>>
        BY <1>0, <1>5, <2>3 DEF ReadTask
      <3>2. PrefetchKept(w)'
        BY <1>0, <1>a, <2>1, <3>1 DEF NoLeak, PrefetchKept
      <3> QED BY <1>b, <1>c, <2>1, <3>1, <3>2 DEF NoLeak
    <2> QED BY <2>2, <2>3
  <1>6. CASE CrashWorker(w)
    <2>1. /\ fetch'[w].pc = "acquire" /\ prefetch'[w] = PrefetchLimit /\ slots'[w] = Concurrency
          /\ scheduled'[w] = {} /\ queues'[w] = [k \in Keys |-> <<>>]
          /\ consumer'[w] = [k \in Keys |-> Idle]
      BY <1>6 DEF CrashWorker, FetchIdle, At, Typed, LoopTyped, QueuesTyped, ConsumersTyped
    <2>2. Executing(w)' = {}
      BY <2>1 DEF Executing, Idle, Held
    <2>3. SlotsKept(w)' /\ PrefetchKept(w)'
      BY <1>0, <2>1, <2>2, FS_EmptySet DEF SlotsKept, PrefetchKept
    <2>4. Hands(w)' /\ Lines(w)' /\ Reached(w)'
      BY <2>1 DEF Hands, Lines, Reached, Idle, Held
    <2> QED BY <2>3, <2>4 DEF NoLeak, Places
  <1> QED BY <1>1, <1>2, <1>3, <1>4, <1>5, <1>6 DEF LoopNext

LEMMA NoLeakConsumer ==
    ASSUME Typed, NEW w \in Workers, NEW k \in Keys, NoLeak(w), ConsumerNext(w, k)
    PROVE  NoLeak(w)'
  <1>0. SlotsKept(w) /\ PrefetchKept(w) /\ Places(w)
    BY DEF NoLeak
  <1>1. ASSUME UNCHANGED <<fetch, prefetch, scheduled>> PROVE PrefetchKept(w)'
    BY <1>0, <1>1 DEF PrefetchKept
  \* The consumer goes on: whether it executes changes with a slot only.
  <1>2. ASSUME NEW c, consumer' = [consumer EXCEPT ![w][k] = c], c.phase # "idle",
               c.task = consumer[w][k].task, consumer[w][k].phase # "idle",
               \/ Busy(c) /\ ~Busy(consumer[w][k]) /\ slots' = [slots EXCEPT ![w] = @ - 1]
               \/ Busy(c) /\ Busy(consumer[w][k]) /\ UNCHANGED slots,
               UNCHANGED <<fetch, prefetch, scheduled, queues>>
        PROVE  NoLeak(w)'
    <2>1. SlotsKept(w)'
      BY <1>0, <1>2, SlotsStep
    <2>2. Places(w)'
      BY <1>0, <1>2, SameHand
    <2> QED BY <1>1, <1>2, <2>1, <2>2 DEF NoLeak
  \* The consumer lets its task go, with the slot if it had one.
  <1>3. ASSUME consumer[w][k].phase # "idle", Release(w, k), UNCHANGED <<fetch, queues>>,
               \/ Busy(consumer[w][k]) /\ slots' = [slots EXCEPT ![w] = @ + 1]
               \/ ~Busy(consumer[w][k]) /\ UNCHANGED slots
        PROVE  NoLeak(w)'
    <2>1. consumer' = [consumer EXCEPT ![w][k] = Idle] /\ ~Busy(Idle)
      BY <1>3 DEF Release, Busy, Idle, Held
    <2>2. SlotsKept(w)'
      BY <1>0, <1>3, <2>1, SlotsStep
    <2> QED BY <1>0, <1>3, <2>2, ReleaseKeeps DEF NoLeak
  <1>4. CASE TakeTask(w, k)
    <2>0. PICK c : c = Held("wait", Head(queues[w][k]), 0, FALSE, FALSE)
      OBVIOUS
    <2>1. consumer' = [consumer EXCEPT ![w][k] = c] /\ c.phase = "wait"
      BY <1>4, <2>0 DEF TakeTask, Held
    <2>2. consumer[w][k].phase = "idle" /\ UNCHANGED <<fetch, prefetch, scheduled, slots>>
      BY <1>4 DEF TakeTask
    <2>3. ~Busy(c) /\ ~Busy(consumer[w][k])
      BY <2>1, <2>2 DEF Busy
    <2>4. SlotsKept(w)'
      BY <1>0, <2>1, <2>2, <2>3, SlotsStep
    <2> QED BY <1>0, <1>1, <1>4, <2>2, <2>4, TakeKeeps DEF NoLeak
  <1>5. CASE ClaimTask(w, k)
    <2>1. PICK c : c = Held("exec", consumer[w][k].task, rows[consumer[w][k].task].attempts + 1, TRUE, FALSE)
      OBVIOUS
    <2>2. c.phase = "exec" /\ c.task = consumer[w][k].task
      BY <2>1 DEF Held
    <2>3. /\ consumer' = [consumer EXCEPT ![w][k] = c] /\ consumer[w][k].phase = "wait"
          /\ slots' = [slots EXCEPT ![w] = @ - 1] /\ UNCHANGED <<fetch, prefetch, scheduled, queues>>
      BY <1>5, <2>1 DEF ClaimTask
    <2>4. Busy(c) /\ ~Busy(consumer[w][k])
      BY <2>2, <2>3 DEF Busy
    <2> QED BY <1>2, <2>2, <2>3, <2>4
  <1>6. CASE RenewLease(w, k) \/ ExecuteTask(w, k) \/ (FinishTask(w, k) /\ ~Release(w, k))
    <2>1. /\ consumer[w][k].phase \in {"exec", "finish"}
          /\ UNCHANGED <<fetch, prefetch, scheduled, queues, slots>>
      BY <1>6 DEF RenewLease, ExecuteTask, FinishTask
    <2>2. CASE UNCHANGED consumer
      <3>1. Still(w)
        BY <2>1, <2>2 DEF Still
      <3> QED BY <3>1, StillNoLeak
    <2>3. ASSUME NEW c, consumer' = [consumer EXCEPT ![w][k] = c], c.task = consumer[w][k].task,
                 c.phase \in {"exec", "finish", "retry"}
          PROVE  NoLeak(w)'
      <3>1. Busy(c) /\ Busy(consumer[w][k]) /\ c.phase # "idle" /\ consumer[w][k].phase # "idle"
        BY <2>1, <2>3 DEF Busy
      <3> QED BY <1>2, <2>1, <2>3, <3>1
    <2>4. CASE RenewLease(w, k)
      <3>1. PICK c : c = Held("exec", consumer[w][k].task, consumer[w][k].attempt, FALSE, FALSE)
        OBVIOUS
      <3>2. c.task = consumer[w][k].task /\ c.phase = "exec"
        BY <3>1 DEF Held
      <3>3. UNCHANGED consumer \/ consumer' = [consumer EXCEPT ![w][k] = c]
        BY <2>4, <3>1 DEF RenewLease
      <3> QED BY <2>2, <2>3, <3>2, <3>3
    <2>5. CASE ExecuteTask(w, k)
      <3>1. PICK ok : consumer' = [consumer EXCEPT ![w][k] =
                         Held("finish", consumer[w][k].task, consumer[w][k].attempt, FALSE, ok)]
        <4>1. consumer \in [Workers -> [Keys -> Consumer]]
          BY DEF Typed, ConsumersTyped
        <4> QED BY <2>5, <4>1 DEF ExecuteTask
      <3>2. PICK c : c = Held("finish", consumer[w][k].task, consumer[w][k].attempt, FALSE, ok)
        OBVIOUS
      <3>3. c.task = consumer[w][k].task /\ c.phase = "finish"
        BY <3>2 DEF Held
      <3> QED BY <2>3, <3>1, <3>2, <3>3
    <2>6. CASE FinishTask(w, k) /\ ~Release(w, k)
      <3>1. PICK c : c = Held("retry", consumer[w][k].task, consumer[w][k].attempt, FALSE, FALSE)
        OBVIOUS
      <3>2. c.task = consumer[w][k].task /\ c.phase = "retry"
        BY <3>1 DEF Held
      <3>3. consumer' = [consumer EXCEPT ![w][k] = c]
        BY <2>6, <3>1 DEF FinishTask
      <3> QED BY <2>3, <3>2, <3>3
    <2> QED BY <1>6, <2>4, <2>5, <2>6
  <1>7. CASE ClaimNothing(w, k) \/ CancelWait(w, k)
    <2>1. /\ consumer[w][k].phase = "wait" /\ Release(w, k) /\ UNCHANGED <<fetch, queues, slots>>
      BY <1>7 DEF ClaimNothing, CancelWait
    <2>2. ~Busy(consumer[w][k])
      BY <2>1 DEF Busy
    <2> QED BY <1>3, <2>1, <2>2
  <1>8. CASE CreateRetry(w, k) \/ AbandonFinish(w, k) \/ CancelTask(w, k) \/ (FinishTask(w, k) /\ Release(w, k))
    <2>1. /\ consumer[w][k].phase \in {"exec", "finish", "retry"} /\ Release(w, k) /\ UNCHANGED <<fetch, queues>>
      BY <1>8 DEF CreateRetry, AbandonFinish, CancelTask, FinishTask
    <2>2. slots' = [slots EXCEPT ![w] = @ + 1]
      <3>1. CASE CreateRetry(w, k) \/ AbandonFinish(w, k) \/ CancelTask(w, k)
        BY <3>1 DEF CreateRetry, AbandonFinish, CancelTask
      <3>2. CASE FinishTask(w, k) /\ Release(w, k)
        <4>1. \/ slots' = [slots EXCEPT ![w] = @ + 1]
              \/ UNCHANGED prefetch
          BY <3>2 DEF FinishTask
        <4>2. prefetch' # prefetch
          <5>1. prefetch \in [Workers -> Nat] /\ prefetch' = [prefetch EXCEPT ![w] = @ + 1]
            BY <3>2 DEF Release, Typed, LoopTyped
          <5>2. prefetch'[w] = prefetch[w] + 1 /\ prefetch[w] \in Nat
            BY <5>1
          <5> QED BY <5>2
        <4> QED BY <4>1, <4>2
      <3> QED BY <1>8, <3>1, <3>2
    <2>3. Busy(consumer[w][k])
      BY <2>1 DEF Busy
    <2> QED BY <1>3, <2>1, <2>2, <2>3
  <1> QED BY <1>4, <1>5, <1>6, <1>7, <1>8 DEF ConsumerNext

\* Permits and scheduled ids are conserved in every worker, however its
\* consumers end: released, cancelled, failed in their finish or killed.
THEOREM NothingLeaks == Spec => []WorkerLeaksNothing
  <1> DEFINE Inv == \A w \in Workers : NoLeak(w)
  <1>1. Init => Inv
    <2>1. ASSUME Init, NEW w \in Workers PROVE NoLeak(w)
      <3>1. /\ fetch[w].pc = "acquire" /\ prefetch[w] = PrefetchLimit /\ slots[w] = Concurrency
            /\ scheduled[w] = {} /\ queues[w] = [k \in Keys |-> <<>>]
            /\ consumer[w] = [k \in Keys |-> Idle]
        BY <2>1 DEF Init, FetchIdle, At
      <3>2. Executing(w) = {} /\ PrefetchLimit \in Nat
        BY <3>1 DEF Executing, Idle, Held, PrefetchLimit
      <3>3. SlotsKept(w) /\ PrefetchKept(w)
        BY <3>1, <3>2, FS_EmptySet DEF SlotsKept, PrefetchKept
      <3>4. Hands(w) /\ Lines(w) /\ Reached(w)
        BY <3>1 DEF Hands, Lines, Reached, Idle, Held
      <3> QED BY <3>3, <3>4 DEF NoLeak, Places
    <2> QED BY <2>1
  <1>2. Typed /\ Inv /\ [Next]_vars => Inv'
    <2>1. ASSUME Typed, Inv, [Next]_vars, NEW v \in Workers PROVE NoLeak(v)'
      <3>0. NoLeak(v)
        BY <2>1
      <3>1. CASE ApiNext \/ ApiCrash \/ RedisLoss \/ Tick \/ UNCHANGED vars
        <4>1. UNCHANGED workerVars
          BY <3>1 DEF ApiNext, Submit, ResetForRetry, Push, MarkQueued, FailEnqueue, ApiCrash,
                      RedisLoss, Tick, vars
        <4>2. Still(v)
          BY <4>1 DEF workerVars, Still
        <4> QED BY <3>0, <4>2, StillNoLeak
      <3>2. ASSUME NEW w \in Workers, LoopNext(w) \/ StopWorker(w) \/ CrashWorker(w) PROVE NoLeak(v)'
        <4>1. CASE v = w
          BY <2>1, <3>0, <3>2, <4>1, NoLeakLoop
        <4>2. CASE v # w
          <5>1. Still(v)
            BY <2>1, <3>2, <4>2, OthersStill
          <5> QED BY <3>0, <5>1, StillNoLeak
        <4> QED BY <4>1, <4>2
      <3>3. ASSUME NEW w \in Workers, NEW k \in Keys, ConsumerNext(w, k) PROVE NoLeak(v)'
        <4>1. CASE v = w
          BY <2>1, <3>0, <3>3, <4>1, NoLeakConsumer
        <4>2. CASE v # w
          <5>1. Still(v)
            BY <2>1, <3>3, <4>2, OthersStill
          <5> QED BY <3>0, <5>1, StillNoLeak
        <4> QED BY <4>1, <4>2
      <3> QED BY <2>1, <3>1, <3>2, <3>3 DEF Next
    <2> QED BY <2>1
  <1>3. Inv => WorkerLeaksNothing
    <2>1. ASSUME Inv PROVE PermitsConserved
      BY <2>1 DEF NoLeak, SlotsKept, PrefetchKept, PermitsConserved
    <2>2. ASSUME Inv PROVE ScheduledIsHeld
      BY <2>2 DEF NoLeak, Places, Reached, ScheduledIsHeld
    <2> QED BY <2>1, <2>2 DEF WorkerLeaksNothing
  <1> QED BY <1>1, <1>2, <1>3, TypedInit, TypedNext, PTL DEF Spec
=============================================================================
