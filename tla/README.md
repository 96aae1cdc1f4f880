# TLA+ verification of xianyu-new

The program administers seller accounts of a second-hand market: a FastAPI
process keeps one connection per account, a worker process runs background
tasks, both share a database and a Redis list, and a React UI shows the rows.
This directory models the parts where the order of steps decides whether the
program is right, checks them with TLC and proves their safety
properties with TLAPS.

Paths below are relative to `src/apps/api/xianyu_admin_api/` unless they say
otherwise. `PROJECT.json` maps every definition to its lines.

## Inventory

### Processes and shared state

| part | state it keeps | operations | interacts with |
|---|---|---|---|
| API process (`main.py`) | HTTP requests in progress, locks | endpoints of accounts, tasks, deliveries, orders, products | everything below, by calls |
| Account runtime (`runtime.py`) | `_desired_running`, generations, lock per account, core sessions | start, stop, restart, prepare_delete, watchdog, callbacks for state, cookie and messages | database, core session, cookie renewal, Chatwoot |
| Task queue (`store.py`, `queue.py`, `worker.py`) | `background_tasks` rows, Redis list, `scheduled_ids`, permits, account queues | create, enqueue, claim, renew lease, finish, retry, sweep | every long operation |
| Delivery (`store.py`, `runtime.py`) | `delivery_records` | generate (rule, conversation, order), claim, send, update, retry, cancel | task queue, runtime |
| Cookie renewal (`cookie_renewal_manager.py`, `store.py`) | renewal row, attempts, account cookie, session cookie | trigger, scan, renew, keepalive, confirm, login, merge | runtime, worker, QR login |
| Order actions (`order_action_service.py`, `order_action_policy.py`) | order row, operation rows, `_ORDER_LOCKS` | refresh, preview, execute, scheduled refresh | platform, list sync, messages |
| Order synchronisation (`order_management_service.py`) | runs, settings with next times, order rows | create run, claim, page, finish, schedule | task queue |
| Product management (`product_management_service.py`) | runs, batches, polish records | sync, polish, delist, delete | task queue |
| Product publishing (`product_publish_service.py`) | publish tasks, drafts, images, cached locations | create, claim, execute, retry, hide, verify, sweep images | task queue, product lock in Redis |
| Messages and replies (`runtime.py`, `store.py`) | messages, conversations, unread counts, AI reply state | receive, deduplicate, reply by rule or AI, send | core session |
| Chatwoot (`chatwoot.py`) | mappings, sync records | webhook, push local message, status sync | task queue |
| Browsers (`im_verification.py`) | pool of account browsers, one reserved desktop, timers, VNC tickets, verification rows | start, touch, complete, resume, cancel, close, expire | runtime, cookie, profiles |
| QR login (`qr_login.py`) | login sessions | create, poll, verify in a browser, save | browsers, cookie renewal |
| Account migration, face verification, notifications, realtime, security | rows, files, sockets | see `PROJECT.json` | |

### What is hard here

* Coroutines of one process interleave at every `await`, and database calls run
  in threads that a cancelled coroutine does not stop.
* API and worker are two processes; what crosses between them is a row, a Redis
  id or an HTTP call that can time out while its effect still comes.
* The platform is asked and answers later; an answer is applied to a row that
  has changed since.
* A write that timed out may have been done: neither "failed" nor "try again"
  is right.
* Either process can stop between any two steps.

`PROJECT.json` lists each such place as a hazard, with the properties that
watch it.

### What makes each component correct

* Task queue: no execution is repeated by a lapsed lease alone, a superseded
  attempt writes nothing, permits are not lost, pending tasks are served.
* Delivery: a record is sent at most once, what it says is what happened, an
  order gets one record.
* Runtime: a live session is listened to, the shown state is its state, a stop
  stays a stop, a wanted connection comes back.
* Cookie renewal: the operator's newest cookie is never replaced by an older
  one, a login is asked for only when it is needed, the schedule never dies.
* Order actions: a key is written once, outcomes are honest, only what the
  platform grants is sent, a success stays shown.
* Publishing: one click makes one item, the row says what the platform did, the
  image stays as long as a task needs it, every job ends.
* Management runs: one wrong list takes nothing out of the catalogue, what was
  taken down does not come back, a lost answer is told.
* Messages: a request is sent once and shown as it went, nothing unread is lost,
  a message gets one automatic reply and none once a person is at it, the mark
  "needs reply" becomes right.
* Chatwoot: each message is copied once, also when its own webhook comes back;
  snapshots and alerts are written once; an agent who answers takes over.
* Browsers: one browser per profile, no account browser shares its desktop, a
  VNC ticket opens nothing but its own session, no cookie of another owner is
  stored, every browser is closed in the end.

## Modules

Each component has a specification `X.tla`, a module `MCX.tla` with the
constants of its TLC instances, and a module `XProofs.tla` with its theorems.
Two of these hold the theorems of two components each and extend both:
`AccountProofs.tla` those of AccountRuntime and CookieRenewal, which concern the
same account and sessions, and `MessagingProofs.tla` those of Messages and
Delivery, what goes to the buyer. The names the two would share are prefixed in
one of them (`RenewalInit`, `RenewalSpec`, `DeliveryInit`, `DeliverySpec`).
`ReplyOnce.tla` is an abstract specification.

Several modules have a constant `Scenarios` and a variable (`scn`, `scen`,
`ops`) that Init chooses and no action changes: which operations happen in a
behaviour, beside what always happens, and how much may fail. A run so covers
several combinations of actors, each small enough to be explored completely;
the `MC` module lists them with what they are for. The theorems hold for any
set of scenarios.

### TaskQueue

State: the rows (status, attempts, lease, owner, run_after), their order for
polling, the Redis list, API requests between their awaits, and per worker the
fetch loop, both semaphores, `scheduled_ids`, the account queues and consumers.
Each endpoint that creates tasks is a kind (`submit`, `delivery`, `delete`,
`publish`, `run`, `webhook`, `sync`, `retry`), because each treats an existing
row differently. The worker's loop takes a permit, polls the database before
Redis, reads the row, hands it to the consumer of the account, which claims,
executes under a renewed lease, finishes and creates the Chatwoot retry. Time
is ticks that are left. Workers and the API may stop at any step, and Redis may
lose its list.

### Delivery

State: records with their keys (order, card, item), tasks that send them,
requests in progress, messages on the wire and what was delivered. Generation
checks the guard and inserts in two steps under the lock its endpoint takes:
the conversation endpoint the lock of the account, the order endpoint the lock
of the order. A send claims, submits, waits, and writes its outcome; it can be
cancelled, time out, or be lost by a restart.

### AccountRuntime

State: `enabled`, the runtime state of the row, the writes queued on the
account's write lock, `_desired_running`, the core session and the requests.
Generations are compared for equality only, so whatever captured one keeps
whether it is still current. A cancelled task's write that waits for the lock
vanishes; one that is in its thread lands. `fenced` remembers that a deletion
has muted the session on purpose, until a start takes a new generation.

### CookieRenewal

State: for every holder of a cookie, how it relates to the stored one (the
same, of the operator's line, supplied by the operator itself), the renewal
row, the attempts that are open, and the steps of the renewal task, the scan,
the keepalive, the confirmation, the session's token refresh and the callers
(QR login, edit, restart, merge of a task's cookies). Times are due or not due.

### OrderActions

One transaction is one step, also where it reads and writes the row of the order
without a lock on it (a success that is recorded, a snapshot that is applied):
two such transactions that overlap are not modelled.

State: one order on the platform and its row, the operations by idempotency
key, the order's lock, and for each process the step it is at, the answer it
got and the row it read. `_refresh_platform_state` is a chain of asking,
applying and reading back; the UI runs it without the lock, the scheduler gives
up if the lock is taken, and a request runs it as preflight and as readback.
Writes travel: the platform takes, knows or rejects them at any later time, and
the waiting request may time out first. List sync and messages write the row
without lock or guard.

### ProductPublish

State: the rows of publish tasks with their certainty and kind of failure, the
status and owner of their background tasks, requests between their awaits, the
execution of each worker with the progress writes its thread has queued on the
account's write lock, the product lock in Redis, publish requests on their way,
and one draft with one uploaded image. The endpoints create a task from a job,
a draft (two endpoints) or a failed task; an idempotency key is looked up before
and again at the insert. A worker claims, looks, waits for the lock, reads the
status again, walks through validation, location, upload, category and the
post, and its outcome, merge and finish are separate writes. The background
task's own queue is TaskQueue's; here it is claimed, ended and swept.

### ManagementRuns

State: runs of products (sync, polish, offline, delete) and of orders (bought,
sold) with the runs that are older (a request is answered by the newest active
one, if it is for the same) and their background tasks, creations in progress, the execution of each
worker, both Redis locks, product rows with their count of missed lists, the
products on the platform, and which settings are due. A list is read and applied
in two steps, and `gone` and `late` remember what was true when it was read.
Writes to an item are done, refused or lost; a lost one asks for verification,
which comes back as a sync.

### Messages and ReplyOnce

State: the platform's log of one conversation, the push queue and its workers,
persistence retries, the rows of messages by primary key (the platform's id, a
client_request_id or an automatic reply), the summary and a user's read state,
the page each sync has fetched, the history still to be recorded, the side
effect queue and the automatic reply in progress. Recording deduplicates by key
and id and moves the summary the way `_apply_conversation_work_state` does; a
sync applies a page that may be older than the summary. A reply is decided,
claimed, generated, checked again, sent, recorded and finished.

`ReplyOnce` says what this promises: a message is taken once, the platform gets
at most one reply of it, and success is noted only for a reply that exists.
`Messages!RepliesOnce` is `ReplyOnce!Spec` with `phase <- log` and
`replies <-` the count of replies in the platform's log.

### Chatwoot

State: what Chatwoot has (messages, snapshots, inboxes, conversations, alerts),
the webhooks it sends and repeats, recorded webhooks, tasks by key with the step
they are at, local messages, the message map, bindings and switches. Tasks of an
account run one at a time; a webhook accepted before its conversation is mapped
has no account and runs beside them. A request to Chatwoot may fail before or
after it took effect; a task that fails is created again at most `Retries`
times, a task whose worker dies is not.

### BrowserSessions

State: the operation that holds the manager's lock with its progress, the
session on the reserved desktop, the pool of account browsers, what is shown of
each, the QR login and the requests that save it, verification rows, cookies as
owner and version, the browser processes per profile, desktops of account
browsers that outlived the API (`left`), browsers left behind on the reserved
desktop (`stray`), and tickets. Logins and verifications share the reserved
desktop one after the other and it is never stopped; an account browser has a
slot of its own, which is stopped with it. A desk is closed in memory first and
the row of its verification written then, which may fail (`RowLost`). The timers
count ticks. A browser that closes hands over
its cookie, which is checked, compared with the stored one and stored by
compare-and-set with one second attempt. Edits, renewals and a dying API happen
between any two steps.

## Runs

Every run finishes within five minutes on two cores.

| run | checks | what it shows, and why the bounds suffice |
|---|---|---|
| task_replay | NoReplay, StaleAttemptHarmless, TasksEnd | fair; one task, two workers, a creation and a reset: enough for a lapse, a sweep, a reset, a second claim and a late finish of the first attempt |
| task_permits | WorkerLeaksNothing | three tasks on two accounts, a retry row, one slot: the queues fill and duplicate ids arrive |
| delivery_outcome | OutcomeHonest, TaskSuccessIsSent, SendingEnds | fair; one record, three requests and a task that contend for it, two faults of any kind |
| delivery_two_locks | NoDuplicateGeneration | **violation**: the two endpoints take different locks |
| runtime_requests | NeverMuted, OnlineShown, RuntimeGoesOn | fair; one request of every kind beside the watchdog and the session, two failed writes |
| cookie_renewal | OperatorCookieKept, LoginNeedsTwoChecks, AttemptsTracked, RenewalGoesOn | fair; six sets of writers beside the renewal, two attempts and one crash or failed call; keepalives further apart than the five minutes of the stale check, as by default |
| order_actions | OneWritePerKey, OutcomeHonest, SuccessStaysShown, PreflightRespected | two requests with one key among every writer, a lost answer and a crash; a write that is rejected; refreshes that asked earlier; every move of the buyer during a preflight |
| product_publish | OneItemPerJob, OutcomeHonest, ImageKept, JobsEnd | fair; a job and its retry on two workers with two faults and a crash, and three instances with one task for drafts, images and hidden jobs |
| management_runs | CatalogueIsRight, LostAnswerIsTold, RunsEnd | fair; two runs on two workers, one or two products, one fault and one crash: two runs are enough for a list that is older than a write and for a request that comes while one is active |
| messages | SentAsTold, UnreadKept, HandsOff, RepliesOnce, MarkIsRight | fair; two or three messages, queues of one and two, a fault and a replaced session: frames overtake each other and queues overflow |
| chatwoot | CopiedOnce, NotedOnce, RecallAsTold, AgentTakesOver, SyncEnds | fair; one local message and up to four in Chatwoot, two retries, two faults: a copy, its webhook, its redelivery and a retry of each |
| browser_sessions | OneBrowserPerProfile, AccountDesktopIsPrivate, ShownIsTrue, SameOwner, SessionsEnd | fair; three accounts for a pool of two, four cookies, two crashes or failures |

Every property of a passing run has a mutant in `PROJECT.json`: a plausible
change of one definition under which TLC finds the property violated.

Each module also has a `TypeOK`. It was checked with these instances; for the
task queue and deliveries it is a theorem, and it is not repeated as a property.

Limits that are part of what a run claims. `NeverMuted` and `OnlineShown` except
sessions that a deletion has fenced, and a disabled or stopped account may still
be shown so. `AttemptsTracked` excepts behaviours with a QR login, which forgets
the active attempt. `SuccessStaysShown` leaves out the list sync and messages,
which have no guard, and the UI's refresh where refunds happen (a row that went
on to "refunding" is not guarded against an older answer). `PreflightRespected`
does not hold if an optional headinfo call fails, if the list sync writes in
between, or if the platform shows a text the program does not know (an old
status is then taken for the current one); the platform still refuses such
writes. `ProductPublish!OutcomeHonest` excepts the failure kind "internal", and
says of "cookie_conflict" that the item exists although the failure is called
confirmed. `JobsEnd` and `RunsEnd` are about the background tasks: the row of a
publish task or of a run may stay "running" when its worker dies. `CopiedOnce`
excepts messages whose answer was lost; the property names them. `NotedOnce` and
`RecallAsTold` except deletions whose webhook ran beside the account's tasks:
one that Chatwoot sends before the conversation is mapped again.
`AccountDesktopIsPrivate` is about account browsers and tickets; what was left
on the reserved desktop is seen by the next login or verification (below).
`ShownIsTrue` excepts what a crash, an identity change or a row that could not
be written leaves behind. `UnreadKept` counts from the second after the one in
which an agent looked: within that second the code takes messages for read that
nobody saw (`NewerStaysUnread`, below). It is checked and proved
for agents' reads and for the platform's pages, not for both together, nor for
agents' reads with recomputed summaries where there are voice messages.

### What the code does not ensure

The violation run is a finding with the quoted expectation. The modules also
state expectations, in a section of their own, that TLC refutes and that no run
repeats:

| definition | counterexample |
|---|---|
| TaskQueue!SuccessIsFinal | an enqueue fails after a worker has taken the row from the database and finished it; the handler writes failed over success |
| AccountRuntime!ManualStopSticks | the watchdog's scan precedes a stop and its forced start follows it |
| AccountRuntime!FenceHolds | a start that waits for the lock runs after prepare_delete |
| CookieRenewal!LoginClearsManualState | a renewal that began with the old cookie fails after a QR login |
| CookieRenewal!RuntimeUsesStoredCookie | a cookie is stored and applied in two steps, and a newer one comes in between |
| OrderActions!UnknownNotRepeated | a request with a second key repeats an action of unknown outcome whose write is still on its way |
| OrderActions!ProcessingIsExecuted | the cookie merge in the handler of a failed write raises (order_action_service.py:491): the operation stays processing and blocks the order |
| OrderActions!PreflightRespected, with the writer "list" | an older page is applied between detail and decision, and a shipped order is closed |
| OrderActions!SuccessStaysShown without its last condition | a shipped order is shown as refunding; an answer that the UI's refresh got before the shipping is then applied, and the order is shown as waiting for shipment |
| Delivery!NoDuplicateGeneration, with requests by order and by item | the guard looks for the first key it was given only |
| Messages!OnlySuccessClears | an automatic reply is recorded at the local time and covers an inbound message that is newer on the platform (against tests/test_aggregate_conversations.py:169) |
| Messages!NewerStaysUnread | Chatwoot tells whole seconds, and the agent's time is stretched to the end of its second (chatwoot.py:3841): a message that arrives later in that second, and is not copied yet, is taken for read though nobody saw it (against docs/chatwoot-integration.md:98-100) |
| Messages!UnreadKept, with ops {"shared", "loop"} | an older page of the platform sets the time of the last inbound message back, and an agent's read of that older message then clears the newer one (against docs/chatwoot-integration.md:98-100) |
| Messages!UnreadKept, with ops {"shared", "history"} and voice messages | a summary recomputed after a history fetch does not count a voice message, sets the time of the last inbound message back, and an agent's read of an earlier message then clears the voice message |
| BrowserSessions!ReservedIsPrivate | a verification is under way, the API dies and its browser does not; the display is there, so the next login or verification is shown on the same desktop. A browser that could not be closed stays there, too |
| Chatwoot!ForwardedAsTold | a piece that failed is mapped as "failed" and the retry takes the map for a message that was forwarded (against docs/chatwoot-integration.md:64) |

Seen while modelling; the models have the steps and the properties except them:

* Messages: `complete_outbound` after the echo was recorded fails on the unique
  key and leaves a row "sending" beside the recorded one. A claimed reply stays
  "processing" after a crash. A failed persistence is retried three times and
  then lost. A message that the history records first gets no automatic reply.
  Full queues drop the oldest frame or the side effect. Voice messages are not
  counted when summaries are reconciled. docs/phase5-web-auto-reply.md speaks of
  text messages only; images trigger replies, too.
* Chatwoot: if the answer that named a copy is lost, the copy is posted again
  and the webhook of the first is forwarded to the buyer; a forward that timed
  out is mirrored back. A webhook that is recorded and whose task is not created
  is a duplicate when it comes again. A crash between failure and retry loses
  the retry. A text that was sent with an image that was not sets no takeover.
  An older "resolved" releases a newer takeover. An alert within 30 seconds of
  the same one is dropped. A lost answer leaves an orphaned status conversation.
* Publishing: after a failed cookie merge a published item is recorded as
  confirmed_failed, kind "internal", or "cookie_conflict" where the cookies belong
  to another user or were replaced too often: that error is a ProductPublishError
  and is handled like one that came before the post. A row stays pending or running after a
  crash or a timeout of the lock. The sweeper looks and deletes in two steps.
* Management runs: the row of a run stays "running" after a crash or a timeout
  of the product lock, and later requests are answered with it. A failed merge
  overwrites verification_required. A lock lost in its renewal lets an old list
  revive a product. An error of a
  polish that the loop does not catch (no token, an answer that is no JSON) makes
  the run "failed" whatever was polished before it.
* Browsers: a new account whose login is completed twice is created twice. A
  cancel between prepare and finish still stores the cookie. The second attempt
  of a closing browser can replace a newer cookie of the same owner. An identity
  change closes the desktop and leaves the row. A start that fails late leaves a
  session until its timer. Rows stay "ready" after a crash, and when the write
  that follows the closing of the desk fails. A browser started
  during a deletion holds its slot until its timer.

## Fairness

Weak fairness of a process's own steps: a coroutine that can go on is resumed
by the event loop, threads end, HTTP calls are answered or time out, and the
loops sleep a bounded time. Strong fairness only where an `asyncio.Lock` or a
semaphore is waited for: both wake waiters in FIFO order, so a waiter that is
enabled again and again gets its turn. Nothing is assumed of operators, buyers,
the platform's decisions, faults or restarts.

## Proofs

All theorems hold for every number of requests, workers, records, keys, faults
and restarts.

| theorem | inductive invariant and why it is needed |
|---|---|
| TaskQueueProofs!TypeCorrect | `Typed`, TypeOK with what a consumer holds related to its key |
| TaskQueueProofs!TasksAreNotReplayed | every step is one of a few row steps (`RowStep`), each of which counts an execution only against a reset or an unfinished attempt |
| TaskQueueProofs!SupersededAttemptsAreHarmless | `OwnedIsCurrent`: as long as a worker owns the row, the row is at the attempt it executes; the finish checks ownership |
| TaskQueueProofs!NothingLeaks | `NoLeak`: an id is in one place only (queued, scheduled, in the hands of the poller, executing), so slots and prefetched messages in use are exactly what the places hold. The sets of a worker are shown finite, though tasks and keys may be infinitely many |
| MessagingProofs!DeliveryTypeCorrect, OutcomesAreHonest | `Honest`: one request is busy with a record, its claim keeps the row in sending, what it concluded agrees with the wire |
| MessagingProofs!SuccessfulTasksAreSent | itself, over typed states |
| MessagingProofs!GenerationIsGuarded | `GuardHolds` from `Guarded`: between the check and the insert of an endpoint the lock it holds keeps out its other requests, and for the conversation endpoint the claims as well; what the guard read of the endpoint's own records so stays true. Both endpoints at work; what the other one makes is the finding of delivery_two_locks. The order endpoint does not keep a failed record of its own from being claimed for a resend, so there only pending records are excluded |
| AccountProofs!LiveSessionsAreHeard | `Fenced`: the lock admits one request, the generation it captured is still current when it hands it to the session, unless a deletion advanced it |
| AccountProofs!ConnectionsAreShown | `Fenced` and `Shows`: a connected session that no start is about to replace has the last word in the queue of writes, or a disable or deletion has. Its report is queued because its generation is current, and a start that timed out looks at the session once more before it writes |
| AccountProofs!StoredCookieIsOperators | `HoldersSound`: a holder whose cookie is the stored one is of the operator's line, so compare-and-set only admits that line |
| AccountProofs!AttemptsAreTracked | `Tracked`: an attempt is closed in the step that gives up the row, logins excepted |
| AccountProofs!LoginsAreNeeded | `Evidenced`: a suspicion in the row or in the task, and a renewal that confirms one, each stand for a failed check; every step but a failed renewal only passes these on (`Bookkeeping`) |
| OrderActionsProofs!WritesAreSentOnce, OutcomesAreHonest | `IInv`: the lock admits one request between preflight and outcome, an operation in processing belongs to it, and sent, on its way and taken agree with how far it got |
| OrderActionsProofs!SuccessesStayShown | `Frame` and `Kept`, with `IInv`: a row that shows the order as shipped, completed or closed is not replaced by an older answer, since every writer of the hypothesis compares; where a refund can take its place only the scheduler refreshes, under the lock, and then no older answer is waited for (`Resting`, `Heard`). What was shipped or closed is never open again on the platform (`Effective`) |
| OrderActionsProofs!PreflightsAreRespected | `Looking`, with `IInv` and `Frame`: a request that has the lock knows the order, stage by stage, from answers given since it began, and the policy concludes nothing else from such a row (`PolicyIsTrue`). Under `Attended`: no refresh without the lock, texts that are known, and headinfo known before or asked for and answered; each is needed (see above) |
| ProductPublishProofs!ATaskMakesOneItem | `IInv`: the lock protects the second look at the status and the first write, so one worker ever gets past it with a task (`OneWorker`, `FirstWrite`); what the platform has created agrees with how far that worker got |
| ProductPublishProofs!RowsAreHonest | the same `IInv`: the writes of a worker are queued in order and carry their task (`Queues`), the last one is the outcome, and the platform's answer it follows from is final (`Answers`, `RowsOK`); the two kinds that a failed merge writes are named in the property |
| ProductPublishProofs!ImagesAreKept | `Modes` and `Retained`, with `IInv`: a task that has not ended is among those that retain the image, and an image with a row has its file (`Retained`); a task that ended is not taken up again by a late write, so that its retention may run out (`Modes`). Under `SweepsInTime`, an action: the sweeper deletes nothing that came to be wanted after it looked. Any number of other faults is covered, where the run has none |
| ManagementRunsProofs!TypeCorrect | `Typed` with `Told`: that a client pushes, and a worker executes, runs that exist is part of `Told` (`Held`) |
| ManagementRunsProofs!RunsAreTakenOnce | `Told`, its part `OneWorker`: a task that was taken never waits again (`Held`), so nobody else can take it |
| ManagementRunsProofs!LostAnswersAreTold | `Told` = `Held`, `OneWorker`, `Kept`, `LostIsSettled` and the property: when the answer was lost the worker has nothing left to do and its outcome is settled (`LostIsSettled`), no other worker has the run, and the row it writes to is still active or overwritten by a failed push (`Kept`) |
| ManagementRunsProofs!TheCatalogueIsRight | `CatalogueInv` = `LocksHeld`, `NothingLate`, `OneDoubt`, with `Told`: whoever works holds the lock of its account, so no write falls between reading a list and applying it; a product that was always for sale is missed by one list at most, of which a fault is the reason, and a product is given up after two. Any bound on faults and crashes is covered: the hypothesis is about what has failed so far |
| MessagingProofs!TableTellsTheTruth | `IInv` = `PlatOK`, `FramesOK`, `RowsOK`, `CallsOK`, `ReplyOK`, `BarredOK`: a row says sent or failed only after the frame of its request did, each request has one frame |
| MessagingProofs!UnreadIsKept | `Unread` = `InTypes`, `Pages`, `Stored`, with `IInv`: each message that counts as unread has its row, at its time on the platform, and where agents read, the conversation knows of an inbound message at least as new (`Stored`), so a read that covers what the conversation knows covers them all, up to the end of the second in which the agent looked. Under `Apart`: no agents' reads together with pages of the platform, nor with summaries recomputed without voice messages; both are needed (see above) |
| MessagingProofs!MarkFollowsPushes | `OrderInv`, with `IInv`: where only pushes are recorded every row is that of a message (`PushedRows`), and the summary has the times of the newest ones stored and compares just these (`Latest`); a late message changes neither, which `WorkStateMarks` says of one call |
| MessagingProofs!RepliesKeepHandsOff | the same `IInv`, where `BarredOK` says what a reply has still to look at once a person is at the conversation |
| MessagingProofs!RepliesImplementReplyOnce | under `IInv` every step of Messages is, in the refinement mapping of `RepliesOnce`, a step of ReplyOnce or a stutter; one lemma for each group of actions |
| ChatwootProofs!NotesAreMadeOnce | `Told` = `Alerts`, `Snaps`, with `Base`: `last` is the last alert known to have arrived but for one a task is about to record, a task on its way to announce something still finds it due, and a task about to make a snapshot found none; all because the account's tasks run one at a time (`Lane`) |
| ChatwootProofs!MessagesAreCopiedOnce | `CopyInv` = `Base`, `Copying`, `Forwards`, `Plats`: a task about to make an inbox or a conversation found none (`Places`); a copy is mapped, or its task is about to map it, or its answer was lost (`Copies`), and the task of a deletion never loses a row of the map (`Chosen`); a piece of an agent's message that has a row here is mapped or its task still carries it, unless a fault struck (`Pending`), so its own mirror and the webhook of a mirror are recognised (`Unposted`, `Unsent`, `Settled`) |
| ChatwootProofs!RecallsAreAsTold | `RecallInv` = `CopyInv`, `Truthful`, `Aimed`, `Counting`: a task or a row of the map that says recalled is of a message whose recall was confirmed (`Truthful`); a row of the map belongs to the message of its key, and the task of a deletion recalls rows of its own message (`Aimed`); what was asked of the platform is noted in the map, or is about to be by the one task that asks (`Counting`) |
| ChatwootProofs!AgentsTakeOver | `TakeOverInv` = `CopyInv`, `Aimed`, `Done`, `MapsBound`, `Sendings`, `Claims`: a webhook marked as a success has a task that is over (`Done`), a piece is sent for the first time and one that failed stays known (`Sendings`), and whatever is mapped for an agent's message has a reason to be without a takeover yet: a fault, a failed piece, a task just before it, or a resolution since (`Claims`) |
| BrowserSessionsProofs!ProfilesAreExclusive | `IInv`, its part `Core`: whoever started a browser has it running, and a browser is launched only where no process has the profile, which the lock and the operations in hand guarantee |
| BrowserSessionsProofs!AccountDesktopsArePrivate | `IInv`: desktops in use never outnumber the browsers there have been, so a free one exists and is chosen, never the reserved one (cardinalities, and the least free slot); tickets are purged with their session. Of account browsers and tickets only: what was left on the reserved desktop is not part of it |
| BrowserSessionsProofs!CookiesStayWithTheirOwner | `IInv`: a cookie is swapped in only after its owner was compared with that of exactly the cookie it replaces |
| BrowserSessionsProofs!WhatIsShownIsThere | `IInv` and `Shown`: a row in ready has its session, unless whoever holds the lock is closing or completing it, or a crash, an identity change or a failed write of the row came in between |

Assumptions are those named in the modules: constants have their types and
sentinels differ from members ("new", "none" and "tmp" are no accounts, "poll"
is no caller). TLC evaluates them in every run.

Every safety property and action property the runs check is a theorem, and so is
the refinement of ReplyOnce. Only model-checked: all liveness properties
(fairness and ENABLED are outside the prover), MarkIsRight among them, of which
the invariant PushesInAnyOrder is proved and the part MarkHeals is not.

## Not modelled

Not modelled: the UI, vendored code, packaging, browser binaries, proxies, file
storage, the archive of a migration, database migrations and schemas, security
and administrators, the realtime broker and face verification. They are data,
I/O or presentation, or a single exchange without concurrency of its own;
`PROJECT.json` gives the reason for each. Of the modelled parts, the parsing of
messages and cards, what rules match and the AI answers, the automation of
pages, and an orderly shutdown of the API are left out.
