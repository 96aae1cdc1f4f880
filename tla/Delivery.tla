------------------------------ MODULE Delivery ------------------------------
(***************************************************************************)
(* Delivery records of one account: generation behind the duplicate guard, *)
(* the claim, the submission to the platform, the recorded outcome, and    *)
(* the background task that sends a record through the API process.        *)
(*                                                                         *)
(* A request that is refused without changing anything (unknown template,  *)
(* empty content, order not awaiting delivery) is no step of the model.    *)
(***************************************************************************)
EXTENDS Naturals, FiniteSets

CONSTANTS
    Records,    \* record_id values, each used once
    Requesters,    \* concurrent requests in the API process
    Orders, Cards,
    Items,      \* (conversation, item) pairs
    Paths,      \* which generation endpoints are used
    Payloads,   \* what the conversation endpoint is asked for: Targets
    CardTarget, \* [Cards -> Targets]: the order and the item a card names
    OrderItem,  \* [Orders -> Items \cup {NoKey}]
    MaxFailures,  \* bound: crashes of the API and failed writes
    NoRecord, NoKey

Targets == [order : Orders \cup {NoKey}, card : Cards \cup {NoKey},
            item : Items \cup {NoKey}]

ASSUME PathsAssumption == Paths \subseteq {"conversation", "order"}
ASSUME PayloadAssumption == Payloads \subseteq Targets
ASSUME CardAssumption == CardTarget \in [Cards -> Targets]
ASSUME OrderAssumption == OrderItem \in [Orders -> Items \cup {NoKey}]
ASSUME NoneAssumption == /\ NoRecord \notin Records
                         /\ NoKey \notin Orders \cup Cards \cup Items
ASSUME FaultAssumption == MaxFailures \in Nat

VARIABLES
    status,    \* [Records -> status], "absent" before the row is inserted
    target,    \* [Records -> the order, card and item of the row]
    maker,     \* history: [Records -> the endpoint that generated the row]
    task,      \* [Records -> status of its delivery.send_record task]
    req,       \* [Callers -> the request in progress]
    air,      \* frames on their way to the platform: <<caller, record>>
    delivered, \* history: [Records -> times the platform took the text]
    failures

deliveryVars == <<status, target, maker, task, req, air, delivered, failures>>

Statuses == {"absent", "pending", "sending", "sent", "failed", "uncertain"}
Active   == {"pending", "sending", "sent", "uncertain"}
Sendable == {"pending", "failed"}

NoTarget == [order |-> NoKey, card |-> NoKey, item |-> NoKey]

\* path tells who waits for the answer: an operator, the order page that goes
\* on to send what it generated, or the worker's HTTP call.
Req(pc, path, t, r, o) ==
    [pc |-> pc, path |-> path, target |-> t, record |-> r, outcome |-> o]
IdleReq == Req("idle", "none", NoTarget, NoRecord, "none")
SendReq(pc, path, r, o) == Req(pc, path, NoTarget, r, o)

DeliveryInit ==
    /\ status = [r \in Records |-> "absent"]
    /\ target = [r \in Records |-> NoTarget]
    /\ maker = [r \in Records |-> "none"]
    /\ task = [r \in Records |-> "none"]
    /\ req = [p \in Requesters |-> IdleReq]
    /\ air = {}
    /\ delivered = [r \in Records |-> 0]
    /\ failures = 0

-----------------------------------------------------------------------------
(* Locks of the store.                                                     *)

\* The account write lock is held across the check and the insert of the
\* conversation endpoint; its other holders are single statements.
AccountLockFree ==
    \A p \in Requesters : ~(req[p].pc = "insert" /\ req[p].path = "conversation")

\* The order endpoint takes the lock of the order instead.
OrderLockFree(o) ==
    \A p \in Requesters :
        ~(req[p].pc = "insert" /\ req[p].path = "order" /\ req[p].target.order = o)

-----------------------------------------------------------------------------
(* Generation.                                                             *)

\* _has_active_delivery_record looks at the first key it is given only.
Clash(t, u) ==
    IF t.order # NoKey THEN u.order = t.order
    ELSE IF t.card # NoKey THEN u.card = t.card
    ELSE t.item # NoKey /\ u.item = t.item

HasActive(t) ==
    \E r \in Records : status[r] \in Active /\ Clash(t, target[r])

\* An order or item the payload leaves open is taken from the card.
Resolve(t) ==
    IF t.card = NoKey THEN t
    ELSE LET c == CardTarget[t.card]
         IN  [order |-> IF t.order # NoKey THEN t.order ELSE c.order,
              card  |-> t.card,
              item  |-> IF t.item # NoKey THEN t.item ELSE c.item]

\* Bound: a request is admitted when a record id is left for its insert.
IdLeft == Cardinality({p \in Requesters : req[p].pc = "insert"})
             < Cardinality({r \in Records : status[r] = "absent"})

PrepareCheck(p) ==
    /\ IdLeft
    /\ "conversation" \in Paths
    /\ req[p].pc = "idle"
    /\ AccountLockFree
    /\ \E t \in Payloads :
          /\ ~HasActive(Resolve(t))
          /\ req' = [req EXCEPT ![p] =
                        Req("insert", "conversation", Resolve(t), NoRecord, "none")]
    /\ UNCHANGED <<status, target, maker, task, air, delivered, failures>>

OrderTarget(o) == [order |-> o, card |-> NoKey, item |-> OrderItem[o]]

OrderCheck(p) ==
    /\ IdLeft
    /\ "order" \in Paths
    /\ req[p].pc = "idle"
    /\ \E o \in Orders :
          /\ OrderLockFree(o)
          /\ ~HasActive(OrderTarget(o))
          /\ req' = [req EXCEPT ![p] =
                        Req("insert", "order", OrderTarget(o), NoRecord, "none")]
    /\ UNCHANGED <<status, target, maker, task, air, delivered, failures>>

\* The order endpoint goes on to send the new record.
PrepareInsert(p) ==
    /\ req[p].pc = "insert"
    /\ \E r \in Records :
          /\ status[r] = "absent"
          /\ status' = [status EXCEPT ![r] = "pending"]
          /\ target' = [target EXCEPT ![r] = req[p].target]
          /\ maker' = [maker EXCEPT ![r] = req[p].path]
          /\ req' = [req EXCEPT ![p] =
                        IF req[p].path = "order"
                        THEN SendReq("claim", "order", r, "none") ELSE IdleReq]
    /\ UNCHANGED <<task, air, delivered, failures>>

-----------------------------------------------------------------------------
(* The ways to ask for a send: the send endpoint, and the enqueue endpoint *)
(* followed by the worker.                                                 *)

RequestSend(p) ==
    /\ req[p].pc = "idle"
    /\ \E r \in Records :
          /\ status[r] # "absent"
          /\ req' = [req EXCEPT ![p] = SendReq("claim", "send", r, "none")]
    /\ UNCHANGED <<status, target, maker, task, air, delivered, failures>>

\* The status is read under delivery_enqueue_locks[r], which the claim does
\* not take.
EnqueueCheck(p) ==
    /\ req[p].pc = "idle"
    /\ \E r \in Records :
          /\ status[r] \in Sendable
          /\ \A q \in Requesters : ~(req[q].pc = "enqueue" /\ req[q].record = r)
          /\ req' = [req EXCEPT ![p] = SendReq("enqueue", "send", r, "none")]
    /\ UNCHANGED <<status, target, maker, task, air, delivered, failures>>

EnqueueTask(p) ==
    /\ req[p].pc = "enqueue"
    /\ LET r == req[p].record
       IN  task' = [task EXCEPT ![r] = IF @ \in {"none", "failed"} THEN "pending" ELSE @]
    /\ req' = [req EXCEPT ![p] = IdleReq]
    /\ UNCHANGED <<status, target, maker, air, delivered, failures>>

\* The worker runs the task: it posts to the send endpoint and waits.
WorkerPost(p) ==
    /\ req[p].pc = "idle"
    /\ \E r \in Records :
          /\ task[r] = "pending"
          /\ task' = [task EXCEPT ![r] = "running"]
          /\ req' = [req EXCEPT ![p] = SendReq("claim", "task", r, "none")]
    /\ UNCHANGED <<status, target, maker, air, delivered, failures>>

\* The worker's 30 s timeout, a lost connection, its shutdown or the lapse of
\* its lease: the task fails and nobody reads the API's answer any more.
WorkerGivesUp(r) ==
    /\ task[r] = "running"
    /\ task' = [task EXCEPT ![r] = "failed"]
    /\ req' = [p \in Requesters |->
                 IF req[p].path = "task" /\ req[p].record = r
                 THEN SendReq(req[p].pc, "send", r, req[p].outcome) ELSE req[p]]
    /\ UNCHANGED <<status, target, maker, air, delivered, failures>>

\* Mutant: the worker does not look at result.success.
MutAnyAnswerSucceeds(p, ok) ==
    task' = [task EXCEPT ![req[p].record] =
                IF req[p].path # "task" THEN @ ELSE "success"]

\* What the answer of request p does to the task of its record.
Answer(p, ok) ==
    task' = [task EXCEPT ![req[p].record] =
                IF req[p].path # "task" THEN @
                ELSE IF ok THEN "success" ELSE "failed"]

-----------------------------------------------------------------------------
(* send_delivery_record.                                                   *)

ClaimForSend(p) ==
    /\ req[p].pc = "claim"
    /\ AccountLockFree
    /\ LET r == req[p].record
       IN  \/ /\ status[r] \in Sendable
              /\ status' = [status EXCEPT ![r] = "sending"]
              /\ req' = [req EXCEPT ![p] = SendReq("submit", req[p].path, r, "none")]
              /\ UNCHANGED task
           \/ /\ status[r] \notin Sendable
              /\ Answer(p, FALSE)
              /\ req' = [req EXCEPT ![p] = IdleReq]
              /\ UNCHANGED status
    /\ UNCHANGED <<target, maker, air, delivered, failures>>

Outcome(p, o) == req' = [req EXCEPT ![p] = SendReq("update", req[p].path, req[p].record, o)]

\* No core, no session or a websocket that is not online: nothing was sent.
NotSubmitted(p) ==
    /\ req[p].pc = "submit"
    /\ Outcome(p, "failed")
    /\ UNCHANGED <<status, target, maker, task, air, delivered, failures>>

SubmitFrame(p) ==
    /\ req[p].pc = "submit"
    /\ air' = air \cup {<<p, req[p].record>>}
    /\ req' = [req EXCEPT ![p] = SendReq("await", req[p].path, req[p].record, "none")]
    /\ UNCHANGED <<status, target, maker, task, delivered, failures>>

Awaits(p, r) == req[p].pc = "await" /\ req[p].record = r

\* The platform takes the text; its acknowledgement may be lost.
PlatformAccepts(p, r) ==
    /\ <<p, r>> \in air
    /\ air' = air \ {<<p, r>>}
    /\ delivered' = [delivered EXCEPT ![r] = @ + 1]
    /\ \/ Awaits(p, r) /\ Outcome(p, "sent")
       \/ UNCHANGED req
    /\ UNCHANGED <<status, target, maker, task, failures>>

\* The platform refuses the frame, or the frame is lost.
PlatformRejects(p, r) ==
    /\ <<p, r>> \in air
    /\ air' = air \ {<<p, r>>}
    /\ \/ Awaits(p, r) /\ Outcome(p, "uncertain")
       \/ UNCHANGED req
    /\ UNCHANGED <<status, target, maker, task, delivered, failures>>

\* Mutant: an unanswered submission is recorded as failed.
MutGiveUpIsFailed(p) ==
    /\ req[p].pc \in {"submit", "await"}
    /\ Outcome(p, "failed")
    /\ UNCHANGED <<status, target, maker, task, air, delivered, failures>>

\* Mutant: the exception of the core leaves the handler.
MutUncaught(p) ==
    /\ req[p].pc \in {"submit", "await"}
    /\ req' = [req EXCEPT ![p] = IdleReq]
    /\ UNCHANGED <<status, target, maker, task, air, delivered, failures>>

\* Timeout of the acknowledgement, an exception of the core, or cancellation:
\* the request may have been submitted.
GiveUp(p) ==
    /\ req[p].pc \in {"submit", "await"}
    /\ Outcome(p, "uncertain")
    /\ UNCHANGED <<status, target, maker, task, air, delivered, failures>>

\* A record that is no longer "sending" is left alone and the request fails.
UpdateAfterSend(p) ==
    /\ req[p].pc = "update"
    /\ AccountLockFree
    /\ LET r == req[p].record
           o == req[p].outcome
       IN  /\ status' = [status EXCEPT ![r] = IF @ = "sending" THEN o ELSE @]
           /\ Answer(p, status[r] = "sending" /\ o = "sent")
    /\ req' = [req EXCEPT ![p] = IdleReq]
    /\ UNCHANGED <<target, maker, air, delivered, failures>>

\* The write raises: the exception ends the request, the row stays "sending".
UpdateFails(p) ==
    /\ req[p].pc = "update"
    /\ failures < MaxFailures
    /\ failures' = failures + 1
    /\ Answer(p, FALSE)
    /\ req' = [req EXCEPT ![p] = IdleReq]
    /\ UNCHANGED <<status, target, maker, air, delivered>>

ApiCrash ==
    /\ failures < MaxFailures
    /\ failures' = failures + 1
    /\ req' = [p \in Requesters |-> IdleReq]
    /\ UNCHANGED <<status, target, maker, task, air, delivered>>

-----------------------------------------------------------------------------
Request(p) ==
    \/ PrepareCheck(p)
    \/ OrderCheck(p)
    \/ RequestSend(p)
    \/ EnqueueCheck(p)
    \/ WorkerPost(p)

Progress(p) ==
    \/ PrepareInsert(p)
    \/ EnqueueTask(p)
    \/ ClaimForSend(p)
    \/ NotSubmitted(p)
    \/ SubmitFrame(p)
    \/ GiveUp(p)
    \/ UpdateAfterSend(p)

DeliveryNext ==
    \/ \E p \in Requesters : Request(p) \/ Progress(p) \/ UpdateFails(p)
    \/ \E p \in Requesters, r \in Records : PlatformAccepts(p, r) \/ PlatformRejects(p, r)
    \/ \E r \in Records : WorkerGivesUp(r)
    \/ ApiCrash

DeliverySpec == DeliveryInit /\ [][DeliveryNext]_deliveryVars

\* A request that has begun goes on: the client waits 10 s for an
\* acknowledgement at most, and asyncio.Lock wakes its waiters in FIFO order,
\* so the account lock is granted although others keep taking it.
DeliveryFairness ==
    \A p \in Requesters :
        /\ WF_deliveryVars(Progress(p))
        /\ SF_deliveryVars(ClaimForSend(p))
        /\ SF_deliveryVars(UpdateAfterSend(p))
DeliveryFairSpec == DeliverySpec /\ DeliveryFairness

-----------------------------------------------------------------------------
(* Properties.                                                             *)

\* Every row, request and history entry keeps its range.
DeliveryTypeOK ==
    /\ status \in [Records -> Statuses]
    /\ target \in [Records -> Targets]
    /\ maker \in [Records -> {"none"} \cup Paths]
    /\ task \in [Records -> {"none", "pending", "running", "success", "failed"}]
    /\ req \in [Requesters -> [pc : {"idle", "insert", "enqueue", "claim", "submit",
                                  "await", "update"},
                            path : {"none", "conversation", "order", "send", "task"},
                            target : Targets,
                            record : Records \cup {NoRecord},
                            outcome : {"none", "sent", "failed", "uncertain"}]]
    /\ air \subseteq Requesters \X Records
    /\ delivered \in [Records -> Nat]
    /\ failures \in 0..MaxFailures

\* What a row says is true of the platform, through concurrent senders, late
\* frames, timeouts and crashes: a sent record was delivered exactly once, one
\* that may be sent (again) was never delivered and has nothing on the wire,
\* and no record is ever delivered twice.
OutcomeHonest ==
    \A r \in Records :
        /\ delivered[r] <= 1
        /\ status[r] = "sent" => delivered[r] = 1
        /\ status[r] \in Sendable =>
              delivered[r] = 0 /\ \A p \in Requesters : <<p, r>> \notin air

\* A delivery task that succeeded belongs to a record that is marked sent: the
\* state the enqueue endpoint reports as "delivery task already completed but
\* record is not marked sent" does not occur.
TaskSuccessIsSent ==
    \A r \in Records : task[r] = "success" => status[r] = "sent"

Inserted(r) == status[r] = "absent" /\ status'[r] = "pending"

\* What an endpoint read of its own records before the insert still holds at the
\* insert, whatever the other endpoint, the claims and the crashes do in between:
\* the conversation endpoint, whose account lock keeps the claims out, generates
\* none against an active record that it made for the same key; the order
\* endpoint, whose lock of the order does not, none against a pending one.  (What
\* the other endpoint makes meanwhile is not seen, see NoDuplicateGeneration.)
GuardHolds ==
    [][\A r \in Records : Inserted(r) =>
          ~\E q \in Records :
              /\ maker[q] = maker'[r] /\ Clash(target'[r], target[q])
              /\ status[q] \in IF maker'[r] = "order" THEN {"pending"} ELSE Active]_deliveryVars

\* A claimed record leaves "sending", unless a call or a process fails: through
\* lost acknowledgements, other senders and the wait for the account lock.
SendingEnds ==
    \A r \in Records : (status[r] = "sending") ~> (status[r] # "sending" \/ failures > 0)

SameGoods(t, u) ==
    \/ t.order # NoKey /\ t.order = u.order
    \/ t.card # NoKey /\ t.card = u.card
    \/ t.item # NoKey /\ t.item = u.item

\* What the operations document promises: while a record of the same order,
\* card or conversation item is pending or sent, no other one is generated.
NoDuplicateGeneration ==
    [][\A r \in Records : Inserted(r) =>
          ~\E q \in Records : status[q] \in {"pending", "sent"} /\ SameGoods(target'[r], target[q])]_deliveryVars
=============================================================================
