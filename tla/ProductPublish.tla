--------------------------- MODULE ProductPublish ---------------------------
(***************************************************************************)
(* Publishing goods of one account: the API endpoints that create, retry,  *)
(* hide and enqueue publish tasks, the workers that execute them under the *)
(* product lock of the account in Redis, the thread of the publisher that  *)
(* reports progress, and the platform, which takes a request at any time   *)
(* after it was sent.  One draft and one uploaded image stand for all.     *)
(*                                                                         *)
(* Where an item is offered (the address groups, the location cache) is    *)
(* data here: it only decides whether a task is created at all.            *)
(***************************************************************************)
EXTENDS Naturals, Sequences

CONSTANTS
    Tasks,      \* ids for publish tasks
    Keys,       \* idempotency keys the clients send
    Callers,    \* concurrent API requests
    Workers,    \* worker processes
    Scenarios,  \* what is asked of whom, and how much may fail
    NoTask, NoKey, Nobody

AllOps   == {"job", "draft", "draftQueued", "retry", "hide", "enqueue"}
OnDraft  == {"draft", "draftQueued"}
Ended    == {"success", "verification_required", "failed"}
Live     == {"pending", "queued", "running"}
Ages     == {"none", "fresh", "stale", "old"}

ASSUME TasksAssumption == NoTask \notin Tasks /\ NoKey \notin Keys /\ Nobody \notin Workers
\* ops: what the requests ask for; cleanup: images are deleted by requests, by
\* age and by the sweeper; tasks, workers: those in use; faults: bound on lost
\* answers, slow writes, failed merges and lost locks; crashes: bound on workers
\* that stop.
Asked == [op : AllOps, key : Keys \cup {NoKey}, mode : {"platform_api", "manual_export"}]
ASSUME ScenariosAssumption ==
    \A s \in Scenarios :
       /\ s.ops \subseteq Asked
       /\ \A o \in s.ops : o.key = NoKey => o.op \in OnDraft \cup {"hide", "enqueue"}
       /\ s.cleanup \in BOOLEAN /\ s.tasks \subseteq Tasks /\ s.workers \subseteq Workers
       /\ s.faults \in Nat /\ s.crashes \in Nat

VARIABLES
    task,   \* [Tasks -> the row of the publish task]
    bg,     \* [Tasks -> the status of its background task]; "unqueued": failed
            \* with an error that begins with "queue unavailable:"
    own,    \* [Tasks -> the worker in the row of the background task]
    verify, \* tasks for which product.verify_publish was scheduled
    call,   \* [Callers -> the request in progress]
    ex,     \* [Workers -> the execution in progress]
    wr,     \* [Workers -> writes that wait for the account write lock, FIFO]
    lock,   \* who holds xianyu:lock:product-operation
    wire,   \* tasks whose publish request is on its way
    ans,    \* [Tasks -> what the platform answered]
    items,  \* history: [Tasks -> how many items the platform made of it]
    img,    \* the uploaded image: row and file
    draft,  \* the draft: its status and whether it shows the image
    sweep,  \* where the image sweeper of the worker is
    cache,  \* how old the cached locations are
    faults, crashes,
    scn     \* the scenario

requests == <<task, bg, own, verify, call>>
worker   == <<ex, wr, lock>>
platform == <<wire, ans, items>>
media    == <<img, draft, sweep, cache>>
bounds   == <<faults, crashes, scn>>
vars     == <<requests, worker, platform, media, bounds>>

\* cert: result_certainty; kind: failure_kind; item: item_id is known;
\* asset: the snapshot names the uploaded image; of: retry_of_task_id.
Row(status, of, key, mode, asset) ==
    [status |-> status, cert |-> "none", kind |-> "none", retryable |-> FALSE,
     item |-> FALSE, hidden |-> FALSE, asset |-> asset, of |-> of, key |-> key, mode |-> mode]
NoRow == Row("none", NoTask, NoKey, "platform_api", FALSE)

\* seen: the status of the publish task the request holds.
Call(pc, op, t, k, mode, seen) ==
    [pc |-> pc, op |-> op, task |-> t, key |-> k, mode |-> mode, seen |-> seen]
NoCall == Call("idle", "none", NoTask, NoKey, "none", "none")
Ex(pc, t, out) == [pc |-> pc, task |-> t, out |-> out]
NoEx == Ex("idle", NoTask, "none")

\* refs: tasks that still retain the image; due: expires_at has passed.
Image(row, file) == [row |-> row, file |-> file, refs |-> {}, due |-> FALSE]
Draft(status, uses) == [status |-> status, uses |-> uses]

Init ==
    /\ task = [t \in Tasks |-> NoRow]
    /\ bg = [t \in Tasks |-> "none"]
    /\ own = [t \in Tasks |-> Nobody]
    /\ verify = {}
    /\ call = [c \in Callers |-> NoCall]
    /\ ex = [w \in Workers |-> NoEx]
    /\ wr = [w \in Workers |-> <<>>]
    /\ lock = Nobody
    /\ wire = {}
    /\ ans = [t \in Tasks |-> "none"]
    /\ items = [t \in Tasks |-> 0]
    /\ img = Image("none", FALSE)
    /\ draft = Draft("none", FALSE)
    /\ sweep = "idle"
    /\ cache = "none"
    /\ faults = 0 /\ crashes = 0
    /\ scn \in Scenarios

Fault == faults < scn.faults /\ faults' = faults + 1 /\ UNCHANGED <<crashes, scn>>

-----------------------------------------------------------------------------
(* Images, the draft and the locations.                                    *)

Still == UNCHANGED <<requests, worker, platform, bounds>>

\* upload_product_image: the file is stored before the row.
SaveFile ==
    /\ img.row = "none" /\ ~img.file /\ ~img.due
    /\ img' = [img EXCEPT !.file = TRUE]
    /\ Still /\ UNCHANGED <<draft, sweep, cache>>
CreateAsset ==
    /\ img.row = "none" /\ img.file /\ ~img.due
    /\ img' = [img EXCEPT !.row = "staged"]
    /\ Still /\ UNCHANGED <<draft, sweep, cache>>

\* 24 hours after the upload, or when the last retention has ended.
AssetExpires ==
    /\ scn.cleanup /\ img.row # "none" /\ img.refs = {} /\ ~img.due
    /\ img' = [img EXCEPT !.due = TRUE]
    /\ Still /\ UNCHANGED <<draft, sweep, cache>>
\* 7 or 30 days after the end of the task; no task takes the 30 days that an
\* unfinished one has.
RetentionEnds ==
    /\ scn.cleanup
    /\ \E t \in img.refs :
          task[t].status \in Ended /\ img' = [img EXCEPT !.refs = @ \ {t}]
    /\ Still /\ UNCHANGED <<draft, sweep, cache>>

Gone  == [img EXCEPT !.row = "none", !.refs = {}, !.due = TRUE]
Shown == draft.status # "none" /\ draft.uses

\* delete_product_image: row first, then the file.
DeleteImage ==
    /\ scn.cleanup /\ img.row # "none" /\ ~Shown /\ img.refs = {}
    /\ \A t \in Tasks : task[t].asset => task[t].status \notin {"pending", "running"}
    /\ img' = Gone
    /\ Still /\ UNCHANGED <<draft, sweep, cache>>
\* Mutant: also images that were published with.
MutCleanupSession ==
    /\ scn.cleanup /\ img.row # "none" /\ ~Shown
    /\ img' = Gone
    /\ Still /\ UNCHANGED <<draft, sweep, cache>>
CleanupUploadSession ==
    /\ scn.cleanup /\ img.row = "staged" /\ img.refs = {} /\ ~Shown
    /\ img' = Gone
    /\ Still /\ UNCHANGED <<draft, sweep, cache>>
UnlinkFile ==
    /\ img.row = "none" /\ img.file /\ img.due
    /\ img' = [img EXCEPT !.file = FALSE]
    /\ Still /\ UNCHANGED <<draft, sweep, cache>>

\* _product_image_sweeper_loop runs in the worker, outside the write lock of the
\* API: what it looked at can change before its delete is committed (a fault).
Unwanted == img.refs = {} /\ ~Shown
SweepLook ==
    /\ scn.cleanup /\ sweep = "idle" /\ img.row # "none" /\ img.due /\ Unwanted
    /\ sweep' = "delete"
    /\ Still /\ UNCHANGED <<img, draft, cache>>
SweepDelete ==
    /\ sweep = "delete"
    /\ sweep' = "idle"
    /\ \/ img.row = "none" /\ UNCHANGED <<img, bounds>>
       \/ img.row # "none" /\ Unwanted /\ img' = Gone /\ UNCHANGED bounds
       \/ img.row # "none" /\ ~Unwanted /\ img' = Gone /\ Fault
    /\ UNCHANGED <<requests, worker, platform, draft, cache>>

\* A draft may name an image that is gone.
Known == img.row # "none" \/ img.due
CreateDraft ==
    /\ draft.status = "none" /\ \E o \in scn.ops : o.op \in OnDraft
    /\ \E s \in {"draft", "archived"}, uses \in BOOLEAN :
          (uses => Known) /\ draft' = Draft(s, uses)
    /\ Still /\ UNCHANGED <<img, sweep, cache>>
UpdateDraft ==
    /\ draft.status # "none"
    /\ \E s \in {"draft", "archived"}, uses \in BOOLEAN :
          (uses => Known) /\ draft' = Draft(s, uses)
    /\ Still /\ UNCHANGED <<img, sweep, cache>>
DeleteDraft ==
    /\ draft.status # "none"
    /\ draft' = Draft("none", FALSE)
    /\ Still /\ UNCHANGED <<img, sweep, cache>>

\* list_platform_product_locations asks the platform and stores what it said.
RefreshLocations ==
    /\ (\E o \in scn.ops : o.op \in OnDraft) /\ cache # "fresh"
    /\ cache' = "fresh"
    /\ Still /\ UNCHANGED <<img, draft, sweep>>
\* 15 minutes, 24 hours.
CacheAges ==
    /\ cache \in {"fresh", "stale"}
    /\ cache' = IF cache = "fresh" THEN "stale" ELSE "old"
    /\ Still /\ UNCHANGED <<img, draft, sweep>>
MediaNext ==
    \/ SaveFile \/ CreateAsset \/ AssetExpires \/ RetentionEnds
    \/ DeleteImage \/ CleanupUploadSession \/ UnlinkFile \/ SweepLook \/ SweepDelete
    \/ CreateDraft \/ UpdateDraft \/ DeleteDraft \/ RefreshLocations \/ CacheAges

-----------------------------------------------------------------------------
(* Requests.                                                               *)

Goto(c, pc)     == call' = [call EXCEPT ![c].pc = pc]
Hold(c, t, pc)  == call' = [call EXCEPT ![c].pc = pc, ![c].task = t, ![c].seen = task'[t].status]
Answered(c)     == call' = [call EXCEPT ![c] = NoCall]
NoRequest       == UNCHANGED <<worker, platform, bounds>>
ByKey(k) == {t \in Tasks : task[t].status # "none" /\ k # NoKey /\ task[t].key = k}
Free     == {t \in scn.tasks : task[t].status = "none"}
\* A new id; which one makes no difference.
NewIds   == IF Free = {} THEN {} ELSE {CHOOSE t \in Free : TRUE}

\* A new row; its image, if it has one, is retained.
Insert(c, t, row, pc) ==
    /\ task' = [task EXCEPT ![t] = row]
    /\ img' = IF row.asset THEN [img EXCEPT !.row = "retained", !.refs = @ \cup {t}, !.due = FALSE]
                           ELSE img
    /\ Hold(c, t, pc)

\* job, draft and draftQueued make a task, the others are about one that exists.
Begin(c) ==
    /\ call[c].pc = "idle"
    /\ \E o \in scn.ops : \E t \in IF o.op \in OnDraft \cup {"job"} THEN {NoTask} ELSE scn.tasks \ Free :
          call' = [call EXCEPT ![c] =
             Call(IF o.op \in OnDraft THEN "byKey" ELSE o.op, o.op, t, o.key, o.mode, "none")]
    /\ NoRequest /\ UNCHANGED <<task, bg, own, verify, media>>

\* Only draftQueued goes on to the background task.
AfterCreate(c) == IF call[c].op = "draft" THEN "answer" ELSE "bg"

FindByKey(c) ==
    /\ call[c].pc = "byKey"
    /\ UNCHANGED task
    /\ IF ByKey(call[c].key) # {}
       THEN \E t \in ByKey(call[c].key) : Hold(c, t, AfterCreate(c))
       ELSE Goto(c, IF call[c].mode = "platform_api" THEN "resolve" ELSE "create")
    /\ NoRequest /\ UNCHANGED <<bg, own, verify, media>>

\* _resolve_product_task_location: a region or an address group needs nothing;
\* otherwise the cache is used while it is fresh, or stale when the network fails.
Resolve(c) ==
    /\ call[c].pc = "resolve"
    /\ \/ draft.status # "none" /\ Goto(c, "create") /\ UNCHANGED cache
       \/ draft.status # "none" /\ cache # "fresh" /\ Goto(c, "create") /\ cache' = "fresh"
       \/ (draft.status = "none" \/ cache # "fresh") /\ Answered(c) /\ UNCHANGED cache
    /\ NoRequest /\ UNCHANGED <<task, bg, own, verify, img, draft, sweep>>

CreateFromDraft(c) ==
    /\ call[c].pc = "create"
    /\ IF ByKey(call[c].key) # {}
       THEN /\ UNCHANGED <<task, img, draft>>
            /\ \E t \in ByKey(call[c].key) : Hold(c, t, AfterCreate(c))
       ELSE \/ /\ \/ draft.status \in {"none", "archived"}
                  \/ draft.uses /\ img.row = "none"
               /\ Answered(c) /\ UNCHANGED <<task, img, draft>>
            \/ /\ draft.status \in {"draft", "ready"}
               /\ draft.uses => img.row # "none"
               /\ \E t \in NewIds :
                     Insert(c, t, Row("pending", NoTask, call[c].key, call[c].mode, draft.uses),
                            AfterCreate(c))
               /\ draft' = [draft EXCEPT !.status = "ready"]
    /\ NoRequest /\ UNCHANGED <<bg, own, verify, sweep, cache>>
ReturnTask(c) ==
    /\ call[c].pc = "answer"
    /\ Answered(c)
    /\ NoRequest /\ UNCHANGED <<task, bg, own, verify, media>>

CreateJob(c) ==
    /\ call[c].pc = "job"
    /\ IF ByKey(call[c].key) # {}
       THEN /\ UNCHANGED <<task, img>>
            /\ \E t \in ByKey(call[c].key) : Hold(c, t, "bg")
       ELSE \/ img.row = "none" /\ Answered(c) /\ UNCHANGED <<task, img>>
            \/ /\ img.row # "none"
               /\ \E t \in NewIds :
                     Insert(c, t, Row("pending", NoTask, call[c].key, "platform_api", TRUE), "bg")
    /\ NoRequest /\ UNCHANGED <<bg, own, verify, draft, sweep, cache>>

\* Mutant: a task whose result is not known may be retried.
MutMayRetry(t) ==
    task[t].status \in {"failed", "verification_required"} /\ ~task[t].hidden
MayRetry(t) == task[t].status = "failed" /\ task[t].retryable /\ ~task[t].hidden

\* The source leaves the catalog in the transaction that adds the new attempt.
Retry(c) ==
    /\ call[c].pc = "retry"
    /\ LET s == call[c].task IN
       IF ByKey(call[c].key) # {}
       THEN /\ UNCHANGED <<task, img>>
            /\ \E t \in ByKey(call[c].key) :
                  IF task[t].of = s THEN Hold(c, t, "bg") ELSE Answered(c)
       ELSE \/ /\ MayRetry(s) => task[s].asset /\ img.row = "none"
               /\ Answered(c) /\ UNCHANGED <<task, img>>
            \/ /\ MayRetry(s) /\ (task[s].asset => img.row # "none")
               /\ \E t \in NewIds :
                     /\ task' = [task EXCEPT ![s].hidden = TRUE,
                            ![t] = Row("pending", s, call[c].key, task[s].mode, task[s].asset)]
                     /\ img' = IF task[s].asset
                               THEN [img EXCEPT !.row = "retained", !.refs = @ \cup {t}, !.due = FALSE]
                               ELSE img
                     /\ Hold(c, t, "bg")
    /\ NoRequest /\ UNCHANGED <<bg, own, verify, draft, sweep, cache>>

Hide(c) ==
    /\ call[c].pc = "hide"
    /\ LET t == call[c].task IN
       task' = IF task[t].status = "failed"
                  /\ task[t].cert \notin {"published_unconfirmed", "result_unknown"}
               THEN [task EXCEPT ![t].hidden = TRUE] ELSE task
    /\ Answered(c)
    /\ NoRequest /\ UNCHANGED <<bg, own, verify, media>>

Enqueue(c) ==
    /\ call[c].pc = "enqueue"
    /\ UNCHANGED task
    /\ IF task[call[c].task].status = "pending"
       THEN Hold(c, call[c].task, "bg") ELSE Answered(c)
    /\ NoRequest /\ UNCHANGED <<bg, own, verify, media>>

\* _ensure_publish_background_task holds the lock of the publish task.
Ensuring(t) == \E c \in Callers : call[c].pc = "push" /\ call[c].task = t
EnsureBackground(c) ==
    /\ call[c].pc = "bg" /\ ~Ensuring(call[c].task)
    /\ LET t == call[c].task
           fresh == bg[t] = "none" \/ (bg[t] = "unqueued" /\ call[c].seen = "pending") IN
       IF fresh \/ bg[t] = "pending"
       THEN /\ bg' = [bg EXCEPT ![t] = "pending"]
            /\ own' = IF fresh THEN [own EXCEPT ![t] = Nobody] ELSE own
            /\ Goto(c, "push")
       ELSE Answered(c) /\ UNCHANGED <<bg, own>>
    /\ NoRequest /\ UNCHANGED <<task, verify, media>>

\* _enqueue_or_fail; a failure is written whatever the background task does now.
Push(c) ==
    /\ call[c].pc = "push"
    /\ LET t == call[c].task IN
       \/ /\ bg' = IF bg[t] = "pending" THEN [bg EXCEPT ![t] = "queued"] ELSE bg
          /\ UNCHANGED bounds
       \/ Fault /\ bg' = [bg EXCEPT ![t] = "unqueued"]
    /\ Answered(c)
    /\ UNCHANGED <<task, own, verify, worker, platform, media>>

CallNext(c) ==
    \/ Begin(c) \/ FindByKey(c) \/ Resolve(c) \/ CreateFromDraft(c) \/ ReturnTask(c)
    \/ CreateJob(c) \/ Retry(c) \/ Hide(c) \/ Enqueue(c) \/ EnsureBackground(c) \/ Push(c)

-----------------------------------------------------------------------------
(* The worker.                                                             *)

Step(w, pc, out) == ex' = [ex EXCEPT ![w].pc = pc, ![w].out = out]
Inside == {"recheck", "images", "prepare", "locate", "upload", "category", "progress", "post", "sent", "verify",
           "verified", "merge", "wait"}

\* The execution ends: the lock is released by its holder, the background task
\* is finished by the worker in its row, product.verify_publish is scheduled.
End(w, ok) ==
    LET t == ex[w].task IN
    /\ ex' = [ex EXCEPT ![w] = NoEx]
    /\ lock' = IF lock = w THEN Nobody ELSE lock
    /\ bg' = IF bg[t] = "running" /\ own[t] = w
             THEN [bg EXCEPT ![t] = IF ok THEN "done" ELSE "failed"] ELSE bg
    /\ verify' = IF ok /\ task[t].item THEN verify \cup {t} ELSE verify

Claim(w) ==
    /\ w \in scn.workers /\ ex[w].pc = "idle"
    /\ \E t \in Tasks :
          /\ bg[t] \in {"pending", "queued"}
          /\ bg' = [bg EXCEPT ![t] = "running"]
          /\ own' = [own EXCEPT ![t] = w]
          /\ ex' = [ex EXCEPT ![w] = Ex("look", t, "none")]
    /\ UNCHANGED <<task, verify, call, wr, lock, platform, media, bounds>>

\* A manual export succeeds at once, whatever its status.
Look(w) ==
    /\ ex[w].pc = "look"
    /\ LET t == ex[w].task IN
       CASE task[t].mode = "manual_export" ->
              /\ task' = IF draft.status = "none" THEN task ELSE [task EXCEPT ![t].status = "success"]
              /\ End(w, draft.status # "none")
         [] task[t].mode = "platform_api" /\ task[t].status # "pending" ->
              End(w, TRUE) /\ UNCHANGED task
         [] OTHER -> Step(w, "lock", "none") /\ UNCHANGED <<task, bg, verify, lock>>
    /\ UNCHANGED <<own, call, wr, platform, media, bounds>>

AcquireLock(w) ==
    /\ ex[w].pc = "lock" /\ lock = Nobody
    /\ lock' = w
    /\ Step(w, "recheck", "none")
    /\ UNCHANGED <<requests, wr, platform, media, bounds>>
LockTimeout(w) ==
    /\ ex[w].pc = "lock" /\ lock # Nobody
    /\ Fault
    /\ End(w, FALSE)
    /\ UNCHANGED <<task, own, call, wr, platform, media>>

\* update_product_publish_task_after_execute: the write is about the task of the
\* execution that queued it; what is None is kept.
Write(status, cert, kind, retryable, item) ==
    [status |-> status, cert |-> cert, kind |-> kind, retryable |-> retryable, item |-> item]
Progress == Write("running", "none", "none", FALSE, FALSE)
Apply(row, u) ==
    [row EXCEPT !.status = u.status, !.kind = u.kind, !.item = @ \/ u.item,
                !.cert = IF u.cert = "none" THEN @ ELSE u.cert,
                !.retryable = IF u.cert = "none" THEN @ ELSE u.retryable]
Queued(w, u) == wr' = [wr EXCEPT ![w] = Append(@, [task |-> ex[w].task, write |-> u])]
WriteRow(w) ==
    /\ wr[w] # <<>>
    /\ task' = [task EXCEPT ![Head(wr[w]).task] = Apply(@, Head(wr[w]).write)]
    /\ wr' = [wr EXCEPT ![w] = Tail(@)]
    /\ UNCHANGED <<bg, own, verify, call, ex, lock, platform, media, bounds>>

Quiet == UNCHANGED <<requests, lock, platform, media>>

Recheck(w) ==
    /\ ex[w].pc = "recheck"
    /\ IF task[ex[w].task].status = "pending"
       THEN /\ Step(w, "images", "none")
            /\ Queued(w, Progress)
            /\ UNCHANGED <<bg, verify, lock>>
       ELSE End(w, TRUE) /\ UNCHANGED wr
    /\ UNCHANGED <<task, own, call, platform, media, bounds>>
\* _request_from_snapshot.
ReadImages(w) ==
    /\ ex[w].pc = "images" /\ wr[w] = <<>>
    /\ IF task[ex[w].task].asset /\ ~(img.row # "none" /\ img.file)
       THEN Step(w, "merge", "rejected") ELSE Step(w, "prepare", "none")
    /\ Quiet /\ UNCHANGED <<wr, bounds>>
\* publish goes through these steps before the request itself.  Nothing was sent,
\* so a network error may be retried; everything else is refused for good.
NetworkFails(w) == Fault /\ Step(w, "merge", "network")
Refuses(w)      == UNCHANGED bounds /\ Step(w, "merge", "rejected")
Validate(w) ==
    /\ ex[w].pc = "prepare"
    /\ Refuses(w) \/ (Step(w, "locate", "none") /\ UNCHANGED bounds)
    /\ Quiet /\ UNCHANGED wr
\* list_location_candidates asks up to three times, unless the task names a place.
Locate(w) ==
    /\ ex[w].pc = "locate"
    /\ NetworkFails(w) \/ Refuses(w) \/ (Step(w, "upload", "none") /\ UNCHANGED bounds)
    /\ Quiet /\ UNCHANGED wr
UploadImages(w) ==
    /\ ex[w].pc = "upload"
    /\ NetworkFails(w) \/ Refuses(w) \/ (Step(w, "category", "none") /\ UNCHANGED bounds)
    /\ Quiet /\ UNCHANGED wr
RecommendCategory(w) ==
    /\ ex[w].pc = "category"
    /\ \/ (NetworkFails(w) \/ Refuses(w)) /\ UNCHANGED wr
       \/ /\ Step(w, "progress", "none")
          /\ Queued(w, Progress)
          /\ UNCHANGED bounds
    /\ Quiet

\* The thread waits up to 10 seconds for its progress to be written.
Reported(w) ==
    /\ ex[w].pc \in {"progress", "verified"}
    /\ \/ wr[w] = <<>> /\ UNCHANGED bounds
       \/ wr[w] # <<>> /\ Fault
    /\ ex' = [ex EXCEPT ![w].pc = IF @ = "progress" THEN "post" ELSE "merge"]
    /\ Quiet /\ UNCHANGED wr
Post(w) ==
    /\ ex[w].pc = "post"
    /\ wire' = wire \cup {ex[w].task}
    /\ ans' = [ans EXCEPT ![ex[w].task] = "none"]
    /\ Step(w, "sent", "none")
    /\ UNCHANGED <<requests, wr, lock, items, media, bounds>>

\* _ensure_success, _find_item_id.  Mutant: a lost answer is a network failure.
MutLostIsNetwork == "network"
LostAnswer == "unknown"
Answer(w) ==
    /\ ex[w].pc = "sent"
    /\ LET a == ans[ex[w].task] IN
       \/ a = "ok"      /\ Step(w, "verify", "none")       /\ UNCHANGED bounds
       \/ a = "noId"    /\ Step(w, "merge", "unknown")     /\ UNCHANGED bounds
       \/ a = "refused" /\ Step(w, "merge", "rejected")    /\ UNCHANGED bounds
       \/ Fault         /\ Step(w, "merge", LostAnswer)
    /\ Quiet /\ UNCHANGED wr
\* _verify_item; its progress is reported before and after.
Verify(w) ==
    /\ ex[w].pc = "verify"
    /\ \E out \in {"listed", "notListed"} : Step(w, "verified", out)
    /\ Queued(w, Progress)
    /\ Quiet /\ UNCHANGED bounds

Outcome(out) ==
    CASE out = "listed"    -> Write("success", "confirmed_success", "none", FALSE, TRUE)
      [] out = "notListed" -> Write("verification_required", "published_unconfirmed",
                                    "verification_required", FALSE, TRUE)
      [] out = "unknown"   -> Write("verification_required", "result_unknown",
                                    "publish_result_unknown", FALSE, FALSE)
      [] OTHER             -> Write("failed", "confirmed_failed", out, out = "network", FALSE)

\* merge_account_cookie_updates, then the last write.  After the publish the merge
\* can fail with a generic exception or with the error cookie_conflict, and each is
\* written as a failure; in the handler of ProductPublishError nothing catches it.
Merge(w) ==
    /\ ex[w].pc = "merge"
    /\ \/ /\ Queued(w, Outcome(ex[w].out))
          /\ Step(w, "wait", ex[w].out)
          /\ UNCHANGED <<bg, verify, lock, bounds>>
       \/ /\ Fault /\ ex[w].out \in {"listed", "notListed"}
          /\ \E kind \in {"internal", "cookie_conflict"} :
                Queued(w, Outcome(kind)) /\ Step(w, "wait", kind)
          /\ UNCHANGED <<bg, verify, lock>>
       \/ /\ Fault /\ ex[w].out \notin {"listed", "notListed"}
          /\ End(w, FALSE) /\ UNCHANGED wr
    /\ UNCHANGED <<task, own, call, platform, media>>
Finish(w) ==
    /\ ex[w].pc = "wait" /\ wr[w] = <<>>
    /\ End(w, ex[w].out \in {"listed", "notListed"})
    /\ UNCHANGED <<task, own, call, wr, platform, media, bounds>>

WorkerStep(w) ==
    \/ Look(w) \/ AcquireLock(w) \/ LockTimeout(w) \/ Recheck(w) \/ WriteRow(w)
    \/ ReadImages(w) \/ Validate(w) \/ Locate(w) \/ UploadImages(w) \/ RecommendCategory(w)
    \/ Reported(w) \/ Post(w) \/ Answer(w) \/ Verify(w)
    \/ Merge(w) \/ Finish(w)
WorkerNext(w) == Claim(w) \/ WorkerStep(w)

-----------------------------------------------------------------------------
(* The platform, and what fails.                                           *)

\* A token error is answered before anything is done and the request is sent
\* again: it only delays this step.
Platform(t) ==
    /\ t \in wire
    /\ wire' = wire \ {t}
    /\ \/ /\ items' = [items EXCEPT ![t] = @ + 1]
          /\ \E a \in {"ok", "noId"} : ans' = [ans EXCEPT ![t] = a]
       \/ ans' = [ans EXCEPT ![t] = "refused"] /\ UNCHANGED items
    /\ UNCHANGED <<requests, worker, media, bounds>>

\* A product sync that finds the item.
SyncConfirms(t) ==
    /\ task[t].item /\ task[t].status \in {"success", "verification_required"}
    /\ task' = [task EXCEPT ![t].status = "success", ![t].cert = "confirmed_success",
                            ![t].kind = "none", ![t].retryable = FALSE]
    /\ UNCHANGED <<bg, own, verify, call, worker, platform, media, bounds>>
Crash(w) ==
    /\ crashes < scn.crashes /\ crashes' = crashes + 1
    /\ ex[w].pc # "idle"
    /\ ex' = [ex EXCEPT ![w] = NoEx]
    /\ wr' = [wr EXCEPT ![w] = <<>>]
    /\ UNCHANGED <<requests, lock, platform, media, faults, scn>>
\* Mutant: the sweep looks for rows that no worker is named in.
MutLeaseSweep(t) ==
    /\ bg[t] = "running" /\ own[t] = Nobody
    /\ bg' = [bg EXCEPT ![t] = "failed"]
    /\ UNCHANGED <<task, own, verify, call, worker, platform, media, bounds>>
\* The lease of a worker that stopped runs out; so does its lock.
LeaseSweep(t) ==
    /\ bg[t] = "running" /\ ex[own[t]].task # t
    /\ bg' = [bg EXCEPT ![t] = "failed"]
    /\ UNCHANGED <<task, own, verify, call, worker, platform, media, bounds>>
LockExpires ==
    /\ lock # Nobody /\ ex[lock].pc \notin Inside
    /\ lock' = Nobody
    /\ UNCHANGED <<requests, ex, wr, platform, media, bounds>>
\* _renew_product_operation_lock gives up after one error.
LockLost ==
    /\ lock # Nobody /\ ex[lock].pc \in {"upload", "progress", "sent", "verified"}
    /\ Fault
    /\ lock' = Nobody
    /\ UNCHANGED <<requests, ex, wr, platform, media>>

Next ==
    \/ MediaNext
    \/ \E c \in Callers : CallNext(c)
    \/ \E w \in Workers : WorkerNext(w) \/ Crash(w)
    \/ \E t \in Tasks : Platform(t) \/ SyncConfirms(t) \/ LeaseSweep(t)
    \/ LockExpires \/ LockLost

Spec == Init /\ [][Next]_vars

\* The loop of a worker, the sweeper of the leases and the expiry in Redis run
\* for ever; the platform answers or the request times out.
FairSpec ==
    /\ Spec
    /\ \A w \in Workers : WF_vars(WorkerNext(w))
    /\ \A t \in Tasks : WF_vars(Platform(t)) /\ WF_vars(LeaseSweep(t))
    /\ WF_vars(LockExpires)

-----------------------------------------------------------------------------
(* Properties.                                                             *)

Statuses == {"none", "pending", "running"} \cup Ended
Certainties == {"none", "confirmed_success", "published_unconfirmed", "result_unknown",
                "confirmed_failed"}
Kinds == {"none", "verification_required", "publish_result_unknown", "rejected", "network",
          "internal", "cookie_conflict"}

\* Types of the rows, the requests and the executions.
TypeOK ==
    /\ task \in [Tasks -> [status : Statuses, cert : Certainties, kind : Kinds,
                           retryable : BOOLEAN, item : BOOLEAN, hidden : BOOLEAN,
                           asset : BOOLEAN, of : Tasks \cup {NoTask}, key : Keys \cup {NoKey},
                           mode : {"platform_api", "manual_export"}]]
    /\ bg \in [Tasks -> Live \cup {"none", "done", "failed", "unqueued"}]
    /\ own \in [Tasks -> Workers \cup {Nobody}]
    /\ verify \subseteq Tasks
    /\ \A c \in Callers : call[c].task \in Tasks \cup {NoTask}
    /\ \A w \in Workers :
          /\ ex[w].pc \in Inside \cup {"idle", "look", "lock"}
          /\ ex[w].pc # "idle" <=> ex[w].task \in Tasks
          /\ Len(wr[w]) <= 3
    /\ lock \in Workers \cup {Nobody}
    /\ wire \subseteq Tasks
    /\ items \in [Tasks -> Nat]
    /\ img.refs \subseteq Tasks /\ cache \in Ages

\* One click of the operator makes at most one item: a task is published once
\* though it can be claimed, enqueued and executed again (execute_product_publish
\* reads the status again under the lock), and one that was or may yet be
\* published never gets another attempt.
OneItemPerJob ==
    \A t \in Tasks :
       /\ items[t] <= 1
       /\ t \in wire => items[t] = 0
       /\ \A s \in Tasks : task[t].of = s => items[s] = 0 /\ s \notin wire
       /\ \A s \in Tasks \ {t} :
             task[t].status # "none" /\ task[t].of \in Tasks => task[s].of # task[t].of

\* What the row tells the operator is true: a success of the platform is an item
\* that exists, and a failure called confirmed left nothing behind and nothing
\* on its way.  (Two kinds of failure are recorded as confirmed after the item was
\* made, when its cookies are merged: of "internal" nothing is known, and with
\* "cookie_conflict" the item always exists.)
OutcomeHonest ==
    \A t \in Tasks :
       /\ task[t].mode = "platform_api" /\ task[t].status = "success" => items[t] = 1
       /\ task[t].item => items[t] = 1
       /\ task[t].cert = "confirmed_failed" /\ task[t].kind # "internal"
             => /\ t \notin wire
                /\ items[t] = IF task[t].kind = "cookie_conflict" THEN 1 ELSE 0

\* The image a task was created with is there until the task has ended, whoever
\* deletes the draft, the upload session or the image meanwhile.  (Not so when
\* the sweeper of the worker looked before the task was created.)
ImageKept ==
    \A t \in Tasks : task[t].asset /\ task[t].status \in {"pending", "running"}
                        => img.row = "retained" /\ img.file

\* Every background task ends, also when its worker stops or loses its lock.
JobsEnd == \A t \in Tasks : bg[t] \in {"queued", "running"} ~> bg[t] \notin Live
=============================================================================
