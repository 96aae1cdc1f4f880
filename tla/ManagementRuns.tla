--------------------------- MODULE ManagementRuns ---------------------------
(***************************************************************************)
(* Runs of product management (sync, polish, offline, delete) and of order *)
(* synchronisation (bought, sold) of one account: the requests and the two *)
(* schedulers that create them, the workers that execute them under the    *)
(* locks in Redis, the rows of the products, and the platform, where the   *)
(* seller also acts by himself.                                            *)
(*                                                                         *)
(* What an order looks like belongs to OrderActions: here a list of orders *)
(* is applied or it is not.                                                *)
(***************************************************************************)
EXTENDS Naturals, FiniteSets

CONSTANTS
    Runs,       \* ids for runs
    Items,      \* products on the platform
    Clients,    \* "ui", "sched", "verify" create runs, "admin" changes settings
    Workers,
    Scenarios,  \* [ops, by, full, items, with]: a behaviour has these operations
                \* and clients, full lists or not, products at the start, and
                \* the seller, a publication or a crash
    NoRun, Nobody,
    MaxFaults,  \* bound: failed calls, lost answers, page shifts, lock waits
    MaxCrashes  \* bound: workers or requests that stop

Orders  == {"bought", "sold"}
Writes  == {"offline", "delete"}
AllOps  == {"sync", "polish"} \cup Orders \cup Writes
Active  == {"pending", "running"}
Ended   == {"success", "partial_success", "failed", "verification_required"}

Timed   == AllOps \ Writes
ASSUME OpsAssumption == 
    /\ Clients \subseteq {"ui", "admin", "sched", "verify"}
    /\ \A s \in Scenarios : s.ops \subseteq AllOps /\ s.by \subseteq Clients
                            /\ s.full \subseteq BOOLEAN /\ s.items \subseteq Items /\ s.with \subseteq {"seller", "publish", "crash"}
ASSUME NamesAssumption == NoRun \notin Runs /\ Nobody \notin Workers
ASSUME BoundAssumption == MaxFaults \in Nat /\ MaxCrashes \in Nat

VARIABLES
    run,     \* [Runs -> the row of the run]
    bg,      \* [Runs -> the status of its background task]
    call,    \* [Clients -> the creation in progress]
    ex,      \* [Workers -> the execution in progress]
    lock,    \* the two locks of the account in Redis
    row,     \* [Items -> the row of the product]
    plat,    \* [Items -> the product on the platform]
    setting, \* [Timed -> enabled, and due]
    verify,  \* product.verify_operation is scheduled
    scen,    \* the scenario of this behaviour
    lost,    \* history: runs in which the answer to a write was lost
    gone,    \* history: items that were not for sale when a list was read
    broken,  \* history: a lock was lost while its holder worked
    faults, crashes

vars == <<run, bg, call, ex, lock, row, plat, setting, verify, scen, lost, gone, broken,
          faults, crashes>>

\* before: the runs that are older than this one.
Run(op, trig, full, items, before, status, error) ==
    [op |-> op, trig |-> trig, full |-> full, items |-> items, before |-> before,
     status |-> status, error |-> error]
NoRow == Run("none", "none", FALSE, {}, {}, "none", "none")

\* missing: missing_sync_count; today: polished today.
Product(status, state, missing, today) ==
    [status |-> status, state |-> state, missing |-> missing, today |-> today]

Call(pc, op, trig, full, items, r) ==
    [pc |-> pc, op |-> op, trig |-> trig, full |-> full, items |-> items, run |-> r]
NoCall == Call("idle", "none", "none", FALSE, {}, NoRun)

\* todo: items left; seen: what the list showed, whole: all its pages; late:
\* items another run took down since; good, bad, skip: some succeeded, failed,
\* were skipped; out: the status to finish the run with.
Ex(pc, r) == [pc |-> pc, run |-> r, todo |-> {}, seen |-> {}, whole |-> FALSE, late |-> {},
              good |-> FALSE, bad |-> FALSE, skip |-> FALSE, out |-> "none"]
NoEx == Ex("idle", NoRun)

LockOf(op) == IF op \in Orders THEN "order" ELSE "product"

Init ==
    /\ scen \in Scenarios
    /\ run = [r \in Runs |-> NoRow]
    /\ bg = [r \in Runs |-> "none"]
    /\ call = [c \in Clients |-> NoCall]
    /\ ex = [w \in Workers |-> NoEx]
    /\ lock = [l \in {"product", "order"} |-> Nobody]
    /\ row = [i \in Items |-> IF i \in scen.items THEN Product("selling", "current", 0, FALSE)
                             ELSE Product("none", "none", 0, FALSE)]
    /\ plat = [i \in Items |-> IF i \in scen.items THEN "selling" ELSE "deleted"]
    /\ setting = [op \in Timed |-> [enabled |-> op # "polish", due |-> FALSE]]
    /\ verify = FALSE
    /\ lost = {} /\ gone = {} /\ broken = FALSE
    /\ faults = 0 /\ crashes = 0

Fault == faults < MaxFaults /\ faults' = faults + 1

-----------------------------------------------------------------------------
(* Requests and schedulers create runs.                                    *)

elsewhere == <<ex, lock, row, plat, scen, lost, gone, broken, crashes>>

\* Purchases are always read in full.
Full(op, full) == IF op \in {"sync", "sold"} THEN full ELSE op = "bought"
\* The seller asks for a run; items must have a row.
Request(op, full, items) ==
    /\ "ui" \in scen.by /\ call["ui"].pc = "idle"
    /\ op \in scen.ops
    /\ op \in Orders \cup {"sync"} => items = {}
    /\ op \in Writes => items # {}
    /\ \A i \in items : row[i].status # "none"
    /\ call' = [call EXCEPT !["ui"] = Call("read", op, "manual", Full(op, full), items, NoRun)]
    /\ UNCHANGED <<run, bg, setting, verify, faults, elsewhere>>

\* The clock passes next_sync_at, next_polish_at, ...
Becomes(op) ==
    /\ "sched" \in scen.by
    /\ op \in scen.ops \ Writes /\ setting[op].enabled /\ ~setting[op].due
    /\ setting' = [setting EXCEPT ![op].due = TRUE]
    /\ UNCHANGED <<run, bg, call, verify, faults, elsewhere>>
ScanDue(op, full) ==
    /\ "sched" \in scen.by /\ call["sched"].pc = "idle"
    /\ op \in scen.ops \ Writes /\ setting[op].enabled /\ setting[op].due
    /\ call' = [call EXCEPT !["sched"] = Call("read", op, "scheduled", Full(op, full), {}, NoRun)]
    /\ UNCHANGED <<run, bg, setting, verify, faults, elsewhere>>
UpdateSetting(op) ==
    /\ "admin" \in scen.by
    /\ op \in scen.ops \ Writes
    /\ \E on \in BOOLEAN : setting' = [setting EXCEPT ![op] = [enabled |-> on, due |-> FALSE]]
    /\ setting' # setting
    /\ UNCHANGED <<run, bg, call, verify, faults, elsewhere>>

\* product.verify_operation asks for a full sync.
VerifyOperation ==
    /\ "verify" \in scen.by /\ call["verify"].pc = "idle" /\ verify
    /\ verify' = FALSE
    /\ call' = [call EXCEPT !["verify"] = Call("read", "sync", "scheduled", TRUE, {}, NoRun)]
    /\ UNCHANGED <<run, bg, setting, faults, elsewhere>>
\* product.verify_publish looks whether a published product is on the first page.
VerifyPublish ==
    /\ "verify" \in scen.by /\ "publish" \in scen.with
    /\ call["verify"].pc = "idle"
    /\ call' = [call EXCEPT !["verify"] = Call("read", "sync", "publish", FALSE, {}, NoRun)]
    /\ UNCHANGED <<run, bg, setting, verify, faults, elsewhere>>

\* Only the newest active run can be the answer: one of orders always is, one of
\* products to the scheduler, or to a request for the same by the seller.
Rivals(op) == {r \in Runs : run[r].status \in Active /\ run[r].op = op}
Answers(r, c) ==
    /\ r \in Rivals(call[c].op) /\ Rivals(call[c].op) \ {r} \subseteq run[r].before
    /\ \/ call[c].op \in Orders
       \/ call[c].trig = "scheduled"
       \/ call[c].trig = "manual" /\ run[r].items = call[c].items /\ run[r].full = call[c].full
ReadActive(c) ==
    /\ call[c].pc = "read"
    /\ \/ \E r \in Runs : Answers(r, c) /\ call' = [call EXCEPT ![c].pc = "bg", ![c].run = r]
       \/ (\A r \in Runs : ~Answers(r, c)) /\ call' = [call EXCEPT ![c].pc = "insert"]
    /\ UNCHANGED <<run, bg, setting, verify, faults, elsewhere>>
Free == {r \in Runs : run[r].status = "none"}
InsertRun(c) ==
    /\ call[c].pc = "insert" /\ Free # {}
    /\ LET r == CHOOSE x \in Free : TRUE IN
       /\ run' = [run EXCEPT ![r] =
                    Run(call[c].op, call[c].trig, call[c].full, call[c].items, Runs \ Free,
                        "pending", "none")]
       /\ call' = [call EXCEPT ![c].pc = "bg", ![c].run = r]
    /\ UNCHANGED <<bg, setting, verify, faults, elsewhere>>

\* The scheduler sets the next time however the creation went.
Created(c) ==
    /\ call' = [call EXCEPT ![c] = NoCall]
    /\ setting' = IF c = "sched" THEN [setting EXCEPT ![call[c].op].due = FALSE] ELSE setting
EnsureBackground(c) ==
    /\ call[c].pc = "bg"
    /\ LET r == call[c].run IN
       IF bg[r] \in {"none", "pending"}
       THEN /\ bg' = [bg EXCEPT ![r] = "pending"]
            /\ call' = [call EXCEPT ![c].pc = "push"] /\ UNCHANGED setting
       ELSE Created(c) /\ UNCHANGED bg
    /\ UNCHANGED <<run, verify, faults, elsewhere>>
\* The queue is down: task and run are failed, whatever they are doing.
Push(c) ==
    /\ call[c].pc = "push"
    /\ LET r == call[c].run IN
       \/ /\ bg' = IF bg[r] = "pending" THEN [bg EXCEPT ![r] = "queued"] ELSE bg
          /\ UNCHANGED <<run, faults>>
       \/ /\ Fault
          /\ bg' = [bg EXCEPT ![r] = "failed"]
          /\ run' = [run EXCEPT ![r].status = "failed", ![r].error = "queue"]
    /\ Created(c)
    /\ UNCHANGED <<verify, elsewhere>>

ClientNext(c) == ReadActive(c) \/ InsertRun(c) \/ EnsureBackground(c) \/ Push(c)

-----------------------------------------------------------------------------
(* A worker executes a run.                                                *)

made == <<call, scen, crashes>>
Selling == {i \in Items : plat[i] = "selling"}
Row(r, status, error) == run' = [run EXCEPT ![r].status = status, ![r].error = error]
To(w, pc) == ex' = [ex EXCEPT ![w].pc = pc]

Claim(w) ==
    /\ ex[w].pc = "idle"
    /\ \E r \in Runs :
        /\ bg[r] \in {"pending", "queued"}
        /\ bg' = [bg EXCEPT ![r] = "running"]
        /\ ex' = [ex EXCEPT ![w] = Ex("start", r)]
    /\ UNCHANGED <<run, lock, row, plat, setting, verify, lost, gone, broken, faults, made>>

\* The worker is inside the part its lock protects.
Inside(w, l) == ex[w].pc \notin {"idle", "start", "lock"} /\ LockOf(run[ex[w].run].op) = l

\* The worker is done with its task; the lock is released if it is still held.
End(w, ok) ==
    /\ bg' = IF bg[ex[w].run] = "running"
             THEN [bg EXCEPT ![ex[w].run] = IF ok THEN "done" ELSE "failed"] ELSE bg
    /\ ex' = [ex EXCEPT ![w] = NoEx]
    /\ lock' = [l \in DOMAIN lock |-> IF lock[l] = w /\ Inside(w, l) THEN Nobody ELSE lock[l]]

\* A run that has ended is only reported.
StartRun(w) ==
    /\ ex[w].pc = "start"
    /\ LET r == ex[w].run IN
       IF run[r].status \in Active
       THEN /\ Row(r, "running", run[r].error) /\ To(w, "lock") /\ UNCHANGED <<bg, lock>>
       ELSE /\ End(w, run[r].status \in {"success", "partial_success"}) /\ UNCHANGED run
    /\ UNCHANGED <<row, plat, setting, verify, lost, gone, broken, faults, made>>

AcquireLock(w) ==
    /\ ex[w].pc = "lock"
    /\ LET l == LockOf(run[ex[w].run].op) IN lock[l] = Nobody /\ lock' = [lock EXCEPT ![l] = w]
    /\ To(w, "work")
    /\ UNCHANGED <<run, bg, row, plat, setting, verify, lost, gone, broken, faults, made>>
\* An order run asks for its lock inside its try and ends with it; a product
\* run asks outside, and its row stays running.
LockTimeout(w) ==
    /\ ex[w].pc = "lock" /\ lock[LockOf(run[ex[w].run].op)] # Nobody
    /\ Fault
    /\ IF run[ex[w].run].op \in Orders
       THEN /\ Row(ex[w].run, "failed", "lock")
            /\ setting' = [setting EXCEPT ![run[ex[w].run].op].due = FALSE]
       ELSE UNCHANGED <<run, setting>>
    /\ End(w, FALSE)
    /\ UNCHANGED <<row, plat, verify, lost, gone, broken, made>>

(* Product synchronisation.                                                *)

Works(w, op) == ex[w].pc = "work" /\ run[ex[w].run].op = op

\* Pages are read one after the other: an item can slip between two of them.
ListSelling(w) ==
    /\ Works(w, "sync")
    /\ \E whole \in {FALSE, run[ex[w].run].full} : \E seen \in SUBSET Selling :
        /\ \/ whole /\ seen = Selling /\ UNCHANGED faults
           \/ whole /\ Cardinality(Selling \ seen) = 1 /\ Fault
           \/ ~whole /\ UNCHANGED faults
        /\ ex' = [ex EXCEPT ![w].pc = "apply", ![w].seen = seen, ![w].whole = whole]
        /\ gone' = IF whole THEN gone \cup (Items \ Selling) ELSE gone
    /\ UNCHANGED <<run, bg, lock, row, plat, setting, verify, lost, broken, made>>
\* Any refusal, and what it means for the run.
ListFails(w) ==
    /\ Works(w, "sync")
    /\ Fault
    /\ \E out \in {"failed", "verification_required"} :
        ex' = [ex EXCEPT ![w].pc = "mergeError", ![w].out = out]
    /\ UNCHANGED <<run, bg, lock, row, plat, setting, verify, lost, gone, broken, made>>

\* Mutant: one list without the item is enough.
MutMissed(p) == [p EXCEPT !.missing = @ + 1, !.state = "missing", !.status = "not_selling"]
Missed(p) ==
    IF p.missing + 1 >= 2
    THEN [p EXCEPT !.missing = 2, !.state = "missing", !.status = "not_selling"]
    ELSE [p EXCEPT !.missing = @ + 1, !.state = "pending_confirmation"]
Unseen(p) ==
    IF p.status \notin {"offline", "deleted"} THEN Missed(p)
    ELSE IF p.state = "pending_confirmation" THEN [p EXCEPT !.state = "current"] ELSE p
ApplySync(w) ==
    /\ ex[w].pc = "apply"
    /\ row' = [i \in Items |->
         IF i \in ex[w].seen THEN Product("selling", "current", 0, row[i].today)
         ELSE IF ex[w].whole /\ row[i].status # "none" THEN Unseen(row[i]) ELSE row[i]]
    /\ setting' = [setting EXCEPT !["sync"].due = FALSE]
    /\ ex' = [ex EXCEPT ![w].pc = "finish", ![w].out = "success", ![w].good = TRUE]
    /\ UNCHANGED <<run, bg, lock, plat, verify, lost, gone, broken, faults, made>>

(* Writes item by item.                                                    *)

Candidates(r) ==
    LET asked == IF run[r].op = "polish" /\ run[r].items = {}
                 THEN {i \in Items : row[i].status = "selling"}
                 ELSE {i \in run[r].items : row[i].status # "none"}
        able(i) == CASE run[r].op = "polish"  -> row[i].status = "selling" /\ ~row[i].today
                     [] run[r].op = "offline" -> row[i].status = "selling"
                     [] OTHER                 -> TRUE
    IN [do |-> {i \in asked : able(i)}, skip |-> \E i \in asked : ~able(i)]
ReadCandidates(w) ==
    /\ ex[w].pc = "work" /\ run[ex[w].run].op \in Writes \cup {"polish"}
    /\ LET c == Candidates(ex[w].run) IN
       ex' = [ex EXCEPT ![w].pc = "item", ![w].todo = c.do, ![w].skip = c.skip]
    /\ UNCHANGED <<run, bg, lock, row, plat, setting, verify, lost, gone, broken, faults, made>>

Acts(w, op, i) == ex[w].pc = "item" /\ run[ex[w].run].op = op /\ i \in ex[w].todo

\* mark_polished finds the row gone or not.
PolishItem(w, i) ==
    /\ Acts(w, "polish", i)
    /\ row' = IF row[i].status = "none" THEN row ELSE [row EXCEPT ![i].today = TRUE]
    /\ ex' = [ex EXCEPT ![w].todo = @ \ {i}, ![w].good = TRUE]
    /\ UNCHANGED <<run, bg, lock, plat, setting, verify, lost, gone, broken, faults, made>>
\* An error of the item ends the run (an expired login, a check of the platform)
\* or goes on with the next one. One that the loop does not catch (no token, an
\* answer that is no JSON) fails the run whatever was polished before.
PolishFails(w, i) ==
    /\ Acts(w, "polish", i) /\ Fault
    /\ \/ \E rest \in {{}, ex[w].todo \ {i}} :
            ex' = [ex EXCEPT ![w].todo = rest, ![w].bad = TRUE]
       \/ ex' = [ex EXCEPT ![w].todo = {}, ![w].bad = TRUE, ![w].out = "failed"]
    /\ UNCHANGED <<run, bg, lock, row, plat, setting, verify, lost, gone, broken, made>>

Result(op) == IF op = "offline" THEN "offline" ELSE "deleted"
TakeDown(i, op) == plat' = [plat EXCEPT ![i] = IF @ = "deleted" THEN @ ELSE Result(op)]
MarkItemStatus(i, status, state) ==
    row' = IF row[i].status = "none" THEN row
           ELSE [row EXCEPT ![i] = Product(status, state, 0, @.today)]

\* The platform accepts the write; whoever holds an older list has it late.
WriteItem(w, op, i) ==
    /\ op \in Writes /\ Acts(w, op, i)
    /\ op = "delete" => plat[i] # "deleted"
    /\ TakeDown(i, op)
    /\ MarkItemStatus(i, Result(op), "pending_confirmation")
    /\ ex' = [v \in Workers |->
         IF v = w THEN [ex[w] EXCEPT !.todo = @ \ {i}, !.good = TRUE]
         ELSE IF ex[v].pc = "apply" THEN [ex[v] EXCEPT !.late = @ \cup {i}] ELSE ex[v]]
    /\ UNCHANGED <<run, bg, lock, setting, verify, lost, gone, broken, faults, made>>
\* "Already deleted" counts as done, and as confirmed.
AlreadyDeleted(w, i) ==
    /\ Acts(w, "delete", i) /\ plat[i] = "deleted"
    /\ MarkItemStatus(i, "deleted", "current")
    /\ ex' = [ex EXCEPT ![w].todo = @ \ {i}, ![w].skip = TRUE]
    /\ UNCHANGED <<run, bg, lock, plat, setting, verify, lost, gone, broken, faults, made>>
\* The request was sent and no answer came: the run stops there.
\* Mutant: a lost answer is a failure like another.
MutWriteLost(w, op, i) ==
    /\ op \in Writes /\ Acts(w, op, i) /\ Fault
    /\ TakeDown(i, op) \/ UNCHANGED plat
    /\ lost' = lost \cup {ex[w].run}
    /\ ex' = [ex EXCEPT ![w].todo = {}, ![w].bad = TRUE]
    /\ UNCHANGED <<run, bg, lock, row, setting, verify, gone, broken, made>>
WriteLost(w, op, i) ==
    /\ op \in Writes /\ Acts(w, op, i) /\ Fault
    /\ TakeDown(i, op) \/ UNCHANGED plat
    /\ lost' = lost \cup {ex[w].run}
    /\ ex' = [ex EXCEPT ![w].todo = {}, ![w].bad = TRUE, ![w].out = "verification_required"]
    /\ UNCHANGED <<run, bg, lock, row, setting, verify, gone, broken, made>>
WriteRefused(w, op, i) ==
    /\ op \in Writes /\ Acts(w, op, i) /\ Fault
    /\ \/ \E rest \in {{}, ex[w].todo \ {i}} :
            ex' = [ex EXCEPT ![w].todo = rest, ![w].bad = TRUE]
       \/ ex' = [ex EXCEPT ![w].todo = {}, ![w].bad = TRUE, ![w].out = "verification_required"]
    /\ UNCHANGED <<run, bg, lock, row, plat, setting, verify, lost, gone, broken, made>>

Outcome(e, op) ==
    IF e.out # "none" THEN e.out
    ELSE IF e.good /\ e.bad THEN "partial_success"
    ELSE IF e.bad /\ ~(op = "polish" /\ e.skip) THEN "failed" ELSE "success"
ItemsDone(w) ==
    /\ ex[w].pc = "item" /\ ex[w].todo = {}
    /\ ex' = [ex EXCEPT ![w].pc = "finish", ![w].out = Outcome(ex[w], run[ex[w].run].op)]
    /\ UNCHANGED <<run, bg, lock, row, plat, setting, verify, lost, gone, broken, faults, made>>

(* Ends of a run.                                                          *)

Ok(out) == out \in {"success", "partial_success"}
FinishRun(w) ==
    /\ ex[w].pc = "finish"
    /\ LET op == run[ex[w].run].op IN
       /\ Row(ex[w].run, ex[w].out, IF Ok(ex[w].out) THEN "none" ELSE "platform")
       /\ setting' = IF op = "polish" /\ Ok(ex[w].out)
                     THEN [setting EXCEPT ![op].due = FALSE] ELSE setting
    /\ To(w, "merge")
    /\ UNCHANGED <<bg, lock, row, plat, verify, lost, gone, broken, faults, made>>

\* The cookie is merged after the run has its result; an error there replaces it.
MergeCookie(w) ==
    /\ ex[w].pc = "merge"
    /\ LET op == run[ex[w].run].op IN
       \/ /\ End(w, Ok(ex[w].out) \/ ex[w].out = "verification_required")
          /\ verify' = (verify \/ (op \in Writes /\ Ok(ex[w].out) /\ ex[w].good))
          /\ UNCHANGED <<run, setting, faults>>
       \/ /\ Fault
          /\ Row(ex[w].run, "failed", "merge")
          /\ setting' = IF op = "sync" THEN [setting EXCEPT ![op].due = FALSE] ELSE setting
          /\ End(w, FALSE)
          /\ UNCHANGED verify
    /\ UNCHANGED <<row, plat, lost, gone, broken, made>>
\* After an error of the list the cookie comes first, and may fail as well.
MergeAfterError(w) ==
    /\ ex[w].pc = "mergeError"
    /\ LET op == run[ex[w].run].op IN
       \/ /\ Row(ex[w].run, ex[w].out, "platform")
          /\ setting' = [setting EXCEPT ![op].due = FALSE,
                                        ![op].enabled = @ /\ ~(op \in Orders /\ ex[w].bad)]
          /\ End(w, ex[w].out = "verification_required")
          /\ UNCHANGED faults
       \/ /\ Fault
          /\ End(w, FALSE)
          /\ UNCHANGED <<run, setting>>
    /\ UNCHANGED <<row, plat, verify, lost, gone, broken, made>>

(* Order synchronisation: list, merge the cookie, apply, finish.           *)

WorksOrders(w) == ex[w].pc = "work" /\ run[ex[w].run].op \in Orders
ListOrders(w) ==
    /\ WorksOrders(w)
    /\ To(w, "orderMerge")
    /\ UNCHANGED <<run, bg, lock, row, plat, setting, verify, lost, gone, broken, faults, made>>
\* bad: the error is not retryable and pauses the schedule.
ListOrdersFails(w) ==
    /\ WorksOrders(w) /\ Fault
    /\ \E pause \in BOOLEAN :
        ex' = [ex EXCEPT ![w].pc = "mergeError", ![w].out = "failed", ![w].bad = pause]
    /\ UNCHANGED <<run, bg, lock, row, plat, setting, verify, lost, gone, broken, made>>
OrderMerge(w) ==
    /\ ex[w].pc = "orderMerge"
    /\ \/ To(w, "orderApply") /\ UNCHANGED <<run, bg, lock, setting, faults>>
       \/ /\ Fault
          /\ Row(ex[w].run, "failed", "merge")
          /\ setting' = [setting EXCEPT ![run[ex[w].run].op].due = FALSE]
          /\ End(w, FALSE)
    /\ UNCHANGED <<row, plat, verify, lost, gone, broken, made>>
\* The rows of the orders are written in a transaction of their own.
OrderApply(w) ==
    /\ ex[w].pc = "orderApply"
    /\ To(w, "orderFinish")
    /\ UNCHANGED <<run, bg, lock, row, plat, setting, verify, lost, gone, broken, faults, made>>
OrderFinish(w) ==
    /\ ex[w].pc = "orderFinish"
    /\ Row(ex[w].run, "success", "none")
    /\ setting' = [setting EXCEPT ![run[ex[w].run].op].due = FALSE]
    /\ End(w, TRUE)
    /\ UNCHANGED <<row, plat, verify, lost, gone, broken, faults, made>>

WorkerStep(w) ==
    \/ StartRun(w) \/ AcquireLock(w) \/ LockTimeout(w)
    \/ ListSelling(w) \/ ListFails(w) \/ ApplySync(w)
    \/ ReadCandidates(w) \/ ItemsDone(w) \/ FinishRun(w) \/ MergeCookie(w) \/ MergeAfterError(w)
    \/ \E i \in Items :
        \/ PolishItem(w, i) \/ PolishFails(w, i) \/ AlreadyDeleted(w, i)
        \/ \E op \in Writes : WriteItem(w, op, i) \/ WriteLost(w, op, i) \/ WriteRefused(w, op, i)
    \/ ListOrders(w) \/ ListOrdersFails(w) \/ OrderMerge(w) \/ OrderApply(w) \/ OrderFinish(w)

-----------------------------------------------------------------------------
(* The seller, the day, crashes and leases.                                *)

\* Only a row whose deletion is confirmed can be cleaned up.
DeleteLocalItem(i) ==
    /\ "delete" \in scen.ops
    /\ row[i].status = "deleted" /\ row[i].state = "current"
    /\ row' = [row EXCEPT ![i] = Product("none", "none", 0, FALSE)]
    /\ UNCHANGED <<run, bg, call, ex, lock, plat, setting, verify, scen, lost, gone, broken,
                   faults, crashes>>
\* The seller works with the app of the platform.
SellerActs(i) ==
    /\ "seller" \in scen.with
    /\ \E new \in {"selling", "offline", "deleted"} :
        plat[i] \notin {new, "deleted"} /\ plat' = [plat EXCEPT ![i] = new]
    /\ UNCHANGED <<run, bg, call, ex, lock, row, setting, verify, scen, lost, gone, broken,
                   faults, crashes>>
Midnight ==
    /\ "polish" \in scen.ops /\ \E i \in Items : row[i].today
    /\ row' = [i \in Items |-> [row[i] EXCEPT !.today = FALSE]]
    /\ UNCHANGED <<run, bg, call, ex, lock, plat, setting, verify, scen, lost, gone, broken,
                   faults, crashes>>

Stops == "crash" \in scen.with /\ crashes < MaxCrashes /\ crashes' = crashes + 1
Crash(w) ==
    /\ ex[w].pc # "idle" /\ Stops
    /\ ex' = [ex EXCEPT ![w] = NoEx]
    /\ UNCHANGED <<run, bg, call, lock, row, plat, setting, verify, scen, lost, gone, broken, faults>>
CallStops(c) ==
    /\ call[c].pc # "idle" /\ Stops
    /\ call' = [call EXCEPT ![c] = NoCall]
    /\ UNCHANGED <<run, bg, ex, lock, row, plat, setting, verify, scen, lost, gone, broken, faults>>
\* Mutant: only a task that was never started is swept.
MutLeaseSweep(r) ==
    /\ bg[r] = "queued" /\ \A w \in Workers : ex[w].run # r
    /\ bg' = [bg EXCEPT ![r] = "failed"]
    /\ UNCHANGED <<run, call, ex, lock, row, plat, setting, verify, scen, lost, gone, broken,
                   faults, crashes>>
LeaseSweep(r) ==
    /\ bg[r] = "running" /\ \A w \in Workers : ex[w].run # r
    /\ bg' = [bg EXCEPT ![r] = "failed"]
    /\ UNCHANGED <<run, call, ex, lock, row, plat, setting, verify, scen, lost, gone, broken,
                   faults, crashes>>
\* The holder is gone and its lease runs out, or its renewal gave up.
LockExpires(l) ==
    /\ lock[l] # Nobody /\ ~Inside(lock[l], l)
    /\ lock' = [lock EXCEPT ![l] = Nobody]
    /\ UNCHANGED <<run, bg, call, ex, row, plat, setting, verify, scen, lost, gone, broken,
                   faults, crashes>>
LockLost(l) ==
    /\ lock[l] # Nobody /\ Inside(lock[l], l) /\ Fault
    /\ lock' = [lock EXCEPT ![l] = Nobody]
    /\ broken' = TRUE
    /\ UNCHANGED <<run, bg, call, ex, row, plat, setting, verify, scen, lost, gone, crashes>>

Requests ==
    \/ \E op \in scen.ops, full \in scen.full : \E items \in SUBSET Items : Request(op, full, items)
    \/ \E op \in scen.ops : Becomes(op) \/ UpdateSetting(op) \/ \E full \in scen.full : ScanDue(op, full)
Environment ==
    \/ \E i \in Items : DeleteLocalItem(i) \/ SellerActs(i)
    \/ Midnight
    \/ \E w \in Workers : Crash(w)
    \/ \E c \in Clients : CallStops(c)
    \/ \E l \in DOMAIN lock : LockLost(l)
Sweeps == (\E r \in Runs : LeaseSweep(r)) \/ (\E l \in DOMAIN lock : LockExpires(l))
Next ==
    \/ Requests \/ VerifyOperation \/ VerifyPublish \/ Environment \/ Sweeps
    \/ \E c \in Clients : ClientNext(c)
    \/ \E w \in Workers : Claim(w) \/ WorkerStep(w)

Spec == Init /\ [][Next]_vars

\* Workers poll and run; a request is served; leases run out.
FairSpec ==
    /\ Spec
    /\ \A w \in Workers : WF_vars(Claim(w) \/ WorkerStep(w))
    /\ \A c \in Clients : WF_vars(ClientNext(c))
    /\ \A r \in Runs : WF_vars(LeaseSweep(r))
    /\ \A l \in {"product", "order"} : WF_vars(LockExpires(l))

-----------------------------------------------------------------------------
(* Properties.                                                             *)

\* Type invariant.
TypeOK ==
    /\ run \in [Runs -> [op : AllOps \cup {"none"}, trig : {"none", "manual", "scheduled", "publish"},
                         full : BOOLEAN, items : SUBSET Items, before : SUBSET Runs,
                         status : Active \cup Ended \cup {"none"},
                         error : {"none", "queue", "lock", "merge", "platform"}]]
    /\ bg \in [Runs -> {"none", "pending", "queued", "running", "done", "failed"}]
    /\ lock \in [{"product", "order"} -> Workers \cup {Nobody}]
    /\ row \in [Items -> [status : {"none", "selling", "offline", "deleted", "not_selling"},
                          state : {"none", "current", "pending_confirmation", "missing"},
                          missing : 0..2, today : BOOLEAN]]
    /\ plat \in [Items -> {"selling", "offline", "deleted"}]
    /\ setting \in [Timed -> [enabled : BOOLEAN, due : BOOLEAN]]
    /\ scen \in Scenarios /\ lost \subseteq Runs /\ gone \subseteq Items
    /\ {verify, broken} \subseteq BOOLEAN
    /\ faults \in 0..MaxFaults /\ crashes \in 0..MaxCrashes

NotSellingWasGone ==
    \A i \in Items : row[i].status = "not_selling" /\ faults <= 1 => i \in gone
ListIsFresh ==
    \A w \in Workers : ex[w].pc = "apply" /\ ~broken => ex[w].seen \cap ex[w].late = {}

\* What apply_sync makes of the list of products is right. One list that misses
\* a product does not take it out of the catalogue: it is marked not_selling only
\* if a list was read while it really was not for sale (with at most one fault;
\* two wrong lists in a row would be believed). And while the lock of the account
\* is kept, the list about to be written shows no product that another run has
\* taken down since it was read: what was taken off sale does not come back.
CatalogueIsRight == NotSellingWasGone /\ ListIsFresh

\* A run in which the answer to a write was lost never ends as success or plain
\* failure: it asks for verification, unless the merge of the cookie or the queue
\* overwrote its result afterwards.
LostAnswerIsTold ==
    \A r \in lost : run[r].status \in Ended /\ run[r].error \notin {"merge", "queue"}
                        => run[r].status = "verification_required"

\* Every task that was created ends, whatever its worker, its lock and its leases do.
RunsEnd == \A r \in Runs : bg[r] \in {"pending", "queued", "running"} ~> bg[r] \in {"done", "failed"}

=============================================================================
