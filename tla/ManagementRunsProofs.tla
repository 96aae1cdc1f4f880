------------------------ MODULE ManagementRunsProofs ------------------------
(***************************************************************************)
(* Proofs about ManagementRuns for any number of runs, products, workers,  *)
(* faults and crashes: a run in which the answer to a write was lost asks  *)
(* for verification, one list that misses a product does not take it out   *)
(* of the catalogue, and while its lock is kept a list is applied fresh.   *)
(***************************************************************************)
EXTENDS ManagementRuns, TLAPS

Pcs == {"idle", "start", "lock", "work", "apply", "item", "finish", "merge", "mergeError",
        "orderMerge", "orderApply", "orderFinish"}
Execs == [pc : Pcs, run : Runs \cup {NoRun}, todo : SUBSET Items, seen : SUBSET Items,
          whole : BOOLEAN, late : SUBSET Items, good : BOOLEAN, bad : BOOLEAN, skip : BOOLEAN,
          out : Ended \cup {"none"}]
Calls == [pc : {"idle", "read", "insert", "bg", "push"}, op : AllOps \cup {"none"},
          trig : {"none", "manual", "scheduled", "publish"}, full : BOOLEAN, items : SUBSET Items,
          run : Runs \cup {NoRun}]

Rows == [op : AllOps \cup {"none"}, trig : {"none", "manual", "scheduled", "publish"},
         full : BOOLEAN, items : SUBSET Items, before : SUBSET Runs, status : Active \cup Ended \cup {"none"},
         error : {"none", "queue", "lock", "merge", "platform"}]
Products == [status : {"none", "selling", "offline", "deleted", "not_selling"},
             state : {"none", "current", "pending_confirmation", "missing"},
             missing : 0..2, today : BOOLEAN]

Typed ==
    /\ run \in [Runs -> Rows]
    /\ bg \in [Runs -> {"none", "pending", "queued", "running", "done", "failed"}]
    /\ call \in [Clients -> Calls]
    /\ ex \in [Workers -> Execs]
    /\ lock \in [{"product", "order"} -> Workers \cup {Nobody}]
    /\ row \in [Items -> Products]
    /\ plat \in [Items -> {"selling", "offline", "deleted"}]
    /\ setting \in [Timed -> [enabled : BOOLEAN, due : BOOLEAN]]
    /\ scen \in Scenarios /\ lost \subseteq Runs /\ gone \subseteq Items
    /\ verify \in BOOLEAN /\ broken \in BOOLEAN
    /\ faults \in 0..MaxFaults /\ crashes \in 0..MaxCrashes

(* A task that was taken is never taken again, so one worker executes it.  *)
Waiting == {"none", "pending", "queued"}
Busy(w) == ex[w].pc # "idle"
Exists(r) == r \in Runs /\ run[r].status # "none"
Held ==
    /\ \A c \in Clients : call[c].pc \in {"bg", "push"} => Exists(call[c].run)
    /\ \A r \in Runs : bg[r] # "none" => Exists(r)
    /\ \A w \in Workers : Busy(w) => Exists(ex[w].run) /\ bg[ex[w].run] \notin Waiting
OneWorker ==
    \A v \in Workers, w \in Workers : Busy(v) /\ Busy(w) /\ ex[v].run = ex[w].run => v = w

(* What a worker does belongs to its run, and the row of the run has no    *)
(* result yet but the one a failed push wrote.                             *)
Ending == {"finish", "merge", "mergeError"}
Kept ==
    \A w \in Workers :
       /\ ex[w].pc = "apply" => run[ex[w].run].op = "sync"
       /\ ex[w].pc \in Ending => ex[w].out \in Ended
       /\ ex[w].pc \notin {"idle", "start", "merge"} =>
            run[ex[w].run].status \in Active \/ run[ex[w].run].error = "queue"

(* After a lost answer nothing is left to do and the outcome is settled.   *)
Settled(w) ==
    /\ ex[w].pc \in {"item", "finish", "merge"} /\ ex[w].out = "verification_required"
    /\ ex[w].pc = "item" => ex[w].todo = {}
LostIsSettled ==
    \A r \in lost :
       /\ Exists(r) /\ bg[r] \notin Waiting
       /\ \A w \in Workers : Busy(w) /\ ex[w].run = r => Settled(w)

Told == Held /\ OneWorker /\ Kept /\ LostIsSettled /\ LostAnswerIsTold

(* While no lock was lost, whoever works holds the lock of its account, so *)
(* no write comes between reading a list and applying it.                  *)
LocksHeld ==
    ~broken => \A w \in Workers : \A l \in {"product", "order"} : Inside(w, l) => lock[l] = w
NothingLate == ~broken => \A w \in Workers : ex[w].late = {}

(* Worker w is about to apply a whole list without i.                      *)
Suspects(w, i) == ex[w].pc = "apply" /\ ex[w].whole /\ i \notin ex[w].seen
(* A product that was always for sale was missed at most once, and if it   *)
(* was, a fault was spent on it.                                           *)
OneDoubt ==
    faults <= 1 => \A i \in Items \ gone :
       /\ row[i].status # "not_selling"
       /\ row[i].missing = 0 \/ (row[i].missing = 1 /\ \A w \in Workers : ~Suspects(w, i))
       /\ \A v \in Workers, w \in Workers : Suspects(v, i) /\ Suspects(w, i) => v = w
       /\ faults = 0 => row[i].missing = 0 /\ \A w \in Workers : ~Suspects(w, i)

CatalogueInv == LocksHeld /\ NothingLate /\ OneDoubt

LEMMA FaultTyped == ASSUME Typed, Fault PROVE faults' \in 0..MaxFaults
BY BoundAssumption DEF Typed, Fault

LEMMA RowTyped ==
    ASSUME Typed, NEW r \in Runs, NEW status \in Active \cup Ended \cup {"none"},
           NEW error \in {"none", "queue", "lock", "merge", "platform"}, Row(r, status, error)
    PROVE  run' \in [Runs -> Rows]
<1>1. run[r] \in Rows
  BY DEF Typed
<1>2. [run[r] EXCEPT !.status = status, !.error = error] \in Rows
  BY <1>1 DEF Rows
<1>3. run' = [run EXCEPT ![r] = [run[r] EXCEPT !.status = status, !.error = error]]
  BY DEF Row, Typed
<1> QED BY <1>2, <1>3 DEF Typed

LEMMA EndTyped ==
    ASSUME Typed, NEW w \in Workers, NEW ok \in BOOLEAN, End(w, ok)
    PROVE  /\ bg' \in [Runs -> {"none", "pending", "queued", "running", "done", "failed"}]
           /\ ex' \in [Workers -> Execs]
           /\ lock' \in [{"product", "order"} -> Workers \cup {Nobody}]
<1>1. NoEx \in Execs
  BY DEF NoEx, Ex, Execs, Pcs
<1>2. ex' \in [Workers -> Execs]
  BY <1>1 DEF End, Typed
<1>3. lock' \in [{"product", "order"} -> Workers \cup {Nobody}]
  BY DEF End, Typed
<1>4. bg' \in [Runs -> {"none", "pending", "queued", "running", "done", "failed"}]
  BY DEF End, Typed
<1> QED BY <1>2, <1>3, <1>4

LEMMA ExUpdate ==
    ASSUME Typed, NEW w \in Workers, NEW e \in Execs, ex' = [ex EXCEPT ![w] = e]
    PROVE  ex' \in [Workers -> Execs]
BY DEF Typed

LEMMA ToTyped ==
    ASSUME Typed, NEW w \in Workers, NEW pc \in Pcs, To(w, pc)
    PROVE  ex' \in [Workers -> Execs]
<1>1. [ex[w] EXCEPT !.pc = pc] \in Execs
  BY DEF Typed, Execs
<1> QED BY <1>1, ExUpdate DEF To

LEMMA ItemTyped ==
    ASSUME Typed, Held, NEW w \in Workers, NEW i \in Items,
           \/ PolishItem(w, i) \/ PolishFails(w, i) \/ AlreadyDeleted(w, i)
           \/ \E op \in Writes : WriteItem(w, op, i) \/ WriteLost(w, op, i) \/ WriteRefused(w, op, i)
    PROVE  Typed'
<1>a. ex[w] \in Execs /\ (Busy(w) => ex[w].run \in Runs)
  BY DEF Typed, Held, Exists
<1>b. ex[w].todo \ {i} \in SUBSET Items /\ {} \in SUBSET Items
  BY <1>a DEF Execs
<1>1. CASE PolishItem(w, i)
  <2>1. [ex[w] EXCEPT !.todo = @ \ {i}, !.good = TRUE] \in Execs
    BY <1>a, <1>b DEF Execs
  <2>2. ex' \in [Workers -> Execs]
    BY <1>1, <2>1, ExUpdate DEF PolishItem
  <2>3. row' \in [Items -> Products]
    BY <1>1 DEF PolishItem, Typed, Products
  <2> QED BY <1>1, <2>2, <2>3 DEF PolishItem, Typed, made
<1>2. CASE PolishFails(w, i)
  <2>1. ASSUME NEW rest \in SUBSET Items, ex' = [ex EXCEPT ![w].todo = rest, ![w].bad = TRUE]
        PROVE  ex' \in [Workers -> Execs]
    <3>1. [ex[w] EXCEPT !.todo = rest, !.bad = TRUE] \in Execs
      BY <1>a DEF Execs
    <3> QED BY <2>1, <3>1, ExUpdate
  <2>2. ASSUME ex' = [ex EXCEPT ![w].todo = {}, ![w].bad = TRUE, ![w].out = "failed"]
        PROVE  ex' \in [Workers -> Execs]
    <3>1. [ex[w] EXCEPT !.todo = {}, !.bad = TRUE, !.out = "failed"] \in Execs
      BY <1>a DEF Execs, Ended
    <3>2. ex' = [ex EXCEPT ![w] = [ex[w] EXCEPT !.todo = {}, !.bad = TRUE, !.out = "failed"]]
      BY <2>2
    <3> QED BY <3>1, <3>2, ExUpdate
  <2>3. ex' \in [Workers -> Execs]
    BY <1>2, <1>b, <2>1, <2>2 DEF PolishFails
  <2> QED BY <1>2, <2>3, FaultTyped DEF PolishFails, Typed, made
<1>3. CASE AlreadyDeleted(w, i)
  <2>1. [ex[w] EXCEPT !.todo = @ \ {i}, !.skip = TRUE] \in Execs
    BY <1>a, <1>b DEF Execs
  <2>2. ex' \in [Workers -> Execs]
    BY <1>3, <2>1, ExUpdate DEF AlreadyDeleted
  <2>3. row' \in [Items -> Products]
    BY <1>3 DEF AlreadyDeleted, MarkItemStatus, Product, Typed, Products
  <2> QED BY <1>3, <2>2, <2>3 DEF AlreadyDeleted, Typed, made
<1>4. ASSUME NEW op \in Writes, WriteItem(w, op, i) PROVE Typed'
  <2>1. [ex[w] EXCEPT !.todo = @ \ {i}, !.good = TRUE] \in Execs
    BY <1>a, <1>b DEF Execs
  <2>2. \A v \in Workers : [ex[v] EXCEPT !.late = @ \cup {i}] \in Execs /\ ex[v] \in Execs
    <3> TAKE v \in Workers
    <3>1. ex[v] \in Execs
      BY DEF Typed
    <3> QED BY <3>1 DEF Execs
  <2>3. ex' \in [Workers -> Execs]
    BY <1>4, <2>1, <2>2 DEF WriteItem
  <2>4. row' \in [Items -> Products]
    BY <1>4 DEF WriteItem, MarkItemStatus, Product, Typed, Products, Result
  <2>5. plat' \in [Items -> {"selling", "offline", "deleted"}]
    BY <1>4 DEF WriteItem, TakeDown, Result, Typed
  <2> QED BY <1>4, <2>3, <2>4, <2>5 DEF WriteItem, Typed, made
<1>5. ASSUME NEW op \in Writes, WriteLost(w, op, i) PROVE Typed'
  <2>1. [ex[w] EXCEPT !.todo = {}, !.bad = TRUE, !.out = "verification_required"] \in Execs
    BY <1>a, <1>b DEF Execs, Ended
  <2>a. ex' = [ex EXCEPT ![w] = [ex[w] EXCEPT !.todo = {}, !.bad = TRUE,
                                              !.out = "verification_required"]]
    BY <1>5 DEF WriteLost
  <2>2. ex' \in [Workers -> Execs]
    BY <2>1, <2>a, ExUpdate
  <2>3. plat' \in [Items -> {"selling", "offline", "deleted"}]
    BY <1>5 DEF WriteLost, TakeDown, Result, Typed
  <2>4. ex[w].run \in Runs
    BY <1>5, <1>a DEF WriteLost, Acts, Busy
  <2> QED BY <1>5, <2>2, <2>3, <2>4, FaultTyped DEF WriteLost, Typed, made
<1>6. ASSUME NEW op \in Writes, WriteRefused(w, op, i) PROVE Typed'
  <2>1. PICK rest \in SUBSET Items :
           \/ ex' = [ex EXCEPT ![w].todo = rest, ![w].bad = TRUE]
           \/ ex' = [ex EXCEPT ![w].todo = {}, ![w].bad = TRUE, ![w].out = "verification_required"]
    BY <1>6, <1>b DEF WriteRefused
  <2>2. [ex[w] EXCEPT !.todo = rest, !.bad = TRUE] \in Execs
    BY <1>a DEF Execs
  <2>3. [ex[w] EXCEPT !.todo = {}, !.bad = TRUE, !.out = "verification_required"] \in Execs
    BY <1>a, <1>b DEF Execs, Ended
  <2>4. ex' = [ex EXCEPT ![w] = [ex[w] EXCEPT !.todo = rest, !.bad = TRUE]]
          => ex' \in [Workers -> Execs]
    BY <2>2, ExUpdate
  <2>5. ex' = [ex EXCEPT ![w] = [ex[w] EXCEPT !.todo = {}, !.bad = TRUE,
                                              !.out = "verification_required"]]
          => ex' \in [Workers -> Execs]
    BY <2>3, ExUpdate
  <2>6. ex' \in [Workers -> Execs]
    BY <2>1, <2>4, <2>5
  <2> QED BY <1>6, <2>6, FaultTyped DEF WriteRefused, Typed, made
<1> QED BY <1>1, <1>2, <1>3, <1>4, <1>5, <1>6

LEMMA MissedTyped == ASSUME NEW p \in Products PROVE Missed(p) \in Products
<1>1. CASE p.missing + 1 >= 2
  <2>1. [p EXCEPT !.missing = 2] \in Products
    BY DEF Products
  <2>2. \A q \in Products : [q EXCEPT !.state = "missing", !.status = "not_selling"] \in Products
    BY DEF Products
  <2>3. Missed(p) = [[p EXCEPT !.missing = 2] EXCEPT !.state = "missing", !.status = "not_selling"]
    BY <1>1 DEF Missed
  <2> QED BY <2>1, <2>2, <2>3
<1>2. CASE ~(p.missing + 1 >= 2)
  <2>1. p.missing + 1 \in 0..2
    BY <1>2 DEF Products
  <2> QED BY <1>2, <2>1 DEF Missed, Products
<1> QED BY <1>1, <1>2

LEMMA SyncTyped ==
    ASSUME Typed, Held, Kept, NEW w \in Workers,
           ListSelling(w) \/ ListFails(w) \/ ApplySync(w) \/ ReadCandidates(w) \/ ItemsDone(w)
    PROVE  Typed'
<1>a. ex[w] \in Execs /\ (Busy(w) => ex[w].run \in Runs)
  BY DEF Typed, Held, Exists
<1>1. CASE ListSelling(w)
  <2>1. run[ex[w].run] \in Rows
    BY <1>1, <1>a DEF ListSelling, Works, Busy, Typed
  <2>a. run[ex[w].run].full \in BOOLEAN /\ Selling \subseteq Items
    BY <2>1 DEF Rows, Selling
  <2>2. PICK whole \in {FALSE, run[ex[w].run].full}, seen \in SUBSET Selling :
           /\ ex' = [ex EXCEPT ![w].pc = "apply", ![w].seen = seen, ![w].whole = whole]
           /\ gone' = IF whole THEN gone \cup (Items \ Selling) ELSE gone
           /\ UNCHANGED faults \/ Fault
    BY <1>1 DEF ListSelling
  <2>b. whole \in BOOLEAN /\ seen \in SUBSET Items
    BY <2>a
  <2>3. [ex[w] EXCEPT !.pc = "apply", !.seen = seen, !.whole = whole] \in Execs
    BY <1>a, <2>b DEF Execs, Pcs
  <2>c. ex' = [ex EXCEPT ![w] = [ex[w] EXCEPT !.pc = "apply", !.seen = seen, !.whole = whole]]
    BY <2>2
  <2>4. ex' \in [Workers -> Execs]
    BY <2>c, <2>3, ExUpdate
  <2>5. faults' \in 0..MaxFaults /\ gone' \subseteq Items
    BY <2>2, FaultTyped DEF Typed
  <2> QED BY <1>1, <2>4, <2>5 DEF ListSelling, Typed, made
<1>2. CASE ListFails(w)
  <2>1. PICK out \in Ended : ex' = [ex EXCEPT ![w].pc = "mergeError", ![w].out = out]
    BY <1>2 DEF ListFails, Ended
  <2>2. [ex[w] EXCEPT !.pc = "mergeError", !.out = out] \in Execs
    BY <1>a DEF Execs, Pcs
  <2>3. ex' \in [Workers -> Execs]
    BY <2>1, <2>2, ExUpdate
  <2> QED BY <1>2, <2>3, FaultTyped DEF ListFails, Typed, made
<1>3. CASE ApplySync(w)
  <2>1. [ex[w] EXCEPT !.pc = "finish", !.out = "success", !.good = TRUE] \in Execs
    BY <1>a DEF Execs, Pcs, Ended
  <2>2. ex' = [ex EXCEPT ![w] = [ex[w] EXCEPT !.pc = "finish", !.out = "success", !.good = TRUE]]
    BY <1>3 DEF ApplySync
  <2>3. ex' \in [Workers -> Execs]
    BY <2>1, <2>2, ExUpdate
  <2>4. ASSUME NEW i \in Items
        PROVE  /\ Product("selling", "current", 0, row[i].today) \in Products
               /\ row[i] \in Products /\ Unseen(row[i]) \in Products
    <3>1. row[i] \in Products
      BY DEF Typed
    <3>2. Product("selling", "current", 0, row[i].today) \in Products
      BY <3>1 DEF Product, Products
    <3>3. Missed(row[i]) \in Products
      BY <3>1, MissedTyped
    <3>4. [row[i] EXCEPT !.state = "current"] \in Products
      BY <3>1 DEF Products
    <3> QED BY <3>1, <3>2, <3>3, <3>4 DEF Unseen
  <2>5. row' \in [Items -> Products]
    BY <1>3, <2>4 DEF ApplySync
  <2>6. setting' \in [Timed -> [enabled : BOOLEAN, due : BOOLEAN]]
    BY <1>3 DEF ApplySync, Typed
  <2> QED BY <1>3, <2>3, <2>5, <2>6 DEF ApplySync, Typed, made
<1>4. CASE ReadCandidates(w)
  <2>1. run[ex[w].run] \in Rows
    BY <1>4, <1>a DEF ReadCandidates, Busy, Typed
  <2>2. Candidates(ex[w].run).do \in SUBSET Items /\ Candidates(ex[w].run).skip \in BOOLEAN
    BY <2>1 DEF Candidates, Rows
  <2>3. PICK s \in SUBSET Items, b \in BOOLEAN :
           ex' = [ex EXCEPT ![w].pc = "item", ![w].todo = s, ![w].skip = b]
    BY <1>4, <2>2 DEF ReadCandidates
  <2>4. [ex[w] EXCEPT !.pc = "item", !.todo = s, !.skip = b] \in Execs
    BY <1>a DEF Execs, Pcs
  <2>a. ex' = [ex EXCEPT ![w] = [ex[w] EXCEPT !.pc = "item", !.todo = s, !.skip = b]]
    BY <2>3
  <2>5. ex' \in [Workers -> Execs]
    BY <2>a, <2>4, ExUpdate
  <2> QED BY <1>4, <2>5 DEF ReadCandidates, Typed, made
<1>5. CASE ItemsDone(w)
  <2>1. PICK out \in Ended : ex' = [ex EXCEPT ![w].pc = "finish", ![w].out = out]
    BY <1>5, <1>a DEF ItemsDone, Outcome, Ended, Execs
  <2>2. [ex[w] EXCEPT !.pc = "finish", !.out = out] \in Execs
    BY <1>a DEF Execs, Pcs
  <2>3. ex' \in [Workers -> Execs]
    BY <2>1, <2>2, ExUpdate
  <2> QED BY <1>5, <2>3 DEF ItemsDone, Typed, made
<1> QED BY <1>1, <1>2, <1>3, <1>4, <1>5

\* Setting or clearing fields of a setting keeps its type, whatever the operation.
Settings == [Timed -> [enabled : BOOLEAN, due : BOOLEAN]]
LEMMA DueTyped ==
    ASSUME Typed, NEW op, NEW b \in BOOLEAN PROVE [setting EXCEPT ![op].due = b] \in Settings
BY DEF Typed, Settings
LEMMA PauseTyped ==
    ASSUME Typed, NEW op, NEW b \in BOOLEAN, NEW e \in BOOLEAN
    PROVE  /\ [setting EXCEPT ![op].due = b, ![op].enabled = @ /\ e] \in Settings
           /\ [setting EXCEPT ![op] = [enabled |-> e, due |-> b]] \in Settings
BY DEF Typed, Settings

LEMMA EndsTyped ==
    ASSUME Typed, Held, Kept, NEW w \in Workers,
           \/ FinishRun(w) \/ MergeCookie(w) \/ MergeAfterError(w) \/ OrderMerge(w) \/ OrderFinish(w)
    PROVE  Typed'
<1>a. ex[w] \in Execs /\ (Busy(w) => ex[w].run \in Runs)
  BY DEF Typed, Held, Exists
<1>1. CASE FinishRun(w)
  <2>1. run' \in [Runs -> Rows]
    <3> DEFINE err == IF Ok(ex[w].out) THEN "none" ELSE "platform"
    <3>1. ex[w].run \in Runs /\ ex[w].out \in Active \cup Ended \cup {"none"}
          /\ err \in {"none", "queue", "lock", "merge", "platform"}
      BY <1>1, <1>a DEF FinishRun, Busy, Execs
    <3>2. Row(ex[w].run, ex[w].out, err)
      BY <1>1 DEF FinishRun
    <3> QED BY <3>1, <3>2, RowTyped
  <2>2. setting' \in Settings
    BY <1>1, DueTyped DEF FinishRun, Typed, Settings
  <2>3. ex' \in [Workers -> Execs]
    BY <1>1, ToTyped DEF FinishRun, Pcs
  <2> QED BY <1>1, <2>1, <2>2, <2>3 DEF FinishRun, Typed, Settings, made
<1>2. CASE MergeCookie(w)
  <2>1. ex[w].run \in Runs /\ ex[w].good \in BOOLEAN
    BY <1>2, <1>a DEF MergeCookie, Busy, Execs
  <2>2. PICK ok \in BOOLEAN : End(w, ok)
    BY <1>2 DEF MergeCookie, Ok
  <2>3. verify' \in BOOLEAN
    BY <1>2, <2>1 DEF MergeCookie, Typed
  <2>4. run' \in [Runs -> Rows]
    <3>1. UNCHANGED run \/ Row(ex[w].run, "failed", "merge")
      BY <1>2 DEF MergeCookie
    <3> QED BY <2>1, <3>1, RowTyped DEF Typed, Ended
  <2>5. setting' \in Settings
    <3>1. UNCHANGED setting \/ setting' = [setting EXCEPT ![run[ex[w].run].op].due = FALSE]
      BY <1>2 DEF MergeCookie
    <3>2. [setting EXCEPT ![run[ex[w].run].op].due = FALSE] \in Settings
      BY DueTyped
    <3> QED BY <3>1, <3>2 DEF Typed, Settings
  <2>6. faults' \in 0..MaxFaults
    BY <1>2, FaultTyped DEF MergeCookie, Typed
  <2> QED BY <1>2, <2>2, <2>3, <2>4, <2>5, <2>6, EndTyped DEF MergeCookie, Typed, Settings, made
<1>3. CASE MergeAfterError(w)
  <2>1. ex[w].run \in Runs /\ ex[w].bad \in BOOLEAN /\ ex[w].out \in Active \cup Ended \cup {"none"}
    BY <1>3, <1>a DEF MergeAfterError, Busy, Execs
  <2>2. PICK ok \in BOOLEAN : End(w, ok)
    BY <1>3 DEF MergeAfterError
  <2>3. run' \in [Runs -> Rows]
    <3>1. UNCHANGED run \/ Row(ex[w].run, ex[w].out, "platform")
      BY <1>3 DEF MergeAfterError
    <3> QED BY <2>1, <3>1, RowTyped DEF Typed
  <2>4. setting' \in Settings
    <3> DEFINE e == ~(run[ex[w].run].op \in Orders /\ ex[w].bad)
    <3>1. e \in BOOLEAN
      OBVIOUS
    <3>2. \/ UNCHANGED setting
          \/ setting' = [setting EXCEPT ![run[ex[w].run].op].due = FALSE,
                                        ![run[ex[w].run].op].enabled = @ /\ e]
      BY <1>3 DEF MergeAfterError
    <3> HIDE DEF e
    <3>3. [setting EXCEPT ![run[ex[w].run].op].due = FALSE, ![run[ex[w].run].op].enabled = @ /\ e]
             \in Settings
      BY <3>1, PauseTyped
    <3> QED BY <3>2, <3>3 DEF Typed, Settings
  <2>5. faults' \in 0..MaxFaults
    BY <1>3, FaultTyped DEF MergeAfterError, Typed
  <2> QED BY <1>3, <2>2, <2>3, <2>4, <2>5, EndTyped DEF MergeAfterError, Typed, Settings, made
<1>4. CASE OrderMerge(w)
  <2>1. ex[w].run \in Runs
    BY <1>4, <1>a DEF OrderMerge, Busy
  <2>2. CASE To(w, "orderApply") /\ UNCHANGED <<run, bg, lock, setting, faults>>
    BY <1>4, <2>2, ToTyped DEF OrderMerge, Typed, Settings, made, Pcs
  <2>3. CASE /\ Fault /\ Row(ex[w].run, "failed", "merge")
             /\ setting' = [setting EXCEPT ![run[ex[w].run].op].due = FALSE] /\ End(w, FALSE)
    <3>1. run' \in [Runs -> Rows]
      BY <2>1, <2>3, RowTyped DEF Ended
    <3>2. setting' \in Settings
      BY <2>3, DueTyped
    <3> QED BY <1>4, <2>3, <3>1, <3>2, EndTyped, FaultTyped DEF OrderMerge, Typed, Settings, made
  <2> QED BY <1>4, <2>2, <2>3 DEF OrderMerge
<1>5. CASE OrderFinish(w)
  <2>1. ex[w].run \in Runs
    BY <1>5, <1>a DEF OrderFinish, Busy
  <2>2. run' \in [Runs -> Rows]
    BY <1>5, <2>1, RowTyped DEF OrderFinish, Ended
  <2>3. setting' \in Settings
    BY <1>5, DueTyped DEF OrderFinish
  <2> QED BY <1>5, <2>2, <2>3, EndTyped DEF OrderFinish, Typed, Settings, made
<1> QED BY <1>1, <1>2, <1>3, <1>4, <1>5

LEMMA BeginsTyped ==
    ASSUME Typed, Held, NEW w \in Workers,
           \/ Claim(w) \/ StartRun(w) \/ AcquireLock(w) \/ LockTimeout(w)
           \/ ListOrders(w) \/ ListOrdersFails(w) \/ OrderApply(w)
    PROVE  Typed'
<1>a. ex[w] \in Execs /\ (Busy(w) => ex[w].run \in Runs)
  BY DEF Typed, Held, Exists
<1>1. CASE Claim(w)
  <2>1. PICK r \in Runs : /\ bg' = [bg EXCEPT ![r] = "running"]
                          /\ ex' = [ex EXCEPT ![w] = Ex("start", r)]
    BY <1>1 DEF Claim
  <2>2. Ex("start", r) \in Execs
    BY DEF Ex, Execs, Pcs
  <2>3. ex' \in [Workers -> Execs]
    BY <2>1, <2>2, ExUpdate
  <2> QED BY <1>1, <2>1, <2>3 DEF Claim, Typed, Settings, made
<1>2. CASE StartRun(w)
  <2>1. ex[w].run \in Runs /\ run[ex[w].run] \in Rows
    BY <1>2, <1>a DEF StartRun, Busy, Typed
  <2>2. CASE run[ex[w].run].status \in Active
    <3>1. Row(ex[w].run, "running", run[ex[w].run].error) /\ To(w, "lock") /\ UNCHANGED <<bg, lock>>
      BY <1>2, <2>2 DEF StartRun
    <3>2. run' \in [Runs -> Rows]
      BY <2>1, <3>1, RowTyped DEF Rows, Active
    <3>3. ex' \in [Workers -> Execs]
      BY <3>1, ToTyped DEF Pcs
    <3> QED BY <1>2, <3>1, <3>2, <3>3 DEF StartRun, Typed, Settings, made
  <2>3. CASE run[ex[w].run].status \notin Active
    <3> DEFINE ok == run[ex[w].run].status \in {"success", "partial_success"}
    <3>a. ok \in BOOLEAN
      OBVIOUS
    <3>1. End(w, ok)
      BY <1>2, <2>3 DEF StartRun
    <3> HIDE DEF ok
    <3> QED BY <1>2, <2>3, <3>a, <3>1, EndTyped DEF StartRun, Typed, Settings, made
  <2> QED BY <2>2, <2>3
<1>3. CASE AcquireLock(w)
  BY <1>3, ToTyped DEF AcquireLock, Typed, Settings, made, Pcs
<1>4. CASE LockTimeout(w)
  <2>1. ex[w].run \in Runs
    BY <1>4, <1>a DEF LockTimeout, Busy
  <2>2. run' \in [Runs -> Rows] /\ setting' \in Settings
    <3>1. CASE run[ex[w].run].op \in Orders
      <4>1. /\ Row(ex[w].run, "failed", "lock")
            /\ setting' = [setting EXCEPT ![run[ex[w].run].op].due = FALSE]
        BY <1>4, <3>1 DEF LockTimeout
      <4>2. run' \in [Runs -> Rows]
        BY <2>1, <4>1, RowTyped DEF Ended
      <4>3. setting' \in Settings
        BY <4>1, DueTyped
      <4> QED BY <4>2, <4>3
    <3>2. CASE run[ex[w].run].op \notin Orders
      BY <1>4, <3>2 DEF LockTimeout, Typed, Settings
    <3> QED BY <3>1, <3>2
  <2> QED BY <1>4, <2>2, EndTyped, FaultTyped DEF LockTimeout, Typed, Settings, made
<1>5. CASE ListOrders(w)
  BY <1>5, ToTyped DEF ListOrders, Typed, Settings, made, Pcs
<1>6. CASE ListOrdersFails(w)
  <2>1. PICK b \in BOOLEAN :
           ex' = [ex EXCEPT ![w] = [ex[w] EXCEPT !.pc = "mergeError", !.out = "failed", !.bad = b]]
    BY <1>6 DEF ListOrdersFails
  <2>2. [ex[w] EXCEPT !.pc = "mergeError", !.out = "failed", !.bad = b] \in Execs
    BY <1>a DEF Execs, Pcs, Ended
  <2>3. ex' \in [Workers -> Execs]
    BY <2>1, <2>2, ExUpdate
  <2> QED BY <1>6, <2>3, FaultTyped DEF ListOrdersFails, Typed, Settings, made
<1>7. CASE OrderApply(w)
  BY <1>7, ToTyped DEF OrderApply, Typed, Settings, made, Pcs
<1> QED BY <1>1, <1>2, <1>3, <1>4, <1>5, <1>6, <1>7

LEMMA WorkerTyped ==
    ASSUME Typed, Held, Kept, NEW w \in Workers, Claim(w) \/ WorkerStep(w)
    PROVE  Typed'
BY ItemTyped, SyncTyped, EndsTyped, BeginsTyped DEF WorkerStep

LEMMA CallUpdate ==
    ASSUME Typed, NEW c, NEW e \in Calls, call' = [call EXCEPT ![c] = e]
    PROVE  call' \in [Clients -> Calls]
BY DEF Typed

LEMMA NoCallTyped == NoCall \in Calls
BY DEF NoCall, Call, Calls

LEMMA CreatedTyped ==
    ASSUME Typed, NEW c \in Clients, Created(c)
    PROVE  call' \in [Clients -> Calls] /\ setting' \in Settings
<1>1. call' \in [Clients -> Calls]
  BY CallUpdate, NoCallTyped DEF Created
<1>2. [setting EXCEPT ![call[c].op].due = FALSE] \in Settings
  BY DueTyped
<1> QED BY <1>1, <1>2 DEF Created, Typed, Settings

LEMMA AskedTyped ==
    ASSUME Typed, NEW c, NEW op \in AllOps, NEW trig \in {"manual", "scheduled", "publish"},
           NEW full \in BOOLEAN, NEW items \in SUBSET Items,
           call' = [call EXCEPT ![c] = Call("read", op, trig, full, items, NoRun)]
    PROVE  call' \in [Clients -> Calls]
<1>1. Call("read", op, trig, full, items, NoRun) \in Calls
  BY DEF Call, Calls
<1> QED BY <1>1, CallUpdate

LEMMA FullTyped == ASSUME NEW op, NEW full \in BOOLEAN PROVE Full(op, full) \in BOOLEAN
BY DEF Full

LEMMA RequestsTyped == ASSUME Typed, Requests \/ VerifyOperation \/ VerifyPublish PROVE Typed'
<1>s. scen.ops \subseteq AllOps /\ scen.full \subseteq BOOLEAN
  BY OpsAssumption DEF Typed
<1>1. ASSUME NEW op \in scen.ops, NEW full \in scen.full, NEW items \in SUBSET Items,
             Request(op, full, items)
      PROVE  Typed'
  <2>1. Full(op, full) \in BOOLEAN /\ op \in AllOps
    BY <1>s, FullTyped
  <2>2. call' \in [Clients -> Calls]
    BY <1>1, <2>1, AskedTyped DEF Request
  <2> QED BY <1>1, <2>2 DEF Request, Typed, elsewhere
<1>2. ASSUME NEW op \in scen.ops, NEW full \in scen.full, ScanDue(op, full) PROVE Typed'
  <2>1. Full(op, full) \in BOOLEAN /\ op \in AllOps /\ {} \in SUBSET Items
    BY <1>s, FullTyped
  <2>2. call' \in [Clients -> Calls]
    BY <1>2, <2>1, AskedTyped DEF ScanDue
  <2> QED BY <1>2, <2>2 DEF ScanDue, Typed, elsewhere
<1>3. ASSUME NEW op \in scen.ops, Becomes(op) PROVE Typed'
  <2>1. [setting EXCEPT ![op].due = TRUE] \in Settings
    BY DueTyped
  <2> QED BY <1>3, <2>1 DEF Becomes, Typed, Settings, elsewhere
<1>4. ASSUME NEW op \in scen.ops, UpdateSetting(op) PROVE Typed'
  <2>1. PICK on \in BOOLEAN : setting' = [setting EXCEPT ![op] = [enabled |-> on, due |-> FALSE]]
    BY <1>4 DEF UpdateSetting
  <2>2. setting' \in Settings
    BY <2>1, PauseTyped
  <2> QED BY <1>4, <2>2 DEF UpdateSetting, Typed, Settings, elsewhere
<1>5. CASE VerifyOperation
  <2>1. call' \in [Clients -> Calls]
    <3>1. "sync" \in AllOps /\ {} \in SUBSET Items
      BY DEF AllOps
    <3>2. call' = [call EXCEPT !["verify"] = Call("read", "sync", "scheduled", TRUE, {}, NoRun)]
      BY <1>5 DEF VerifyOperation
    <3> QED BY <3>1, <3>2, AskedTyped
  <2> QED BY <1>5, <2>1 DEF VerifyOperation, Typed, elsewhere
<1>6. CASE VerifyPublish
  <2>1. call' \in [Clients -> Calls]
    <3>1. "sync" \in AllOps /\ {} \in SUBSET Items
      BY DEF AllOps
    <3>2. call' = [call EXCEPT !["verify"] = Call("read", "sync", "publish", FALSE, {}, NoRun)]
      BY <1>6 DEF VerifyPublish
    <3> QED BY <3>1, <3>2, AskedTyped
  <2> QED BY <1>6, <2>1 DEF VerifyPublish, Typed, elsewhere
<1> QED BY <1>1, <1>2, <1>3, <1>4, <1>5, <1>6 DEF Requests

LEMMA ClientTyped == ASSUME Typed, Held, NEW c \in Clients, ClientNext(c) PROVE Typed'
<1>a. call[c] \in Calls
  BY DEF Typed
<1>1. CASE ReadActive(c)
  <2>1. PICK pc \in {"bg", "insert"}, r \in Runs \cup {NoRun} :
           call' = [call EXCEPT ![c] = [call[c] EXCEPT !.pc = pc, !.run = r]]
    <3>1. ASSUME NEW r \in Runs, call' = [call EXCEPT ![c].pc = "bg", ![c].run = r]
          PROVE  call' = [call EXCEPT ![c] = [call[c] EXCEPT !.pc = "bg", !.run = r]]
      BY <3>1
    <3>2. ASSUME call' = [call EXCEPT ![c].pc = "insert"]
          PROVE  call' = [call EXCEPT ![c] = [call[c] EXCEPT !.pc = "insert", !.run = call[c].run]]
      BY <1>a, <3>2 DEF Calls
    <3>3. call[c].run \in Runs \cup {NoRun}
      BY <1>a DEF Calls
    <3> QED BY <1>1, <3>1, <3>2, <3>3 DEF ReadActive
  <2>2. [call[c] EXCEPT !.pc = pc, !.run = r] \in Calls
    BY <1>a DEF Calls
  <2>3. call' \in [Clients -> Calls]
    BY <2>1, <2>2, CallUpdate
  <2> QED BY <1>1, <2>3 DEF ReadActive, Typed, elsewhere
<1>2. CASE InsertRun(c)
  <2>1. PICK r \in Runs :
           /\ run' = [run EXCEPT ![r] =
                        Run(call[c].op, call[c].trig, call[c].full, call[c].items, Runs \ Free,
                            "pending", "none")]
           /\ call' = [call EXCEPT ![c] = [call[c] EXCEPT !.pc = "bg", !.run = r]]
    BY <1>2 DEF InsertRun, Free
  <2>2. Run(call[c].op, call[c].trig, call[c].full, call[c].items, Runs \ Free,
            "pending", "none") \in Rows
    BY <1>a DEF Run, Rows, Calls, Active
  <2>3. [call[c] EXCEPT !.pc = "bg", !.run = r] \in Calls
    BY <1>a DEF Calls
  <2>4. call' \in [Clients -> Calls] /\ run' \in [Runs -> Rows]
    BY <2>1, <2>2, <2>3, CallUpdate DEF Typed
  <2> QED BY <1>2, <2>4 DEF InsertRun, Typed, elsewhere
<1>3. CASE EnsureBackground(c)
  <2>1. CASE bg[call[c].run] \in {"none", "pending"}
    <3>1. [call[c] EXCEPT !.pc = "push"] \in Calls
      BY <1>a DEF Calls
    <3>2. call' \in [Clients -> Calls]
      BY <1>3, <2>1, <3>1, CallUpdate DEF EnsureBackground
    <3> QED BY <1>3, <2>1, <3>2 DEF EnsureBackground, Typed, elsewhere
  <2>2. CASE bg[call[c].run] \notin {"none", "pending"}
    BY <1>3, <2>2, CreatedTyped DEF EnsureBackground, Typed, Settings, elsewhere
  <2> QED BY <2>1, <2>2
<1>4. CASE Push(c)
  <2>1. call[c].run \in Runs
    BY <1>4 DEF Push, Held, Exists
  <2>2. run' \in [Runs -> Rows] /\ faults' \in 0..MaxFaults
    <3>1. UNCHANGED <<run, faults>> \/ (Fault /\ Row(call[c].run, "failed", "queue"))
      BY <1>4 DEF Push, Row
    <3> QED BY <2>1, <3>1, RowTyped, FaultTyped DEF Typed, Ended
  <2>3. bg' \in [Runs -> {"none", "pending", "queued", "running", "done", "failed"}]
    BY <1>4, <2>1 DEF Push, Typed
  <2> QED BY <1>4, <2>2, <2>3, CreatedTyped DEF Push, Typed, Settings, elsewhere
<1> QED BY <1>1, <1>2, <1>3, <1>4 DEF ClientNext

LEMMA AroundTyped == ASSUME Typed, Environment \/ Sweeps PROVE Typed'
<1>1. ASSUME NEW i \in Items, DeleteLocalItem(i) PROVE Typed'
  <2>1. Product("none", "none", 0, FALSE) \in Products
    BY DEF Product, Products
  <2> QED BY <1>1, <2>1 DEF DeleteLocalItem, Typed
<1>2. ASSUME NEW i \in Items, SellerActs(i) PROVE Typed'
  BY <1>2 DEF SellerActs, Typed
<1>3. CASE Midnight
  <2>1. \A i \in Items : [row[i] EXCEPT !.today = FALSE] \in Products
    <3> TAKE i \in Items
    <3>1. row[i] \in Products
      BY DEF Typed
    <3> QED BY <3>1 DEF Products
  <2> QED BY <1>3, <2>1 DEF Midnight, Typed
<1>4. ASSUME NEW w \in Workers, Crash(w) PROVE Typed'
  <2>1. NoEx \in Execs
    BY DEF NoEx, Ex, Execs, Pcs
  <2>2. ex' \in [Workers -> Execs]
    BY <1>4, <2>1, ExUpdate DEF Crash
  <2>3. crashes' \in 0..MaxCrashes
    BY <1>4, BoundAssumption DEF Crash, Stops, Typed
  <2> QED BY <1>4, <2>2, <2>3 DEF Crash, Typed
<1>5. ASSUME NEW c \in Clients, CallStops(c) PROVE Typed'
  <2>1. call' \in [Clients -> Calls]
    BY <1>5, NoCallTyped, CallUpdate DEF CallStops
  <2>2. crashes' \in 0..MaxCrashes
    BY <1>5, BoundAssumption DEF CallStops, Stops, Typed
  <2> QED BY <1>5, <2>1, <2>2 DEF CallStops, Typed
<1>6. ASSUME NEW l, LockLost(l) PROVE Typed'
  BY <1>6, FaultTyped DEF LockLost, Typed
<1>7. ASSUME NEW l, LockExpires(l) PROVE Typed'
  BY <1>7 DEF LockExpires, Typed
<1>8. ASSUME NEW r \in Runs, LeaseSweep(r) PROVE Typed'
  BY <1>8 DEF LeaseSweep, Typed
<1> QED BY <1>1, <1>2, <1>3, <1>4, <1>5, <1>6, <1>7, <1>8 DEF Environment, Sweeps

-----------------------------------------------------------------------------
(* Steps of a worker, by what they do to its run.                          *)

Same(v) == /\ ex'[v].pc = ex[v].pc /\ ex'[v].run = ex[v].run
           /\ ex'[v].out = ex[v].out /\ ex'[v].todo = ex[v].todo

(* The worker goes on; the row of its run stays.                           *)
Quiet(w) ==
    /\ UNCHANGED <<run, bg, call, lost>>
    /\ \A v \in Workers \ {w} : Same(v)
    /\ ~Settled(w) /\ ex'[w].run = ex[w].run
    /\ ex[w].pc \notin {"idle", "start", "merge"} /\ ex'[w].pc \notin {"idle", "start", "merge"}
    /\ ex'[w].pc = "apply" => run[ex[w].run].op = "sync"
    /\ ex'[w].pc \in Ending => ex'[w].out \in Ended

(* The worker ends, and may give its run a result.                         *)
Ends(w) ==
    /\ UNCHANGED <<call, lost>> /\ Busy(w)
    /\ \E ok \in BOOLEAN : End(w, ok)
    /\ \/ UNCHANGED run
       \/ \E status \in Ended, error \in {"lock", "merge", "platform", "none"} :
             /\ Row(ex[w].run, status, error)
             /\ ex[w].pc = "merge" => error = "merge"
    /\ ex[w].pc \notin {"item", "finish"}

LEMMA QuietTold == ASSUME Typed, Told, NEW w \in Workers, Quiet(w) PROVE Told'
<1> USE DEF Quiet, Same, Told
<1>1. Held'
  BY DEF Held, Busy, Exists
<1>2. OneWorker'
  BY DEF OneWorker, Busy
<1>3. Kept'
  BY DEF Kept
<1>4. LostIsSettled'
  BY DEF LostIsSettled, Busy, Exists, Settled
<1>5. LostAnswerIsTold'
  BY DEF LostAnswerIsTold
<1> QED BY <1>1, <1>2, <1>3, <1>4, <1>5

LEMMA EndsTold == ASSUME Typed, Told, NEW w \in Workers, Ends(w) PROVE Told'
<1>0. PICK ok \in BOOLEAN : End(w, ok)
  BY DEF Ends
<1>a. ex' = [ex EXCEPT ![w] = NoEx] /\ NoEx.pc = "idle"
  BY <1>0 DEF End, NoEx, Ex
<1>b. \A r \in Runs : bg'[r] = bg[r] \/ (bg[r] = "running" /\ bg'[r] \in {"done", "failed"})
  BY <1>0 DEF End, Typed
<1>1. /\ ex' = [ex EXCEPT ![w] = NoEx] /\ NoEx.pc = "idle"
      /\ \A r \in Runs : bg[r] \notin Waiting => bg'[r] \notin Waiting
      /\ \A r \in Runs : bg'[r] # "none" => bg[r] # "none"
  BY <1>a, <1>b DEF Waiting
<1>2. \A v \in Workers : IF v = w THEN ex'[v].pc = "idle" ELSE ex'[v] = ex[v]
  BY <1>1 DEF Typed
<1>3. ex[w].run \in Runs
  BY DEF Ends, Told, Held, Exists
<1>4. /\ \A r \in Runs : r # ex[w].run => run'[r] = run[r]
      /\ \/ run'[ex[w].run] = run[ex[w].run]
         \/ /\ run'[ex[w].run].status \in Ended /\ run'[ex[w].run].op = run[ex[w].run].op
            /\ ex[w].pc = "merge" => run'[ex[w].run].error = "merge"
  <2>1. CASE UNCHANGED run
    BY <2>1
  <2>2. ASSUME NEW status \in Ended, NEW error, Row(ex[w].run, status, error),
               ex[w].pc = "merge" => error = "merge"
        PROVE  /\ \A r \in Runs : r # ex[w].run => run'[r] = run[r]
               /\ run'[ex[w].run].status \in Ended /\ run'[ex[w].run].op = run[ex[w].run].op
               /\ ex[w].pc = "merge" => run'[ex[w].run].error = "merge"
    BY <1>3, <2>2 DEF Row, Typed, Rows
  <2> QED BY <2>1, <2>2 DEF Ends
<1>5. \A r \in Runs : run[r].status # "none" => run'[r].status # "none"
  BY <1>4 DEF Ended
<1>6. Held'
  BY <1>1, <1>2, <1>5 DEF Told, Held, Busy, Exists, Ends
<1>7. OneWorker'
  BY <1>2 DEF Told, OneWorker, Busy
<1>8. Kept'
  <2>1. \A v \in Workers : Busy(v) /\ v # w => ex[v].run # ex[w].run /\ ex[v].run \in Runs
    BY DEF Ends, Told, OneWorker, Held, Exists
  <2> QED BY <1>2, <1>4, <2>1 DEF Told, Kept, Busy, Ending
<1>9. LostIsSettled'
  BY <1>1, <1>2, <1>5 DEF Told, LostIsSettled, Exists, Busy, Settled, Ends
<1>10. LostAnswerIsTold'
  <2>1. ex[w].run \in lost => ex[w].pc = "merge"
    BY DEF Ends, Told, LostIsSettled, Settled
  <2>2. lost \subseteq Runs
    BY DEF Typed
  <2> QED BY <1>4, <2>1, <2>2 DEF Told, LostAnswerIsTold, Ends
<1> QED BY <1>6, <1>7, <1>8, <1>9, <1>10 DEF Told

LEMMA ItemTold ==
    ASSUME Typed, Told, NEW w \in Workers, NEW i \in Items,
           \/ PolishItem(w, i) \/ PolishFails(w, i) \/ AlreadyDeleted(w, i)
           \/ \E op \in Writes : WriteItem(w, op, i) \/ WriteRefused(w, op, i)
    PROVE  Told'
<1>1. /\ UNCHANGED <<run, bg, call, lost>>
      /\ ex[w].pc = "item" /\ i \in ex[w].todo
  BY DEF PolishItem, PolishFails, AlreadyDeleted, WriteItem, WriteRefused, Acts, made
<1>2. /\ \A v \in Workers \ {w} : Same(v)
      /\ ex'[w].pc = "item" /\ ex'[w].run = ex[w].run
  <2>a. ex \in [Workers -> Execs]
    BY DEF Typed
  <2>1. ASSUME PolishItem(w, i) \/ PolishFails(w, i) \/ AlreadyDeleted(w, i)
        PROVE  /\ \A v \in Workers \ {w} : Same(v)
               /\ ex'[w].pc = ex[w].pc /\ ex'[w].run = ex[w].run
    BY <2>a, <2>1 DEF PolishItem, PolishFails, AlreadyDeleted, Same, Execs
  <2>2. ASSUME NEW op \in Writes, WriteItem(w, op, i)
        PROVE  /\ \A v \in Workers \ {w} : Same(v)
               /\ ex'[w].pc = ex[w].pc /\ ex'[w].run = ex[w].run
    BY <2>a, <2>2 DEF WriteItem, Same, Execs
  <2>3. ASSUME NEW op \in Writes, WriteRefused(w, op, i)
        PROVE  /\ \A v \in Workers \ {w} : Same(v)
               /\ ex'[w].pc = ex[w].pc /\ ex'[w].run = ex[w].run
    BY <2>a, <2>3 DEF WriteRefused, Same, Execs
  <2> QED BY <1>1, <2>1, <2>2, <2>3
<1>3. Quiet(w)
  BY <1>1, <1>2 DEF Quiet, Settled, Ending
<1> QED BY <1>3, QuietTold

(* The answer to a write is lost: the run is settled.                      *)
LEMMA LostTold ==
    ASSUME Typed, Told, NEW w \in Workers, NEW i \in Items, NEW op \in Writes, WriteLost(w, op, i)
    PROVE  Told'
<1>1. /\ UNCHANGED <<run, bg, call>> /\ lost' = lost \cup {ex[w].run}
      /\ ex[w].pc = "item" /\ i \in ex[w].todo
  BY DEF WriteLost, Acts, made
<1>2. /\ \A v \in Workers \ {w} : Same(v)
      /\ ex'[w].pc = "item" /\ ex'[w].run = ex[w].run
      /\ ex'[w].todo = {} /\ ex'[w].out = "verification_required"
  BY <1>1 DEF WriteLost, Same, Typed, Execs
<1>3. Held'
  BY <1>1, <1>2 DEF Told, Held, Busy, Exists, Same
<1>4. OneWorker'
  BY <1>1, <1>2 DEF Told, OneWorker, Busy, Same
<1>5. Kept'
  BY <1>1, <1>2 DEF Told, Kept, Same, Ending
<1>6. LostIsSettled'
  <2>1. Exists(ex[w].run) /\ bg[ex[w].run] \notin Waiting
    BY <1>1 DEF Told, Held, Busy
  <2>2. \A v \in Workers : Busy(v) /\ ex[v].run = ex[w].run => v = w
    BY <1>1 DEF Told, OneWorker, Busy
  <2> QED BY <1>1, <1>2, <2>1, <2>2 DEF Told, LostIsSettled, Exists, Busy, Settled, Same
<1>7. LostAnswerIsTold'
  <2>1. run[ex[w].run].status \in Active \/ run[ex[w].run].error = "queue"
    BY <1>1 DEF Told, Kept
  <2> QED BY <1>1, <2>1 DEF Told, LostAnswerIsTold, Active, Ended
<1> QED BY <1>3, <1>4, <1>5, <1>6, <1>7 DEF Told

LEMMA QuietSteps ==
    ASSUME Typed, Told, NEW w \in Workers,
           \/ AcquireLock(w) \/ ListSelling(w) \/ ListFails(w) \/ ApplySync(w) \/ ReadCandidates(w)
           \/ ListOrders(w) \/ ListOrdersFails(w) \/ OrderApply(w)
    PROVE  Told'
<1>a. ex \in [Workers -> Execs]
  BY DEF Typed
<1>1. CASE AcquireLock(w) \/ ListOrders(w) \/ OrderApply(w)
  BY <1>a, <1>1, QuietTold
     DEF AcquireLock, ListOrders, WorksOrders, OrderApply, To, Quiet, Same, Settled, Ending, made, Execs
<1>2. CASE ListSelling(w)
  <2>1. PICK whole, seen :
           ex' = [ex EXCEPT ![w].pc = "apply", ![w].seen = seen, ![w].whole = whole]
    BY <1>2 DEF ListSelling
  <2>2. /\ \A v \in Workers \ {w} : Same(v)
        /\ ex'[w].pc = "apply" /\ ex'[w].run = ex[w].run
    BY <1>a, <2>1 DEF Same, Execs
  <2> QED BY <1>2, <2>2, QuietTold DEF ListSelling, Works, Quiet, Settled, Ending, made
<1>3. CASE ListFails(w) \/ ListOrdersFails(w)
  BY <1>a, <1>3, QuietTold
     DEF ListFails, ListOrdersFails, Works, WorksOrders, Quiet, Same, Settled, Ending, Ended, made, Execs
<1>4. CASE ApplySync(w)
  BY <1>a, <1>4, QuietTold DEF ApplySync, Quiet, Same, Settled, Ending, Ended, made, Execs
<1>5. CASE ReadCandidates(w)
  BY <1>a, <1>5, QuietTold DEF ReadCandidates, Quiet, Same, Settled, Ending, made, Execs
<1> QED BY <1>1, <1>2, <1>3, <1>4, <1>5

LEMMA EndingSteps ==
    ASSUME Typed, Told, NEW w \in Workers,
           \/ LockTimeout(w) \/ MergeCookie(w) \/ MergeAfterError(w) \/ OrderMerge(w) \/ OrderFinish(w)
    PROVE  Told'
<1>1. CASE LockTimeout(w)
  BY <1>1, EndsTold DEF LockTimeout, Ends, Busy, Ended, made
<1>2. CASE MergeCookie(w)
  <2>1. UNCHANGED run \/ Row(ex[w].run, "failed", "merge")
    BY <1>2 DEF MergeCookie
  <2>2. \E ok \in BOOLEAN : End(w, ok)
    BY <1>2 DEF MergeCookie, Ok
  <2> QED BY <1>2, <2>1, <2>2, EndsTold DEF MergeCookie, Ends, Busy, Ended, made
<1>3. CASE MergeAfterError(w)
  <2>1. ex[w].out \in Ended
    BY <1>3 DEF MergeAfterError, Told, Kept, Ending
  <2>2. UNCHANGED run \/ Row(ex[w].run, ex[w].out, "platform")
    BY <1>3 DEF MergeAfterError
  <2>3. \E ok \in BOOLEAN : End(w, ok)
    BY <1>3 DEF MergeAfterError
  <2> QED BY <1>3, <2>1, <2>2, <2>3, EndsTold DEF MergeAfterError, Ends, Busy, made
<1>4. CASE OrderMerge(w)
  <2>1. CASE To(w, "orderApply") /\ UNCHANGED <<run, bg, lock, setting, faults>>
    <3>1. ex \in [Workers -> Execs]
      BY DEF Typed
    <3> QED BY <1>4, <2>1, <3>1, QuietTold
            DEF OrderMerge, To, Quiet, Same, Settled, Ending, made, Execs
  <2>2. CASE Row(ex[w].run, "failed", "merge") /\ End(w, FALSE)
    BY <1>4, <2>2, EndsTold DEF OrderMerge, Ends, Busy, Ended, made
  <2> QED BY <1>4, <2>1, <2>2 DEF OrderMerge
<1>5. CASE OrderFinish(w)
  BY <1>5, EndsTold DEF OrderFinish, Ends, Busy, Ended, made
<1> QED BY <1>1, <1>2, <1>3, <1>4, <1>5

LEMMA ClaimTold == ASSUME Typed, Told, NEW w \in Workers, Claim(w) PROVE Told'
<1>1. PICK r \in Runs :
         /\ bg[r] \in {"pending", "queued"}
         /\ bg' = [bg EXCEPT ![r] = "running"] /\ ex' = [ex EXCEPT ![w] = Ex("start", r)]
         /\ UNCHANGED <<run, call, lost>>
  BY DEF Claim, made
<1>2. /\ ex'[w].pc = "start" /\ ex'[w].run = r
      /\ \A v \in Workers : v # w => ex'[v] = ex[v]
      /\ \A q \in Runs : q # r => bg'[q] = bg[q]
      /\ bg'[r] = "running"
  BY <1>1 DEF Typed, Ex
<1>3. \A v \in Workers : Busy(v) => ex[v].run # r
  BY <1>1 DEF Told, Held, Waiting
<1>4. r \notin lost /\ Exists(r)
  BY <1>1 DEF Told, Held, LostIsSettled, Waiting
<1>5. Held'
  BY <1>1, <1>2, <1>4 DEF Told, Held, Exists, Busy, Waiting
<1>6. OneWorker'
  BY <1>2, <1>3 DEF Told, OneWorker, Busy
<1>7. Kept'
  BY <1>1, <1>2 DEF Told, Kept, Ending
<1>8. LostIsSettled'
  BY <1>1, <1>2, <1>4 DEF Told, LostIsSettled, Exists, Busy, Settled
<1>9. LostAnswerIsTold'
  BY <1>1 DEF Told, LostAnswerIsTold
<1> QED BY <1>5, <1>6, <1>7, <1>8, <1>9 DEF Told

LEMMA StartTold == ASSUME Typed, Told, NEW w \in Workers, StartRun(w) PROVE Told'
<1>a. ex \in [Workers -> Execs] /\ run \in [Runs -> Rows] /\ Busy(w) /\ ex[w].run \in Runs
  BY DEF Typed, StartRun, Busy, Told, Held, Exists
<1>1. CASE run[ex[w].run].status \notin Active
  <2> DEFINE ok == run[ex[w].run].status \in {"success", "partial_success"}
  <2>1. End(w, ok) /\ ok \in BOOLEAN
    BY <1>1 DEF StartRun
  <2> HIDE DEF ok
  <2> QED BY <1>1, <1>a, <2>1, EndsTold DEF StartRun, Ends, made
<1>2. CASE run[ex[w].run].status \in Active
  <2>1. UNCHANGED <<bg, call, lost>> /\ ex[w].pc = "start"
    BY <1>2 DEF StartRun, made
  <2>2. /\ \A v \in Workers \ {w} : ex'[v] = ex[v]
        /\ ex'[w].pc = "lock" /\ ex'[w].run = ex[w].run
    BY <1>a, <1>2 DEF StartRun, To, Execs
  <2>3. /\ \A r \in Runs : r # ex[w].run => run'[r] = run[r]
        /\ run'[ex[w].run].status = "running" /\ run'[ex[w].run].op = run[ex[w].run].op
    BY <1>a, <1>2 DEF StartRun, Row, Rows
  <2>4. ex[w].run \notin lost
    BY <1>a, <2>1 DEF Told, LostIsSettled, Settled
  <2>5. \A v \in Workers : Busy(v) /\ v # w => ex[v].run # ex[w].run /\ ex[v].run \in Runs
    BY <1>a DEF Told, OneWorker, Held, Exists
  <2>a. \A r \in Runs : run[r].status # "none" => run'[r].status # "none"
    BY <2>3
  <2>6. Held'
    BY <2>1, <2>2, <2>a DEF Told, Held, Busy, Exists
  <2>7. OneWorker'
    BY <2>1, <2>2 DEF Told, OneWorker, Busy
  <2>8. Kept'
    BY <2>2, <2>3, <2>5 DEF Told, Kept, Busy, Ending, Active
  <2>9. LostIsSettled'
    BY <2>1, <2>2, <2>a, <2>4 DEF Told, LostIsSettled, Exists, Busy, Settled
  <2>10. LostAnswerIsTold'
    BY <2>1, <2>3, <2>4 DEF Told, LostAnswerIsTold, Typed
  <2> QED BY <2>6, <2>7, <2>8, <2>9, <2>10 DEF Told
<1> QED BY <1>1, <1>2

LEMMA ItemsDoneTold == ASSUME Typed, Told, NEW w \in Workers, ItemsDone(w) PROVE Told'
<1>a. ex \in [Workers -> Execs]
  BY DEF Typed
<1>1. PICK out :
         /\ ex' = [ex EXCEPT ![w].pc = "finish", ![w].out = out]
         /\ out \in Ended /\ (ex[w].out # "none" => out = ex[w].out)
  BY <1>a DEF ItemsDone, Outcome, Ended, Execs
<1>b. UNCHANGED <<run, bg, call, lost>> /\ ex[w].pc = "item"
  BY DEF ItemsDone, made
<1>2. /\ \A v \in Workers \ {w} : ex'[v] = ex[v]
      /\ ex'[w].pc = "finish" /\ ex'[w].run = ex[w].run /\ ex'[w].out = out
      /\ ex'[w].out \in Ended /\ (ex[w].out # "none" => ex'[w].out = ex[w].out)
  BY <1>a, <1>1 DEF Execs
<1>3. Held'
  BY <1>b, <1>2 DEF Told, Held, Busy, Exists
<1>4. OneWorker'
  BY <1>b, <1>2 DEF Told, OneWorker, Busy
<1>5. Kept'
  BY <1>b, <1>2 DEF Told, Kept, Ending
<1>6. LostIsSettled'
  BY <1>b, <1>2 DEF Told, LostIsSettled, Exists, Busy, Settled
<1>7. LostAnswerIsTold'
  BY <1>b DEF Told, LostAnswerIsTold
<1> QED BY <1>3, <1>4, <1>5, <1>6, <1>7 DEF Told

LEMMA FinishTold == ASSUME Typed, Told, NEW w \in Workers, FinishRun(w) PROVE Told'
<1>a. ex \in [Workers -> Execs] /\ run \in [Runs -> Rows] /\ Busy(w) /\ ex[w].run \in Runs
  BY DEF Typed, FinishRun, Busy, Told, Held, Exists
<1>1. /\ UNCHANGED <<bg, call, lost>> /\ ex[w].pc = "finish"
      /\ ex' = [ex EXCEPT ![w].pc = "merge"]
      /\ \E err : Row(ex[w].run, ex[w].out, err)
  BY DEF FinishRun, made, To
<1>2. /\ \A v \in Workers \ {w} : ex'[v] = ex[v]
      /\ ex'[w].pc = "merge" /\ ex'[w].run = ex[w].run /\ ex'[w].out = ex[w].out
  BY <1>a, <1>1 DEF Execs
<1>3. /\ \A r \in Runs : r # ex[w].run => run'[r] = run[r]
      /\ run'[ex[w].run].status = ex[w].out /\ run'[ex[w].run].op = run[ex[w].run].op
  BY <1>a, <1>1 DEF Row, Rows
<1>4. ex[w].out \in Ended
  BY <1>1 DEF Told, Kept, Ending
<1>5. \A v \in Workers : Busy(v) /\ v # w => ex[v].run # ex[w].run /\ ex[v].run \in Runs
  BY <1>a DEF Told, OneWorker, Held, Exists
<1>6. \A r \in Runs : run[r].status # "none" => run'[r].status # "none"
  BY <1>3, <1>4 DEF Ended
<1>7. Held'
  BY <1>1, <1>2, <1>6 DEF Told, Held, Busy, Exists
<1>8. OneWorker'
  BY <1>1, <1>2 DEF Told, OneWorker, Busy
<1>9. Kept'
  BY <1>2, <1>3, <1>4, <1>5 DEF Told, Kept, Busy, Ending
<1>10. LostIsSettled'
  BY <1>1, <1>2, <1>6 DEF Told, LostIsSettled, Exists, Busy, Settled
<1>11. LostAnswerIsTold'
  <2>1. ex[w].run \in lost => ex[w].out = "verification_required"
    BY <1>a DEF Told, LostIsSettled, Settled
  <2> QED BY <1>1, <1>3, <2>1 DEF Told, LostAnswerIsTold, Typed
<1> QED BY <1>7, <1>8, <1>9, <1>10, <1>11 DEF Told

LEMMA WorkerTold == ASSUME Typed, Told, NEW w \in Workers, Claim(w) \/ WorkerStep(w) PROVE Told'
BY ItemTold, LostTold, QuietSteps, EndingSteps, ClaimTold, StartTold, ItemsDoneTold, FinishTold
   DEF WorkerStep

(* Steps that leave the workers and the rows of the runs alone.            *)
LEMMA ElsewhereTold ==
    ASSUME Told, UNCHANGED <<run, bg, ex, lost>>,
           \A c \in Clients : call'[c] = call[c] \/ call'[c].pc \notin {"bg", "push"}
    PROVE  Told'
<1>1. Held'
  BY DEF Told, Held, Busy, Exists
<1>2. OneWorker' /\ Kept' /\ LostIsSettled' /\ LostAnswerIsTold'
  BY DEF Told, OneWorker, Kept, LostIsSettled, LostAnswerIsTold, Busy, Exists, Settled
<1> QED BY <1>1, <1>2 DEF Told

LEMMA RequestsTold == ASSUME Typed, Told, Requests \/ VerifyOperation \/ VerifyPublish PROVE Told'
<1>1. UNCHANGED <<run, bg, ex, lost>>
  BY DEF Requests, VerifyOperation, VerifyPublish, Request, Becomes, ScanDue, UpdateSetting, elsewhere
<1>2. \E c, op, trig, full, items : \/ UNCHANGED call
                                    \/ call' = [call EXCEPT ![c] = Call("read", op, trig, full, items, NoRun)]
  <2>1. CASE VerifyOperation
    BY <2>1 DEF VerifyOperation
  <2>2. CASE VerifyPublish
    BY <2>2 DEF VerifyPublish
  <2>3. CASE Requests
    <3>1. ASSUME NEW op, Becomes(op) \/ UpdateSetting(op) PROVE UNCHANGED call
      BY <3>1 DEF Becomes, UpdateSetting
    <3>2. ASSUME NEW op, NEW full, ScanDue(op, full)
          PROVE  call' = [call EXCEPT !["sched"] = Call("read", op, "scheduled", Full(op, full), {}, NoRun)]
      BY <3>2 DEF ScanDue
    <3>3. ASSUME NEW op, NEW full, NEW items, Request(op, full, items)
          PROVE  call' = [call EXCEPT !["ui"] = Call("read", op, "manual", Full(op, full), items, NoRun)]
      BY <3>3 DEF Request
    <3> QED BY <2>3, <3>1, <3>2, <3>3 DEF Requests
  <2> QED BY <2>1, <2>2, <2>3
<1>3. \A c \in Clients : call'[c] = call[c] \/ call'[c].pc \notin {"bg", "push"}
  BY <1>2 DEF Typed, Call
<1> QED BY <1>1, <1>3, ElsewhereTold

(* A call changes the task and the row of one run that exists.             *)
LEMMA InsertTold == ASSUME Typed, Told, NEW c \in Clients, InsertRun(c) PROVE Told'
<1>1. PICK r \in Runs :
         /\ run[r].status = "none"
         /\ run' = [run EXCEPT ![r] =
                      Run(call[c].op, call[c].trig, call[c].full, call[c].items, Runs \ Free,
                          "pending", "none")]
         /\ call' = [call EXCEPT ![c].pc = "bg", ![c].run = r]
  BY DEF InsertRun, Free
<1>2. UNCHANGED <<bg, ex, lost>>
  BY DEF InsertRun, elsewhere
<1>3. /\ \A q \in Runs : q # r => run'[q] = run[q]
      /\ run'[r].status = "pending"
  BY <1>1 DEF Typed, Run
<1>4. /\ \A d \in Clients : d # c => call'[d] = call[d]
      /\ call'[c].run = r
  BY <1>1 DEF Typed, Calls
<1>5. \A q \in Runs : run[q].status # "none" => run'[q] = run[q] /\ q # r
  BY <1>1, <1>3
<1>6. Held'
  BY <1>2, <1>3, <1>4, <1>5 DEF Told, Held, Busy, Exists
<1>7. OneWorker'
  BY <1>2 DEF Told, OneWorker, Busy
<1>8. Kept'
  <2>1. \A w \in Workers : Busy(w) => run'[ex[w].run] = run[ex[w].run]
    BY <1>5 DEF Told, Held, Exists
  <2> QED BY <1>2, <2>1 DEF Told, Kept, Busy, Ending
<1>9. LostIsSettled'
  BY <1>2, <1>5 DEF Told, LostIsSettled, Exists, Busy, Settled
<1>10. LostAnswerIsTold'
  BY <1>2, <1>5 DEF Told, LostIsSettled, LostAnswerIsTold, Exists
<1> QED BY <1>6, <1>7, <1>8, <1>9, <1>10 DEF Told

LEMMA BackgroundTold == ASSUME Typed, Told, NEW c \in Clients, EnsureBackground(c) PROVE Told'
<1>1. Exists(call[c].run)
  BY DEF EnsureBackground, Told, Held
<1>2. UNCHANGED <<run, ex, lost>>
  BY DEF EnsureBackground, elsewhere
<1>3. /\ \A d \in Clients : d # c => call'[d] = call[d]
      /\ call'[c].pc \in {"bg", "push"} => call'[c].run = call[c].run
  BY DEF EnsureBackground, Created, NoCall, Call, Typed, Calls
<1>4. /\ \A r \in Runs : bg[r] \notin Waiting => bg'[r] \notin Waiting
      /\ \A r \in Runs : bg'[r] # "none" => bg[r] # "none" \/ r = call[c].run
  BY <1>1 DEF EnsureBackground, Waiting, Typed
<1>5. Held'
  BY <1>1, <1>2, <1>3, <1>4 DEF Told, Held, Busy, Exists
<1>6. OneWorker' /\ Kept' /\ LostAnswerIsTold'
  BY <1>2 DEF Told, OneWorker, Kept, LostAnswerIsTold, Busy
<1>7. LostIsSettled'
  BY <1>2, <1>4 DEF Told, LostIsSettled, Exists, Busy, Settled
<1> QED BY <1>5, <1>6, <1>7 DEF Told

LEMMA PushTold == ASSUME Typed, Told, NEW c \in Clients, Push(c) PROVE Told'
<1>1. Exists(call[c].run)
  BY DEF Push, Told, Held
<1>2. UNCHANGED <<ex, lost>>
  BY DEF Push, elsewhere
<1>3. /\ \A d \in Clients : d # c => call'[d] = call[d]
      /\ call'[c].pc = "idle"
  BY DEF Push, Created, NoCall, Call, Typed
<1>4. /\ \A r \in Runs : bg[r] \notin Waiting => bg'[r] \notin Waiting
      /\ \A r \in Runs : bg'[r] # "none" => bg[r] # "none" \/ r = call[c].run
  BY <1>1 DEF Push, Waiting, Typed
<1>5. /\ \A r \in Runs : r # call[c].run => run'[r] = run[r]
      /\ \/ run'[call[c].run] = run[call[c].run]
         \/ /\ run'[call[c].run].status = "failed" /\ run'[call[c].run].error = "queue"
            /\ run'[call[c].run].op = run[call[c].run].op
  BY <1>1 DEF Push, Typed, Rows, Exists
<1>6. \A r \in Runs : run[r].status # "none" => run'[r].status # "none"
  BY <1>5
<1>7. Held'
  BY <1>1, <1>2, <1>3, <1>4, <1>6 DEF Told, Held, Busy, Exists
<1>8. OneWorker'
  BY <1>2 DEF Told, OneWorker, Busy
<1>9. Kept'
  <2>1. \A w \in Workers : Busy(w) => ex[w].run \in Runs
    BY DEF Told, Held, Exists
  <2> QED BY <1>2, <1>5, <2>1 DEF Told, Kept, Busy, Ending
<1>10. LostIsSettled'
  BY <1>2, <1>4, <1>6 DEF Told, LostIsSettled, Exists, Busy, Settled
<1>11. LostAnswerIsTold'
  BY <1>2, <1>5 DEF Told, LostAnswerIsTold, Typed
<1> QED BY <1>7, <1>8, <1>9, <1>10, <1>11 DEF Told

LEMMA ClientTold == ASSUME Typed, Told, NEW c \in Clients, ClientNext(c) PROVE Told'
<1>1. CASE ReadActive(c)
  <2>1. UNCHANGED <<run, bg, ex, lost>>
    BY <1>1 DEF ReadActive, elsewhere
  <2>2. \/ \E r \in Runs : Answers(r, c) /\ call' = [call EXCEPT ![c].pc = "bg", ![c].run = r]
        \/ call' = [call EXCEPT ![c].pc = "insert"]
    BY <1>1 DEF ReadActive
  <2>3. CASE call' = [call EXCEPT ![c].pc = "insert"]
    <3>1. \A d \in Clients : call'[d] = call[d] \/ call'[d].pc \notin {"bg", "push"}
      BY <2>3 DEF Typed, Calls
    <3> QED BY <2>1, <3>1, ElsewhereTold
  <2>4. ASSUME NEW r \in Runs, Answers(r, c), call' = [call EXCEPT ![c].pc = "bg", ![c].run = r]
        PROVE  Told'
    <3>1. /\ \A d \in Clients : d # c => call'[d] = call[d]
          /\ call'[c].run = r
      BY <2>4 DEF Typed, Calls
    <3>2. Exists(r)
      BY <2>4 DEF Answers, Rivals, Active, Exists
    <3>3. Held'
      BY <2>1, <3>1, <3>2 DEF Told, Held, Busy, Exists
    <3>4. OneWorker' /\ Kept' /\ LostIsSettled' /\ LostAnswerIsTold'
      BY <2>1 DEF Told, OneWorker, Kept, LostIsSettled, LostAnswerIsTold, Busy, Exists, Settled
    <3> QED BY <3>3, <3>4 DEF Told
  <2> QED BY <2>2, <2>3, <2>4
<1> QED BY <1>1, InsertTold, BackgroundTold, PushTold DEF ClientNext

LEMMA AroundTold == ASSUME Typed, Told, Environment \/ Sweeps PROVE Told'
<1>1. ASSUME NEW i, DeleteLocalItem(i) \/ SellerActs(i) PROVE Told'
  BY <1>1, ElsewhereTold DEF DeleteLocalItem, SellerActs
<1>2. CASE Midnight
  BY <1>2, ElsewhereTold DEF Midnight
<1>3. ASSUME NEW w \in Workers, Crash(w) PROVE Told'
  <2>1. \A v \in Workers : IF v = w THEN ex'[v].pc = "idle" ELSE ex'[v] = ex[v]
    BY <1>3 DEF Crash, Typed, NoEx, Ex
  <2>2. UNCHANGED <<run, bg, call, lost>>
    BY <1>3 DEF Crash
  <2>3. Held' /\ OneWorker'
    BY <2>1, <2>2 DEF Told, Held, OneWorker, Busy, Exists
  <2>4. Kept' /\ LostAnswerIsTold'
    BY <2>1, <2>2 DEF Told, Kept, LostAnswerIsTold, Ending
  <2>5. LostIsSettled'
    BY <2>1, <2>2 DEF Told, LostIsSettled, Busy, Exists, Settled
  <2> QED BY <2>3, <2>4, <2>5 DEF Told
<1>4. ASSUME NEW c \in Clients, CallStops(c) PROVE Told'
  <2>1. \A d \in Clients : call'[d] = call[d] \/ call'[d].pc \notin {"bg", "push"}
    BY <1>4 DEF CallStops, Typed, NoCall, Call
  <2> QED BY <1>4, <2>1, ElsewhereTold DEF CallStops
<1>5. ASSUME NEW l, LockLost(l) \/ LockExpires(l) PROVE Told'
  BY <1>5, ElsewhereTold DEF LockLost, LockExpires
<1>6. ASSUME NEW r \in Runs, LeaseSweep(r) PROVE Told'
  <2>1. /\ \A q \in Runs : bg[q] \notin Waiting => bg'[q] \notin Waiting
        /\ \A q \in Runs : bg'[q] # "none" => bg[q] # "none"
    BY <1>6 DEF LeaseSweep, Waiting, Typed
  <2>2. UNCHANGED <<run, ex, call, lost>>
    BY <1>6 DEF LeaseSweep
  <2>3. Held'
    BY <2>1, <2>2 DEF Told, Held, Busy, Exists
  <2>4. OneWorker' /\ Kept' /\ LostAnswerIsTold'
    BY <2>2 DEF Told, OneWorker, Kept, LostAnswerIsTold, Busy
  <2>5. LostIsSettled'
    BY <2>1, <2>2 DEF Told, LostIsSettled, Busy, Exists, Settled
  <2> QED BY <2>3, <2>4, <2>5 DEF Told
<1> QED BY <1>1, <1>2, <1>3, <1>4, <1>5, <1>6 DEF Environment, Sweeps

LEMMA InitTold == Init => Typed /\ Told
<1> SUFFICES ASSUME Init PROVE Typed /\ Told
  OBVIOUS
<1>1. NoRow \in Rows /\ NoCall \in Calls /\ NoEx \in Execs
  BY NoCallTyped DEF NoRow, Run, Rows, NoEx, Ex, Execs, Pcs
<1>2. row \in [Items -> Products]
  BY DEF Init, Product, Products
<1>3. setting \in [Timed -> [enabled : BOOLEAN, due : BOOLEAN]]
  BY DEF Init
<1>a. run \in [Runs -> Rows] /\ call \in [Clients -> Calls] /\ ex \in [Workers -> Execs]
  BY <1>1 DEF Init
<1>b. /\ bg \in [Runs -> {"none", "pending", "queued", "running", "done", "failed"}]
      /\ lock \in [{"product", "order"} -> Workers \cup {Nobody}]
      /\ plat \in [Items -> {"selling", "offline", "deleted"}]
  BY DEF Init
<1>4. Typed
  <2> USE <1>a, <1>b, <1>2, <1>3 DEF Typed
  <2>1. scen \in Scenarios /\ lost \subseteq Runs /\ gone \subseteq Items
    BY DEF Init
  <2>2. verify \in BOOLEAN /\ broken \in BOOLEAN
    BY DEF Init
  <2>3. faults \in 0..MaxFaults /\ crashes \in 0..MaxCrashes
    BY BoundAssumption DEF Init
  <2> QED BY <2>1, <2>2, <2>3
<1>5. /\ \A r \in Runs : bg[r] = "none"
      /\ \A c \in Clients : call[c].pc = "idle"
      /\ \A w \in Workers : ex[w].pc = "idle"
      /\ lost = {}
  BY DEF Init, NoCall, Call, NoEx, Ex
<1>6. Told
  BY <1>5 DEF Told, Held, OneWorker, Kept, LostIsSettled, LostAnswerIsTold, Busy, Ending
<1> QED BY <1>4, <1>6

LEMMA StepTold == Typed /\ Told /\ [Next]_vars => Typed' /\ Told'
<1> SUFFICES ASSUME Typed, Told, [Next]_vars PROVE Typed' /\ Told'
  OBVIOUS
<1>a. Held /\ Kept
  BY DEF Told
<1>1. CASE Requests \/ VerifyOperation \/ VerifyPublish
  BY <1>1, RequestsTyped, RequestsTold
<1>2. CASE Environment \/ Sweeps
  BY <1>2, AroundTyped, AroundTold
<1>3. ASSUME NEW c \in Clients, ClientNext(c) PROVE Typed' /\ Told'
  BY <1>3, <1>a, ClientTyped, ClientTold
<1>4. ASSUME NEW w \in Workers, Claim(w) \/ WorkerStep(w) PROVE Typed' /\ Told'
  BY <1>4, <1>a, WorkerTyped, WorkerTold
<1>5. CASE UNCHANGED vars
  <2>1. Typed'
    BY <1>5 DEF vars, Typed
  <2> QED BY <1>5, <2>1, ElsewhereTold DEF vars
<1> QED BY <1>1, <1>2, <1>3, <1>4, <1>5 DEF Next

(* Type correctness.                                                       *)
THEOREM TypeCorrect == Spec => []TypeOK
<1>1. Typed => TypeOK
  BY DEF Typed, TypeOK, Rows, Products
<1> QED BY <1>1, InitTold, StepTold, PTL DEF Spec

(* No two workers execute the same run, whatever pushes and sweeps hand    *)
(* out and whatever crashes.                                               *)
THEOREM RunsAreTakenOnce == Spec => []OneWorker
<1>1. Told => OneWorker
  BY DEF Told
<1> QED BY <1>1, InitTold, StepTold, PTL DEF Spec

(* A run of which the answer to a write was lost is never told as a        *)
(* success or a plain failure by the worker that executed it.              *)
THEOREM LostAnswersAreTold == Spec => []LostAnswerIsTold
<1>1. Told => LostAnswerIsTold
  BY DEF Told
<1> QED BY <1>1, InitTold, StepTold, PTL DEF Spec

-----------------------------------------------------------------------------
(* The catalogue.                                                          *)

Outside == {"idle", "start", "lock"}
RowKept(i) == /\ row'[i].missing = row[i].missing \/ row'[i].missing = 0
              /\ row'[i].status = "not_selling" => row[i].status = "not_selling"

(* Worker w moves on or stops and no list is read or applied, no product   *)
(* written.                                                                *)
Plain(w) ==
    /\ UNCHANGED <<gone, broken>> /\ (UNCHANGED faults \/ Fault)
    /\ \A v \in Workers \ {w} : ex'[v] = ex[v]
    /\ ex'[w].pc # "apply"
    /\ ex'[w].late = ex[w].late \/ ex'[w].late = {}
    /\ \A i \in Items : RowKept(i)
    /\ \/ /\ UNCHANGED lock /\ ex'[w].run = ex[w].run
          /\ ex'[w].pc \notin Outside => ex[w].pc \notin Outside
       \/ UNCHANGED lock /\ ex'[w].pc \in Outside
       \/ \E ok \in BOOLEAN : End(w, ok)

LEMMA EndPlain == ASSUME Typed, NEW w \in Workers, NEW ok, End(w, ok)
                  PROVE  /\ \A v \in Workers \ {w} : ex'[v] = ex[v]
                         /\ ex'[w].pc = "idle" /\ ex'[w].late = {}
BY DEF End, Typed, NoEx, Ex

LEMMA RowsSame == ASSUME UNCHANGED row PROVE \A i \in Items : RowKept(i)
BY DEF RowKept

LEMMA ToPlain ==
    ASSUME Typed, NEW w \in Workers, NEW pc, To(w, pc), pc # "apply", ex[w].pc \notin Outside,
           UNCHANGED <<gone, broken, faults, row, lock>>
    PROVE  Plain(w)
<1>1. /\ \A v \in Workers \ {w} : ex'[v] = ex[v]
      /\ ex'[w].pc = pc /\ ex'[w].late = ex[w].late /\ ex'[w].run = ex[w].run
  BY DEF To, Typed, Execs
<1> QED BY <1>1, RowsSame DEF Plain

LEMMA BeginsPlain ==
    ASSUME Typed, NEW w \in Workers,
           \/ Claim(w) \/ StartRun(w) \/ LockTimeout(w) \/ ListFails(w) \/ ReadCandidates(w)
           \/ ItemsDone(w) \/ ListOrders(w) \/ ListOrdersFails(w) \/ OrderApply(w)
    PROVE  Plain(w)
<1>a. ex \in [Workers -> Execs]
  BY DEF Typed
<1>1. CASE Claim(w)
  <2>1. \E r \in Runs : ex' = [ex EXCEPT ![w] = Ex("start", r)]
    BY <1>1 DEF Claim
  <2>2. \A v \in Workers \ {w} : ex'[v] = ex[v]
    BY <1>a, <2>1
  <2>3. ex'[w].pc = "start" /\ ex'[w].late = {}
    BY <1>a, <2>1 DEF Ex
  <2> QED BY <1>1, <2>2, <2>3, RowsSame DEF Claim, Plain, Outside
<1>2. CASE StartRun(w)
  <2>1. CASE run[ex[w].run].status \in Active
    <3>1. /\ \A v \in Workers \ {w} : ex'[v] = ex[v]
          /\ ex'[w].pc = "lock" /\ ex'[w].late = ex[w].late
      BY <1>a, <1>2, <2>1 DEF StartRun, To, Execs
    <3> QED BY <1>2, <2>1, <3>1, RowsSame DEF StartRun, Plain, Outside
  <2>2. CASE run[ex[w].run].status \notin Active
    <3> DEFINE ok == run[ex[w].run].status \in {"success", "partial_success"}
    <3>1. End(w, ok) /\ ok \in BOOLEAN
      BY <1>2, <2>2 DEF StartRun
    <3> HIDE DEF ok
    <3> QED BY <1>2, <3>1, EndPlain, RowsSame DEF StartRun, Plain
  <2> QED BY <2>1, <2>2
<1>3. CASE LockTimeout(w)
  BY <1>3, EndPlain, RowsSame DEF LockTimeout, Plain
<1>4. CASE ListOrders(w) \/ OrderApply(w)
  BY <1>4, ToPlain DEF ListOrders, OrderApply, WorksOrders, Outside
<1>5. CASE ListFails(w) \/ ListOrdersFails(w)
  <2>1. PICK e \in Execs : /\ ex' = [ex EXCEPT ![w] = e]
                           /\ e.pc = "mergeError" /\ e.late = ex[w].late /\ e.run = ex[w].run
    <3>1. \A out \in Ended, b \in BOOLEAN :
             /\ [ex[w] EXCEPT !.pc = "mergeError", !.out = out] \in Execs
             /\ [ex[w] EXCEPT !.pc = "mergeError", !.out = out, !.bad = b] \in Execs
      BY <1>a DEF Execs, Pcs
    <3>2. CASE ListFails(w)
      <4>1. PICK out \in Ended : ex' = [ex EXCEPT ![w] = [ex[w] EXCEPT !.pc = "mergeError", !.out = out]]
        BY <3>2 DEF ListFails, Ended
      <4>2. [ex[w] EXCEPT !.pc = "mergeError", !.out = out] \in Execs
        BY <1>a DEF Execs, Pcs
      <4> WITNESS [ex[w] EXCEPT !.pc = "mergeError", !.out = out] \in Execs
      <4> QED BY <1>a, <4>1 DEF Execs
    <3>3. CASE ListOrdersFails(w)
      <4>1. PICK b \in BOOLEAN :
               ex' = [ex EXCEPT ![w] = [ex[w] EXCEPT !.pc = "mergeError", !.out = "failed", !.bad = b]]
        BY <3>3 DEF ListOrdersFails
      <4>2. [ex[w] EXCEPT !.pc = "mergeError", !.out = "failed", !.bad = b] \in Execs
        BY <3>1 DEF Ended
      <4> WITNESS [ex[w] EXCEPT !.pc = "mergeError", !.out = "failed", !.bad = b] \in Execs
      <4> QED BY <1>a, <4>1 DEF Execs
    <3> QED BY <1>5, <3>2, <3>3
  <2>2. ex[w].pc \notin Outside /\ UNCHANGED <<gone, broken, row, lock>> /\ Fault
    BY <1>5 DEF ListFails, ListOrdersFails, Works, WorksOrders, Outside
  <2> QED BY <1>a, <2>1, <2>2, RowsSame DEF Plain
<1>6. CASE ReadCandidates(w)
  <2>1. /\ \A v \in Workers \ {w} : ex'[v] = ex[v]
        /\ ex'[w].pc = "item" /\ ex'[w].late = ex[w].late /\ ex'[w].run = ex[w].run
    BY <1>a, <1>6 DEF ReadCandidates, Execs
  <2> QED BY <1>6, <2>1, RowsSame DEF ReadCandidates, Plain, Outside
<1>7. CASE ItemsDone(w)
  <2>1. /\ \A v \in Workers \ {w} : ex'[v] = ex[v]
        /\ ex'[w].pc = "finish" /\ ex'[w].late = ex[w].late /\ ex'[w].run = ex[w].run
    BY <1>a, <1>7 DEF ItemsDone, Execs
  <2> QED BY <1>7, <2>1, RowsSame DEF ItemsDone, Plain, Outside
<1> QED BY <1>1, <1>2, <1>3, <1>4, <1>5, <1>6, <1>7

LEMMA EndsPlain ==
    ASSUME Typed, NEW w \in Workers,
           \/ FinishRun(w) \/ MergeCookie(w) \/ MergeAfterError(w) \/ OrderMerge(w) \/ OrderFinish(w)
    PROVE  Plain(w)
<1>1. ASSUME NEW ok \in BOOLEAN, End(w, ok), UNCHANGED <<gone, broken, row>>, UNCHANGED faults \/ Fault
      PROVE  Plain(w)
  BY <1>1, EndPlain, RowsSame DEF Plain
<1>2. CASE FinishRun(w)
  BY <1>2, ToPlain DEF FinishRun, Outside
<1>3. CASE MergeCookie(w)
  <2>1. \E ok \in BOOLEAN : End(w, ok)
    BY <1>3 DEF MergeCookie, Ok
  <2> QED BY <1>1, <1>3, <2>1 DEF MergeCookie
<1>4. CASE MergeAfterError(w)
  <2>1. \E ok \in BOOLEAN : End(w, ok)
    BY <1>4 DEF MergeAfterError
  <2> QED BY <1>1, <1>4, <2>1 DEF MergeAfterError
<1>5. CASE OrderMerge(w)
  BY <1>1, <1>5, ToPlain DEF OrderMerge, Outside
<1>6. CASE OrderFinish(w)
  BY <1>1, <1>6 DEF OrderFinish
<1> QED BY <1>2, <1>3, <1>4, <1>5, <1>6

LEMMA PolishPlain ==
    ASSUME Typed, NEW w \in Workers, NEW i \in Items,
           \/ PolishItem(w, i) \/ PolishFails(w, i) \/ AlreadyDeleted(w, i)
           \/ \E op \in Writes : WriteLost(w, op, i) \/ WriteRefused(w, op, i)
    PROVE  Plain(w)
<1>1. /\ UNCHANGED <<gone, broken, lock>> /\ (UNCHANGED faults \/ Fault) /\ ex[w].pc = "item"
  BY DEF PolishItem, PolishFails, AlreadyDeleted, WriteLost, WriteRefused, Acts
<1>2. /\ \A v \in Workers \ {w} : ex'[v] = ex[v]
      /\ ex'[w].pc = ex[w].pc /\ ex'[w].late = ex[w].late /\ ex'[w].run = ex[w].run
  <2>a. ex \in [Workers -> Execs]
    BY DEF Typed
  <2>1. CASE PolishItem(w, i) \/ PolishFails(w, i) \/ AlreadyDeleted(w, i)
    BY <2>a, <2>1 DEF PolishItem, PolishFails, AlreadyDeleted, Execs
  <2>2. ASSUME NEW op \in Writes, WriteLost(w, op, i)
        PROVE  /\ \A v \in Workers \ {w} : ex'[v] = ex[v]
               /\ ex'[w].pc = ex[w].pc /\ ex'[w].late = ex[w].late /\ ex'[w].run = ex[w].run
    BY <2>a, <2>2 DEF WriteLost, Execs
  <2>3. ASSUME NEW op \in Writes, WriteRefused(w, op, i)
        PROVE  /\ \A v \in Workers \ {w} : ex'[v] = ex[v]
               /\ ex'[w].pc = ex[w].pc /\ ex'[w].late = ex[w].late /\ ex'[w].run = ex[w].run
    BY <2>a, <2>3 DEF WriteRefused, Execs
  <2> QED BY <2>1, <2>2, <2>3
<1>3. \A j \in Items : RowKept(j)
  <2>1. CASE UNCHANGED row
    BY <2>1, RowsSame
  <2>2. CASE PolishItem(w, i)
    BY <2>2 DEF PolishItem, RowKept, Typed, Products
  <2>3. CASE AlreadyDeleted(w, i)
    BY <2>3 DEF AlreadyDeleted, MarkItemStatus, Product, RowKept, Typed, Products
  <2> QED BY <2>1, <2>2, <2>3 DEF PolishFails, WriteLost, WriteRefused
<1> QED BY <1>1, <1>2, <1>3 DEF Plain, Outside

(* The operation of a run that exists never changes.                       *)
OpsStay == \A r \in Runs : run[r].status # "none" => run'[r].op = run[r].op

LEMMA RowOps == ASSUME Typed, NEW r, NEW status, NEW error, Row(r, status, error) PROVE OpsStay
BY DEF OpsStay, Row, Typed, Rows

LEMMA OpsStayStep == ASSUME Typed, Told, [Next]_vars PROVE OpsStay
<1>0. ASSUME UNCHANGED run PROVE OpsStay
  BY <1>0 DEF OpsStay
<1>1. CASE Requests \/ VerifyOperation \/ VerifyPublish
  BY <1>0, <1>1 DEF Requests, VerifyOperation, VerifyPublish, Request, Becomes, ScanDue, UpdateSetting
<1>2. CASE Environment \/ Sweeps
  BY <1>0, <1>2 DEF Environment, Sweeps, DeleteLocalItem, SellerActs, Midnight, Crash, CallStops,
                    LockLost, LeaseSweep, LockExpires
<1>3. ASSUME NEW c \in Clients, ClientNext(c) PROVE OpsStay
  <2>1. CASE ReadActive(c) \/ EnsureBackground(c)
    BY <1>0, <2>1 DEF ReadActive, EnsureBackground
  <2>2. CASE InsertRun(c)
    BY <2>2 DEF InsertRun, Free, OpsStay, Typed
  <2>3. CASE Push(c)
    BY <1>0, <2>3, RowOps DEF Push, Row
  <2> QED BY <1>3, <2>1, <2>2, <2>3 DEF ClientNext
<1>4. ASSUME NEW w \in Workers, Claim(w) \/ WorkerStep(w) PROVE OpsStay
  <2>1. UNCHANGED run \/ \E status, error : Row(ex[w].run, status, error)
    <3>1. CASE \/ Claim(w) \/ AcquireLock(w) \/ ListSelling(w) \/ ListFails(w) \/ ApplySync(w)
               \/ ReadCandidates(w) \/ ItemsDone(w) \/ ListOrders(w) \/ ListOrdersFails(w)
               \/ OrderApply(w)
      BY <3>1 DEF Claim, AcquireLock, ListSelling, ListFails, ApplySync, ReadCandidates, ItemsDone,
                  ListOrders, ListOrdersFails, OrderApply
    <3>2. CASE \/ StartRun(w) \/ LockTimeout(w) \/ FinishRun(w) \/ MergeCookie(w)
               \/ MergeAfterError(w) \/ OrderMerge(w) \/ OrderFinish(w)
      BY <3>2 DEF StartRun, LockTimeout, FinishRun, MergeCookie, MergeAfterError, OrderMerge,
                  OrderFinish
    <3>3. ASSUME NEW i \in Items,
                 \/ PolishItem(w, i) \/ PolishFails(w, i) \/ AlreadyDeleted(w, i)
                 \/ \E op \in Writes : WriteItem(w, op, i) \/ WriteLost(w, op, i) \/ WriteRefused(w, op, i)
          PROVE  UNCHANGED run
      BY <3>3 DEF PolishItem, PolishFails, AlreadyDeleted, WriteItem, WriteLost, WriteRefused
    <3> QED BY <1>4, <3>1, <3>2, <3>3 DEF WorkerStep
  <2> QED BY <1>0, <2>1, RowOps
<1>5. CASE UNCHANGED vars
  BY <1>0, <1>5 DEF vars
<1> QED BY <1>1, <1>2, <1>3, <1>4, <1>5 DEF Next

(* The operation a worker is busy with stays the same.                     *)
LEMMA BusyOps ==
    ASSUME Typed, Told, OpsStay, NEW w \in Workers, Busy(w)
    PROVE  run'[ex[w].run].op = run[ex[w].run].op
BY DEF Told, Held, Exists, OpsStay

LEMMA InsideStays ==
    ASSUME Typed, Told, OpsStay, NEW v \in Workers, NEW l, ex'[v].run = ex[v].run,
           ex'[v].pc \notin Outside => ex[v].pc \notin Outside, Inside(v, l)'
    PROVE  Inside(v, l)
<1>1. ex[v].pc \notin Outside /\ Busy(v)
  BY DEF Inside, Outside, Busy
<1>2. run'[ex[v].run].op = run[ex[v].run].op
  BY <1>1, BusyOps
<1> QED BY <1>1, <1>2 DEF Inside, Outside

(* A product that is not in doubt stays so while no list is read or        *)
(* applied.                                                                *)
LEMMA DoubtKept ==
    ASSUME Typed, OneDoubt, gone \subseteq gone', UNCHANGED faults \/ Fault,
           \A i \in Items : RowKept(i),
           \A w \in Workers, i \in Items : Suspects(w, i)' => Suspects(w, i)
    PROVE  OneDoubt'
<1>1. faults \in Nat /\ faults' \in Nat /\ faults <= faults'
  BY DEF Typed, Fault
<1> SUFFICES ASSUME faults' <= 1, NEW i \in Items \ gone'
             PROVE  /\ row'[i].status # "not_selling"
                    /\ \/ row'[i].missing = 0
                       \/ row'[i].missing = 1 /\ \A w \in Workers : ~Suspects(w, i)'
                    /\ \A v \in Workers, w \in Workers : Suspects(v, i)' /\ Suspects(w, i)' => v = w
                    /\ faults' = 0 => row'[i].missing = 0 /\ \A w \in Workers : ~Suspects(w, i)'
  BY DEF OneDoubt
<1>2. faults <= 1 /\ i \in Items \ gone /\ (faults' = 0 => faults = 0)
  BY <1>1
<1>3. /\ row[i].status # "not_selling"
      /\ row[i].missing = 0 \/ (row[i].missing = 1 /\ \A w \in Workers : ~Suspects(w, i))
      /\ \A v \in Workers, w \in Workers : Suspects(v, i) /\ Suspects(w, i) => v = w
      /\ faults = 0 => row[i].missing = 0 /\ \A w \in Workers : ~Suspects(w, i)
  BY <1>2 DEF OneDoubt
<1>4. RowKept(i) /\ \A w \in Workers : Suspects(w, i)' => Suspects(w, i)
  OBVIOUS
<1> HIDE DEF Suspects
<1> QED BY <1>2, <1>3, <1>4 DEF RowKept

LEMMA StillCatalogue ==
    ASSUME Typed, Told, OpsStay, CatalogueInv, UNCHANGED <<ex, lock, gone, broken>>,
           UNCHANGED faults \/ Fault, \A i \in Items : RowKept(i)
    PROVE  CatalogueInv'
<1>1. LocksHeld'
  BY InsideStays DEF CatalogueInv, LocksHeld
<1>2. NothingLate'
  BY DEF CatalogueInv, NothingLate
<1>3. OneDoubt'
  BY DoubtKept DEF CatalogueInv, Suspects
<1> QED BY <1>1, <1>2, <1>3 DEF CatalogueInv

LEMMA PlainCatalogue ==
    ASSUME Typed, Told, OpsStay, CatalogueInv, NEW w \in Workers, Plain(w)
    PROVE  CatalogueInv'
<1>1. LocksHeld'
  <2> SUFFICES ASSUME ~broken, NEW v \in Workers, NEW l \in {"product", "order"}, Inside(v, l)'
               PROVE  lock'[l] = v
    BY DEF LocksHeld, Plain
  <2>1. CASE v # w
    <3>1. Inside(v, l)
      BY <2>1, InsideStays DEF Plain
    <3>2. lock[l] = v
      BY <3>1 DEF CatalogueInv, LocksHeld
    <3> QED BY <2>1, <3>2 DEF Plain, End, Typed
  <2>2. CASE v = w
    <3>1. ex'[w].pc \notin Outside
      BY <2>2 DEF Inside, Outside
    <3>2. \A ok : ~End(w, ok)
      BY <3>1, EndPlain DEF Outside
    <3>3. /\ UNCHANGED lock /\ ex'[w].run = ex[w].run
          /\ ex'[w].pc \notin Outside => ex[w].pc \notin Outside
      BY <3>1, <3>2 DEF Plain
    <3>4. Inside(v, l)
      BY <2>2, <3>3, InsideStays
    <3> QED BY <3>3, <3>4 DEF CatalogueInv, LocksHeld
  <2> QED BY <2>1, <2>2
<1>2. NothingLate'
  BY DEF CatalogueInv, NothingLate, Plain
<1>3. OneDoubt'
  <2>1. \A v \in Workers, i \in Items : Suspects(v, i)' => Suspects(v, i)
    BY DEF Suspects, Plain
  <2> QED BY <2>1, DoubtKept DEF CatalogueInv, Plain
<1> QED BY <1>1, <1>2, <1>3 DEF CatalogueInv

LEMMA AcquireCatalogue ==
    ASSUME Typed, Told, OpsStay, CatalogueInv, NEW w \in Workers, AcquireLock(w)
    PROVE  CatalogueInv'
<1>a. /\ ex[w].pc = "lock" /\ UNCHANGED <<run, row, gone, broken, faults>>
      /\ lock[LockOf(run[ex[w].run].op)] = Nobody
      /\ lock' = [lock EXCEPT ![LockOf(run[ex[w].run].op)] = w]
  BY DEF AcquireLock
<1>b. /\ \A v \in Workers \ {w} : ex'[v] = ex[v]
      /\ ex'[w].pc = "work" /\ ex'[w].late = ex[w].late /\ ex'[w].run = ex[w].run
  BY DEF AcquireLock, To, Typed, Execs
<1>1. LocksHeld'
  <2> SUFFICES ASSUME ~broken, NEW v \in Workers, NEW l \in {"product", "order"}, Inside(v, l)'
               PROVE  lock'[l] = v
    BY <1>a DEF LocksHeld
  <2>1. CASE v # w
    <3>1. Inside(v, l)
      BY <2>1, <1>b, InsideStays
    <3>2. lock[l] = v
      BY <3>1 DEF CatalogueInv, LocksHeld
    <3> QED BY <1>a, <3>2, NamesAssumption DEF Typed
  <2>2. CASE v = w
    <3>1. l = LockOf(run[ex[w].run].op)
      BY <2>2, <1>a, <1>b DEF Inside
    <3> QED BY <2>2, <3>1, <1>a DEF Typed
  <2> QED BY <2>1, <2>2
<1>2. NothingLate'
  BY <1>a, <1>b DEF CatalogueInv, NothingLate
<1>3. OneDoubt'
  <2>1. \A v \in Workers, i \in Items : Suspects(v, i)' => Suspects(v, i)
    BY <1>b DEF Suspects
  <2> QED BY <1>a, <2>1, RowsSame, DoubtKept DEF CatalogueInv
<1> QED BY <1>1, <1>2, <1>3 DEF CatalogueInv

(* Only a worker that holds the lock of the products writes one, so no     *)
(* other one is about to apply a list.                                     *)
LEMMA WriteCatalogue ==
    ASSUME Typed, Told, OpsStay, CatalogueInv, NEW w \in Workers, NEW i \in Items,
           NEW op \in Writes, WriteItem(w, op, i)
    PROVE  CatalogueInv'
<1>a. /\ UNCHANGED <<run, lock, gone, broken, faults>>
      /\ ex[w].pc = "item" /\ run[ex[w].run].op = op
  BY DEF WriteItem, Acts
<1>b. \A v \in Workers : /\ ex'[v].pc = ex[v].pc /\ ex'[v].run = ex[v].run
                         /\ ex'[v].whole = ex[v].whole /\ ex'[v].seen = ex[v].seen
                         /\ ex'[v].late = ex[v].late \/ (v # w /\ ex[v].pc = "apply")
  BY <1>a DEF WriteItem, Typed, Execs
<1>1. LocksHeld'
  BY <1>a, <1>b, InsideStays DEF CatalogueInv, LocksHeld
<1>2. NothingLate'
  <2> SUFFICES ASSUME ~broken, NEW v \in Workers PROVE ex'[v].late = {}
    BY <1>a DEF NothingLate
  <2>1. Inside(w, "product")
    BY <1>a DEF Inside, LockOf, Orders, Writes
  <2>2. ex[v].pc = "apply" => Inside(v, "product")
    BY DEF Inside, LockOf, Orders, Told, Kept
  <2>3. ~(v # w /\ ex[v].pc = "apply")
    BY <2>1, <2>2 DEF CatalogueInv, LocksHeld
  <2> QED BY <1>b, <2>3 DEF CatalogueInv, NothingLate
<1>3. OneDoubt'
  <2>1. \A v \in Workers, j \in Items : Suspects(v, j)' => Suspects(v, j)
    BY <1>b DEF Suspects
  <2>2. \A j \in Items : RowKept(j)
    BY DEF WriteItem, MarkItemStatus, Product, Result, RowKept, Typed, Products
  <2> QED BY <1>a, <2>1, <2>2, DoubtKept DEF CatalogueInv
<1> QED BY <1>1, <1>2, <1>3 DEF CatalogueInv

(* A list that misses a product for sale costs a fault, and a whole list   *)
(* shows what is not for sale.                                             *)
LEMMA ListCatalogue ==
    ASSUME Typed, Told, OpsStay, CatalogueInv, NEW w \in Workers, ListSelling(w)
    PROVE  CatalogueInv'
<1>1. PICK whole \in {FALSE, run[ex[w].run].full}, seen \in SUBSET Selling :
         /\ \/ whole /\ seen = Selling /\ UNCHANGED faults
            \/ whole /\ Fault
            \/ ~whole /\ UNCHANGED faults
         /\ ex' = [ex EXCEPT ![w].pc = "apply", ![w].seen = seen, ![w].whole = whole]
         /\ gone' = IF whole THEN gone \cup (Items \ Selling) ELSE gone
  BY DEF ListSelling
<1>2. ex[w].pc = "work" /\ UNCHANGED <<run, lock, row, broken>>
  BY DEF ListSelling, Works
<1>3. /\ \A v \in Workers \ {w} : ex'[v] = ex[v]
      /\ ex'[w].pc = "apply" /\ ex'[w].late = ex[w].late /\ ex'[w].run = ex[w].run
      /\ ex'[w].seen = seen /\ ex'[w].whole = whole
  BY <1>1 DEF Typed, Execs
<1>4. LocksHeld'
  <2>1. \A v \in Workers : /\ ex'[v].run = ex[v].run
                           /\ ex'[v].pc \notin Outside => ex[v].pc \notin Outside
    BY <1>2, <1>3 DEF Outside
  <2> QED BY <1>2, <2>1, InsideStays DEF CatalogueInv, LocksHeld
<1>5. NothingLate'
  BY <1>2, <1>3 DEF CatalogueInv, NothingLate
<1>6. OneDoubt'
  <2>1. \A i \in Items : \A v \in Workers : Suspects(v, i)' => Suspects(v, i) \/ v = w
    BY <1>3 DEF Suspects
  <2>2. ASSUME ~(whole /\ Fault)
        PROVE  \A i \in Items \ gone' : ~Suspects(w, i)'
    BY <1>1, <1>3, <2>2 DEF Suspects
  <2>3. faults \in Nat /\ gone \subseteq gone'
    BY <1>1 DEF Typed
  <2>4. CASE ~(whole /\ Fault)
    <3>1. UNCHANGED faults
      BY <1>1, <2>4
    <3> SUFFICES ASSUME faults <= 1, NEW i \in Items \ gone'
                 PROVE  /\ row[i].status # "not_selling"
                        /\ \/ row[i].missing = 0
                           \/ row[i].missing = 1 /\ \A v \in Workers : ~Suspects(v, i)'
                        /\ \A u \in Workers, v \in Workers : Suspects(u, i)' /\ Suspects(v, i)' => u = v
                        /\ faults = 0 => row[i].missing = 0 /\ \A v \in Workers : ~Suspects(v, i)'
      BY <1>2, <3>1 DEF OneDoubt
    <3>2. \A v \in Workers : Suspects(v, i)' => Suspects(v, i)
      BY <2>1, <2>2, <2>4
    <3>3. /\ row[i].status # "not_selling"
          /\ row[i].missing = 0 \/ (row[i].missing = 1 /\ \A v \in Workers : ~Suspects(v, i))
          /\ \A u \in Workers, v \in Workers : Suspects(u, i) /\ Suspects(v, i) => u = v
          /\ faults = 0 => row[i].missing = 0 /\ \A v \in Workers : ~Suspects(v, i)
      BY <2>3 DEF CatalogueInv, OneDoubt
    <3> QED BY <3>2, <3>3
  <2>5. CASE whole /\ Fault
    <3>1. faults' = faults + 1
      BY <2>5 DEF Fault
    <3> SUFFICES ASSUME faults' <= 1, NEW i \in Items \ gone'
                 PROVE  /\ row[i].status # "not_selling" /\ row[i].missing = 0
                        /\ \A u \in Workers, v \in Workers : Suspects(u, i)' /\ Suspects(v, i)' => u = v
      BY <1>2, <2>3, <3>1 DEF OneDoubt
    <3>2. faults = 0 /\ i \in Items \ gone
      BY <2>3, <3>1
    <3>3. /\ row[i].status # "not_selling" /\ row[i].missing = 0
          /\ \A v \in Workers : ~Suspects(v, i)
      BY <3>2 DEF CatalogueInv, OneDoubt
    <3> QED BY <2>1, <3>3
  <2> QED BY <2>4, <2>5
<1> QED BY <1>4, <1>5, <1>6 DEF CatalogueInv

(* A list about to be applied makes a product that was always for sale     *)
(* doubtful once, never not_selling.                                       *)
LEMMA ApplyCatalogue ==
    ASSUME Typed, Told, OpsStay, CatalogueInv, NEW w \in Workers, ApplySync(w)
    PROVE  CatalogueInv'
<1>1. ex[w].pc = "apply" /\ UNCHANGED <<run, lock, gone, broken, faults>>
  BY DEF ApplySync
<1>2. /\ \A v \in Workers \ {w} : ex'[v] = ex[v]
      /\ ex'[w].pc = "finish" /\ ex'[w].late = ex[w].late /\ ex'[w].run = ex[w].run
  BY DEF ApplySync, Typed, Execs
<1>3. LocksHeld'
  <2>1. \A v \in Workers : /\ ex'[v].run = ex[v].run
                           /\ ex'[v].pc \notin Outside => ex[v].pc \notin Outside
    BY <1>1, <1>2 DEF Outside
  <2> QED BY <1>1, <2>1, InsideStays DEF CatalogueInv, LocksHeld
<1>4. NothingLate'
  BY <1>1, <1>2 DEF CatalogueInv, NothingLate
<1>5. OneDoubt'
  <2> SUFFICES ASSUME faults <= 1, NEW i \in Items \ gone
               PROVE  /\ row'[i].status # "not_selling"
                      /\ \/ row'[i].missing = 0
                         \/ row'[i].missing = 1 /\ \A v \in Workers : ~Suspects(v, i)'
                      /\ \A u \in Workers, v \in Workers : Suspects(u, i)' /\ Suspects(v, i)' => u = v
                      /\ faults = 0 => row'[i].missing = 0 /\ \A v \in Workers : ~Suspects(v, i)'
    BY <1>1 DEF OneDoubt
  <2>1. /\ row[i].status # "not_selling"
        /\ row[i].missing = 0 \/ (row[i].missing = 1 /\ \A v \in Workers : ~Suspects(v, i))
        /\ \A u \in Workers, v \in Workers : Suspects(u, i) /\ Suspects(v, i) => u = v
        /\ faults = 0 => row[i].missing = 0 /\ \A v \in Workers : ~Suspects(v, i)
    BY DEF CatalogueInv, OneDoubt
  <2>2. \A v \in Workers : Suspects(v, i)' => Suspects(v, i) /\ v # w
    BY <1>2 DEF Suspects
  <2>3. row[i] \in Products
    BY DEF Typed
  <2>4. CASE ~Suspects(w, i)
    <3>1. row'[i] = row[i] \/ row'[i] = Product("selling", "current", 0, row[i].today)
      BY <1>1, <2>4 DEF ApplySync, Suspects
    <3>2. RowKept(i)
      BY <3>1, <2>1 DEF RowKept, Product
    <3> QED BY <2>1, <2>2, <3>2 DEF RowKept
  <2>5. CASE Suspects(w, i)
    <3>1. row[i].missing = 0 /\ faults # 0
      BY <2>1, <2>5
    <3>2. \A v \in Workers : ~Suspects(v, i)'
      BY <2>1, <2>2, <2>5
    <3>3. row'[i] = row[i] \/ row'[i] = Unseen(row[i])
      BY <2>5 DEF ApplySync, Suspects
    <3>4. Missed(row[i]).missing = 1 /\ Missed(row[i]).status = row[i].status
      BY <2>3, <3>1 DEF Missed, Products
    <3>5. /\ Unseen(row[i]).status = row[i].status
          /\ Unseen(row[i]).missing = 0 \/ Unseen(row[i]).missing = 1
      BY <2>3, <3>1, <3>4 DEF Unseen, Products
    <3> QED BY <2>1, <3>1, <3>2, <3>3, <3>5
  <2> QED BY <2>4, <2>5
<1> QED BY <1>3, <1>4, <1>5 DEF CatalogueInv

LEMMA WorkerCatalogue ==
    ASSUME Typed, Told, OpsStay, CatalogueInv, NEW w \in Workers, Claim(w) \/ WorkerStep(w)
    PROVE  CatalogueInv'
<1>1. \/ Plain(w) \/ AcquireLock(w) \/ ListSelling(w) \/ ApplySync(w)
      \/ \E i \in Items, op \in Writes : WriteItem(w, op, i)
  BY BeginsPlain, EndsPlain, PolishPlain DEF WorkerStep
<1> QED BY <1>1, PlainCatalogue, AcquireCatalogue, ListCatalogue, ApplyCatalogue, WriteCatalogue

LEMMA AroundCatalogue ==
    ASSUME Typed, Told, OpsStay, CatalogueInv, Environment \/ Sweeps
    PROVE  CatalogueInv'
<1>1. ASSUME NEW i \in Items, DeleteLocalItem(i) \/ SellerActs(i) PROVE CatalogueInv'
  <2>1. \A j \in Items : RowKept(j)
    BY <1>1 DEF DeleteLocalItem, SellerActs, RowKept, Product, Typed
  <2> QED BY <1>1, <2>1, StillCatalogue DEF DeleteLocalItem, SellerActs
<1>2. CASE Midnight
  <2>1. \A j \in Items : RowKept(j)
    <3> TAKE j \in Items
    <3>1. row[j] \in Products /\ row'[j] = [row[j] EXCEPT !.today = FALSE]
      BY <1>2 DEF Midnight, Typed
    <3> QED BY <3>1 DEF RowKept, Products
  <2> QED BY <1>2, <2>1, StillCatalogue DEF Midnight
<1>3. ASSUME NEW w \in Workers, Crash(w) PROVE CatalogueInv'
  <2>1. /\ \A v \in Workers \ {w} : ex'[v] = ex[v]
        /\ ex'[w].pc = "idle" /\ ex'[w].late = {}
    BY <1>3 DEF Crash, NoEx, Ex, Typed
  <2>2. Plain(w)
    BY <1>3, <2>1, RowsSame DEF Crash, Plain, Outside
  <2> QED BY <2>2, PlainCatalogue
<1>4. ASSUME NEW c \in Clients, CallStops(c) PROVE CatalogueInv'
  BY <1>4, RowsSame, StillCatalogue DEF CallStops
<1>5. ASSUME NEW r \in Runs, LeaseSweep(r) PROVE CatalogueInv'
  BY <1>5, RowsSame, StillCatalogue DEF LeaseSweep
<1>6. ASSUME NEW l, LockLost(l) PROVE CatalogueInv'
  <2>1. LocksHeld' /\ NothingLate'
    BY <1>6 DEF LockLost, LocksHeld, NothingLate
  <2>2. OneDoubt'
    BY <1>6, RowsSame, DoubtKept DEF LockLost, CatalogueInv, Suspects
  <2> QED BY <2>1, <2>2 DEF CatalogueInv
<1>7. ASSUME NEW l, LockExpires(l) PROVE CatalogueInv'
  <2>0. UNCHANGED <<ex, row, gone, broken, faults>>
    BY <1>7 DEF LockExpires
  <2>1. LocksHeld'
    <3> SUFFICES ASSUME ~broken, NEW v \in Workers, NEW k \in {"product", "order"}, Inside(v, k)'
                 PROVE  lock'[k] = v
      BY <2>0 DEF LocksHeld
    <3>1. Inside(v, k)
      BY <2>0, InsideStays
    <3>2. lock[k] = v
      BY <3>1 DEF CatalogueInv, LocksHeld
    <3>3. k # l
      BY <1>7, <3>1, <3>2 DEF LockExpires
    <3> QED BY <1>7, <3>2, <3>3 DEF LockExpires, Typed
  <2>2. NothingLate'
    BY <2>0 DEF CatalogueInv, NothingLate
  <2>3. OneDoubt'
    BY <2>0, RowsSame, DoubtKept DEF CatalogueInv, Suspects
  <2> QED BY <2>1, <2>2, <2>3 DEF CatalogueInv
<1> QED BY <1>1, <1>2, <1>3, <1>4, <1>5, <1>6, <1>7 DEF Environment, Sweeps

LEMMA ClientCatalogue ==
    ASSUME Typed, Told, OpsStay, CatalogueInv,
           Requests \/ VerifyOperation \/ VerifyPublish \/ \E c \in Clients : ClientNext(c)
    PROVE  CatalogueInv'
<1>1. UNCHANGED <<ex, lock, gone, broken, row>> /\ (UNCHANGED faults \/ Fault)
  <2>1. CASE Requests \/ VerifyOperation \/ VerifyPublish
    BY <2>1 DEF Requests, VerifyOperation, VerifyPublish, Request, Becomes, ScanDue, UpdateSetting, elsewhere
  <2>2. ASSUME NEW c \in Clients, ClientNext(c)
        PROVE  UNCHANGED <<ex, lock, gone, broken, row>> /\ (UNCHANGED faults \/ Fault)
    BY <2>2 DEF ClientNext, ReadActive, InsertRun, EnsureBackground, Push, elsewhere
  <2> QED BY <2>1, <2>2
<1> QED BY <1>1, RowsSame, StillCatalogue

LEMMA InitCatalogue == Init => CatalogueInv
<1> SUFFICES ASSUME Init PROVE CatalogueInv
  OBVIOUS
<1>1. \A w \in Workers : ex[w].pc = "idle" /\ ex[w].late = {}
  BY DEF Init, NoEx, Ex
<1>2. \A i \in Items : row[i].status # "not_selling" /\ row[i].missing = 0
  BY DEF Init, Product
<1> QED BY <1>1, <1>2 DEF CatalogueInv, LocksHeld, NothingLate, OneDoubt, Inside, Suspects

LEMMA StepCatalogue == Typed /\ Told /\ CatalogueInv /\ [Next]_vars => CatalogueInv'
<1> SUFFICES ASSUME Typed, Told, CatalogueInv, [Next]_vars PROVE CatalogueInv'
  OBVIOUS
<1>1. OpsStay
  BY OpsStayStep
<1>2. CASE UNCHANGED vars
  BY <1>1, <1>2, RowsSame, StillCatalogue DEF vars
<1> QED BY <1>1, <1>2, WorkerCatalogue, AroundCatalogue, ClientCatalogue DEF Next

(* What apply_sync makes of the list of products is right: while at most   *)
(* one call failed, only a product that a list was read without is marked  *)
(* not_selling, and while the lock is kept no list brings back what        *)
(* another run took down.                                                  *)
THEOREM TheCatalogueIsRight == Spec => []CatalogueIsRight
<1>1. Typed /\ CatalogueInv => CatalogueIsRight
  <2> SUFFICES ASSUME Typed, CatalogueInv PROVE CatalogueIsRight
    OBVIOUS
  <2>1. NotSellingWasGone
    BY DEF CatalogueInv, OneDoubt, NotSellingWasGone
  <2>2. ListIsFresh
    BY DEF CatalogueInv, NothingLate, ListIsFresh
  <2> QED BY <2>1, <2>2 DEF CatalogueIsRight
<1> QED BY <1>1, InitTold, StepTold, InitCatalogue, StepCatalogue, PTL DEF Spec
=============================================================================
