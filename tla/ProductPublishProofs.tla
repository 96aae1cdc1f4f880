------------------------ MODULE ProductPublishProofs ------------------------
(***************************************************************************)
(* Proofs about ProductPublish for any number of tasks, requests, workers, *)
(* faults and crashes: a task makes at most one item, its retry only       *)
(* exists where it made none, what its row tells is true, and the image it *)
(* was created with stays until it has ended.                              *)
(***************************************************************************)
EXTENDS ProductPublish, SequenceTheorems, TLAPS

Rows == [status : Statuses, cert : Certainties, kind : Kinds,
         retryable : BOOLEAN, item : BOOLEAN, hidden : BOOLEAN,
         asset : BOOLEAN, of : Tasks \cup {NoTask}, key : Keys \cup {NoKey},
         mode : {"platform_api", "manual_export", "none"}]
Writes == [status : {"running"} \cup Ended, cert : Certainties, kind : Kinds,
           retryable : BOOLEAN, item : BOOLEAN]
Entry == [task : Tasks, write : Writes]
Pcs == {"idle", "byKey", "resolve", "create", "answer", "job", "retry", "hide", "enqueue",
        "bg", "push"}
Calls == [pc : Pcs, op : AllOps \cup {"none"}, task : Tasks \cup {NoTask},
          key : Keys \cup {NoKey}, mode : {"platform_api", "manual_export", "none"}, seen : Statuses]
Drafts == [status : {"none", "draft", "archived", "ready"}, uses : BOOLEAN]
Outs == {"none", "rejected", "network", "unknown", "listed", "notListed", "internal", "cookie_conflict"}
Execs == [pc : Inside \cup {"idle", "look", "lock"}, task : Tasks \cup {NoTask}, out : Outs]

Typed ==
    /\ scn \in Scenarios
    /\ task \in [Tasks -> Rows]
    /\ call \in [Callers -> Calls]
    /\ ex \in [Workers -> Execs]
    /\ wr \in [Workers -> Seq(Entry)]
    /\ lock \in Workers \cup {Nobody}
    /\ wire \subseteq Tasks
    /\ items \in [Tasks -> Nat]
    /\ ans \in [Tasks -> {"none", "ok", "noId", "refused"}]
    /\ draft \in Drafts
    /\ bg \in [Tasks -> Live \cup {"none", "done", "failed", "unqueued"}]

(* What a request, a background task or an execution is about exists.      *)
Exists(t) == t \in Tasks /\ task[t].status # "none"
Held ==
    /\ \A c \in Callers : call[c].pc \in {"answer", "bg", "push", "retry", "hide", "enqueue"}
                             => Exists(call[c].task)
    /\ \A w \in Workers : ex[w].pc # "idle" => Exists(ex[w].task)
    /\ \A w \in Workers : \A i \in 1..Len(wr[w]) : Exists(wr[w][i].task)
    /\ \A t \in Tasks : bg[t] # "none" => Exists(t)

(* Worker w has passed the second look at the status of task t, or a write *)
(* of it about t waits.                                                    *)
Past == Inside \ {"recheck"}
Writing(w, t) == \E i \in 1..Len(wr[w]) : wr[w][i].task = t
Works(w, t) == (ex[w].pc \in Past /\ ex[w].task = t) \/ Writing(w, t)

(* The lock protects the look and the first write after it, so one worker  *)
(* only ever gets past it.                                                 *)
LockHeld == \A w \in Workers : ex[w].pc \in {"recheck", "images"} => lock = w
FirstWrite ==
    \A w \in Workers, t \in Tasks : Works(w, t) /\ task[t].status = "pending"
       => ex[w].pc = "images" /\ ex[w].task = t /\ Writing(w, t)
OneWorker ==
    \A v \in Workers, w \in Workers, t \in Tasks : Works(v, t) /\ Works(w, t) => v = w

(* What the platform did of a task.                                        *)
Nothing(t) == items[t] = 0 /\ t \notin wire
Answers ==
    \A t \in Tasks :
       /\ items[t] <= 1
       /\ t \in wire => items[t] = 0
       /\ ans[t] \in {"ok", "noId"} => items[t] = 1
       /\ ans[t] = "refused" => Nothing(t)

(* What an execution knows.                                                *)
Before == {"images", "prepare", "locate", "upload", "category", "progress", "post"}
ExOK(w) ==
    /\ ex[w].pc \in Before => Nothing(ex[w].task)
    /\ ex[w].pc = "verify" => items[ex[w].task] = 1
    /\ ex[w].pc = "verified" => ex[w].out \in {"listed", "notListed"}
    /\ ex[w].pc = "merge" => ex[w].out \notin {"none", "internal", "cookie_conflict"}
    /\ ex[w].pc = "wait" => ex[w].out # "none"
    /\ ex[w].pc \in {"verified", "merge", "wait"} =>
          /\ ex[w].out \in {"listed", "notListed", "cookie_conflict"} => items[ex[w].task] = 1
          /\ ex[w].out \in {"rejected", "network"} => Nothing(ex[w].task)
Executions == \A w \in Workers : ExOK(w)

(* The writes: progress, and last the outcome.                             *)
Last(w, i) ==
    /\ i = Len(wr[w]) /\ ex[w].pc = "wait"
    /\ wr[w][i] = [task |-> ex[w].task, write |-> Outcome(ex[w].out)]
QueueOK(w) == \A i \in 1..Len(wr[w]) : wr[w][i].write = Progress \/ Last(w, i)
Queues == \A w \in Workers : QueueOK(w)

(* What a row says, and that the outcome is the last that is written.      *)
RowOK(t) ==
    /\ task[t].status \in {"none", "pending"} =>
          task[t].cert = "none" /\ ~task[t].retryable /\ ~task[t].item /\ Nothing(t)
    /\ task[t].cert # "none" =>
          \A w \in Workers : ~Writing(w, t) /\ (ex[w].task = t => ex[w].pc \notin Past \ {"wait"})
    /\ task[t].item => items[t] = 1 /\ task[t].cert # "none"
    /\ task[t].mode = "platform_api" /\ task[t].status = "success" => task[t].item
    /\ task[t].cert = "confirmed_failed" =>
          /\ task[t].kind \notin {"internal", "cookie_conflict"} => Nothing(t)
          /\ task[t].kind = "cookie_conflict" => items[t] = 1
    /\ task[t].retryable => Nothing(t) /\ task[t].cert # "none"
RowsOK == \A t \in Tasks : RowOK(t)

(* A task with another attempt made nothing, and has only one.             *)
Retried ==
    /\ \A t \in Tasks : task[t].of \in Tasks =>
          task[task[t].of].hidden /\ task[task[t].of].retryable
    /\ \A s, t \in Tasks : task[t].of \in Tasks /\ task[s].of = task[t].of => s = t

IInv == /\ Typed /\ Held /\ LockHeld /\ FirstWrite /\ OneWorker
        /\ Answers /\ Executions /\ Queues /\ RowsOK /\ Retried

USE TasksAssumption, ScenariosAssumption DEF AllOps, OnDraft, Ended, Live

-----------------------------------------------------------------------------
(* Lemmas about the operators.                                             *)

LEMMA NoExType == NoEx \in Execs /\ NoEx.pc = "idle" /\ NoEx.task = NoTask /\ NoEx.out = "none"
  BY DEF NoEx, Ex, Execs, Outs

LEMMA PcSets ==
    /\ Past \subseteq Inside /\ Before \subseteq Past /\ "idle" \notin Inside
    /\ "look" \notin Inside /\ "lock" \notin Inside /\ "recheck" \notin Past
    /\ {"images", "sent", "verify", "verified", "merge", "wait"} \subseteq Past
    /\ Past = Before \cup {"sent", "verify", "verified", "merge", "wait"}
  BY DEF Past, Inside, Before

LEMMA WriteTypes ==
    /\ Progress \in Writes /\ Progress.cert = "none" /\ Progress.status = "running"
    /\ ~Progress.item
    /\ \A out \in Outs : Outcome(out) \in Writes \/ out = "none"
  BY DEF Progress, Write, Writes, Certainties, Kinds, Outcome, Outs

LEMMA OutcomeFacts ==
    ASSUME NEW out \in Outs \ {"none"}
    PROVE  LET u == Outcome(out) IN
           /\ u \in Writes /\ u.cert # "none"
           /\ u.item => out \in {"listed", "notListed"}
           /\ u.status = "success" => u.item
           /\ u.cert = "confirmed_failed" =>
                 u.kind = out /\ out \in {"rejected", "network", "internal", "cookie_conflict"}
           /\ u.retryable => out = "network"
  BY DEF Write, Writes, Certainties, Kinds, Outcome, Outs

LEMMA ApplyFacts ==
    ASSUME NEW r \in Rows, NEW u \in Writes
    PROVE  /\ Apply(r, u) \in Rows
           /\ Apply(r, u).status = u.status /\ Apply(r, u).kind = u.kind
           /\ Apply(r, u).item = (r.item \/ u.item)
           /\ Apply(r, u).cert = IF u.cert = "none" THEN r.cert ELSE u.cert
           /\ Apply(r, u).retryable = IF u.cert = "none" THEN r.retryable ELSE u.retryable
           /\ Apply(r, u).hidden = r.hidden /\ Apply(r, u).of = r.of /\ Apply(r, u).mode = r.mode
  <1>1. (r.item \/ u.item) \in BOOLEAN
    OBVIOUS
  <1>2. /\ u.status \in Statuses /\ u.kind \in Kinds
        /\ (IF u.cert = "none" THEN r.cert ELSE u.cert) \in Certainties
        /\ (IF u.cert = "none" THEN r.retryable ELSE u.retryable) \in BOOLEAN
    BY DEF Rows, Writes, Statuses
  <1> DEFINE i == r.item \/ u.item
             c == IF u.cert = "none" THEN r.cert ELSE u.cert
             b == IF u.cert = "none" THEN r.retryable ELSE u.retryable
  <1>3. Apply(r, u) = [r EXCEPT !.status = u.status, !.kind = u.kind, !.item = i,
                                !.cert = c, !.retryable = b]
    BY DEF Apply
  <1>4. i \in BOOLEAN /\ c \in Certainties /\ b \in BOOLEAN
    BY <1>1, <1>2
  <1> HIDE DEF i, c, b
  <1>5. /\ Apply(r, u) \in Rows
        /\ Apply(r, u).status = u.status /\ Apply(r, u).kind = u.kind
        /\ Apply(r, u).item = i /\ Apply(r, u).cert = c /\ Apply(r, u).retryable = b
        /\ Apply(r, u).hidden = r.hidden /\ Apply(r, u).of = r.of /\ Apply(r, u).mode = r.mode
    BY <1>2, <1>3, <1>4 DEF Rows
  <1> QED BY <1>5 DEF i, c, b

LEMMA NewRow ==
    ASSUME NEW of \in Tasks \cup {NoTask}, NEW key \in Keys \cup {NoKey},
           NEW mode \in {"platform_api", "manual_export", "none"}, NEW asset \in BOOLEAN
    PROVE  LET r == Row("pending", of, key, mode, asset) IN
           /\ r \in Rows /\ r.status = "pending" /\ r.cert = "none" /\ ~r.retryable /\ ~r.item
           /\ r.of = of
  BY DEF Row, Rows, Statuses, Certainties, Kinds

LEMMA HiddenRow == ASSUME NEW q \in Rows PROVE [q EXCEPT !.hidden = TRUE] \in Rows
  BY DEF Rows

\* The queues of writes.
LEMMA WritingAppend ==
    ASSUME NEW w \in Workers, wr \in [Workers -> Seq(Entry)], NEW e \in Entry,
           wr' = [wr EXCEPT ![w] = Append(@, e)]
    PROVE  /\ wr' \in [Workers -> Seq(Entry)]
           /\ \A v \in Workers : v # w => wr'[v] = wr[v]
           /\ Len(wr'[w]) = Len(wr[w]) + 1 /\ wr'[w][Len(wr[w]) + 1] = e
           /\ \A i \in 1..Len(wr[w]) : wr'[w][i] = wr[w][i]
           /\ \A v \in Workers : \A t : Writing(v, t)' <=> Writing(v, t) \/ (v = w /\ t = e.task)
  <1>1. wr[w] \in Seq(Entry) /\ Len(wr[w]) \in Nat /\ wr'[w] = Append(wr[w], e)
    OBVIOUS
  <1>2. /\ wr' \in [Workers -> Seq(Entry)]
        /\ \A v \in Workers : v # w => wr'[v] = wr[v]
        /\ Len(wr'[w]) = Len(wr[w]) + 1 /\ wr'[w][Len(wr[w]) + 1] = e
        /\ \A i \in 1..Len(wr[w]) : wr'[w][i] = wr[w][i]
    BY <1>1
  <1>3. ASSUME NEW v \in Workers, NEW t PROVE Writing(v, t)' <=> Writing(v, t) \/ (v = w /\ t = e.task)
    <2>1. CASE v # w
      BY <1>2, <2>1 DEF Writing
    <2>2. CASE v = w
      <3>1. 1..Len(wr'[w]) = 1..Len(wr[w]) \cup {Len(wr[w]) + 1}
        BY <1>1, <1>2
      <3> QED BY <1>2, <2>2, <3>1 DEF Writing
    <2> QED BY <2>1, <2>2
  <1> QED BY <1>2, <1>3

LEMMA WritingTail ==
    ASSUME NEW w \in Workers, wr \in [Workers -> Seq(Entry)], wr[w] # <<>>,
           wr' = [wr EXCEPT ![w] = Tail(@)]
    PROVE  /\ wr' \in [Workers -> Seq(Entry)] /\ wr[w][1] \in Entry /\ Head(wr[w]) = wr[w][1]
           /\ 1 \in 1..Len(wr[w])
           /\ \A v \in Workers : v # w => wr'[v] = wr[v]
           /\ Len(wr[w]) \in Nat /\ Len(wr'[w]) = Len(wr[w]) - 1
           /\ \A i \in 1..Len(wr'[w]) : i + 1 \in 1..Len(wr[w]) /\ wr'[w][i] = wr[w][i + 1]
           /\ \A v \in Workers : \A t : Writing(v, t)' => Writing(v, t)
           /\ \A v \in Workers : \A t : Writing(v, t) => Writing(v, t)' \/ (v = w /\ t = wr[w][1].task)
  <1>1. wr[w] \in Seq(Entry) /\ Len(wr[w]) \in Nat /\ Len(wr[w]) # 0 /\ wr'[w] = Tail(wr[w])
    BY EmptySeq
  <1>2. /\ Tail(wr[w]) \in Seq(Entry) /\ Len(Tail(wr[w])) = Len(wr[w]) - 1
        /\ \A i \in 1..Len(Tail(wr[w])) : Tail(wr[w])[i] = wr[w][i + 1]
    BY <1>1, HeadTailProperties
  <1>3. /\ wr' \in [Workers -> Seq(Entry)] /\ wr[w][1] \in Entry /\ Head(wr[w]) = wr[w][1]
        /\ 1 \in 1..Len(wr[w])
        /\ \A v \in Workers : v # w => wr'[v] = wr[v]
    BY <1>1, <1>2
  <1>4. \A i \in 1..Len(wr'[w]) : i + 1 \in 1..Len(wr[w]) /\ wr'[w][i] = wr[w][i + 1]
    BY <1>1, <1>2
  <1>5. ASSUME NEW v \in Workers, NEW t, Writing(v, t)' PROVE Writing(v, t)
    BY <1>3, <1>4, <1>5 DEF Writing
  <1>6. ASSUME NEW v \in Workers, NEW t, Writing(v, t), ~(v = w /\ t = wr[w][1].task)
        PROVE  Writing(v, t)'
    <2>1. PICK i \in 1..Len(wr[v]) : wr[v][i].task = t
      BY <1>6 DEF Writing
    <2>2. CASE v # w
      BY <1>3, <2>1, <2>2 DEF Writing
    <2>3. CASE v = w
      <3>1. i # 1 /\ i - 1 \in 1..Len(wr'[w])
        BY <1>1, <1>2, <1>6, <2>1, <2>3
      <3>2. wr'[w][i - 1] = wr[w][i]
        BY <1>1, <1>2, <2>1, <2>3, <3>1
      <3> QED BY <2>1, <2>3, <3>1, <3>2 DEF Writing
    <2> QED BY <2>2, <2>3
  <1> QED BY <1>1, <1>2, <1>3, <1>4, <1>5, <1>6

-----------------------------------------------------------------------------
(* Steps of the requests and of the images: rows, requests and background  *)
(* tasks change, no execution and nothing at the platform.                 *)

CallHeld(c) == call[c].pc \in {"answer", "bg", "push", "retry", "hide", "enqueue"}
                  => Exists(call[c].task)

LEMMA RowsStep ==
    ASSUME IInv, UNCHANGED <<scn, ex, wr, lock, wire, ans, items>>,
           task' \in [Tasks -> Rows], call' \in [Callers -> Calls], draft' \in Drafts,
           bg' \in [Tasks -> Live \cup {"none", "done", "failed", "unqueued"}],
           \A t \in Tasks : Exists(t) => Exists(t)',
           \A t \in Tasks : task'[t].status = "pending" => task[t].status \in {"none", "pending"},
           \A c \in Callers : CallHeld(c)',
           \A t \in Tasks : bg'[t] # "none" => Exists(t)',
           RowsOK', Retried'
    PROVE  IInv'
  <1> USE DEF IInv
  <1>1. Typed'
    BY DEF Typed
  <1>2. Held'
    <2>1. ASSUME NEW t, Exists(t) PROVE t \in Tasks /\ task'[t].status # "none"
      BY <2>1 DEF Exists
    <2>2. \A w \in Workers : ex[w].pc # "idle" => Exists(ex[w].task)
      BY DEF Held
    <2>3. \A w \in Workers : \A i \in 1..Len(wr[w]) : Exists(wr[w][i].task)
      BY DEF Held
    <2>4. \A w \in Workers : ex'[w].pc # "idle" =>
             ex'[w].task \in Tasks /\ task'[ex'[w].task].status # "none"
      BY <2>1, <2>2
    <2>5. \A w \in Workers : \A i \in 1..Len(wr'[w]) :
             wr'[w][i].task \in Tasks /\ task'[wr'[w][i].task].status # "none"
      BY <2>1, <2>3
    <2> QED BY <2>4, <2>5 DEF Held, CallHeld, Exists
  <1>3. \A w \in Workers, t \in Tasks : Works(w, t)' = Works(w, t) /\ Writing(w, t)' = Writing(w, t)
    BY DEF Works, Writing
  <1>4. \A w \in Workers, t \in Tasks : Works(w, t) => Exists(t)
    BY PcSets DEF Works, Writing, Held
  <1>5. LockHeld' /\ OneWorker' /\ Answers' /\ Executions' /\ Queues'
    BY <1>3 DEF LockHeld, OneWorker, Answers, Executions, ExOK, Nothing, Queues, QueueOK, Last
  <1>6. FirstWrite'
    BY <1>3, <1>4 DEF FirstWrite, Exists
  <1> QED BY <1>1, <1>2, <1>5, <1>6

LEMMA RowKept ==
    ASSUME IInv, UNCHANGED <<ex, wr, wire, items>>, task' \in [Tasks -> Rows], NEW t \in Tasks,
           task'[t] = task[t] \/ task'[t] = [task[t] EXCEPT !.hidden = TRUE]
    PROVE  RowOK(t)'
  <1>1. RowOK(t) /\ task[t] \in Rows
    BY DEF IInv, RowsOK, Typed
  <1>2. /\ task'[t].status = task[t].status /\ task'[t].cert = task[t].cert
        /\ task'[t].retryable = task[t].retryable /\ task'[t].item = task[t].item
        /\ task'[t].mode = task[t].mode /\ task'[t].kind = task[t].kind
    BY <1>1 DEF Rows
  <1> QED BY <1>1, <1>2 DEF RowOK, Nothing, Writing

\* A request makes a step that changes no row.
Idles == {"idle", "byKey", "resolve", "create", "job"}
LEMMA CallStep ==
    ASSUME IInv, UNCHANGED <<scn, task, ex, wr, lock, wire, ans, items>>, draft' \in Drafts,
           bg' \in [Tasks -> Live \cup {"none", "done", "failed", "unqueued"}],
           \A t \in Tasks : bg'[t] # "none" => Exists(t),
           NEW c \in Callers, NEW v \in Calls, call' = [call EXCEPT ![c] = v],
           v.pc \in Idles \/ Exists(v.task)
    PROVE  IInv'
  <1> USE DEF IInv
  <1>1. task' \in [Tasks -> Rows] /\ call' \in [Callers -> Calls]
    BY DEF Typed
  <1>2. \A t : Exists(t)' = Exists(t)
    BY DEF Exists
  <1>3. ASSUME NEW d \in Callers PROVE CallHeld(d)'
    <2>1. CASE d = c
      <3>1. call'[d] = v
        BY <2>1 DEF Typed
      <3> QED BY <3>1 DEF CallHeld, Exists, Idles
    <2>2. CASE d # c
      <3>1. call'[d] = call[d] /\ CallHeld(d)
        BY <2>2 DEF Typed, Held, CallHeld
      <3> QED BY <3>1 DEF CallHeld, Exists
    <2> QED BY <2>1, <2>2
  <1>4. RowsOK'
    BY <1>1, RowKept DEF RowsOK
  <1>5. Retried'
    BY DEF Retried
  <1> QED BY <1>1, <1>2, <1>3, <1>4, <1>5, RowsStep

\* Nothing but the images, the draft and the cache, or a background task ends.
LEMMA QuietStep ==
    ASSUME IInv, UNCHANGED <<scn, task, call, ex, wr, lock, wire, ans, items>>,
           draft' \in Drafts,
           bg' \in [Tasks -> Live \cup {"none", "done", "failed", "unqueued"}],
           \A t \in Tasks : bg'[t] # "none" => Exists(t)
    PROVE  IInv'
  <1> USE DEF IInv
  <1>1. task' \in [Tasks -> Rows] /\ call' \in [Callers -> Calls]
    BY DEF Typed
  <1>2. \A t : Exists(t)' = Exists(t)
    BY DEF Exists
  <1>3. \A d \in Callers : CallHeld(d)'
    BY DEF CallHeld, Exists, Held
  <1>4. RowsOK'
    BY <1>1, RowKept DEF RowsOK
  <1>5. Retried'
    BY DEF Retried
  <1> QED BY <1>1, <1>2, <1>3, <1>4, <1>5, RowsStep

LEMMA MediaStep == ASSUME IInv, MediaNext PROVE IInv'
  <1>1. UNCHANGED <<scn, task, call, bg, ex, wr, lock, wire, ans, items>>
    BY DEF MediaNext, SaveFile, CreateAsset, AssetExpires, RetentionEnds, DeleteImage,
           CleanupUploadSession, UnlinkFile, SweepLook, SweepDelete, CreateDraft, UpdateDraft,
           DeleteDraft, RefreshLocations, CacheAges, Still, Fault, requests, worker, platform, bounds
  <1>2. draft' = draft \/ \E s \in {"draft", "archived", "none"}, u \in BOOLEAN : draft' = Draft(s, u)
    BY DEF MediaNext, SaveFile, CreateAsset, AssetExpires, RetentionEnds, DeleteImage,
           CleanupUploadSession, UnlinkFile, SweepLook, SweepDelete, CreateDraft, UpdateDraft,
           DeleteDraft, RefreshLocations, CacheAges
  <1>3. draft' \in Drafts
    BY <1>2 DEF IInv, Typed, Draft, Drafts
  <1> QED BY <1>1, <1>3, QuietStep DEF IInv, Typed, Held

LEMMA NewIdsAreFree == ASSUME NEW t \in NewIds PROVE t \in scn.tasks /\ task[t].status = "none"
  <1>1. Free # {} /\ t = CHOOSE u \in Free : TRUE
    BY DEF NewIds
  <1>2. t \in Free
    BY <1>1
  <1> QED BY <1>2 DEF Free

\* A new row, and the task it retries, if any, leaves the catalogue.
LEMMA InsertStep ==
    ASSUME IInv, UNCHANGED <<scn, bg, ex, wr, lock, wire, ans, items>>, draft' \in Drafts,
           NEW t \in Tasks, task[t].status = "none",
           NEW r \in Rows, r.status = "pending", r.cert = "none", ~r.retryable, ~r.item,
           \/ r.of = NoTask /\ task' = [task EXCEPT ![t] = r]
           \/ /\ r.of \in Tasks /\ MayRetry(r.of)
              /\ task' = [task EXCEPT ![r.of].hidden = TRUE, ![t] = r],
           NEW c \in Callers, NEW v \in Calls, call' = [call EXCEPT ![c] = v], v.task = t
    PROVE  IInv'
  <1> USE DEF IInv
  <1>1. call' \in [Callers -> Calls] /\ r.of # t
    BY DEF Typed, MayRetry
  <1>2. /\ task' \in [Tasks -> Rows] /\ task'[t] = r
        /\ \A u \in Tasks \ {t} :
              /\ task'[u] = task[u] \/ task'[u] = [task[u] EXCEPT !.hidden = TRUE]
              /\ u = r.of => task'[u] = [task[u] EXCEPT !.hidden = TRUE]
    <2>1. task \in [Tasks -> Rows]
      BY DEF Typed
    <2>2. \A u \in Tasks : [task[u] EXCEPT !.hidden = TRUE] \in Rows
      BY <2>1, HiddenRow
    <2>3. CASE r.of = NoTask /\ task' = [task EXCEPT ![t] = r]
      <3>1. task' \in [Tasks -> Rows] /\ task'[t] = r /\ \A u \in Tasks \ {t} : task'[u] = task[u]
        BY <2>1, <2>3
      <3> QED BY <2>3, <3>1
    <2>4. CASE r.of \in Tasks /\ task' = [task EXCEPT ![r.of].hidden = TRUE, ![t] = r]
      <3> DEFINE h == [task[r.of] EXCEPT !.hidden = TRUE]
                 mid == [task EXCEPT ![r.of] = h]
      <3>1. task' = [mid EXCEPT ![t] = r]
        BY <2>4
      <3>2. h \in Rows
        BY <2>2, <2>4
      <3>3. /\ mid \in [Tasks -> Rows] /\ mid[r.of] = h
            /\ \A u \in Tasks \ {r.of} : mid[u] = task[u]
        <4> HIDE DEF h
        <4> QED BY <2>1, <2>4, <3>2
      <3> HIDE DEF mid
      <3>4. /\ task' \in [Tasks -> Rows] /\ task'[t] = r
            /\ \A u \in Tasks \ {t} : task'[u] = mid[u]
        <4> HIDE DEF h
        <4> QED BY <3>1, <3>3
      <3>5. ASSUME NEW u \in Tasks \ {t}
            PROVE  /\ task'[u] = task[u] \/ task'[u] = [task[u] EXCEPT !.hidden = TRUE]
                   /\ u = r.of => task'[u] = [task[u] EXCEPT !.hidden = TRUE]
        <4>1. CASE u = r.of
          BY <3>3, <3>4, <4>1
        <4>2. CASE u # r.of
          BY <3>3, <3>4, <4>2
        <4> QED BY <4>1, <4>2
      <3> QED BY <3>4, <3>5
    <2> QED BY <2>3, <2>4
  <1>3. \A u \in Tasks \ {t} : /\ task'[u].status = task[u].status /\ task'[u].of = task[u].of
                               /\ task'[u].retryable = task[u].retryable
                               /\ task[u].hidden \/ u = r.of => task'[u].hidden
    BY <1>2 DEF Typed, Rows
  <1>4. \A u \in Tasks : Exists(u) => u # t /\ Exists(u)'
    BY <1>3 DEF Exists
  <1>5. \A u \in Tasks : task'[u].status = "pending" => task[u].status \in {"none", "pending"}
    BY <1>2, <1>3
  <1>6. ASSUME NEW d \in Callers PROVE CallHeld(d)'
    <2>1. CASE d = c
      <3>1. call'[d] = v
        BY <2>1 DEF Typed
      <3> QED BY <1>2, <3>1 DEF CallHeld, Exists
    <2>2. CASE d # c
      <3>1. call'[d] = call[d] /\ CallHeld(d)
        BY <2>2 DEF Typed, Held, CallHeld
      <3> QED BY <1>3, <1>4, <3>1 DEF CallHeld, Exists
    <2> QED BY <2>1, <2>2
  <1>7. RowsOK'
    <2>1. RowOK(t)'
      <3>1. Nothing(t)
        BY DEF RowsOK, RowOK
      <3> QED BY <1>2, <3>1 DEF RowOK, Nothing
    <2>2. ASSUME NEW u \in Tasks \ {t} PROVE RowOK(u)'
      BY <1>2, RowKept
    <2> QED BY <2>1, <2>2 DEF RowsOK
  <1>8. Retried'
    <2>1. \A u \in Tasks : task[u].of \in Tasks => task[u].of # t
      BY DEF Retried, RowsOK, RowOK
    <2>2. r.of \in Tasks => /\ task'[r.of].hidden /\ task'[r.of].retryable
                            /\ \A u \in Tasks : task[u].of # r.of
      BY <1>1, <1>3 DEF MayRetry, Retried
    <2>3. ASSUME NEW u \in Tasks, task'[u].of \in Tasks
          PROVE  task'[task'[u].of].hidden /\ task'[task'[u].of].retryable
      <3>1. CASE u = t
        BY <1>2, <2>2, <2>3, <3>1
      <3>2. CASE u # t
        <4>1. task'[u].of = task[u].of /\ task[u].of # t
          BY <1>3, <2>1, <2>3, <3>2
        <4>2. task[task[u].of].hidden /\ task[task[u].of].retryable
          BY <2>3, <4>1 DEF Retried
        <4> QED BY <1>3, <2>3, <4>1, <4>2
      <3> QED BY <3>1, <3>2
    <2>4. ASSUME NEW u \in Tasks, NEW s \in Tasks, task'[u].of \in Tasks, task'[s].of = task'[u].of
          PROVE  s = u
      <3>1. CASE u = t \/ s = t
        BY <1>2, <1>3, <2>2, <2>4, <3>1
      <3>2. CASE u # t /\ s # t
        BY <1>3, <2>4, <3>2 DEF Retried
      <3> QED BY <3>1, <3>2
    <2> QED BY <2>3, <2>4 DEF Retried
  <1>9. \A u \in Tasks : bg'[u] # "none" => Exists(u)'
    BY <1>4 DEF Held
  <1> QED BY <1>1, <1>2, <1>4, <1>5, <1>6, <1>7, <1>8, <1>9, RowsStep DEF Typed

-----------------------------------------------------------------------------
(* The requests.                                                           *)

LEMMA GotoMeans ==
    ASSUME call \in [Callers -> Calls], NEW c \in Callers, NEW pc \in Pcs, Goto(c, pc)
    PROVE  \E v \in Calls : call' = [call EXCEPT ![c] = v] /\ v.pc = pc /\ v.task = call[c].task
  <1> DEFINE v == [call[c] EXCEPT !.pc = pc]
  <1>1. v \in Calls /\ v.pc = pc /\ v.task = call[c].task
    BY DEF Calls
  <1>2. call' = [call EXCEPT ![c] = v]
    BY DEF Goto
  <1> QED BY <1>1, <1>2

LEMMA HoldMeans ==
    ASSUME call \in [Callers -> Calls], NEW c \in Callers, NEW pc \in Pcs, NEW t \in Tasks,
           task'[t].status \in Statuses, Hold(c, t, pc)
    PROVE  \E v \in Calls : call' = [call EXCEPT ![c] = v] /\ v.pc = pc /\ v.task = t
  <1> DEFINE v == [call[c] EXCEPT !.pc = pc, !.task = t, !.seen = task'[t].status]
  <1>1. ASSUME NEW q \in Calls, NEW st \in Statuses
        PROVE  LET u == [q EXCEPT !.pc = pc, !.task = t, !.seen = st] IN
               u \in Calls /\ u.pc = pc /\ u.task = t
    BY DEF Calls
  <1>2. call' = [call EXCEPT ![c] = v]
    BY DEF Hold
  <1>3. v \in Calls /\ v.pc = pc /\ v.task = t
    BY <1>1
  <1> HIDE DEF v
  <1> QED BY <1>2, <1>3

LEMMA NoCallType == NoCall \in Calls /\ NoCall.pc = "idle"
  BY DEF NoCall, Call, Calls, Pcs, Statuses

LEMMA ByKeyExists == ASSUME NEW k, NEW t \in ByKey(k) PROVE Exists(t)
  BY DEF ByKey, Exists

\* What the steps of the requests leave alone.
Aside == UNCHANGED <<scn, ex, wr, lock, wire, ans, items>>

LEMMA AnsweredStep ==
    ASSUME IInv, NEW c \in Callers, Answered(c), Aside, UNCHANGED <<task, bg>>, draft' \in Drafts
    PROVE  IInv'
  BY NoCallType, CallStep DEF Answered, Aside, Idles, IInv, Typed, Held

LEMMA GotoStep ==
    ASSUME IInv, NEW c \in Callers, NEW pc \in Idles, Goto(c, pc), Aside, UNCHANGED <<task, bg>>,
           draft' \in Drafts
    PROVE  IInv'
  <1>1. \E v \in Calls : call' = [call EXCEPT ![c] = v] /\ v.pc = pc
    BY GotoMeans DEF IInv, Typed, Pcs, Idles
  <1> QED BY <1>1, CallStep DEF Aside, IInv, Typed, Held

LEMMA HoldStep ==
    ASSUME IInv, NEW c \in Callers, NEW pc \in Pcs, NEW t, Exists(t), Hold(c, t, pc),
           Aside, UNCHANGED <<task, bg>>, draft' \in Drafts
    PROVE  IInv'
  <1>1. t \in Tasks /\ task'[t].status \in Statuses
    BY DEF Exists, IInv, Typed, Rows
  <1>2. \E v \in Calls : call' = [call EXCEPT ![c] = v] /\ v.task = t
    BY <1>1, HoldMeans DEF IInv, Typed
  <1> QED BY <1>2, CallStep DEF Aside, IInv, Typed, Held

LEMMA InsertOf ==
    ASSUME IInv, NEW c \in Callers, NEW t \in NewIds, NEW pc \in Pcs,
           NEW key \in Keys \cup {NoKey}, NEW mode \in {"platform_api", "manual_export", "none"},
           NEW asset \in BOOLEAN, Insert(c, t, Row("pending", NoTask, key, mode, asset), pc),
           Aside, UNCHANGED bg, draft' \in Drafts
    PROVE  IInv'
  <1> DEFINE r == Row("pending", NoTask, key, mode, asset)
  <1>1. /\ r \in Rows /\ r.status = "pending" /\ r.cert = "none" /\ ~r.retryable /\ ~r.item
        /\ r.of = NoTask
    BY NewRow
  <1> HIDE DEF r
  <1>2. t \in Tasks /\ task[t].status = "none"
    BY NewIdsAreFree DEF IInv, Typed
  <1>3. task' = [task EXCEPT ![t] = r] /\ Hold(c, t, pc)
    BY DEF Insert, r
  <1>4. task'[t] = r
    BY <1>2, <1>3 DEF IInv, Typed
  <1>5. \E v \in Calls : call' = [call EXCEPT ![c] = v] /\ v.task = t
    BY <1>1, <1>2, <1>3, <1>4, HoldMeans DEF IInv, Typed, Statuses
  <1> QED BY <1>1, <1>2, <1>3, <1>5, InsertStep DEF Aside

LEMMA BeginStep == ASSUME IInv, NEW c \in Callers, Begin(c) PROVE IInv'
  <1>1. PICK o \in scn.ops :
           \E t \in IF o.op \in OnDraft \cup {"job"} THEN {NoTask} ELSE scn.tasks \ Free :
              call' = [call EXCEPT ![c] =
                 Call(IF o.op \in OnDraft THEN "byKey" ELSE o.op, o.op, t, o.key, o.mode, "none")]
    BY DEF Begin
  <1>2. o \in Asked /\ scn.tasks \subseteq Tasks
    BY DEF IInv, Typed
  <1>3. PICK t \in IF o.op \in OnDraft \cup {"job"} THEN {NoTask} ELSE scn.tasks \ Free :
              call' = [call EXCEPT ![c] =
                 Call(IF o.op \in OnDraft THEN "byKey" ELSE o.op, o.op, t, o.key, o.mode, "none")]
    BY <1>1
  <1> DEFINE v == Call(IF o.op \in OnDraft THEN "byKey" ELSE o.op, o.op, t, o.key, o.mode, "none")
  <1>4. v \in Calls /\ (v.pc \in Idles \/ Exists(v.task))
    BY <1>2, <1>3 DEF Call, Calls, Pcs, Asked, Idles, Exists, Free, Statuses
  <1> HIDE DEF v
  <1>5. call' = [call EXCEPT ![c] = v]
    BY <1>3 DEF v
  <1>6. UNCHANGED <<scn, task, bg, ex, wr, lock, wire, ans, items, draft>>
    BY DEF Begin, NoRequest, worker, platform, bounds, media
  <1> QED BY <1>4, <1>5, <1>6, CallStep DEF IInv, Typed, Held

LEMMA AfterCreatePc == \A c : AfterCreate(c) \in Pcs
  BY DEF AfterCreate, Pcs

LEMMA FindByKeyStep == ASSUME IInv, NEW c \in Callers, FindByKey(c) PROVE IInv'
  <1>1. Aside /\ UNCHANGED <<task, bg>> /\ draft' \in Drafts
    BY DEF FindByKey, NoRequest, worker, platform, bounds, media, Aside, IInv, Typed
  <1>2. \/ \E t \in ByKey(call[c].key) : Hold(c, t, AfterCreate(c))
        \/ Goto(c, "resolve") \/ Goto(c, "create")
    BY DEF FindByKey
  <1>3. "resolve" \in Idles /\ "create" \in Idles
    BY DEF Idles
  <1> QED BY <1>1, <1>2, <1>3, ByKeyExists, AfterCreatePc, HoldStep, GotoStep

LEMMA ResolveStep == ASSUME IInv, NEW c \in Callers, Resolve(c) PROVE IInv'
  <1>1. Aside /\ UNCHANGED <<task, bg>> /\ draft' \in Drafts
    BY DEF Resolve, NoRequest, worker, platform, bounds, Aside, IInv, Typed
  <1>2. Goto(c, "create") \/ Answered(c)
    BY DEF Resolve
  <1>3. "create" \in Idles
    BY DEF Idles
  <1> QED BY <1>1, <1>2, <1>3, GotoStep, AnsweredStep

LEMMA CallFields ==
    ASSUME IInv, NEW c \in Callers
    PROVE  /\ call[c].key \in Keys \cup {NoKey}
           /\ call[c].mode \in {"platform_api", "manual_export", "none"}
  BY DEF IInv, Typed, Calls

LEMMA CreateFromDraftStep == ASSUME IInv, NEW c \in Callers, CreateFromDraft(c) PROVE IInv'
  <1>1. Aside /\ UNCHANGED bg
    BY DEF CreateFromDraft, NoRequest, worker, platform, bounds, Aside
  <1>2. draft \in Drafts /\ draft.uses \in BOOLEAN /\ [draft EXCEPT !.status = "ready"] \in Drafts
    BY DEF IInv, Typed, Drafts
  <1>3. \/ /\ UNCHANGED <<task, draft>>
           /\ (\E t \in ByKey(call[c].key) : Hold(c, t, AfterCreate(c))) \/ Answered(c)
        \/ /\ draft' = [draft EXCEPT !.status = "ready"]
           /\ \E t \in NewIds :
                Insert(c, t, Row("pending", NoTask, call[c].key, call[c].mode, draft.uses),
                       AfterCreate(c))
    BY DEF CreateFromDraft
  <1>4. CASE /\ UNCHANGED <<task, draft>>
             /\ (\E t \in ByKey(call[c].key) : Hold(c, t, AfterCreate(c))) \/ Answered(c)
    BY <1>1, <1>2, <1>4, ByKeyExists, AfterCreatePc, HoldStep, AnsweredStep
  <1>5. CASE /\ draft' = [draft EXCEPT !.status = "ready"]
             /\ \E t \in NewIds :
                Insert(c, t, Row("pending", NoTask, call[c].key, call[c].mode, draft.uses),
                       AfterCreate(c))
    <2>1. draft' \in Drafts
      BY <1>2, <1>5
    <2> QED BY <1>1, <1>2, <1>5, <2>1, CallFields, AfterCreatePc, InsertOf
  <1> QED BY <1>3, <1>4, <1>5

LEMMA CreateJobStep == ASSUME IInv, NEW c \in Callers, CreateJob(c) PROVE IInv'
  <1>1. Aside /\ UNCHANGED bg /\ draft' \in Drafts /\ "bg" \in Pcs
    BY DEF CreateJob, NoRequest, worker, platform, bounds, Aside, IInv, Typed, Pcs
  <1>2. \/ UNCHANGED task /\ ((\E t \in ByKey(call[c].key) : Hold(c, t, "bg")) \/ Answered(c))
        \/ \E t \in NewIds :
              Insert(c, t, Row("pending", NoTask, call[c].key, "platform_api", TRUE), "bg")
    BY DEF CreateJob
  <1>3. CASE UNCHANGED task /\ ((\E t \in ByKey(call[c].key) : Hold(c, t, "bg")) \/ Answered(c))
    BY <1>1, <1>3, ByKeyExists, HoldStep, AnsweredStep
  <1>4. CASE \E t \in NewIds :
              Insert(c, t, Row("pending", NoTask, call[c].key, "platform_api", TRUE), "bg")
    BY <1>1, <1>4, CallFields, InsertOf
  <1> QED BY <1>2, <1>3, <1>4

LEMMA RetryStep == ASSUME IInv, NEW c \in Callers, Retry(c) PROVE IInv'
  <1> DEFINE s == call[c].task
  <1>1. Aside /\ UNCHANGED bg /\ draft' \in Drafts /\ "bg" \in Pcs
    BY DEF Retry, NoRequest, worker, platform, bounds, Aside, IInv, Typed, Pcs
  <1>2. \/ UNCHANGED task /\ ((\E t \in ByKey(call[c].key) : Hold(c, t, "bg")) \/ Answered(c))
        \/ /\ MayRetry(s)
           /\ \E t \in NewIds :
                 /\ task' = [task EXCEPT ![s].hidden = TRUE,
                        ![t] = Row("pending", s, call[c].key, task[s].mode, task[s].asset)]
                 /\ Hold(c, t, "bg")
    BY DEF Retry
  <1>3. CASE UNCHANGED task /\ ((\E t \in ByKey(call[c].key) : Hold(c, t, "bg")) \/ Answered(c))
    BY <1>1, <1>3, ByKeyExists, HoldStep, AnsweredStep
  <1>4. ASSUME NEW t \in NewIds, MayRetry(s),
               task' = [task EXCEPT ![s].hidden = TRUE,
                           ![t] = Row("pending", s, call[c].key, task[s].mode, task[s].asset)],
               Hold(c, t, "bg")
        PROVE  IInv'
    <2>1. s \in Tasks
      BY DEF IInv, Held, Exists, Retry
    <2>2. task[s].mode \in {"platform_api", "manual_export", "none"} /\ task[s].asset \in BOOLEAN
      BY <2>1 DEF IInv, Typed, Rows
    <2> DEFINE r == Row("pending", s, call[c].key, task[s].mode, task[s].asset)
    <2>3. /\ r \in Rows /\ r.status = "pending" /\ r.cert = "none" /\ ~r.retryable /\ ~r.item
          /\ r.of = s
      BY <2>1, <2>2, CallFields, NewRow
    <2>4. task' = [task EXCEPT ![s].hidden = TRUE, ![t] = r]
      BY <1>4
    <2> HIDE DEF r, s
    <2>5. t \in Tasks /\ task[t].status = "none"
      BY NewIdsAreFree DEF IInv, Typed
    <2>6. task'[t] = r
      BY <2>4, <2>5 DEF IInv, Typed
    <2>7. \E v \in Calls : call' = [call EXCEPT ![c] = v] /\ v.task = t
      BY <1>1, <1>4, <2>3, <2>5, <2>6, HoldMeans DEF IInv, Typed, Statuses
    <2>8. r.of \in Tasks /\ MayRetry(r.of) /\ task' = [task EXCEPT ![r.of].hidden = TRUE, ![t] = r]
      BY <1>4, <2>1, <2>3, <2>4
    <2> QED BY <1>1, <2>3, <2>5, <2>7, <2>8, InsertStep DEF Aside
  <1> QED BY <1>2, <1>3, <1>4

LEMMA HideStep == ASSUME IInv, NEW c \in Callers, Hide(c) PROVE IInv'
  <1>1. Aside /\ UNCHANGED bg /\ draft' \in Drafts
    BY DEF Hide, NoRequest, worker, platform, bounds, media, Aside, IInv, Typed
  <1>2. Answered(c) /\ call[c].task \in Tasks
    BY DEF Hide, IInv, Held, Exists
  <1>3. CASE UNCHANGED task
    BY <1>1, <1>2, <1>3, AnsweredStep
  <1>4. CASE task' = [task EXCEPT ![call[c].task].hidden = TRUE]
    <2> DEFINE q == call[c].task
    <2>0. task \in [Tasks -> Rows] /\ [task[q] EXCEPT !.hidden = TRUE] \in Rows
      BY <1>2, HiddenRow DEF IInv, Typed
    <2>1. /\ task \in [Tasks -> Rows] /\ task' \in [Tasks -> Rows]
          /\ \A u \in Tasks : task'[u] = task[u] \/ task'[u] = [task[u] EXCEPT !.hidden = TRUE]
      BY <1>2, <1>4, <2>0
    <2>2. \A u \in Tasks : /\ task'[u].status = task[u].status /\ task'[u].of = task[u].of
                           /\ task'[u].retryable = task[u].retryable
                           /\ task[u].hidden => task'[u].hidden
      BY <2>1 DEF Rows
    <2>3. call' \in [Callers -> Calls] /\ \A d \in Callers : CallHeld(d)'
      <3>1. /\ call' \in [Callers -> Calls]
            /\ \A d \in Callers : call'[d] = call[d] \/ call'[d] = NoCall
        BY <1>2, NoCallType DEF Answered, IInv, Typed
      <3>2. ASSUME NEW d \in Callers PROVE CallHeld(d)'
        <4>1. CASE call'[d] = NoCall
          BY <4>1, NoCallType DEF CallHeld
        <4>2. CASE call'[d] = call[d]
          <5>1. CallHeld(d)
            BY DEF IInv, Held, CallHeld
          <5> QED BY <2>2, <4>2, <5>1 DEF CallHeld, Exists
        <4> QED BY <3>1, <4>1, <4>2
      <3> QED BY <3>1, <3>2
    <2>4. RowsOK'
      BY <1>1, <2>1, RowKept DEF RowsOK, Aside
    <2>5. Retried'
      BY <2>1, <2>2 DEF Retried, IInv
    <2>6. \A t \in Tasks : Exists(t) => Exists(t)'
      BY <2>2 DEF Exists
    <2>7. \A t \in Tasks : bg'[t] # "none" => Exists(t)'
      BY <1>1, <2>6 DEF IInv, Held
    <2> QED BY <1>1, <2>1, <2>2, <2>3, <2>4, <2>5, <2>6, <2>7, RowsStep DEF Aside, IInv, Typed
  <1> QED BY <1>3, <1>4 DEF Hide

LEMMA EnqueueStep == ASSUME IInv, NEW c \in Callers, Enqueue(c) \/ ReturnTask(c) PROVE IInv'
  <1>1. Aside /\ UNCHANGED <<task, bg>> /\ draft' \in Drafts /\ "bg" \in Pcs
    BY DEF Enqueue, ReturnTask, NoRequest, worker, platform, bounds, media, Aside, IInv, Typed, Pcs
  <1>2. (Exists(call[c].task) /\ Hold(c, call[c].task, "bg")) \/ Answered(c)
    BY DEF Enqueue, ReturnTask, IInv, Held
  <1> QED BY <1>1, <1>2, HoldStep, AnsweredStep

LEMMA EnsureStep == ASSUME IInv, NEW c \in Callers, EnsureBackground(c) \/ Push(c) PROVE IInv'
  <1>1. Aside /\ UNCHANGED task /\ draft' \in Drafts /\ "push" \in Pcs
    BY DEF EnsureBackground, Push, NoRequest, worker, platform, bounds, media, Aside, IInv, Typed,
           Pcs, Fault
  <1>2. Exists(call[c].task)
    BY DEF EnsureBackground, Push, IInv, Held
  <1>3. /\ bg' \in [Tasks -> Live \cup {"none", "done", "failed", "unqueued"}]
        /\ \A t \in Tasks : bg'[t] # "none" => Exists(t)
    BY <1>2 DEF EnsureBackground, Push, IInv, Typed, Held, Exists
  <1>4. Goto(c, "push") \/ Answered(c)
    BY DEF EnsureBackground, Push
  <1>5. \E v \in Calls : call' = [call EXCEPT ![c] = v] /\ (v.pc \in Idles \/ Exists(v.task))
    BY <1>1, <1>2, <1>4, GotoMeans, NoCallType DEF Answered, IInv, Typed, Idles
  <1> QED BY <1>1, <1>3, <1>5, CallStep DEF Aside

LEMMA RequestStep == ASSUME IInv, NEW c \in Callers, CallNext(c) PROVE IInv'
  BY BeginStep, FindByKeyStep, ResolveStep, CreateFromDraftStep, CreateJobStep, RetryStep, HideStep,
     EnqueueStep, EnsureStep DEF CallNext

-----------------------------------------------------------------------------
(* The executions.                                                         *)

\* Worker w is now at pc of task t with this outcome; the others did not move.
Goes(w, pc, t, out) ==
    /\ ex' \in [Workers -> Execs]
    /\ ex'[w].pc = pc /\ ex'[w].task = t /\ ex'[w].out = out
    /\ \A v \in Workers : v # w => ex'[v] = ex[v]
BgKept == /\ bg' \in [Tasks -> Live \cup {"none", "done", "failed", "unqueued"}]
          /\ \A t \in Tasks : bg'[t] # "none" => Exists(t)

LEMMA StepMeans ==
    ASSUME ex \in [Workers -> Execs], NEW w \in Workers, NEW pc \in Inside \cup {"look", "lock"},
           NEW out \in Outs, Step(w, pc, out)
    PROVE  Goes(w, pc, ex[w].task, out)
  <1>1. ASSUME NEW x \in Execs
        PROVE  LET y == [x EXCEPT !.pc = pc, !.out = out] IN
               y \in Execs /\ y.pc = pc /\ y.task = x.task /\ y.out = out
    BY DEF Execs
  <1> DEFINE y == [ex[w] EXCEPT !.pc = pc, !.out = out]
  <1>2. ex' = [ex EXCEPT ![w] = y]
    BY DEF Step
  <1>3. y \in Execs /\ y.pc = pc /\ y.task = ex[w].task /\ y.out = out
    BY <1>1
  <1> HIDE DEF y
  <1> QED BY <1>2, <1>3 DEF Goes

LEMMA ExFacts ==
    ASSUME IInv, NEW w \in Workers, ex[w].pc # "idle"
    PROVE  ex[w].task \in Tasks /\ Exists(ex[w].task) /\ ex[w].out \in Outs
  BY DEF IInv, Typed, Held, Exists, Execs

\* A worker does not name a task, or does not work at it yet.
LEMMA Approaches ==
    ASSUME IInv, NEW w \in Workers, NEW pc \in {"look", "lock", "recheck"}, NEW t, Exists(t),
           ex[w].pc \in {"idle", "look", "lock"}, Goes(w, pc, t, "none"), BgKept,
           \/ pc = "recheck" /\ lock = Nobody /\ lock' = w
           \/ pc # "recheck" /\ lock' = lock,
           UNCHANGED <<scn, task, call, wr, wire, ans, items, draft>>
    PROVE  IInv'
  <1> USE DEF IInv
  <1>1. Typed'
    BY DEF Typed, Goes, BgKept
  <1>2. Held'
    <2>1. \A u : Exists(u)' = Exists(u)
      BY DEF Exists
    <2>2. \A v \in Workers : ex'[v].pc # "idle" => ex'[v].task \in Tasks /\ task'[ex'[v].task].status # "none"
      BY DEF Held, Goes, Exists
    <2> QED BY <2>2 DEF Held, BgKept, Exists
  <1>3. ex[w].pc \notin Past /\ pc \notin Past
    BY PcSets DEF Past, Inside
  <1>4. \A v \in Workers, u \in Tasks : Writing(v, u)' = Writing(v, u) /\ Works(v, u)' = Works(v, u)
    BY <1>3 DEF Works, Writing, Goes
  <1>5. LockHeld'
    BY DEF LockHeld, Goes, Typed
  <1>6. FirstWrite'
    <2>1. ex[w].pc # "images"
      OBVIOUS
    <2> QED BY <1>4, <2>1 DEF FirstWrite, Goes
  <1>7. OneWorker' /\ Answers'
    BY <1>4 DEF OneWorker, Answers, Nothing
  <1>8. Executions'
    <2>1. ASSUME NEW v \in Workers PROVE ExOK(v)'
      <3>1. CASE v = w
        BY <3>1 DEF ExOK, Goes, Before
      <3>2. CASE v # w
        BY <3>2 DEF ExOK, Goes, Executions, Nothing
      <3> QED BY <3>1, <3>2
    <2> QED BY <2>1 DEF Executions
  <1>9. Queues'
    <2>1. ASSUME NEW v \in Workers PROVE QueueOK(v)'
      <3>1. QueueOK(v)
        BY DEF Queues
      <3>2. CASE v = w
        <4>1. ex[v].pc # "wait"
          BY <3>2
        <4> QED BY <3>1, <4>1 DEF QueueOK, Last
      <3>3. CASE v # w
        <4>1. ex'[v] = ex[v]
          BY <3>3 DEF Goes
        <4> QED BY <3>1, <4>1 DEF QueueOK, Last
      <3> QED BY <3>2, <3>3
    <2> QED BY <2>1 DEF Queues
  <1>10. RowsOK'
    <2>1. ASSUME NEW u \in Tasks PROVE RowOK(u)'
      <3>1. RowOK(u)
        BY DEF RowsOK
      <3>2. \A v \in Workers : ~Writing(v, u) /\ (ex[v].task = u => ex[v].pc \notin Past \ {"wait"})
               => ~Writing(v, u)' /\ (ex'[v].task = u => ex'[v].pc \notin Past \ {"wait"})
        BY <1>3, <1>4 DEF Goes
      <3> QED BY <3>1, <3>2 DEF RowOK, Nothing
    <2> QED BY <2>1 DEF RowsOK
  <1>11. Retried'
    BY DEF Retried
  <1> QED BY <1>1, <1>2, <1>5, <1>6, <1>7, <1>8, <1>9, <1>10, <1>11

\* A manual export is a success, whatever it was.
Exported(u) == /\ task[u].mode = "manual_export" /\ task[u].status # "none"
               /\ task'[u] = [task[u] EXCEPT !.status = "success"]
\* An execution is over; the writes that still wait were about its progress.
LEMMA Ends ==
    ASSUME IInv, NEW w \in Workers, ex' = [ex EXCEPT ![w] = NoEx], BgKept,
           wr' = wr \/ wr' = [wr EXCEPT ![w] = <<>>],
           ex[w].pc \in {"wait", "images"} => wr'[w] = <<>>,
           lock' = lock \/ (lock = w /\ lock' = Nobody),
           task' \in [Tasks -> Rows], \A u \in Tasks : task'[u] = task[u] \/ Exported(u),
           UNCHANGED <<scn, call, wire, ans, items, draft>>
    PROVE  IInv'
  <1> USE DEF IInv
  <1>1. /\ ex' \in [Workers -> Execs] /\ ex'[w] = NoEx
        /\ \A v \in Workers : v # w => ex'[v] = ex[v]
    BY NoExType DEF Typed
  <1>2. /\ wr' \in [Workers -> Seq(Entry)]
        /\ \A v \in Workers : v # w => wr'[v] = wr[v]
        /\ wr'[w] = wr[w] \/ wr'[w] = <<>>
    <2>1. wr \in [Workers -> Seq(Entry)] /\ <<>> \in Seq(Entry)
      BY DEF Typed
    <2>2. CASE wr' = wr
      BY <2>1, <2>2
    <2>3. CASE wr' = [wr EXCEPT ![w] = <<>>]
      BY <2>1, <2>3
    <2> QED BY <2>2, <2>3
  <1>3. Typed'
    BY <1>1, <1>2 DEF Typed, BgKept
  <1>4. \A u \in Tasks : /\ task'[u].of = task[u].of /\ task'[u].retryable = task[u].retryable
                         /\ task'[u].hidden = task[u].hidden
                         /\ task'[u].status = "pending" => task[u].status = "pending"
                         /\ task[u].status # "none" => task'[u].status # "none"
    <2>1. ASSUME NEW q \in Rows
          PROVE  LET r == [q EXCEPT !.status = "success"] IN
                 /\ r.of = q.of /\ r.retryable = q.retryable /\ r.hidden = q.hidden
                 /\ r.status = "success"
      BY DEF Rows
    <2>2. ASSUME NEW u \in Tasks
          PROVE  /\ task'[u].of = task[u].of /\ task'[u].retryable = task[u].retryable
                 /\ task'[u].hidden = task[u].hidden
                 /\ task'[u].status = "pending" => task[u].status = "pending"
                 /\ task[u].status # "none" => task'[u].status # "none"
      <3>1. task[u] \in Rows /\ (task'[u] = task[u] \/ task'[u] = [task[u] EXCEPT !.status = "success"])
        BY DEF Typed, Exported
      <3> QED BY <2>1, <3>1
    <2> QED BY <2>2
  <1>5. \A v \in Workers, u \in Tasks : /\ Writing(v, u)' => Writing(v, u)
                                        /\ Works(v, u)' => Works(v, u)
                                        /\ v # w => Writing(v, u)' = Writing(v, u)
    <2>1. Len(<<>>) = 0 /\ NoEx.pc \notin Past
      BY NoExType, PcSets DEF Past
    <2> QED BY <1>1, <1>2, <2>1 DEF Works, Writing
  <1>6. Held'
    <2>1. \A v \in Workers : ex'[v].pc # "idle" => Exists(ex[v].task) /\ ex'[v] = ex[v]
      BY <1>1, NoExType DEF Held
    <2>2. \A v \in Workers : \A i \in 1..Len(wr'[v]) : Exists(wr[v][i].task) /\ wr'[v] = wr[v]
      BY <1>2 DEF Held
    <2>3. \A u : Exists(u) => u \in Tasks /\ task'[u].status # "none"
      BY <1>4 DEF Exists
    <2>4. \A v \in Workers : ex'[v].pc # "idle" =>
             ex'[v].task \in Tasks /\ task'[ex'[v].task].status # "none"
      BY <2>1, <2>3
    <2>5. \A v \in Workers : \A i \in 1..Len(wr'[v]) :
             wr'[v][i].task \in Tasks /\ task'[wr'[v][i].task].status # "none"
      BY <2>2, <2>3
    <2>6. \A c \in Callers : call'[c].pc \in {"answer", "bg", "push", "retry", "hide", "enqueue"}
             => call'[c].task \in Tasks /\ task'[call'[c].task].status # "none"
      BY <2>3 DEF Held
    <2>7. \A u \in Tasks : bg'[u] # "none" => task'[u].status # "none"
      BY <2>3 DEF BgKept
    <2> QED BY <2>4, <2>5, <2>6, <2>7 DEF Held, Exists
  <1>7. LockHeld'
    BY <1>1, NoExType DEF LockHeld, Typed
  <1>8. FirstWrite'
    <2>1. SUFFICES ASSUME NEW v \in Workers, NEW u \in Tasks, Works(v, u)', task'[u].status = "pending"
                   PROVE  ex'[v].pc = "images" /\ ex'[v].task = u /\ Writing(v, u)'
      BY DEF FirstWrite
    <2>2. ex[v].pc = "images" /\ ex[v].task = u /\ Writing(v, u)
      BY <1>4, <1>5, <2>1 DEF FirstWrite
    <2>3. v # w
      <3>1. SUFFICES ASSUME v = w PROVE FALSE
        OBVIOUS
      <3>2. wr'[w] = <<>> /\ Len(<<>>) = 0
        BY <2>2, <3>1
      <3> QED BY <1>1, <2>1, <3>1, <3>2, NoExType, PcSets DEF Works, Writing
    <2> QED BY <1>1, <1>5, <2>2, <2>3
  <1>9. OneWorker' /\ Answers'
    BY <1>5 DEF OneWorker, Answers, Nothing
  <1>10. Executions'
    <2>1. ASSUME NEW v \in Workers PROVE ExOK(v)'
      <3>1. CASE v = w
        BY <1>1, <3>1, NoExType DEF ExOK, Before
      <3>2. CASE v # w
        BY <1>1, <3>2 DEF ExOK, Executions, Nothing
      <3> QED BY <3>1, <3>2
    <2> QED BY <2>1 DEF Executions
  <1>11. Queues'
    <2>1. \A i \in 1..Len(wr'[w]) : wr'[w][i].write = Progress
      <3>1. CASE wr'[w] = <<>>
        <4>1. Len(<<>>) = 0
          OBVIOUS
        <4> QED BY <3>1, <4>1
      <3>2. CASE wr'[w] # <<>>
        <4>1. wr'[w] = wr[w] /\ ex[w].pc # "wait" /\ QueueOK(w)
          BY <1>2, <3>2 DEF Queues
        <4> QED BY <4>1 DEF QueueOK, Last
      <3> QED BY <3>1, <3>2
    <2>2. ASSUME NEW v \in Workers, v # w PROVE QueueOK(v)'
      <3>1. wr'[v] = wr[v] /\ ex'[v] = ex[v] /\ QueueOK(v)
        BY <1>1, <1>2, <2>2 DEF Queues
      <3> QED BY <3>1 DEF QueueOK, Last
    <2>3. QueueOK(w)'
      BY <2>1 DEF QueueOK
    <2> QED BY <2>2, <2>3 DEF Queues
  <1>12. RowsOK'
    <2>1. ASSUME NEW u \in Tasks PROVE RowOK(u)'
      <3>1. RowOK(u) /\ task[u] \in Rows
        BY DEF RowsOK, Typed
      <3>2. \A v \in Workers : ~Writing(v, u) /\ (ex[v].task = u => ex[v].pc \notin Past \ {"wait"})
               => ~Writing(v, u)' /\ (ex'[v].task = u => ex'[v].pc \notin Past \ {"wait"})
        BY <1>1, <1>5, NoExType
      <3>3. CASE task'[u] = task[u]
        BY <3>1, <3>2, <3>3 DEF RowOK, Nothing
      <3>4. CASE Exported(u)
        <4>1. /\ task'[u].status = "success" /\ task'[u].cert = task[u].cert
              /\ task'[u].retryable = task[u].retryable /\ task'[u].item = task[u].item
              /\ task'[u].mode = "manual_export" /\ task'[u].kind = task[u].kind
          BY <3>1, <3>4 DEF Exported, Rows
        <4> QED BY <3>1, <3>2, <4>1 DEF RowOK, Nothing
      <3> QED BY <3>3, <3>4
    <2> QED BY <2>1 DEF RowsOK
  <1>13. Retried'
    BY <1>4 DEF Retried
  <1> QED BY <1>3, <1>6, <1>7, <1>8, <1>9, <1>10, <1>11, <1>12, <1>13

\* An execution goes on behind the second look.
LEMMA Moves ==
    ASSUME IInv, NEW w \in Workers, NEW pc \in Past \ {"images"}, NEW out \in Outs,
           ex[w].pc \in Past \ {"wait"}, ex[w].pc = "images" => wr[w] = <<>>,
           Goes(w, pc, ex[w].task, out),
           \/ wr' = wr
           \/ Queued(w, Progress)
           \/ pc = "wait" /\ out # "none" /\ Queued(w, Outcome(out)),
           \A u \in Tasks : u # ex[w].task => (u \in wire' <=> u \in wire),
           wire' \subseteq Tasks, ans' \in [Tasks -> {"none", "ok", "noId", "refused"}],
           Answers', ExOK(w)',
           UNCHANGED <<scn, task, call, bg, lock, items, draft>>
    PROVE  IInv'
  <1> USE DEF IInv
  <1> DEFINE t == ex[w].task
  <1>0. wr \in [Workers -> Seq(Entry)]
    BY DEF Typed
  <1>1. t \in Tasks /\ Exists(t) /\ Works(w, t) /\ ex[w].pc # "idle"
    BY ExFacts, PcSets DEF Works
  <1>2. wr' # wr => \E e \in Entry : /\ wr' = [wr EXCEPT ![w] = Append(@, e)] /\ e.task = t
                                     /\ \/ e.write = Progress
                                        \/ pc = "wait" /\ e = [task |-> t, write |-> Outcome(out)]
    <2>1. ASSUME NEW u \in Writes PROVE [task |-> t, write |-> u] \in Entry
      BY <1>1 DEF Entry
    <2>2. Progress \in Writes /\ (out # "none" => Outcome(out) \in Writes)
      BY WriteTypes
    <2>3. CASE Queued(w, Progress)
      BY <2>1, <2>2, <2>3 DEF Queued
    <2>4. CASE pc = "wait" /\ out # "none" /\ Queued(w, Outcome(out))
      BY <2>1, <2>2, <2>4 DEF Queued
    <2> QED BY <2>3, <2>4
  <1>3. /\ wr' \in [Workers -> Seq(Entry)]
        /\ \A v \in Workers : v # w => wr'[v] = wr[v]
        /\ \A v \in Workers, u \in Tasks : u # t \/ v # w => Writing(v, u)' = Writing(v, u)
    <2>1. CASE wr' = wr
      BY <2>1 DEF Typed, Writing
    <2>2. CASE wr' # wr
      <3>1. PICK e \in Entry : wr' = [wr EXCEPT ![w] = Append(@, e)] /\ e.task = t
        BY <1>2, <2>2
      <3>2. /\ wr' \in [Workers -> Seq(Entry)]
            /\ \A v \in Workers : v # w => wr'[v] = wr[v]
            /\ \A v \in Workers : \A u : Writing(v, u)' <=> Writing(v, u) \/ (v = w /\ u = e.task)
        <4>1. wr' = [wr EXCEPT ![w] = Append(@, e)]
          BY <3>1
        <4>2. e \in Entry /\ w \in Workers
          OBVIOUS
        <4> HIDE DEF IInv, t
        <4> QED BY ONLY <1>0, <4>1, <4>2, WritingAppend
      <3>3. ASSUME NEW v \in Workers, NEW u \in Tasks, u # t \/ v # w
            PROVE  Writing(v, u)' = Writing(v, u)
        <4>1. Writing(v, u)' <=> Writing(v, u)
          BY <3>1, <3>2, <3>3
        <4> QED BY <4>1 DEF Writing
      <3> QED BY <3>2, <3>3
    <2> QED BY <2>1, <2>2
  <1>4. \A v \in Workers, u \in Tasks : Works(v, u)' = Works(v, u)
    <2>1. ASSUME NEW v \in Workers, NEW u \in Tasks PROVE Works(v, u)' = Works(v, u)
      <3>1. CASE v = w /\ u = t
        BY <1>1, <3>1 DEF Works, Goes
      <3>2. CASE v = w /\ u # t
        BY <1>3, <3>2 DEF Works, Goes
      <3>3. CASE v # w
        BY <1>3, <3>3 DEF Works, Goes
      <3> QED BY <3>1, <3>2, <3>3
    <2> QED BY <2>1
  <1>5. task[t].cert = "none" /\ ~task[t].item /\ ~task[t].retryable
    BY <1>1 DEF RowsOK, RowOK
  <1>6. task[t].status \notin {"none", "pending"}
    <2>1. task[t].status = "pending" => ex[w].pc = "images" /\ Writing(w, t)
      BY <1>1 DEF FirstWrite
    <2>2. Len(<<>>) = 0
      OBVIOUS
    <2> QED BY <1>1, <2>1, <2>2 DEF Writing, Exists
  <1>7. Typed'
    BY <1>3 DEF Typed, Goes
  <1>8. Held'
    <2>1. \A v \in Workers : ex'[v].pc # "idle" => ex'[v].task \in Tasks /\ task'[ex'[v].task].status # "none"
      BY <1>1 DEF Held, Goes, Exists
    <2>2. ASSUME NEW v \in Workers, NEW i \in 1..Len(wr'[v])
          PROVE  wr'[v][i].task \in Tasks /\ task'[wr'[v][i].task].status # "none"
      <3>1. CASE wr'[v] = wr[v]
        BY <2>2, <3>1 DEF Held, Exists
      <3>2. CASE wr'[v] # wr[v]
        <4>1. PICK e \in Entry : wr' = [wr EXCEPT ![w] = Append(@, e)] /\ e.task = t
          BY <1>2, <3>2
        <4>2. v = w
          BY <1>3, <3>2
        <4>3. /\ Len(wr'[w]) = Len(wr[w]) + 1 /\ wr'[w][Len(wr[w]) + 1] = e
              /\ \A j \in 1..Len(wr[w]) : wr'[w][j] = wr[w][j]
          BY <1>0, <4>1, WritingAppend
        <4>4. i \in 1..Len(wr[w]) \/ i = Len(wr[w]) + 1
          <5>1. wr[w] \in Seq(Entry) /\ Len(wr[w]) \in Nat
            BY DEF Typed
          <5> QED BY <2>2, <4>2, <4>3, <5>1
        <4> QED BY <1>1, <4>1, <4>2, <4>3, <4>4 DEF Held, Exists
      <3> QED BY <3>1, <3>2
    <2> QED BY <2>1, <2>2 DEF Held, Exists
  <1>9. LockHeld'
    <2>1. pc \notin {"recheck", "images"}
      BY PcSets
    <2> QED BY <2>1 DEF LockHeld, Goes
  <1>10. FirstWrite'
    <2>1. SUFFICES ASSUME NEW v \in Workers, NEW u \in Tasks, Works(v, u)', task'[u].status = "pending"
                   PROVE  ex'[v].pc = "images" /\ ex'[v].task = u /\ Writing(v, u)'
      BY DEF FirstWrite
    <2>2. ex[v].pc = "images" /\ ex[v].task = u /\ Writing(v, u)
      BY <1>4, <2>1 DEF FirstWrite
    <2>3. v # w
      BY <1>6, <2>1, <2>2
    <2> QED BY <1>3, <2>2, <2>3 DEF Goes
  <1>11. OneWorker'
    BY <1>4 DEF OneWorker
  <1>12. Executions'
    <2>1. ASSUME NEW v \in Workers PROVE ExOK(v)'
      <3>1. CASE v = w
        BY <3>1
      <3>2. CASE v # w /\ ex[v].pc \notin Past
        BY <3>2, PcSets DEF Goes, ExOK
      <3>3. CASE v # w /\ ex[v].pc \in Past
        <4>1. ex[v].task \in Tasks /\ ex'[v] = ex[v]
          BY <3>3, ExFacts, PcSets DEF Goes
        <4>2. ex[v].task # t
          BY <1>1, <3>3, <4>1 DEF OneWorker, Works
        <4>3. Nothing(ex[v].task) => items'[ex'[v].task] = 0 /\ ex'[v].task \notin wire'
          BY <4>1, <4>2 DEF Nothing
        <4>4. ExOK(v)
          BY DEF Executions
        <4> QED BY <4>1, <4>3, <4>4 DEF ExOK, Nothing
      <3> QED BY <3>1, <3>2, <3>3
    <2> QED BY <2>1 DEF Executions
  <1>13. Queues'
    <2>1. ASSUME NEW v \in Workers, v # w PROVE QueueOK(v)'
      <3>1. wr'[v] = wr[v] /\ ex'[v] = ex[v] /\ QueueOK(v)
        BY <1>3, <2>1 DEF Queues, Goes
      <3> QED BY <3>1 DEF QueueOK, Last
    <2>2. \A i \in 1..Len(wr[w]) : wr[w][i].write = Progress
      BY DEF Queues, QueueOK, Last
    <2>3. ASSUME NEW i \in 1..Len(wr'[w]) PROVE wr'[w][i].write = Progress \/ Last(w, i)'
      <3>1. CASE wr' = wr
        BY <2>2, <2>3, <3>1
      <3>2. CASE wr' # wr
        <4>1. PICK e \in Entry : /\ wr' = [wr EXCEPT ![w] = Append(@, e)]
                                 /\ \/ e.write = Progress
                                    \/ pc = "wait" /\ e = [task |-> t, write |-> Outcome(out)]
          BY <1>2, <3>2
        <4>2. /\ Len(wr'[w]) = Len(wr[w]) + 1 /\ wr'[w][Len(wr[w]) + 1] = e
              /\ \A j \in 1..Len(wr[w]) : wr'[w][j] = wr[w][j]
          BY <1>0, <4>1, WritingAppend
        <4>3. i \in 1..Len(wr[w]) \/ i = Len(wr'[w])
          <5>1. wr[w] \in Seq(Entry) /\ Len(wr[w]) \in Nat
            BY DEF Typed
          <5> QED BY <2>3, <4>2, <5>1
        <4> QED BY <2>2, <4>1, <4>2, <4>3 DEF Last, Goes
      <3> QED BY <3>1, <3>2
    <2> QED BY <2>1, <2>3 DEF Queues, QueueOK
  <1>14. RowsOK'
    <2>1. ASSUME NEW u \in Tasks PROVE RowOK(u)'
      <3>1. RowOK(u)
        BY DEF RowsOK
      <3>2. CASE u = t
        BY <1>5, <1>6, <3>1, <3>2 DEF RowOK
      <3>3. CASE u # t
        <4>1. Nothing(u)' = Nothing(u)
          BY <3>3 DEF Nothing
        <4>2. \A v \in Workers : ~Writing(v, u) /\ (ex[v].task = u => ex[v].pc \notin Past \ {"wait"})
               => ~Writing(v, u)' /\ (ex'[v].task = u => ex'[v].pc \notin Past \ {"wait"})
          BY <1>3, <3>3 DEF Goes
        <4> QED BY <3>1, <4>1, <4>2 DEF RowOK
      <3> QED BY <3>2, <3>3
    <2> QED BY <2>1 DEF RowsOK
  <1>15. Retried'
    BY DEF Retried
  <1> QED BY <1>7, <1>8, <1>9, <1>10, <1>11, <1>12, <1>13, <1>14, <1>15

\* The second look finds the task pending, under the lock.
LEMMA RecheckPasses ==
    ASSUME IInv, NEW w \in Workers, ex[w].pc = "recheck", task[ex[w].task].status = "pending",
           Goes(w, "images", ex[w].task, "none"), Queued(w, Progress),
           UNCHANGED <<scn, task, call, bg, lock, wire, ans, items, draft>>
    PROVE  IInv'
  <1> USE DEF IInv
  <1> DEFINE t == ex[w].task
             e == [task |-> t, write |-> Progress]
  <1>0. wr \in [Workers -> Seq(Entry)]
    BY DEF Typed
  <1>1. t \in Tasks /\ Exists(t)
    BY ExFacts
  <1>2. e \in Entry /\ e.task = t /\ e.write = Progress
    BY <1>1, WriteTypes DEF Entry
  <1>3. wr' = [wr EXCEPT ![w] = Append(@, e)]
    BY DEF Queued
  <1> HIDE DEF e
  <1>4. /\ wr' \in [Workers -> Seq(Entry)]
        /\ \A v \in Workers : v # w => wr'[v] = wr[v]
        /\ Len(wr'[w]) = Len(wr[w]) + 1 /\ wr'[w][Len(wr[w]) + 1] = e
        /\ \A i \in 1..Len(wr[w]) : wr'[w][i] = wr[w][i]
        /\ \A v \in Workers : \A u : Writing(v, u)' <=> Writing(v, u) \/ (v = w /\ u = e.task)
    <2> HIDE DEF IInv, t
    <2> QED BY <1>0, <1>2, <1>3, WritingAppend
  <1>5. \A i \in 1..Len(wr'[w]) : i \in 1..Len(wr[w]) \/ wr'[w][i] = e
    <2>1. wr[w] \in Seq(Entry) /\ Len(wr[w]) \in Nat
      BY DEF Typed
    <2> QED BY <1>4, <2>1
  <1>6. lock = w /\ \A v \in Workers : ~Works(v, t)
    <2>1. lock = w
      BY DEF LockHeld
    <2>2. \A v \in Workers : ex[v].pc = "images" => v = w
      BY <2>1 DEF LockHeld
    <2> QED BY <1>1, <2>1, <2>2 DEF FirstWrite
  <1>7. \A v \in Workers, u \in Tasks : u # t /\ Works(v, u)' => Works(v, u)
    BY <1>2, <1>4 DEF Works, Goes
  <1>8. \A v \in Workers, u \in Tasks : u = t /\ Works(v, u)' => v = w
    BY <1>2, <1>4, <1>6 DEF Works, Goes
  <1>9. Typed'
    BY <1>4 DEF Typed, Goes
  <1>10. Held'
    <2>1. \A v \in Workers : ex'[v].pc # "idle" => ex'[v].task \in Tasks /\ task'[ex'[v].task].status # "none"
      BY <1>1 DEF Held, Goes, Exists
    <2>2. ASSUME NEW v \in Workers, NEW i \in 1..Len(wr'[v])
          PROVE  wr'[v][i].task \in Tasks /\ task'[wr'[v][i].task].status # "none"
      <3>1. CASE v # w
        BY <1>4, <2>2, <3>1 DEF Held, Exists
      <3>2. CASE v = w /\ i \in 1..Len(wr[w])
        BY <1>4, <3>2 DEF Held, Exists
      <3>3. CASE v = w /\ wr'[w][i] = e
        BY <1>1, <1>2, <3>3 DEF Exists
      <3> QED BY <1>5, <2>2, <3>1, <3>2, <3>3
    <2> QED BY <2>1, <2>2 DEF Held, Exists
  <1>11. LockHeld'
    BY <1>6 DEF LockHeld, Goes
  <1>12. FirstWrite'
    <2>1. SUFFICES ASSUME NEW v \in Workers, NEW u \in Tasks, Works(v, u)', task'[u].status = "pending"
                   PROVE  ex'[v].pc = "images" /\ ex'[v].task = u /\ Writing(v, u)'
      BY DEF FirstWrite
    <2>2. CASE u = t
      BY <1>2, <1>4, <1>8, <2>1, <2>2 DEF Goes
    <2>3. CASE u # t
      <3>1. ex[v].pc = "images" /\ ex[v].task = u /\ Writing(v, u)
        BY <1>7, <2>1, <2>3 DEF FirstWrite
      <3> QED BY <1>4, <3>1 DEF Goes
    <2> QED BY <2>2, <2>3
  <1>13. OneWorker'
    <2>1. SUFFICES ASSUME NEW v \in Workers, NEW x \in Workers, NEW u \in Tasks,
                          Works(v, u)', Works(x, u)'
                   PROVE  v = x
      BY DEF OneWorker
    <2>2. CASE u = t
      BY <1>8, <2>1, <2>2
    <2>3. CASE u # t
      BY <1>7, <2>1, <2>3 DEF OneWorker
    <2> QED BY <2>2, <2>3
  <1>14. Answers' /\ Retried'
    BY DEF Answers, Nothing, Retried
  <1>15. Executions'
    <2>1. ASSUME NEW v \in Workers PROVE ExOK(v)'
      <3>1. CASE v = w
        <4>1. Nothing(t)
          BY <1>1 DEF RowsOK, RowOK
        <4> QED BY <3>1, <4>1 DEF ExOK, Goes, Nothing
      <3>2. CASE v # w
        BY <3>2 DEF ExOK, Goes, Executions, Nothing
      <3> QED BY <3>1, <3>2
    <2> QED BY <2>1 DEF Executions
  <1>16. Queues'
    <2>1. ASSUME NEW v \in Workers, v # w PROVE QueueOK(v)'
      <3>1. wr'[v] = wr[v] /\ ex'[v] = ex[v] /\ QueueOK(v)
        BY <1>4, <2>1 DEF Queues, Goes
      <3> QED BY <3>1 DEF QueueOK, Last
    <2>2. \A i \in 1..Len(wr[w]) : wr[w][i].write = Progress
      BY DEF Queues, QueueOK, Last
    <2>3. \A i \in 1..Len(wr'[w]) : wr'[w][i].write = Progress
      BY <1>2, <1>4, <1>5, <2>2
    <2>4. QueueOK(w)'
      BY <2>3 DEF QueueOK
    <2> QED BY <2>1, <2>4 DEF Queues
  <1>17. RowsOK'
    <2>1. ASSUME NEW u \in Tasks PROVE RowOK(u)'
      <3>1. RowOK(u)
        BY DEF RowsOK
      <3>2. CASE u = t
        BY <3>1, <3>2 DEF RowOK, Nothing
      <3>3. CASE u # t
        <4>1. \A v \in Workers : ~Writing(v, u) /\ (ex[v].task = u => ex[v].pc \notin Past \ {"wait"})
               => ~Writing(v, u)' /\ (ex'[v].task = u => ex'[v].pc \notin Past \ {"wait"})
          BY <1>2, <1>4, <3>3 DEF Goes
        <4> QED BY <3>1, <4>1 DEF RowOK, Nothing
      <3> QED BY <3>2, <3>3
    <2> QED BY <2>1 DEF RowsOK
  <1> QED BY <1>9, <1>10, <1>11, <1>12, <1>13, <1>14, <1>15, <1>16, <1>17

\* A write that waited is made.
LEMMA WriteRowStep == ASSUME IInv, NEW w \in Workers, WriteRow(w) PROVE IInv'
  <1> USE DEF IInv
  <1>0. PICK e : e = wr[w][1]
    OBVIOUS
  <1> DEFINE t == e.task
             u == e.write
  <1>1. /\ wr' \in [Workers -> Seq(Entry)] /\ e \in Entry /\ Head(wr[w]) = e
        /\ 1 \in 1..Len(wr[w])
        /\ \A v \in Workers : v # w => wr'[v] = wr[v]
        /\ Len(wr[w]) \in Nat /\ Len(wr'[w]) = Len(wr[w]) - 1
        /\ \A i \in 1..Len(wr'[w]) : i + 1 \in 1..Len(wr[w]) /\ wr'[w][i] = wr[w][i + 1]
        /\ \A v \in Workers : \A s : Writing(v, s)' => Writing(v, s)
        /\ \A v \in Workers : \A s : Writing(v, s) => Writing(v, s)' \/ (v = w /\ s = t)
    <2>1. wr \in [Workers -> Seq(Entry)] /\ wr[w] # <<>> /\ wr' = [wr EXCEPT ![w] = Tail(@)]
      BY DEF Typed, WriteRow
    <2>2. /\ wr' \in [Workers -> Seq(Entry)] /\ wr[w][1] \in Entry /\ Head(wr[w]) = wr[w][1]
          /\ 1 \in 1..Len(wr[w])
          /\ \A v \in Workers : v # w => wr'[v] = wr[v]
          /\ Len(wr[w]) \in Nat /\ Len(wr'[w]) = Len(wr[w]) - 1
          /\ \A i \in 1..Len(wr'[w]) : i + 1 \in 1..Len(wr[w]) /\ wr'[w][i] = wr[w][i + 1]
          /\ \A v \in Workers : \A s : Writing(v, s)' => Writing(v, s)
          /\ \A v \in Workers : \A s : Writing(v, s) => Writing(v, s)' \/ (v = w /\ s = wr[w][1].task)
      BY <2>1, WritingTail
    <2> QED BY <1>0, <2>2
  <1>2. t \in Tasks /\ Exists(t) /\ u \in Writes /\ Writing(w, t)
    BY <1>0, <1>1 DEF Entry, Held, Writing
  <1>3. task' = [task EXCEPT ![t] = Apply(task[t], u)]
    BY <1>1 DEF WriteRow
  <1>4. UNCHANGED <<scn, call, bg, ex, lock, wire, ans, items, draft>>
    BY DEF WriteRow, platform, media, bounds
  <1>5. task[t].cert = "none" /\ ~task[t].item /\ ~task[t].retryable
    BY <1>2 DEF RowsOK, RowOK
  <1> DEFINE r == Apply(task[t], u)
  <1>6. task[t] \in Rows
    BY <1>2 DEF Typed
  <1>7. /\ r \in Rows /\ r.status = u.status /\ r.kind = u.kind
        /\ r.item = (task[t].item \/ u.item) /\ r.cert = u.cert
        /\ u.cert # "none" => r.retryable = u.retryable
        /\ u.cert = "none" => r.retryable = task[t].retryable
        /\ r.hidden = task[t].hidden /\ r.of = task[t].of /\ r.mode = task[t].mode
    BY <1>2, <1>5, <1>6, ApplyFacts
  <1>8. u.status \in {"running"} \cup Ended
    BY <1>2 DEF Writes
  <1> HIDE DEF r, u, t
  <1>9. task' \in [Tasks -> Rows] /\ task'[t] = r /\ \A s \in Tasks : s # t => task'[s] = task[s]
    BY <1>2, <1>3, <1>7 DEF Typed, r
  <1>10. Typed'
    BY <1>1, <1>4, <1>9 DEF Typed
  <1>11. \A s \in Tasks : /\ task'[s].of = task[s].of /\ task'[s].hidden = task[s].hidden
                          /\ task[s].status # "none" => task'[s].status # "none"
                          /\ task'[s].status = "pending" => task[s].status = "pending" /\ s # t
    BY <1>7, <1>8, <1>9
  <1>12. Held'
    <2>1. \A s : Exists(s) => s \in Tasks /\ task'[s].status # "none"
      BY <1>11 DEF Exists
    <2>2. \A v \in Workers : ex'[v].pc # "idle" => ex'[v].task \in Tasks /\ task'[ex'[v].task].status # "none"
      BY <1>4, <2>1 DEF Held
    <2>3. ASSUME NEW v \in Workers, NEW i \in 1..Len(wr'[v])
          PROVE  wr'[v][i].task \in Tasks /\ task'[wr'[v][i].task].status # "none"
      <3>1. \E j \in 1..Len(wr[v]) : wr'[v][i] = wr[v][j]
        BY <1>1, <2>3
      <3> QED BY <2>1, <3>1 DEF Held
    <2>4. \A c \in Callers : call'[c].pc \in {"answer", "bg", "push", "retry", "hide", "enqueue"}
             => call'[c].task \in Tasks /\ task'[call'[c].task].status # "none"
      BY <1>4, <2>1 DEF Held
    <2>5. \A s \in Tasks : bg'[s] # "none" => task'[s].status # "none"
      BY <1>4, <2>1 DEF Held
    <2> QED BY <2>2, <2>3, <2>4, <2>5 DEF Held, Exists
  <1>13. \A v \in Workers, s \in Tasks : Works(v, s)' => Works(v, s)
    BY <1>1, <1>4 DEF Works
  <1>14. LockHeld' /\ OneWorker' /\ Answers' /\ Executions'
    BY <1>4, <1>13 DEF LockHeld, OneWorker, Answers, Executions, ExOK, Nothing
  <1>15. FirstWrite'
    <2>1. SUFFICES ASSUME NEW v \in Workers, NEW s \in Tasks, Works(v, s)', task'[s].status = "pending"
                   PROVE  ex'[v].pc = "images" /\ ex'[v].task = s /\ Writing(v, s)'
      BY DEF FirstWrite
    <2>2. ex[v].pc = "images" /\ ex[v].task = s /\ Writing(v, s)
      BY <1>11, <1>13, <2>1 DEF FirstWrite
    <2> QED BY <1>1, <1>4, <1>11, <2>1, <2>2
  <1>16. Queues'
    <2>1. ASSUME NEW v \in Workers, v # w PROVE QueueOK(v)'
      <3>1. wr'[v] = wr[v] /\ ex'[v] = ex[v] /\ QueueOK(v)
        BY <1>1, <1>4, <2>1 DEF Queues
      <3> QED BY <3>1 DEF QueueOK, Last
    <2>2. ASSUME NEW i \in 1..Len(wr'[w]) PROVE wr'[w][i].write = Progress \/ Last(w, i)'
      <3>1. i + 1 \in 1..Len(wr[w]) /\ wr'[w][i] = wr[w][i + 1]
        BY <1>1, <2>2
      <3>2. wr[w][i + 1].write = Progress \/ Last(w, i + 1)
        BY <3>1 DEF Queues, QueueOK
      <3>3. i + 1 = Len(wr[w]) => i = Len(wr'[w])
        BY <1>1, <2>2
      <3> QED BY <1>4, <3>1, <3>2, <3>3 DEF Last
    <2> QED BY <2>1, <2>2 DEF Queues, QueueOK
  <1>17. RowOK(t)'
    <2>1. u = Progress \/ Last(w, 1)
      BY <1>0, <1>1 DEF Queues, QueueOK, u
    <2>2. CASE u = Progress
      <3>1. r.status = "running" /\ r.cert = "none" /\ ~r.item /\ ~r.retryable
        BY <1>5, <1>7, <2>2, WriteTypes
      <3> QED BY <1>9, <3>1 DEF RowOK
    <2>3. CASE Last(w, 1)
      <3> DEFINE out == ex[w].out
      <3>1. /\ 1 = Len(wr[w]) /\ ex[w].pc = "wait" /\ t = ex[w].task /\ u = Outcome(out)
        BY <1>0, <2>3 DEF Last, t, u
      <3>2. out \in Outs \ {"none"} /\ ExOK(w)
        BY <3>1, ExFacts DEF Executions, ExOK
      <3>3. /\ u.cert # "none"
            /\ u.item => out \in {"listed", "notListed"}
            /\ u.status = "success" => u.item
            /\ u.cert = "confirmed_failed" =>
                 u.kind = out /\ out \in {"rejected", "network", "internal", "cookie_conflict"}
            /\ u.retryable => out = "network"
        BY <3>1, <3>2, OutcomeFacts
      <3>4. \A v \in Workers : ~Writing(v, t)' /\ (ex'[v].task = t => ex'[v].pc \notin Past \ {"wait"})
        <4>1. ASSUME NEW v \in Workers, v # w PROVE ~Works(v, t)
          BY <1>2, <4>1 DEF OneWorker, Works
        <4>2. ~Writing(w, t)'
          BY <1>1, <3>1 DEF Writing
        <4>3. ASSUME NEW v \in Workers, v # w
              PROVE  ~Writing(v, t)' /\ (ex'[v].task = t => ex'[v].pc \notin Past \ {"wait"})
          BY <1>1, <1>4, <4>1, <4>3 DEF Works
        <4>4. ex'[w].pc = "wait"
          BY <1>4, <3>1
        <4> QED BY <4>2, <4>3, <4>4
      <3>5. /\ out \in {"listed", "notListed", "cookie_conflict"} => items[t] = 1
            /\ out \in {"rejected", "network"} => Nothing(t)
        BY <3>1, <3>2 DEF ExOK
      <3>6. Nothing(t)' = Nothing(t)
        BY <1>4 DEF Nothing
      <3> HIDE DEF out
      <3>7. /\ r.status \notin {"none", "pending"} /\ r.cert # "none"
            /\ r.item => items[t] = 1
            /\ r.status = "success" => r.item
            /\ r.cert = "confirmed_failed" =>
                  /\ r.kind \notin {"internal", "cookie_conflict"} => Nothing(t)
                  /\ r.kind = "cookie_conflict" => items[t] = 1
            /\ r.retryable => Nothing(t)
        BY <1>5, <1>7, <1>8, <3>3, <3>5
      <3> QED BY <1>4, <1>9, <3>4, <3>6, <3>7 DEF RowOK
    <2> QED BY <2>1, <2>2, <2>3
  <1>18. RowsOK'
    <2>1. ASSUME NEW s \in Tasks, s # t PROVE RowOK(s)'
      <3>1. RowOK(s) /\ task'[s] = task[s]
        BY <1>9, <2>1 DEF RowsOK
      <3>2. \A v \in Workers : ~Writing(v, s) => ~Writing(v, s)'
        BY <1>1
      <3> QED BY <1>4, <3>1, <3>2 DEF RowOK, Nothing
    <2> QED BY <1>17, <2>1 DEF RowsOK
  <1>19. Retried'
    <2>1. ASSUME NEW s \in Tasks, task[s].of \in Tasks
          PROVE  task'[task[s].of].hidden /\ task'[task[s].of].retryable
      <3>1. task[task[s].of].hidden /\ task[task[s].of].retryable
        BY <2>1 DEF Retried
      <3>2. task[s].of # t
        BY <1>5, <3>1
      <3> QED BY <1>9, <2>1, <3>1, <3>2
    <2> QED BY <1>11, <2>1 DEF Retried
  <1> QED BY <1>10, <1>12, <1>14, <1>15, <1>16, <1>18, <1>19

-----------------------------------------------------------------------------
(* The steps of a worker.                                                  *)

LEMMA EndMeans ==
    ASSUME IInv, NEW w \in Workers, NEW ok, ex[w].pc # "idle", End(w, ok)
    PROVE  /\ ex' = [ex EXCEPT ![w] = NoEx] /\ BgKept
           /\ lock' = lock \/ (lock = w /\ lock' = Nobody)
  <1>1. ex[w].task \in Tasks
    BY ExFacts
  <1>2. BgKept
    BY <1>1 DEF End, BgKept, IInv, Typed, Held
  <1> QED BY <1>2 DEF End

LEMMA EndStep ==
    ASSUME IInv, NEW w \in Workers, NEW ok, ex[w].pc \notin {"idle", "images"},
           ex[w].pc = "wait" => wr[w] = <<>>, End(w, ok),
           UNCHANGED <<scn, task, call, wr, wire, ans, items, draft>>
    PROVE  IInv'
  BY EndMeans, Ends DEF IInv, Typed

LEMMA ClaimStep == ASSUME IInv, NEW w \in Workers, Claim(w) PROVE IInv'
  <1>1. PICK t \in Tasks : /\ bg[t] \in {"pending", "queued"}
                           /\ bg' = [bg EXCEPT ![t] = "running"]
                           /\ ex' = [ex EXCEPT ![w] = Ex("look", t, "none")]
    BY DEF Claim
  <1>2. Exists(t)
    BY <1>1 DEF IInv, Held
  <1>3. Ex("look", t, "none") \in Execs
    BY DEF Ex, Execs, Outs
  <1>4. Goes(w, "look", t, "none")
    BY <1>1, <1>3 DEF Goes, IInv, Typed, Ex
  <1>5. BgKept
    BY <1>1, <1>2 DEF BgKept, IInv, Typed, Held
  <1>6. UNCHANGED <<scn, task, call, wr, lock, wire, ans, items, draft>> /\ ex[w].pc = "idle"
    BY DEF Claim, platform, media, bounds
  <1> QED BY <1>2, <1>4, <1>5, <1>6, Approaches

LEMMA BgSame == ASSUME IInv, UNCHANGED bg PROVE BgKept
  BY DEF BgKept, IInv, Typed, Held

LEMMA LookStep == ASSUME IInv, NEW w \in Workers, Look(w) PROVE IInv'
  <1> DEFINE t == ex[w].task
  <1>1. UNCHANGED <<scn, call, wr, wire, ans, items, draft>> /\ ex[w].pc = "look"
    BY DEF Look, platform, media, bounds
  <1>2. t \in Tasks /\ Exists(t) /\ task[t] \in Rows
    BY <1>1, ExFacts DEF IInv, Typed
  <1>3. CASE task[t].mode = "manual_export" /\ End(w, draft.status # "none")
             /\ task' = IF draft.status = "none" THEN task ELSE [task EXCEPT ![t].status = "success"]
    <2>1. [task[t] EXCEPT !.status = "success"] \in Rows
      BY <1>2 DEF Rows, Statuses
    <2>2. task' \in [Tasks -> Rows] /\ \A u \in Tasks : task'[u] = task[u] \/ Exported(u)
      <3>1. CASE task' = task
        BY <3>1 DEF IInv, Typed
      <3>2. CASE task' = [task EXCEPT ![t].status = "success"]
        <4>1. /\ task' \in [Tasks -> Rows] /\ task'[t] = [task[t] EXCEPT !.status = "success"]
              /\ \A u \in Tasks : u # t => task'[u] = task[u]
          BY <1>2, <2>1, <3>2 DEF IInv, Typed
        <4> QED BY <1>2, <1>3, <4>1 DEF Exported, Exists
      <3> QED BY <1>3, <3>1, <3>2
    <2>3. /\ ex' = [ex EXCEPT ![w] = NoEx] /\ BgKept
          /\ lock' = lock \/ (lock = w /\ lock' = Nobody)
      BY <1>1, <1>3, EndMeans
    <2> QED BY <1>1, <2>2, <2>3, Ends
  <1>4. CASE End(w, TRUE) /\ UNCHANGED task
    BY <1>1, <1>4, EndStep
  <1>5. CASE Step(w, "lock", "none") /\ UNCHANGED <<task, bg, lock>>
    <2>1. Goes(w, "lock", t, "none")
      BY <1>5, StepMeans DEF IInv, Typed, Outs
    <2> QED BY <1>1, <1>2, <1>5, <2>1, BgSame, Approaches
  <1> QED BY <1>3, <1>4, <1>5 DEF Look

LEMMA AcquireLockStep == ASSUME IInv, NEW w \in Workers, AcquireLock(w) PROVE IInv'
  <1>1. /\ UNCHANGED <<scn, task, call, bg, wr, wire, ans, items, draft>> /\ ex[w].pc = "lock"
        /\ lock = Nobody /\ lock' = w /\ Step(w, "recheck", "none")
    BY DEF AcquireLock, requests, platform, media, bounds
  <1>2. Goes(w, "recheck", ex[w].task, "none")
    BY <1>1, StepMeans DEF IInv, Typed, Outs, Inside
  <1> QED BY <1>1, <1>2, ExFacts, BgSame, Approaches

LEMMA LockTimeoutStep == ASSUME IInv, NEW w \in Workers, LockTimeout(w) PROVE IInv'
  <1>1. /\ UNCHANGED <<scn, task, call, wr, wire, ans, items, draft>> /\ ex[w].pc = "lock"
        /\ End(w, FALSE)
    BY DEF LockTimeout, Fault, platform, media
  <1> QED BY <1>1, EndStep

LEMMA RecheckStep == ASSUME IInv, NEW w \in Workers, Recheck(w) PROVE IInv'
  <1>1. UNCHANGED <<scn, task, call, wire, ans, items, draft>> /\ ex[w].pc = "recheck"
    BY DEF Recheck, platform, media, bounds
  <1>2. CASE /\ task[ex[w].task].status = "pending" /\ Step(w, "images", "none")
             /\ Queued(w, Progress) /\ UNCHANGED <<bg, lock>>
    <2>1. Goes(w, "images", ex[w].task, "none")
      BY <1>2, StepMeans DEF IInv, Typed, Outs, Inside
    <2> QED BY <1>1, <1>2, <2>1, RecheckPasses
  <1>3. CASE End(w, TRUE) /\ UNCHANGED wr
    BY <1>1, <1>3, EndStep
  <1> QED BY <1>2, <1>3 DEF Recheck

LEMMA CrashStep == ASSUME IInv, NEW w \in Workers, Crash(w) PROVE IInv'
  <1>1. /\ ex' = [ex EXCEPT ![w] = NoEx] /\ wr' = [wr EXCEPT ![w] = <<>>]
        /\ UNCHANGED <<scn, task, call, bg, lock, wire, ans, items, draft>>
    BY DEF Crash, requests, platform, media
  <1>2. wr'[w] = <<>>
    BY <1>1 DEF IInv, Typed
  <1> QED BY <1>1, <1>2, BgSame, Ends DEF IInv, Typed

\* The steps behind the second look that leave the platform alone.
LEMMA MovesQuietly ==
    ASSUME IInv, NEW w \in Workers, NEW pc \in Past \ {"images"}, NEW out \in Outs,
           ex[w].pc \in Past \ {"wait"}, ex[w].pc = "images" => wr[w] = <<>>,
           Goes(w, pc, ex[w].task, out),
           \/ wr' = wr
           \/ Queued(w, Progress)
           \/ pc = "wait" /\ out # "none" /\ Queued(w, Outcome(out)),
           UNCHANGED <<scn, task, call, bg, lock, wire, ans, items, draft>>,
           pc \in Before => Nothing(ex[w].task),
           pc = "verify" => items[ex[w].task] = 1,
           pc = "verified" => out \in {"listed", "notListed"},
           pc = "merge" => out \notin {"none", "internal", "cookie_conflict"},
           pc = "wait" => out # "none",
           pc \in {"verified", "merge", "wait"} =>
              /\ out \in {"listed", "notListed", "cookie_conflict"} => items[ex[w].task] = 1
              /\ out \in {"rejected", "network"} => Nothing(ex[w].task)
    PROVE  IInv'
  <1>1. ExOK(w)'
    BY DEF ExOK, Goes, Nothing
  <1>2. /\ wire' \subseteq Tasks /\ ans' \in [Tasks -> {"none", "ok", "noId", "refused"}] /\ Answers'
    BY DEF IInv, Typed, Answers, Nothing
  <1> QED BY <1>1, <1>2, Moves

LEMMA ExOKFacts == ASSUME IInv, NEW w \in Workers PROVE ExOK(w)
  BY DEF IInv, Executions

LEMMA PrepareStep ==
    ASSUME IInv, NEW w \in Workers,
           ReadImages(w) \/ Validate(w) \/ Locate(w) \/ UploadImages(w) \/ RecommendCategory(w)
    PROVE  IInv'
  <1>1. /\ UNCHANGED <<scn, task, call, bg, lock, wire, ans, items, draft>>
        /\ ex[w].pc \in Before /\ (ex[w].pc = "images" => wr[w] = <<>>)
        /\ wr' = wr \/ Queued(w, Progress)
    BY DEF ReadImages, Validate, Locate, UploadImages, RecommendCategory, Quiet, NetworkFails,
           Refuses, Fault, requests, platform, media, bounds, Before
  <1>2. \/ Step(w, "merge", "rejected") \/ Step(w, "merge", "network")
        \/ \E pc \in {"prepare", "locate", "upload", "category", "progress"} : Step(w, pc, "none")
    BY DEF ReadImages, Validate, Locate, UploadImages, RecommendCategory, NetworkFails, Refuses
  <1>3. Nothing(ex[w].task) /\ ex[w].pc \in Past \ {"wait"}
    BY <1>1, ExOKFacts, PcSets DEF ExOK, Before
  <1>4. ASSUME NEW out \in {"rejected", "network"}, Step(w, "merge", out) PROVE IInv'
    <2>1. Goes(w, "merge", ex[w].task, out) /\ out \in Outs /\ "merge" \in Past \ {"images"}
      BY <1>4, StepMeans, PcSets DEF IInv, Typed, Outs, Inside
    <2>2. "merge" \notin Before
      BY DEF Before
    <2> QED BY <1>1, <1>3, <2>1, <2>2, MovesQuietly
  <1>5. ASSUME NEW pc \in {"prepare", "locate", "upload", "category", "progress"}, Step(w, pc, "none")
        PROVE IInv'
    <2>1. Goes(w, pc, ex[w].task, "none") /\ "none" \in Outs /\ pc \in Past \ {"images"}
      BY <1>5, StepMeans, PcSets DEF IInv, Typed, Outs, Inside, Before
    <2> QED BY <1>1, <1>3, <2>1, MovesQuietly
  <1> QED BY <1>2, <1>4, <1>5

LEMMA ReportedStep == ASSUME IInv, NEW w \in Workers, Reported(w) PROVE IInv'
  <1>1. /\ UNCHANGED <<scn, task, call, bg, lock, wr, wire, ans, items, draft>>
        /\ ex[w].pc \in {"progress", "verified"}
        /\ ex' = [ex EXCEPT ![w].pc = IF ex[w].pc = "progress" THEN "post" ELSE "merge"]
    BY DEF Reported, Quiet, Fault, requests, platform, media, bounds
  <1>2. ex[w].pc \in Past \ {"wait"} /\ ExOK(w) /\ ex[w].out \in Outs /\ ex[w] \in Execs
    BY <1>1, ExOKFacts, PcSets DEF Before, IInv, Typed, Execs
  <1> DEFINE out == ex[w].out
  <1>3. ASSUME NEW pc \in {"post", "merge"}, ex' = [ex EXCEPT ![w].pc = pc]
        PROVE  Goes(w, pc, ex[w].task, out) /\ pc \in Past \ {"images"}
    <2>1. ASSUME NEW x \in Execs
          PROVE  LET y == [x EXCEPT !.pc = pc] IN
                 y \in Execs /\ y.pc = pc /\ y.task = x.task /\ y.out = x.out
      BY DEF Execs, Inside
    <2> DEFINE y == [ex[w] EXCEPT !.pc = pc]
    <2>2. ex' = [ex EXCEPT ![w] = y]
      BY <1>3
    <2>3. y \in Execs /\ y.pc = pc /\ y.task = ex[w].task /\ y.out = out
      BY <1>2, <2>1
    <2> HIDE DEF y
    <2>4. Goes(w, pc, ex[w].task, out)
      BY <2>2, <2>3 DEF Goes, IInv, Typed
    <2> QED BY <2>4, PcSets DEF Before
  <1>4. CASE ex[w].pc = "progress"
    <2>1. Goes(w, "post", ex[w].task, out) /\ "post" \in Past \ {"images"}
      BY <1>1, <1>3, <1>4
    <2>2. Nothing(ex[w].task)
      BY <1>2, <1>4 DEF ExOK, Before
    <2> QED BY <1>1, <1>2, <2>1, <2>2, MovesQuietly
  <1>5. CASE ex[w].pc = "verified"
    <2>1. Goes(w, "merge", ex[w].task, out) /\ "merge" \in Past \ {"images"} /\ "merge" \notin Before
      BY <1>1, <1>3, <1>5 DEF Before
    <2>2. out \in {"listed", "notListed"} /\ items[ex[w].task] = 1
      BY <1>2, <1>5 DEF ExOK
    <2> QED BY <1>1, <1>2, <2>1, <2>2, MovesQuietly
  <1> QED BY <1>1, <1>4, <1>5

LEMMA PostStep == ASSUME IInv, NEW w \in Workers, Post(w) PROVE IInv'
  <1> DEFINE t == ex[w].task
  <1>1. /\ UNCHANGED <<scn, task, call, bg, wr, lock, items, draft>> /\ ex[w].pc = "post"
        /\ wire' = wire \cup {t} /\ ans' = [ans EXCEPT ![t] = "none"] /\ Step(w, "sent", "none")
    BY DEF Post, requests, media, bounds
  <1>2. t \in Tasks /\ Nothing(t) /\ ex[w].pc \in Past \ {"wait"}
    BY <1>1, ExFacts, ExOKFacts, PcSets DEF ExOK, Before
  <1>3. Goes(w, "sent", t, "none") /\ "none" \in Outs /\ "sent" \in Past \ {"images"}
    BY <1>1, StepMeans, PcSets DEF IInv, Typed, Outs, Inside
  <1>4. ExOK(w)'
    BY <1>3 DEF ExOK, Goes, Before
  <1>5. wire' \subseteq Tasks /\ ans' \in [Tasks -> {"none", "ok", "noId", "refused"}]
    BY <1>1, <1>2 DEF IInv, Typed
  <1>6. Answers'
    <2>1. ASSUME NEW u \in Tasks
          PROVE  /\ items'[u] <= 1
                 /\ u \in wire' => items'[u] = 0
                 /\ ans'[u] \in {"ok", "noId"} => items'[u] = 1
                 /\ ans'[u] = "refused" => items'[u] = 0 /\ u \notin wire'
      <3>1. CASE u = t
        BY <1>1, <1>2, <3>1 DEF Nothing, IInv, Typed
      <3>2. CASE u # t
        BY <1>1, <3>2 DEF IInv, Typed, Answers, Nothing
      <3> QED BY <3>1, <3>2
    <2> QED BY <2>1 DEF Answers, Nothing
  <1>7. \A u \in Tasks : u # t => (u \in wire' <=> u \in wire)
    BY <1>1
  <1> QED BY <1>1, <1>2, <1>3, <1>4, <1>5, <1>6, <1>7, Moves

LEMMA AnswerStep == ASSUME IInv, NEW w \in Workers, Answer(w) PROVE IInv'
  <1> DEFINE t == ex[w].task
  <1>1. /\ UNCHANGED <<scn, task, call, bg, lock, wr, wire, ans, items, draft>> /\ ex[w].pc = "sent"
    BY DEF Answer, Quiet, Fault, requests, platform, media, bounds
  <1>2. t \in Tasks /\ ex[w].pc \in Past \ {"wait"}
    BY <1>1, ExFacts, PcSets
  <1>3. \/ ans[t] = "ok" /\ Step(w, "verify", "none")
        \/ Step(w, "merge", "unknown")
        \/ ans[t] = "refused" /\ Step(w, "merge", "rejected")
    BY DEF Answer, LostAnswer
  <1>4. CASE ans[t] = "ok" /\ Step(w, "verify", "none")
    <2>1. /\ Goes(w, "verify", t, "none") /\ "none" \in Outs /\ "verify" \in Past \ {"images"}
          /\ "verify" \notin Before
      BY <1>4, StepMeans, PcSets DEF IInv, Typed, Outs, Inside, Before
    <2>2. items[t] = 1
      BY <1>2, <1>4 DEF IInv, Answers
    <2> QED BY <1>1, <1>2, <2>1, <2>2, MovesQuietly
  <1>5. CASE Step(w, "merge", "unknown")
    <2>1. /\ Goes(w, "merge", t, "unknown") /\ "unknown" \in Outs /\ "merge" \in Past \ {"images"}
          /\ "merge" \notin Before
      BY <1>5, StepMeans, PcSets DEF IInv, Typed, Outs, Inside, Before
    <2> QED BY <1>1, <1>2, <2>1, MovesQuietly
  <1>6. CASE ans[t] = "refused" /\ Step(w, "merge", "rejected")
    <2>1. /\ Goes(w, "merge", t, "rejected") /\ "rejected" \in Outs /\ "merge" \in Past \ {"images"}
          /\ "merge" \notin Before
      BY <1>6, StepMeans, PcSets DEF IInv, Typed, Outs, Inside, Before
    <2>2. Nothing(t)
      BY <1>2, <1>6 DEF IInv, Answers
    <2> QED BY <1>1, <1>2, <2>1, <2>2, MovesQuietly
  <1> QED BY <1>3, <1>4, <1>5, <1>6

LEMMA VerifyStep == ASSUME IInv, NEW w \in Workers, Verify(w) PROVE IInv'
  <1>1. /\ UNCHANGED <<scn, task, call, bg, lock, wire, ans, items, draft>> /\ ex[w].pc = "verify"
        /\ Queued(w, Progress)
    BY DEF Verify, Quiet, requests, platform, media, bounds
  <1>2. PICK out \in {"listed", "notListed"} : Step(w, "verified", out)
    BY DEF Verify
  <1>3. /\ Goes(w, "verified", ex[w].task, out) /\ out \in Outs /\ "verified" \in Past \ {"images"}
        /\ "verified" \notin Before
    BY <1>2, StepMeans, PcSets DEF IInv, Typed, Outs, Inside, Before
  <1>4. items[ex[w].task] = 1 /\ ex[w].pc \in Past \ {"wait"}
    BY <1>1, ExOKFacts, PcSets DEF ExOK
  <1> QED BY <1>1, <1>3, <1>4, MovesQuietly

LEMMA MergeStep == ASSUME IInv, NEW w \in Workers, Merge(w) PROVE IInv'
  <1> DEFINE out == ex[w].out
  <1>1. UNCHANGED <<scn, task, call, wire, ans, items, draft>> /\ ex[w].pc = "merge"
    BY DEF Merge, Fault, platform, media, bounds
  <1>2. ex[w].pc \in Past \ {"wait"} /\ ExOK(w) /\ out \in Outs /\ "wait" \in Past \ {"images"}
        /\ "wait" \notin Before
    BY <1>1, ExOKFacts, ExFacts, PcSets DEF Before
  <1>3. CASE Queued(w, Outcome(out)) /\ Step(w, "wait", out) /\ UNCHANGED <<bg, lock>>
    <2>1. Goes(w, "wait", ex[w].task, out)
      BY <1>2, <1>3, StepMeans DEF IInv, Typed, Inside
    <2>2. /\ out # "none"
          /\ out \in {"listed", "notListed", "cookie_conflict"} => items[ex[w].task] = 1
          /\ out \in {"rejected", "network"} => Nothing(ex[w].task)
      BY <1>1, <1>2 DEF ExOK
    <2> QED BY <1>1, <1>2, <1>3, <2>1, <2>2, MovesQuietly
  <1>4. ASSUME NEW kind \in {"internal", "cookie_conflict"}, out \in {"listed", "notListed"},
               Queued(w, Outcome(kind)), Step(w, "wait", kind), UNCHANGED <<bg, lock>>
        PROVE  IInv'
    <2>1. Goes(w, "wait", ex[w].task, kind) /\ kind \in Outs
      BY <1>2, <1>4, StepMeans DEF IInv, Typed, Inside, Outs
    <2>2. items[ex[w].task] = 1
      BY <1>1, <1>2, <1>4 DEF ExOK
    <2> QED BY <1>1, <1>2, <1>4, <2>1, <2>2, MovesQuietly
  <1>5. CASE End(w, FALSE) /\ UNCHANGED wr
    BY <1>1, <1>5, EndStep
  <1> QED BY <1>3, <1>4, <1>5 DEF Merge

LEMMA FinishStep == ASSUME IInv, NEW w \in Workers, Finish(w) PROVE IInv'
  <1>1. /\ UNCHANGED <<scn, task, call, wr, wire, ans, items, draft>> /\ ex[w].pc = "wait"
        /\ wr[w] = <<>> /\ End(w, ex[w].out \in {"listed", "notListed"})
    BY DEF Finish, platform, media, bounds
  <1> QED BY <1>1, EndStep

LEMMA WorkersStep == ASSUME IInv, NEW w \in Workers, WorkerNext(w) \/ Crash(w) PROVE IInv'
  BY ClaimStep, LookStep, AcquireLockStep, LockTimeoutStep, RecheckStep, WriteRowStep, PrepareStep,
     ReportedStep, PostStep, AnswerStep, VerifyStep, MergeStep, FinishStep, CrashStep
     DEF WorkerNext, WorkerStep

-----------------------------------------------------------------------------
(* The platform, the sync, and what fails.                                 *)

LEMMA PlatformStep == ASSUME IInv, NEW t \in Tasks, Platform(t) PROVE IInv'
  <1> USE DEF IInv
  <1>1. /\ UNCHANGED <<scn, task, call, bg, ex, wr, lock, draft>>
        /\ t \in wire /\ wire' = wire \ {t}
    BY DEF Platform, requests, worker, media, bounds
  <1>2. /\ items' \in [Tasks -> Nat] /\ ans' \in [Tasks -> {"none", "ok", "noId", "refused"}]
        /\ \A u \in Tasks : u # t => items'[u] = items[u] /\ ans'[u] = ans[u]
        /\ \/ items'[t] = items[t] + 1 /\ ans'[t] \in {"ok", "noId"}
           \/ items'[t] = items[t] /\ ans'[t] = "refused"
    <2>1. items \in [Tasks -> Nat] /\ ans \in [Tasks -> {"none", "ok", "noId", "refused"}]
      BY DEF Typed
    <2>2. CASE /\ items' = [items EXCEPT ![t] = @ + 1]
               /\ \E a \in {"ok", "noId"} : ans' = [ans EXCEPT ![t] = a]
      BY <2>1, <2>2
    <2>3. CASE ans' = [ans EXCEPT ![t] = "refused"] /\ UNCHANGED items
      BY <2>1, <2>3
    <2> QED BY <2>2, <2>3 DEF Platform
  <1>3. items[t] = 0 /\ ~Nothing(t)
    BY <1>1 DEF Answers, Nothing
  <1>4. \A u \in Tasks : u # t => Nothing(u)' = Nothing(u)
    BY <1>1, <1>2 DEF Nothing
  <1>5. Typed'
    BY <1>1, <1>2 DEF Typed
  <1>6. Held' /\ LockHeld' /\ Retried'
    BY <1>1 DEF Held, Exists, LockHeld, Retried
  <1>7. \A w \in Workers, u \in Tasks : Works(w, u)' = Works(w, u) /\ Writing(w, u)' = Writing(w, u)
    BY <1>1 DEF Works, Writing
  <1>8. FirstWrite' /\ OneWorker'
    BY <1>1, <1>7 DEF FirstWrite, OneWorker
  <1>9. Answers'
    <2>1. ASSUME NEW u \in Tasks
          PROVE  /\ items'[u] <= 1
                 /\ u \in wire' => items'[u] = 0
                 /\ ans'[u] \in {"ok", "noId"} => items'[u] = 1
                 /\ ans'[u] = "refused" => items'[u] = 0 /\ u \notin wire'
      <3>1. CASE u = t
        BY <1>1, <1>2, <1>3, <3>1
      <3>2. CASE u # t
        BY <1>1, <1>2, <3>2 DEF Answers, Nothing
      <3> QED BY <3>1, <3>2
    <2> QED BY <2>1 DEF Answers, Nothing
  <1>10. Executions'
    <2>1. ASSUME NEW w \in Workers PROVE ExOK(w)'
      <3>1. ExOK(w)
        BY DEF Executions
      <3>2. CASE ex[w].task = t
        BY <1>1, <1>3, <3>1, <3>2 DEF ExOK
      <3>3. CASE ex[w].task # t
        <4>1. CASE ex[w].pc = "idle"
          BY <1>1, <4>1 DEF ExOK, Before
        <4>2. CASE ex[w].pc # "idle"
          <5>1. ex[w].task \in Tasks
            BY <4>2, ExFacts
          <5>2. items'[ex'[w].task] = items[ex[w].task] /\ Nothing(ex[w].task)' = Nothing(ex[w].task)
            BY <1>1, <1>2, <3>3, <5>1 DEF Nothing
          <5> QED BY <1>1, <3>1, <5>2 DEF ExOK
        <4> QED BY <4>1, <4>2
      <3> QED BY <3>2, <3>3
    <2> QED BY <2>1 DEF Executions
  <1>11. Queues'
    BY <1>1 DEF Queues, QueueOK, Last
  <1>12. RowsOK'
    <2>1. ASSUME NEW u \in Tasks PROVE RowOK(u)'
      <3>1. RowOK(u)
        BY DEF RowsOK
      <3>2. CASE u = t
        <4>1. /\ task[t].status \notin {"none", "pending"} /\ ~task[t].item /\ ~task[t].retryable
              /\ ~(task[t].cert = "confirmed_failed" /\ task[t].kind # "internal")
          BY <1>3, <3>1, <3>2 DEF RowOK
        <4> QED BY <1>1, <1>7, <3>1, <3>2, <4>1 DEF RowOK
      <3>3. CASE u # t
        BY <1>1, <1>2, <1>4, <1>7, <3>1, <3>3 DEF RowOK
      <3> QED BY <3>2, <3>3
    <2> QED BY <2>1 DEF RowsOK
  <1> QED BY <1>5, <1>6, <1>8, <1>9, <1>10, <1>11, <1>12

LEMMA SyncStep == ASSUME IInv, NEW t \in Tasks, SyncConfirms(t) PROVE IInv'
  <1> USE DEF IInv
  <1>1. /\ UNCHANGED <<scn, call, bg, ex, wr, lock, wire, ans, items, draft>>
        /\ task[t].item /\ task[t].status \in {"success", "verification_required"}
    BY DEF SyncConfirms, worker, platform, media, bounds
  <1> DEFINE r == [task[t] EXCEPT !.status = "success", !.cert = "confirmed_success",
                                  !.kind = "none", !.retryable = FALSE]
  <1>2. task[t] \in Rows /\ RowOK(t)
    BY DEF Typed, RowsOK
  <1>3. /\ r \in Rows /\ r.status = "success" /\ r.cert = "confirmed_success" /\ ~r.retryable
        /\ r.item = task[t].item /\ r.hidden = task[t].hidden /\ r.of = task[t].of
    BY <1>2 DEF Rows, Statuses, Certainties, Kinds
  <1>4. task' = [task EXCEPT ![t] = r]
    BY DEF SyncConfirms
  <1> HIDE DEF r
  <1>5. task' \in [Tasks -> Rows] /\ task'[t] = r /\ \A u \in Tasks : u # t => task'[u] = task[u]
    BY <1>3, <1>4 DEF Typed
  <1>6. task[t].cert # "none" /\ items[t] = 1 /\ ~task[t].retryable
    BY <1>1, <1>2 DEF RowOK, Nothing
  <1>7. RowsOK'
    <2>1. RowOK(t)'
      BY <1>1, <1>2, <1>3, <1>5, <1>6 DEF RowOK, Writing
    <2>2. ASSUME NEW u \in Tasks, u # t PROVE RowOK(u)'
      BY <1>1, <1>5, <2>2, RowKept
    <2> QED BY <2>1, <2>2 DEF RowsOK
  <1>8. \A u \in Tasks : /\ task'[u].of = task[u].of /\ task'[u].hidden = task[u].hidden
                         /\ task[u].retryable => task'[u].retryable
    BY <1>3, <1>5, <1>6
  <1>9. Retried'
    BY <1>8 DEF Retried
  <1>10. /\ \A u \in Tasks : Exists(u) => Exists(u)'
         /\ \A u \in Tasks : task'[u].status = "pending" => task[u].status \in {"none", "pending"}
    BY <1>3, <1>5 DEF Exists
  <1>11. \A u \in Tasks : bg'[u] # "none" => Exists(u)'
    BY <1>1, <1>10 DEF Held
  <1>12. ASSUME NEW c \in Callers PROVE CallHeld(c)'
    <2>1. CallHeld(c)
      BY DEF Held, CallHeld
    <2> QED BY <1>1, <1>10, <2>1 DEF CallHeld, Exists
  <1> QED BY <1>1, <1>5, <1>7, <1>9, <1>10, <1>11, <1>12, RowsStep DEF Typed

LEMMA LeaseStep == ASSUME IInv, NEW t \in Tasks, LeaseSweep(t) PROVE IInv'
  <1>1. UNCHANGED <<scn, task, call, ex, wr, lock, wire, ans, items, draft>>
    BY DEF LeaseSweep, worker, platform, media, bounds
  <1>2. /\ bg' \in [Tasks -> Live \cup {"none", "done", "failed", "unqueued"}]
        /\ \A u \in Tasks : bg'[u] # "none" => Exists(u)
    BY DEF LeaseSweep, IInv, Typed, Held
  <1> QED BY <1>1, <1>2, QuietStep DEF IInv, Typed

\* The lock goes while its holder is not at the second look or the first write.
LEMMA LockStep == ASSUME IInv, LockExpires \/ LockLost PROVE IInv'
  <1> USE DEF IInv
  <1>1. /\ UNCHANGED <<scn, task, call, bg, ex, wr, wire, ans, items, draft>>
        /\ lock \in Workers /\ lock' = Nobody /\ ex[lock].pc \notin {"recheck", "images"}
    BY DEF LockExpires, LockLost, Fault, requests, platform, media, bounds, Typed, Inside
  <1>2. Typed' /\ Held' /\ LockHeld' /\ Answers' /\ Retried'
    BY <1>1 DEF Typed, Held, Exists, LockHeld, Answers, Nothing, Retried
  <1>3. \A w \in Workers, u \in Tasks : Works(w, u)' = Works(w, u) /\ Writing(w, u)' = Writing(w, u)
    BY <1>1 DEF Works, Writing
  <1>4. FirstWrite' /\ OneWorker'
    BY <1>1, <1>3 DEF FirstWrite, OneWorker
  <1>5. Executions' /\ Queues'
    BY <1>1 DEF Executions, ExOK, Nothing, Queues, QueueOK, Last
  <1>6. RowsOK'
    BY <1>1, <1>2, RowKept DEF RowsOK, Typed
  <1> QED BY <1>2, <1>4, <1>5, <1>6

-----------------------------------------------------------------------------
(* The theorems.                                                           *)

LEMMA InitHolds == ASSUME Init PROVE IInv
  <1>1. /\ NoRow \in Rows /\ NoRow.status = "none" /\ NoRow.cert = "none" /\ ~NoRow.retryable
        /\ ~NoRow.item /\ NoRow.of = NoTask
    BY DEF NoRow, Row, Rows, Statuses, Certainties, Kinds
  <1>2. draft \in Drafts
    BY DEF Init, Draft, Drafts
  <1>3. /\ task = [t \in Tasks |-> NoRow] /\ bg = [t \in Tasks |-> "none"]
        /\ call = [c \in Callers |-> NoCall] /\ lock = Nobody /\ scn \in Scenarios
    BY DEF Init
  <1>4. ex = [w \in Workers |-> NoEx] /\ wr = [w \in Workers |-> <<>>]
    BY DEF Init
  <1>5. wire = {} /\ ans = [t \in Tasks |-> "none"] /\ items = [t \in Tasks |-> 0]
    BY DEF Init
  <1>6. Typed
    <2>1. task \in [Tasks -> Rows] /\ call \in [Callers -> Calls] /\ ex \in [Workers -> Execs]
      BY <1>1, <1>3, <1>4, NoCallType, NoExType
    <2>2. wr \in [Workers -> Seq(Entry)]
      BY <1>4
    <2>3. /\ wire \subseteq Tasks /\ items \in [Tasks -> Nat]
          /\ ans \in [Tasks -> {"none", "ok", "noId", "refused"}]
      BY <1>5
    <2>4. bg \in [Tasks -> Live \cup {"none", "done", "failed", "unqueued"}]
      BY <1>3
    <2> QED BY <1>2, <1>3, <2>1, <2>2, <2>3, <2>4 DEF Typed
  <1>7. \A w \in Workers : ex[w].pc = "idle" /\ ex[w].task = NoTask /\ wr[w] = <<>> /\ Len(wr[w]) = 0
    <2>1. Len(<<>>) = 0
      OBVIOUS
    <2> QED BY <1>4, <2>1, NoExType
  <1>8. \A w \in Workers : 1..Len(wr[w]) = {}
    BY <1>7
  <1>9. \A w \in Workers : \A t : ~Writing(w, t) /\ ~Works(w, t)
    <2>1. "idle" \notin Past
      BY PcSets
    <2> QED BY <1>7, <1>8, <2>1 DEF Writing, Works
  <1>10. Held
    BY <1>3, <1>7, <1>8, NoCallType DEF Held
  <1>11. LockHeld /\ FirstWrite /\ OneWorker
    BY <1>7, <1>9 DEF LockHeld, FirstWrite, OneWorker
  <1>12. Queues
    BY <1>8 DEF Queues, QueueOK
  <1>13. Answers
    <2>1. \A t \in Tasks : items[t] = 0 /\ t \notin wire /\ ans[t] = "none"
      BY <1>5
    <2>2. ASSUME NEW t \in Tasks PROVE items[t] <= 1
      <3>1. items[t] = 0
        BY <2>1
      <3>2. 0 <= 1
        OBVIOUS
      <3> QED BY <3>1, <3>2
    <2> QED BY <2>1, <2>2 DEF Answers, Nothing
  <1>14. Executions
    BY <1>7 DEF Executions, ExOK, Before
  <1>15. RowsOK
    BY <1>1, <1>3, <1>5 DEF RowsOK, RowOK, Nothing
  <1>16. Retried
    BY <1>1, <1>3 DEF Retried
  <1> QED BY <1>6, <1>10, <1>11, <1>12, <1>13, <1>14, <1>15, <1>16 DEF IInv

LEMMA Stutter == ASSUME IInv, UNCHANGED vars PROVE IInv'
  BY QuietStep DEF vars, requests, worker, platform, media, bounds, IInv, Typed, Held

LEMMA Invariance == Spec => []IInv
  <1>1. IInv /\ [Next]_vars => IInv'
    BY MediaStep, RequestStep, WorkersStep, PlatformStep, SyncStep, LeaseStep, LockStep, Stutter
       DEF Next
  <1> QED BY InitHolds, <1>1, PTL DEF Spec

\* However many requests, workers, lost answers, lost locks and stopped workers:
\* a publish task makes at most one item, and another attempt at it is only made
\* where it made none and none is on its way (execute_product_publish,
\* retry_product_publish_task).
THEOREM ATaskMakesOneItem == Spec => []OneItemPerJob
  <1>1. IInv => OneItemPerJob
    <2>1. SUFFICES ASSUME IInv PROVE OneItemPerJob
      OBVIOUS
    <2>2. \A t \in Tasks : items[t] <= 1 /\ (t \in wire => items[t] = 0)
      BY <2>1 DEF IInv, Answers
    <2>3. \A t \in Tasks : \A s \in Tasks : task[t].of = s => items[s] = 0 /\ s \notin wire
      BY <2>1 DEF IInv, Retried, RowsOK, RowOK, Nothing
    <2>4. \A t \in Tasks : \A s \in Tasks \ {t} :
             task[t].status # "none" /\ task[t].of \in Tasks => task[s].of # task[t].of
      BY <2>1 DEF IInv, Retried
    <2> QED BY <2>2, <2>3, <2>4 DEF OneItemPerJob
  <1> QED BY Invariance, <1>1, PTL

\* A row that says success, or names the item, has its item on the platform, and
\* a confirmed failure left nothing there, but for the two kinds that a merge of
\* the cookies after the publish gives: "internal" says nothing, "cookie_conflict"
\* is of an item that exists (execute_product_publish).
THEOREM RowsAreHonest == Spec => []OutcomeHonest
  <1>1. IInv => OutcomeHonest
    <2> SUFFICES ASSUME IInv, NEW t \in Tasks
                 PROVE  /\ task[t].mode = "platform_api" /\ task[t].status = "success" => items[t] = 1
                        /\ task[t].item => items[t] = 1
                        /\ task[t].cert = "confirmed_failed" /\ task[t].kind # "internal"
                              => /\ t \notin wire
                                 /\ items[t] = IF task[t].kind = "cookie_conflict" THEN 1 ELSE 0
      BY DEF OutcomeHonest
    <2>1. RowOK(t) /\ (t \in wire => items[t] = 0)
      BY DEF IInv, RowsOK, Answers
    <2>2. ASSUME task[t].cert = "confirmed_failed", task[t].kind = "cookie_conflict"
          PROVE  t \notin wire /\ items[t] = 1
      BY <2>1, <2>2 DEF RowOK
    <2>3. ASSUME task[t].cert = "confirmed_failed", task[t].kind \notin {"internal", "cookie_conflict"}
          PROVE  t \notin wire /\ items[t] = 0
      BY <2>1, <2>3 DEF RowOK, Nothing
    <2>4. /\ task[t].mode = "platform_api" /\ task[t].status = "success" => items[t] = 1
          /\ task[t].item => items[t] = 1
      BY <2>1 DEF RowOK
    <2> QED BY <2>2, <2>3, <2>4
  <1> QED BY Invariance, <1>1, PTL

-----------------------------------------------------------------------------
(* The image of a task.                                                    *)

\* A task that is exported by hand is never written to by an execution, and every
\* other one that has ended has its outcome: no task is taken up again.
Automatic(t) == task[t].mode # "manual_export"
Modes ==
    /\ \A t \in Tasks : task[t].status \in Ended => task[t].cert # "none" \/ ~Automatic(t)
    /\ \A w \in Workers : ex[w].pc \notin {"idle", "look"} => Automatic(ex[w].task)
    /\ \A w \in Workers : \A i \in 1..Len(wr[w]) : Automatic(wr[w][i].task)

\* A task that has not ended is among those that retain the image, and an image
\* with a row has its file.
Images == [row : {"none", "staged", "retained"}, file : BOOLEAN, refs : SUBSET Tasks, due : BOOLEAN]
Unfinished(t) == task[t].asset /\ task[t].status \in {"pending", "running"}
Retained ==
    /\ img \in Images
    /\ img.row # "none" => img.file
    /\ \A t \in Tasks : Unfinished(t) => t \in img.refs /\ img.row = "retained"

\* The sweeper deletes what is unwanted when it deletes it, not only when it
\* looked.
SweepsInTime == sweep = "delete" /\ sweep' = "idle" /\ img.row # "none" => Unwanted

\* Rows are added and hidden, the image is retained for those that name it.
LEMMA ImageRows ==
    ASSUME IInv, Modes, Retained, UNCHANGED <<ex, wr>>, img' \in Images,
           img'.row # "none" => img'.file, img.refs \subseteq img'.refs,
           img.row = "retained" => img'.row = "retained",
           \A t \in Tasks : Exists(t) =>
              /\ task'[t].status = task[t].status /\ task'[t].cert = task[t].cert
              /\ task'[t].mode = task[t].mode /\ (task'[t].asset <=> task[t].asset),
           \A t \in Tasks : ~Exists(t) =>
              \/ task'[t] = task[t]
              \/ /\ task'[t].status = "pending"
                 /\ task'[t].asset => t \in img'.refs /\ img'.row = "retained"
    PROVE  Modes' /\ Retained'
  <1>1. ASSUME NEW t \in Tasks, task'[t].status \in Ended
        PROVE  task'[t].cert # "none" \/ ~Automatic(t)'
    BY <1>1 DEF Modes, Automatic, Exists
  <1>2. ASSUME NEW w \in Workers, ex'[w].pc \notin {"idle", "look"} PROVE Automatic(ex[w].task)'
    <2>1. PICK q : q = ex[w].task
      OBVIOUS
    <2>2. Exists(q) /\ Automatic(q)
      BY <1>2, <2>1 DEF IInv, Held, Modes
    <2> QED BY <2>1, <2>2 DEF Automatic, Exists
  <1>3. ASSUME NEW w \in Workers, NEW i \in 1..Len(wr'[w]) PROVE Automatic(wr[w][i].task)'
    <2>1. PICK q : q = wr[w][i].task
      OBVIOUS
    <2>2. Exists(q) /\ Automatic(q)
      BY <1>3, <2>1 DEF IInv, Held, Modes
    <2> QED BY <2>1, <2>2 DEF Automatic, Exists
  <1>4. ASSUME NEW t \in Tasks, Unfinished(t)' PROVE t \in img'.refs /\ img'.row = "retained"
    BY <1>4 DEF Retained, Unfinished, Exists
  <1>5. Modes'
    BY <1>1, <1>2, <1>3 DEF Modes
  <1> QED BY <1>4, <1>5 DEF Retained

\* Steps that touch neither rows nor executions.
LEMMA ImageOnly ==
    ASSUME Modes, UNCHANGED <<task, ex, wr>>, img' \in Images,
           img'.row # "none" => img'.file,
           \A t \in Tasks : Unfinished(t) => t \in img'.refs /\ img'.row = "retained"
    PROVE  Modes' /\ Retained'
  BY DEF Modes, Automatic, Retained, Unfinished

LEMMA GoneImage ==
    ASSUME Modes, Retained, UNCHANGED <<task, ex, wr>>, img' = Gone,
           \A t \in Tasks : ~Unfinished(t)
    PROVE  Modes' /\ Retained'
  <1>1. img' \in Images /\ img'.row = "none"
    BY DEF Gone, Retained, Images
  <1> QED BY <1>1, ImageOnly

LEMMA ImageMedia ==
    ASSUME IInv, Modes, Retained, MediaNext, SweepsInTime
    PROVE  Modes' /\ Retained'
  <1>1. UNCHANGED <<task, ex, wr>>
    BY DEF MediaNext, SaveFile, CreateAsset, AssetExpires, RetentionEnds, DeleteImage,
           CleanupUploadSession, UnlinkFile, SweepLook, SweepDelete, CreateDraft, UpdateDraft,
           DeleteDraft, RefreshLocations, CacheAges, Still, requests, worker
  <1>2. img \in Images /\ (img.row # "none" => img.file)
        /\ \A t \in Tasks : Unfinished(t) => t \in img.refs /\ img.row = "retained"
    BY DEF Retained
  <1>3. CASE UNCHANGED img
    BY <1>1, <1>2, <1>3, ImageOnly
  <1>4. CASE SaveFile \/ CreateAsset \/ AssetExpires
    <2>1. /\ img' \in Images /\ (img'.row # "none" => img'.file) /\ img'.refs = img.refs
          /\ img.row = "retained" => img'.row = "retained"
      BY <1>2, <1>4 DEF SaveFile, CreateAsset, AssetExpires, Images
    <2> QED BY <1>1, <1>2, <2>1, ImageOnly
  <1>5. CASE RetentionEnds
    <2>1. PICK t \in img.refs : task[t].status \in Ended /\ img' = [img EXCEPT !.refs = @ \ {t}]
      BY <1>5 DEF RetentionEnds
    <2>2. /\ img' \in Images /\ img'.row = img.row /\ (img'.file <=> img.file)
          /\ img'.refs = img.refs \ {t}
      BY <1>2, <2>1 DEF Images
    <2>3. ~Unfinished(t)
      BY <2>1 DEF Unfinished
    <2>4. \A u \in Tasks : Unfinished(u) => u \in img'.refs /\ img'.row = "retained"
      BY <1>2, <2>2, <2>3
    <2> QED BY <1>1, <1>2, <2>2, <2>4, ImageOnly
  <1>6. CASE UnlinkFile
    <2>1. /\ img' \in Images /\ img'.row = "none" /\ img.row = "none"
      BY <1>2, <1>6 DEF UnlinkFile, Images
    <2> QED BY <1>1, <1>2, <2>1, ImageOnly
  <1>7. CASE DeleteImage
    <2>1. img' = Gone /\ \A t \in Tasks : ~Unfinished(t)
      BY <1>7 DEF DeleteImage, Unfinished
    <2> QED BY <1>1, <2>1, GoneImage
  <1>8. CASE CleanupUploadSession
    <2>1. img' = Gone /\ img.row = "staged"
      BY <1>8 DEF CleanupUploadSession
    <2> QED BY <1>1, <1>2, <2>1, GoneImage
  <1>9. CASE SweepDelete
    <2>1. UNCHANGED img \/ (img' = Gone /\ img.refs = {})
      BY <1>9 DEF SweepDelete, SweepsInTime, Unwanted
    <2> QED BY <1>1, <1>2, <1>3, <2>1, GoneImage
  <1>10. CASE SweepLook \/ CreateDraft \/ UpdateDraft \/ DeleteDraft \/ RefreshLocations \/ CacheAges
    BY <1>3, <1>10 DEF SweepLook, CreateDraft, UpdateDraft, DeleteDraft, RefreshLocations, CacheAges
  <1> QED BY <1>4, <1>5, <1>6, <1>7, <1>8, <1>9, <1>10 DEF MediaNext

\* A new row that names the image retains it.
Retains(t) == [img EXCEPT !.row = "retained", !.refs = img.refs \cup {t}, !.due = FALSE]
LEMMA ImageInsert ==
    ASSUME IInv, Modes, Retained, UNCHANGED <<ex, wr>>,
           NEW t \in Tasks, task[t].status = "none", NEW r \in Rows, r.status = "pending",
           \/ task' = [task EXCEPT ![t] = r]
           \/ \E s \in Tasks : Exists(s) /\ task' = [task EXCEPT ![s].hidden = TRUE, ![t] = r],
           r.asset => img.row # "none",
           img' = IF r.asset THEN Retains(t) ELSE img
    PROVE  Modes' /\ Retained'
  <1>1. img \in Images /\ (img.row # "none" => img.file)
    BY DEF Retained
  <1>2. /\ img' \in Images /\ img.refs \subseteq img'.refs
        /\ img.row = "retained" => img'.row = "retained"
        /\ img'.row # "none" => img'.file
        /\ r.asset => t \in img'.refs /\ img'.row = "retained"
    <2>1. CASE r.asset
      BY <1>1, <2>1 DEF Images, Retains
    <2>2. CASE ~r.asset
      BY <1>1, <2>2
    <2> QED BY <2>1, <2>2
  <1>3. task \in [Tasks -> Rows] /\ ~Exists(t)
    BY DEF IInv, Typed, Exists
  <1>4. /\ task'[t] = r
        /\ \A u \in Tasks : u # t => task'[u] = task[u] \/ task'[u] = [task[u] EXCEPT !.hidden = TRUE]
    BY <1>3
  <1>5. ASSUME NEW u \in Tasks, u # t
        PROVE  /\ task'[u].status = task[u].status /\ task'[u].cert = task[u].cert
               /\ task'[u].mode = task[u].mode /\ (task'[u].asset <=> task[u].asset)
    <2>1. task[u] \in Rows
      BY <1>3
    <2>2. CASE task'[u] = task[u]
      BY <2>2
    <2>3. CASE task'[u] = [task[u] EXCEPT !.hidden = TRUE]
      BY <2>1, <2>3 DEF Rows
    <2> QED BY <1>4, <1>5, <2>2, <2>3
  <1>6. ASSUME NEW u \in Tasks, ~Exists(u), u # t PROVE task'[u] = task[u]
    BY <1>3, <1>6
  <1> QED BY <1>2, <1>3, <1>4, <1>5, <1>6, ImageRows

LEMMA ImageCreate ==
    ASSUME IInv, Modes, Retained, UNCHANGED <<ex, wr>>, NEW c \in Callers, NEW t \in NewIds, NEW pc,
           NEW key \in Keys \cup {NoKey}, NEW mode \in {"platform_api", "manual_export", "none"},
           NEW asset \in BOOLEAN, Insert(c, t, Row("pending", NoTask, key, mode, asset), pc),
           asset => img.row # "none"
    PROVE  Modes' /\ Retained'
  <1> DEFINE r == Row("pending", NoTask, key, mode, asset)
  <1>1. r \in Rows /\ r.status = "pending" /\ (r.asset <=> asset)
    <2>1. r \in Rows /\ r.status = "pending"
      BY NewRow
    <2>2. r.asset <=> asset
      BY DEF Row
    <2> QED BY <2>1, <2>2
  <1>2. task' = [task EXCEPT ![t] = r] /\ img' = IF r.asset THEN Retains(t) ELSE img
    BY DEF Insert, Retains
  <1>3. t \in Tasks /\ task[t].status = "none"
    BY NewIdsAreFree DEF IInv, Typed
  <1> HIDE DEF r
  <1> QED BY <1>1, <1>2, <1>3, ImageInsert

LEMMA ImageRetry ==
    ASSUME IInv, Modes, Retained, NEW c \in Callers, Retry(c)
    PROVE  Modes' /\ Retained'
  <1>0. PICK s : s = call[c].task
    OBVIOUS
  <1>1. UNCHANGED <<ex, wr>> /\ Exists(s) /\ s \in Tasks
    <2>1. UNCHANGED <<ex, wr>> /\ call[c].pc = "retry"
      BY Zenon DEF Retry, NoRequest, worker
    <2>2. Exists(s)
      BY <1>0, <2>1 DEF IInv, Held
    <2> QED BY <2>1, <2>2 DEF Exists
  <1>2. CASE UNCHANGED <<task, img>>
    BY <1>1, <1>2, ImageOnly DEF Retained
  <1>3. ASSUME NEW t \in NewIds, task[s].asset => img.row # "none",
               task' = [task EXCEPT ![s].hidden = TRUE,
                           ![t] = Row("pending", s, call[c].key, task[s].mode, task[s].asset)],
               img' = IF task[s].asset THEN Retains(t) ELSE img
        PROVE  Modes' /\ Retained'
    <2> DEFINE r == Row("pending", s, call[c].key, task[s].mode, task[s].asset)
    <2>1. task[s].mode \in {"platform_api", "manual_export", "none"} /\ task[s].asset \in BOOLEAN
      BY <1>1 DEF IInv, Typed, Rows
    <2>2. r \in Rows /\ r.status = "pending"
      BY <1>1, <2>1, CallFields, NewRow
    <2>3. r.asset = task[s].asset
      BY DEF Row
    <2>4. task' = [task EXCEPT ![s].hidden = TRUE, ![t] = r]
      BY <1>3
    <2>5. t \in Tasks /\ task[t].status = "none"
      BY NewIdsAreFree DEF IInv, Typed
    <2> HIDE DEF r
    <2>6. (r.asset => img.row # "none") /\ img' = IF r.asset THEN Retains(t) ELSE img
      BY <1>3, <2>3
    <2> QED BY <1>1, <2>2, <2>4, <2>5, <2>6, ImageInsert
  <1>4. \/ UNCHANGED <<task, img>>
        \/ /\ task[s].asset => img.row # "none"
           /\ \E t \in NewIds :
                 /\ task' = [task EXCEPT ![s].hidden = TRUE,
                        ![t] = Row("pending", s, call[c].key, task[s].mode, task[s].asset)]
                 /\ img' = IF task[s].asset THEN Retains(t) ELSE img
    <2>1. \/ UNCHANGED <<task, img>>
          \/ /\ task[call[c].task].asset => img.row # "none"
             /\ \E t \in NewIds :
                   /\ task' = [task EXCEPT ![call[c].task].hidden = TRUE,
                          ![t] = Row("pending", call[c].task, call[c].key, task[call[c].task].mode,
                                     task[call[c].task].asset)]
                   /\ img' = IF task[call[c].task].asset
                             THEN [img EXCEPT !.row = "retained", !.refs = @ \cup {t}, !.due = FALSE]
                             ELSE img
      BY Zenon DEF Retry
    <2>2. \A t : [img EXCEPT !.row = "retained", !.refs = @ \cup {t}, !.due = FALSE] = Retains(t)
      BY DEF Retains
    <2> QED BY <1>0, <2>1, <2>2, Zenon
  <1> QED BY <1>2, <1>3, <1>4

LEMMA ImageCall ==
    ASSUME IInv, Modes, Retained, NEW c \in Callers, CallNext(c)
    PROVE  Modes' /\ Retained'
  <1>1. ASSUME UNCHANGED <<task, ex, wr, img>> PROVE Modes' /\ Retained'
    BY <1>1, ImageOnly DEF Retained
  <1>2. CASE \/ Begin(c) \/ FindByKey(c) \/ Resolve(c) \/ ReturnTask(c) \/ Enqueue(c)
             \/ EnsureBackground(c) \/ Push(c)
    <2>1. UNCHANGED <<task, ex, wr, img>>
      BY <1>2 DEF Begin, FindByKey, Resolve, ReturnTask, Enqueue, EnsureBackground, Push, NoRequest,
                  worker, media
    <2> QED BY <1>1, <2>1
  <1>3. CASE Hide(c)
    <2>0. PICK q \in Tasks : q = call[c].task /\ Exists(q)
      BY <1>3 DEF Hide, IInv, Held, Exists
    <2>1. UNCHANGED <<ex, wr, img>> /\ (task' = task \/ task' = [task EXCEPT ![q].hidden = TRUE])
      BY <1>3, <2>0 DEF Hide, NoRequest, worker, media
    <2>2. CASE task' = [task EXCEPT ![q].hidden = TRUE]
      <3>1. task \in [Tasks -> Rows]
        BY DEF IInv, Typed
      <3>2. \A u \in Tasks : u # q => task'[u] = task[u]
        BY <2>2, <3>1
      <3>3. task'[q] = [task[q] EXCEPT !.hidden = TRUE] /\ task[q] \in Rows
        BY <2>2, <3>1
      <3>4. /\ task'[q].status = task[q].status /\ task'[q].cert = task[q].cert
            /\ task'[q].mode = task[q].mode /\ (task'[q].asset <=> task[q].asset)
        BY <3>3 DEF Rows
      <3>5. /\ img' \in Images /\ (img'.row # "none" => img'.file)
            /\ img.refs \subseteq img'.refs /\ (img.row = "retained" => img'.row = "retained")
        BY <2>1 DEF Retained
      <3>6. ASSUME NEW u \in Tasks
            PROVE /\ task'[u].status = task[u].status /\ task'[u].cert = task[u].cert
                  /\ task'[u].mode = task[u].mode /\ (task'[u].asset <=> task[u].asset)
        BY <3>2, <3>4
      <3>7. \A u \in Tasks : ~Exists(u) => task'[u] = task[u]
        BY <2>0, <3>2
      <3> QED BY <2>1, <3>5, <3>6, <3>7, ImageRows
    <2> QED BY <1>1, <2>1, <2>2
  <1>4. CASE CreateFromDraft(c)
    <2>1. UNCHANGED <<ex, wr>> /\ draft.uses \in BOOLEAN
      BY <1>4 DEF CreateFromDraft, NoRequest, worker, IInv, Typed, Drafts
    <2>2. \/ UNCHANGED <<task, img>>
          \/ /\ draft.uses => img.row # "none"
             /\ \E t \in NewIds :
                  Insert(c, t, Row("pending", NoTask, call[c].key, call[c].mode, draft.uses),
                         AfterCreate(c))
      BY <1>4 DEF CreateFromDraft
    <2> QED BY <1>1, <2>1, <2>2, CallFields, ImageCreate
  <1>5. CASE CreateJob(c)
    <2>1. UNCHANGED <<ex, wr>>
      BY <1>5 DEF CreateJob, NoRequest, worker
    <2>2. \/ UNCHANGED <<task, img>>
          \/ /\ img.row # "none"
             /\ \E t \in NewIds :
                  Insert(c, t, Row("pending", NoTask, call[c].key, "platform_api", TRUE), "bg")
      BY <1>5 DEF CreateJob
    <2> QED BY <1>1, <2>1, <2>2, CallFields, ImageCreate
  <1> QED BY <1>2, <1>3, <1>4, <1>5, ImageRetry DEF CallNext

\* Executions take up automatic tasks only, and write about their own.
LEMMA ImageMoves ==
    ASSUME IInv, Modes, Retained, UNCHANGED <<task, img>>, NEW w \in Workers,
           \A v \in Workers : v # w => ex'[v] = ex[v],
           \/ ex'[w].pc \in {"idle", "look"}
           \/ ex'[w].task = ex[w].task /\ ex[w].pc \notin {"idle", "look"},
           \/ wr' = wr
           \/ wr' = [wr EXCEPT ![w] = <<>>]
           \/ ex[w].pc \notin {"idle", "look"} /\ \E u \in Writes : Queued(w, u)
    PROVE  Modes' /\ Retained'
  <1>1. \A v \in Workers : ex'[v].pc \notin {"idle", "look"} => Automatic(ex'[v].task)
    BY DEF Modes
  <1>2. wr \in [Workers -> Seq(Entry)]
    BY DEF IInv, Typed
  <1>3. ASSUME NEW v \in Workers, NEW i \in 1..Len(wr'[v]) PROVE Automatic(wr'[v][i].task)
    <2>1. CASE wr' = wr
      BY <1>3, <2>1 DEF Modes
    <2>2. CASE wr' = [wr EXCEPT ![w] = <<>>]
      <3>1. v # w /\ wr'[v] = wr[v]
        BY <1>2, <1>3, <2>2
      <3> QED BY <1>3, <3>1 DEF Modes
    <2>3. ASSUME ex[w].pc \notin {"idle", "look"}, NEW u \in Writes, Queued(w, u)
          PROVE  Automatic(wr'[v][i].task)
      <3>1. PICK e \in Entry : e = [task |-> ex[w].task, write |-> u]
        BY <2>3, ExFacts DEF Entry
      <3>2. wr' = [wr EXCEPT ![w] = Append(@, e)]
        BY <2>3, <3>1 DEF Queued
      <3>3. PICK q : q = wr'[v][i].task
        OBVIOUS
      <3>4. Writing(v, q)'
        BY <3>3 DEF Writing
      <3>5. Writing(v, q) \/ q = ex[w].task
        <4>1. \A x \in Workers : \A t : Writing(x, t)' <=> Writing(x, t) \/ (x = w /\ t = e.task)
          BY <1>2, <3>2, WritingAppend
        <4> QED BY <3>1, <3>4, <4>1
      <3> QED BY <2>3, <3>3, <3>5 DEF Modes, Writing
    <2> QED BY <2>1, <2>2, <2>3
  <1>4. Modes'
    BY <1>1, <1>3 DEF Modes, Automatic
  <1> QED BY <1>4 DEF Retained, Unfinished

LEMMA ImageGoes ==
    ASSUME IInv, Modes, Retained, UNCHANGED <<task, img>>, NEW w \in Workers,
           ex[w].pc \notin {"idle", "look"},
           wr' = wr \/ \E u \in Writes : Queued(w, u),
           \/ ex' = [ex EXCEPT ![w] = NoEx]
           \/ \E pc \in Inside, out \in Outs : Step(w, pc, out)
    PROVE  Modes' /\ Retained'
  <1>1. ex \in [Workers -> Execs]
    BY DEF IInv, Typed
  <1>2. CASE ex' = [ex EXCEPT ![w] = NoEx]
    <2>1. ex'[w].pc = "idle" /\ \A v \in Workers : v # w => ex'[v] = ex[v]
      BY <1>1, <1>2, NoExType
    <2> QED BY <2>1, ImageMoves
  <1>3. ASSUME NEW pc \in Inside, NEW out \in Outs, Step(w, pc, out) PROVE Modes' /\ Retained'
    <2>1. Goes(w, pc, ex[w].task, out)
      BY <1>1, <1>3, StepMeans
    <2> QED BY <2>1, ImageMoves DEF Goes
  <1> QED BY <1>2, <1>3

\* What an execution writes is about a task without an outcome.
LEMMA ImageWrite ==
    ASSUME IInv, Modes, Retained, NEW w \in Workers, WriteRow(w)
    PROVE  Modes' /\ Retained'
  <1>1. UNCHANGED <<ex, img>> /\ wr \in [Workers -> Seq(Entry)] /\ wr[w] # <<>>
        /\ wr' = [wr EXCEPT ![w] = Tail(@)] /\ task \in [Tasks -> Rows]
    BY DEF WriteRow, media, IInv, Typed
  <1>2. PICK e \in Entry : e = wr[w][1] /\ Head(wr[w]) = e /\ 1 \in 1..Len(wr[w])
    BY <1>1, WritingTail
  <1>3. PICK t \in Tasks, u \in Writes : t = e.task /\ u = e.write
    BY DEF Entry
  <1>4. task' = [task EXCEPT ![t] = Apply(task[t], u)]
    BY <1>2, <1>3 DEF WriteRow
  <1>5. PICK r \in Rows : r = Apply(task[t], u)
    BY <1>1, <1>3, ApplyFacts
  <1>6. /\ task'[t] = r /\ (\A s \in Tasks : s # t => task'[s] = task[s])
        /\ r.mode = task[t].mode /\ (r.asset <=> task[t].asset) /\ r.status = u.status
        /\ (u.cert # "none" => r.cert = u.cert)
    <2>1. task'[t] = r /\ (\A s \in Tasks : s # t => task'[s] = task[s])
      BY <1>1, <1>4, <1>5
    <2>2. task[t] \in Rows
      BY <1>1
    <2>3. r.mode = task[t].mode /\ r.status = u.status
          /\ r.cert = IF u.cert = "none" THEN task[t].cert ELSE u.cert
      BY <1>5, <2>2, ApplyFacts
    <2>4. r.asset = task[t].asset
      BY <1>5, <2>2 DEF Apply, Rows
    <2> QED BY <2>1, <2>3, <2>4
  <1>7. Automatic(t) /\ Exists(t) /\ Writing(w, t) /\ task[t].cert = "none"
    <2>1. Automatic(t) /\ Exists(t) /\ Writing(w, t)
      BY <1>2, <1>3 DEF Modes, IInv, Held, Writing
    <2>2. RowOK(t)
      BY DEF IInv, RowsOK
    <2> QED BY <2>1, <2>2 DEF RowOK
  <1>8. task[t].status \in {"pending", "running"}
    <2>1. task[t].status \in Statuses
      BY <1>1 DEF Rows
    <2> QED BY <1>7, <2>1 DEF Modes, Exists, Statuses
  <1>9. u = Progress \/ u.cert # "none"
    <2>1. u = Progress \/ Last(w, 1)
      BY <1>2, <1>3 DEF IInv, Queues, QueueOK
    <2>2. CASE Last(w, 1)
      <3>1. u = Outcome(ex[w].out) /\ ex[w].pc = "wait"
        BY <1>2, <1>3, <2>2 DEF Last
      <3>2. ex[w].out \in Outs \ {"none"}
        BY <3>1, ExOKFacts, ExFacts DEF ExOK
      <3> QED BY <3>1, <3>2, OutcomeFacts
    <2> QED BY <2>1, <2>2
  <1>10. \A s \in Tasks : Automatic(s)' <=> Automatic(s)
    BY <1>6 DEF Automatic
  <1>11. ASSUME NEW s \in Tasks, task'[s].status \in Ended PROVE task'[s].cert # "none" \/ ~Automatic(s)'
    <2>1. CASE s = t
      <3>1. u # Progress
        BY <1>6, <1>11, <2>1, WriteTypes
      <3> QED BY <1>6, <1>9, <2>1, <3>1
    <2>2. CASE s # t
      BY <1>6, <1>10, <1>11, <2>2 DEF Modes
    <2> QED BY <2>1, <2>2
  <1>12. \A v \in Workers : ex'[v].pc \notin {"idle", "look"} => Automatic(ex[v].task)'
    <2>1. \A v \in Workers : ex[v].pc \notin {"idle", "look"} => ex[v].task \in Tasks
      BY ExFacts
    <2>2. ASSUME NEW v \in Workers, ex[v].pc \notin {"idle", "look"}
          PROVE  task'[ex[v].task].mode # "manual_export"
      BY <1>10, <2>1, <2>2 DEF Modes, Automatic
    <2> QED BY <1>1, <2>2 DEF Automatic
  <1>13. ASSUME NEW v \in Workers, NEW i \in 1..Len(wr'[v]) PROVE Automatic(wr[v][i].task)'
    <2>0. PICK q : q = wr'[v][i].task
      OBVIOUS
    <2>1. Writing(v, q)'
      BY <2>0 DEF Writing
    <2>2. Writing(v, q)
      BY <1>1, <2>1, WritingTail
    <2>3. q \in Tasks /\ Automatic(q)
      BY <2>2 DEF Writing, Modes, IInv, Held, Exists
    <2>4. task'[q].mode # "manual_export"
      BY <1>10, <2>3 DEF Automatic
    <2> QED BY <2>0, <2>4 DEF Automatic
  <1>14. \A s \in Tasks : Unfinished(s)' => Unfinished(s)
    BY <1>6, <1>8 DEF Unfinished
  <1>15. Modes'
    BY <1>11, <1>12, <1>13 DEF Modes
  <1> QED BY <1>1, <1>14, <1>15 DEF Retained

LEMMA ImageLook ==
    ASSUME IInv, Modes, Retained, NEW w \in Workers, Look(w)
    PROVE  Modes' /\ Retained'
  <1>0. PICK t \in Tasks : t = ex[w].task /\ Exists(t)
    BY ExFacts DEF Look
  <1>1. UNCHANGED <<wr, img>> /\ ex[w].pc = "look" /\ ex \in [Workers -> Execs]
        /\ task \in [Tasks -> Rows]
    BY DEF Look, media, IInv, Typed
  <1>2. CASE Automatic(t) /\ Step(w, "lock", "none") /\ UNCHANGED task
    <2>1. Goes(w, "lock", t, "none")
      BY <1>0, <1>1, <1>2, StepMeans DEF Outs
    <2>2. \A v \in Workers : ex'[v].pc \notin {"idle", "look"} => Automatic(ex'[v].task)
      BY <1>2, <2>1 DEF Modes, Goes
    <2>3. Modes'
      BY <1>1, <1>2, <2>2 DEF Modes, Automatic
    <2> QED BY <1>1, <1>2, <2>3 DEF Retained, Unfinished
  <1>3. ASSUME ex' = [ex EXCEPT ![w] = NoEx]
        PROVE  ex'[w].pc = "idle" /\ \A v \in Workers : v # w => ex'[v] = ex[v]
    BY <1>1, <1>3, NoExType
  <1>4. CASE UNCHANGED task /\ ex' = [ex EXCEPT ![w] = NoEx]
    BY <1>1, <1>3, <1>4, ImageMoves
  <1>5. CASE /\ ~Automatic(t) /\ ex' = [ex EXCEPT ![w] = NoEx]
             /\ task' = [task EXCEPT ![t].status = "success"]
    <2>1. task[t] \in Rows /\ task'[t] = [task[t] EXCEPT !.status = "success"]
          /\ \A u \in Tasks : u # t => task'[u] = task[u]
      BY <1>1, <1>5
    <2>2. task'[t].status = "success" /\ task'[t].mode = task[t].mode
      BY <2>1 DEF Rows
    <2>3. \A u \in Tasks : /\ Automatic(u)' <=> Automatic(u)
                           /\ Unfinished(u)' => Unfinished(u)
      BY <2>1, <2>2 DEF Automatic, Unfinished
    <2>4. ASSUME NEW u \in Tasks, task'[u].status \in Ended
          PROVE  task'[u].cert # "none" \/ ~Automatic(u)'
      <3>1. CASE u = t
        BY <1>5, <2>3, <3>1
      <3>2. CASE u # t
        BY <2>1, <2>3, <2>4, <3>2 DEF Modes
      <3> QED BY <3>1, <3>2
    <2>5. ASSUME NEW v \in Workers, ex'[v].pc \notin {"idle", "look"}
          PROVE  Automatic(ex[v].task)'
      <3>1. v # w /\ ex'[v] = ex[v]
        BY <1>3, <1>5, <2>5
      <3>2. PICK q : q = ex[v].task
        OBVIOUS
      <3>3. q \in Tasks /\ Automatic(q)
        BY <2>5, <3>1, <3>2, ExFacts DEF Modes
      <3>4. task'[q].mode # "manual_export"
        BY <2>3, <3>3 DEF Automatic
      <3> QED BY <3>1, <3>2, <3>4 DEF Automatic
    <2>6. ASSUME NEW v \in Workers, NEW i \in 1..Len(wr'[v]) PROVE Automatic(wr[v][i].task)'
      <3>1. PICK q : q = wr[v][i].task
        OBVIOUS
      <3>2. q \in Tasks /\ Automatic(q)
        BY <1>1, <3>1 DEF Modes, IInv, Held, Exists
      <3>3. task'[q].mode # "manual_export"
        BY <2>3, <3>2 DEF Automatic
      <3> QED BY <1>1, <3>1, <3>3 DEF Automatic
    <2>7. Modes'
      BY <2>4, <2>5, <2>6 DEF Modes
    <2> QED BY <1>1, <2>3, <2>7 DEF Retained
  <1>6. \/ Automatic(t) /\ Step(w, "lock", "none") /\ UNCHANGED task
        \/ UNCHANGED task /\ ex' = [ex EXCEPT ![w] = NoEx]
        \/ /\ ~Automatic(t) /\ ex' = [ex EXCEPT ![w] = NoEx]
           /\ task' = [task EXCEPT ![t].status = "success"]
    BY <1>0 DEF Look, End, Automatic
  <1> QED BY <1>2, <1>4, <1>5, <1>6

LEMMA ImageWorker ==
    ASSUME IInv, Modes, Retained, NEW w \in Workers, WorkerNext(w) \/ Crash(w)
    PROVE  Modes' /\ Retained'
  <1>0. ex \in [Workers -> Execs] /\ Progress \in Writes
    BY WriteTypes DEF IInv, Typed
  <1>1. CASE Claim(w)
    <2>1. PICK t \in Tasks : ex' = [ex EXCEPT ![w] = Ex("look", t, "none")]
      BY <1>1 DEF Claim
    <2>2. ex'[w].pc = "look" /\ \A v \in Workers : v # w => ex'[v] = ex[v]
      BY <1>0, <2>1 DEF Ex
    <2>3. UNCHANGED <<task, wr, img>>
      BY <1>1 DEF Claim, media
    <2> QED BY <2>2, <2>3, ImageMoves
  <1>2. CASE Crash(w)
    <2>1. UNCHANGED <<task, img>> /\ ex' = [ex EXCEPT ![w] = NoEx] /\ wr' = [wr EXCEPT ![w] = <<>>]
      BY <1>2 DEF Crash, requests, media
    <2>2. ex'[w].pc = "idle" /\ \A v \in Workers : v # w => ex'[v] = ex[v]
      BY <1>0, <2>1, NoExType
    <2> QED BY <2>1, <2>2, ImageMoves
  <1>3. CASE AcquireLock(w) \/ LockTimeout(w) \/ Recheck(w) \/ Finish(w)
    <2>1. UNCHANGED <<task, img>> /\ ex[w].pc \notin {"idle", "look"}
          /\ (wr' = wr \/ Queued(w, Progress))
      BY <1>3 DEF AcquireLock, LockTimeout, Recheck, Finish, requests, media
    <2>2. \/ ex' = [ex EXCEPT ![w] = NoEx] \/ Step(w, "recheck", "none") \/ Step(w, "images", "none")
      BY <1>3 DEF AcquireLock, LockTimeout, Recheck, Finish, End
    <2>3. {"recheck", "images"} \subseteq Inside /\ "none" \in Outs
      BY DEF Inside, Outs
    <2> QED BY <1>0, <2>1, <2>2, <2>3, ImageGoes
  <1>4. CASE ReadImages(w) \/ Validate(w) \/ Locate(w) \/ UploadImages(w) \/ RecommendCategory(w)
    <2>1. UNCHANGED <<task, img>> /\ ex[w].pc \notin {"idle", "look"}
          /\ (wr' = wr \/ Queued(w, Progress))
      BY <1>4 DEF ReadImages, Validate, Locate, UploadImages, RecommendCategory, Quiet, requests, media
    <2>2. \/ Step(w, "merge", "rejected") \/ Step(w, "merge", "network")
          \/ \E pc \in {"prepare", "locate", "upload", "category", "progress"} : Step(w, pc, "none")
      BY <1>4 DEF ReadImages, Validate, Locate, UploadImages, RecommendCategory, NetworkFails, Refuses
    <2>3. {"merge", "prepare", "locate", "upload", "category", "progress"} \subseteq Inside
          /\ {"none", "rejected", "network"} \subseteq Outs
      BY DEF Inside, Outs
    <2> QED BY <1>0, <2>1, <2>2, <2>3, ImageGoes
  <1>5. CASE Reported(w)
    <2>1. /\ UNCHANGED <<task, img, wr>> /\ ex[w].pc \notin {"idle", "look"}
          /\ ex' = [ex EXCEPT ![w].pc = IF ex[w].pc = "progress" THEN "post" ELSE "merge"]
      BY <1>5 DEF Reported, Quiet, requests, media
    <2>2. ex'[w].task = ex[w].task /\ \A v \in Workers : v # w => ex'[v] = ex[v]
      BY <1>0, <2>1 DEF Execs
    <2> QED BY <2>1, <2>2, ImageMoves
  <1>6. CASE Post(w) \/ Answer(w) \/ Verify(w)
    <2>1. UNCHANGED <<task, img>> /\ ex[w].pc \notin {"idle", "look"}
          /\ (wr' = wr \/ Queued(w, Progress))
      BY <1>6 DEF Post, Answer, Verify, Quiet, requests, media
    <2>2. \/ Step(w, "sent", "none") \/ Step(w, "verify", "none")
          \/ Step(w, "merge", "unknown") \/ Step(w, "merge", "rejected")
          \/ Step(w, "verified", "listed") \/ Step(w, "verified", "notListed")
      BY <1>6 DEF Post, Answer, Verify, LostAnswer
    <2>3. {"sent", "verify", "merge", "verified"} \subseteq Inside
          /\ {"none", "unknown", "rejected", "listed", "notListed"} \subseteq Outs
      BY DEF Inside, Outs
    <2> QED BY <1>0, <2>1, <2>2, <2>3, ImageGoes
  <1>7. CASE Merge(w)
    <2>1. UNCHANGED <<task, img>> /\ ex[w].pc = "merge" /\ ex[w].pc \notin {"idle", "look"}
      BY <1>7 DEF Merge, media
    <2>2. \/ Queued(w, Outcome(ex[w].out)) /\ Step(w, "wait", ex[w].out)
          \/ \E kind \in {"internal", "cookie_conflict"} :
                Queued(w, Outcome(kind)) /\ Step(w, "wait", kind)
          \/ wr' = wr /\ ex' = [ex EXCEPT ![w] = NoEx]
      BY <1>7 DEF Merge, End
    <2>3. ex[w].out \in Outs \ {"none"} /\ {"internal", "cookie_conflict"} \subseteq Outs \ {"none"}
          /\ "wait" \in Inside
      BY <2>1, ExOKFacts, ExFacts DEF ExOK, Outs, Inside
    <2>4. /\ Outcome(ex[w].out) \in Writes
          /\ \A kind \in {"internal", "cookie_conflict"} : Outcome(kind) \in Writes
      BY <2>3, OutcomeFacts
    <2> QED BY <2>1, <2>2, <2>3, <2>4, ImageGoes
  <1> QED BY <1>1, <1>2, <1>3, <1>4, <1>5, <1>6, <1>7, ImageLook, ImageWrite DEF WorkerNext, WorkerStep

LEMMA ImageSync ==
    ASSUME IInv, Modes, Retained, NEW t \in Tasks, SyncConfirms(t)
    PROVE  Modes' /\ Retained'
  <1>1. UNCHANGED <<ex, wr, img>> /\ task \in [Tasks -> Rows]
        /\ task[t].status \in {"success", "verification_required"}
        /\ task' = [task EXCEPT ![t] =
              [task[t] EXCEPT !.status = "success", !.cert = "confirmed_success",
                              !.kind = "none", !.retryable = FALSE]]
    BY DEF SyncConfirms, worker, media, IInv, Typed
  <1>2. task[t] \in Rows
    BY <1>1
  <1>3. /\ task'[t].status = "success" /\ task'[t].cert = "confirmed_success"
        /\ task'[t].mode = task[t].mode /\ \A u \in Tasks : u # t => task'[u] = task[u]
    BY <1>1, <1>2 DEF Rows
  <1>4. \A u \in Tasks : Unfinished(u)' => Unfinished(u)
    BY <1>3 DEF Unfinished
  <1>5. \A u \in Tasks : task'[u].mode = task[u].mode
    BY <1>3
  <1>6. ASSUME NEW u \in Tasks, task'[u].status \in Ended PROVE task'[u].cert # "none" \/ ~Automatic(u)'
    BY <1>3, <1>6 DEF Modes, Automatic
  <1>7. ASSUME NEW v \in Workers, ex'[v].pc \notin {"idle", "look"} PROVE Automatic(ex[v].task)'
    <2>1. ex[v].task \in Tasks /\ Automatic(ex[v].task)
      BY <1>1, <1>7, ExFacts DEF Modes
    <2> QED BY <1>1, <1>5, <2>1 DEF Automatic
  <1>8. ASSUME NEW v \in Workers, NEW i \in 1..Len(wr'[v]) PROVE Automatic(wr[v][i].task)'
    <2>1. wr[v][i].task \in Tasks /\ Automatic(wr[v][i].task)
      BY <1>1, <1>8 DEF Modes, IInv, Held, Exists
    <2> QED BY <1>1, <1>5, <2>1 DEF Automatic
  <1>9. Modes'
    BY <1>6, <1>7, <1>8 DEF Modes
  <1> QED BY <1>1, <1>4, <1>9 DEF Retained

\* The image that a task was created with, row and file, is there until the task
\* has ended, however drafts, upload sessions and images are deleted, retentions
\* run out, workers stop and tasks are retried, as long as the sweeper deletes
\* nothing that came to be wanted after it looked (create_product_publish_task,
\* delete_product_image, cleanup_expired_product_images).
THEOREM ImagesAreKept == Spec /\ [][SweepsInTime]_vars => []ImageKept
  <1>1. Init => Modes /\ Retained
    <2> SUFFICES ASSUME Init PROVE Modes /\ Retained
      OBVIOUS
    <2>1. \A t \in Tasks : task[t].status = "none"
      <3>1. task = [t \in Tasks |-> NoRow]
        BY DEF Init
      <3>2. NoRow.status = "none"
        BY DEF NoRow, Row
      <3>3. \A t \in Tasks : task[t] = NoRow
        BY <3>1, Zenon
      <3> QED BY <3>2, <3>3, Zenon
    <2>2. \A w \in Workers : ex[w].pc = "idle" /\ 1..Len(wr[w]) = {}
      <3>1. 1..Len(<<>>) = {}
        OBVIOUS
      <3> QED BY <3>1, NoExType DEF Init
    <2>3. img \in Images /\ img.row = "none"
      BY DEF Init, Image, Images
    <2> QED BY <2>1, <2>2, <2>3 DEF Modes, Retained, Unfinished
  <1>2. IInv /\ Modes /\ Retained /\ [Next]_vars /\ [SweepsInTime]_vars => Modes' /\ Retained'
    <2> SUFFICES ASSUME IInv, Modes, Retained, [Next]_vars, [SweepsInTime]_vars
                 PROVE  Modes' /\ Retained'
      OBVIOUS
    <2>1. ASSUME UNCHANGED <<task, ex, wr, img>> PROVE Modes' /\ Retained'
      BY <2>1, ImageOnly DEF Retained
    <2>2. CASE UNCHANGED vars
      BY <2>1, <2>2 DEF vars, requests, worker, media
    <2>3. CASE MediaNext /\ SweepsInTime
      BY <2>3, ImageMedia
    <2>4. ASSUME NEW t \in Tasks, Platform(t) \/ LeaseSweep(t) PROVE Modes' /\ Retained'
      BY <2>1, <2>4 DEF Platform, LeaseSweep, requests, worker, media
    <2>5. CASE LockExpires \/ LockLost
      BY <2>1, <2>5 DEF LockExpires, LockLost, requests, media
    <2> QED BY <2>2, <2>3, <2>4, <2>5, ImageCall, ImageWorker, ImageSync DEF Next
  <1>3. Retained => ImageKept
    BY DEF Retained, Unfinished, ImageKept
  <1> QED BY <1>1, <1>2, <1>3, Invariance, InitHolds, PTL DEF Spec
=============================================================================
