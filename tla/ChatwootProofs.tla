--------------------------- MODULE ChatwootProofs ---------------------------
(***************************************************************************)
(* Proofs about Chatwoot for every scenario and any number of messages,    *)
(* states, retries, faults and crashes.                                    *)
(***************************************************************************)
EXTENDS Chatwoot, FiniteSetTheorems, WellFoundedInduction, TLAPS

Shared  == {"inbox", "newinbox", "conv", "newconv", "mapconv", "moved"}
Posting == Shared \cup {"post"}
Telling == Shared \cup {"place", "newplace", "setplace", "alert"}
Pcs == Posting \cup Telling \cup
       {"idle", "retry", "end", "told", "map", "look", "snap", "final", "send", "wait",
        "takeover", "recall"}
MapStates == {"synced", "failed", "remote_deleted", "recall_snapshot_pending",
              "recall_failed_snapshot_pending", "recalled", "recall_failed"}
Pieces(i) == {"c"} \X {i} \X {"text", "image"}
Items == Pks \X (MapStates \cup {"note"})
Tasks == [st : {"pending", "running", "success", "failed"}, n : Nat, sys : BOOLEAN, pc : Pcs,
          c : Nat, todo : SUBSET (Pks \cup Items), yes : SUBSET Pks, no : SUBSET Pks]
Messages == [by : {"agent", "mirror"}, pk : Pks \cup {<<>>}, out : BOOLEAN, type : Types,
             conv : Nat, deleted : BOOLEAN]
Rows == [dir : {"in", "out"}, st : {"received", "sending", "sent", "failed"}, recalled : BOOLEAN,
         plat : Nat, recalls : Nat]
Maps == [c : Ids, st : MapStates]
AnyEvent == ({"created", "deleted", "again"} \X Ids) \cup ({"resolved"} \X Nat)
AnyHook  == {"hook"} \X AnyEvent

Creation(k, i) == k = <<"hook", <<"created", i>>>>
Deletion(k, i) == k = <<"hook", <<"deleted", i>>>> \/ k = <<"hook", <<"again", i>>>>

(* The stages a task with the key k goes through, and what it knows there. *)
Fits(k, t) ==
    /\ t.sys => k \in AnyHook
    /\ t.pc \in {"idle", "retry"} => t.yes = {} /\ t.no = {}
    /\ t.pc \in Shared => k \notin AnyHook
    /\ t.pc \in {"place", "newplace", "setplace", "alert", "told"} => k[1] = "alert"
    /\ t.pc = "post" => k \in LocalKeys
    /\ t.pc = "map" => t.c \in Ids /\ (k \in LocalKeys \/ Creation(k, t.c))
    /\ t.pc \in {"send", "wait", "takeover"} => Creation(k, t.c)
    /\ t.pc \in {"send", "wait"} => t.todo # {}
    /\ t.pc \in {"send", "wait"} \/ (t.pc = "map" /\ k \in AnyHook) =>
         t.todo \subseteq Pieces(t.c) /\ t.yes \subseteq Pieces(t.c) /\ t.no \subseteq Pieces(t.c)
    /\ t.pc = "recall" => Deletion(k, t.c) /\ t.todo \subseteq Items
    /\ t.pc \in {"look", "snap", "final"} => k \in LocalKeys \/ Deletion(k, t.c)

TypedTasks(f) ==
    /\ f \in [DOMAIN f -> Tasks] /\ DOMAIN f \subseteq LocalKeys \cup MoveKeys \cup AnyHook
    /\ \A k \in DOMAIN f : Fits(k, f[k])

TypedWorld ==
    /\ scen \in Scenarios /\ moves \in Nat /\ acct \in States /\ last \in States \cup {None}
    /\ cw \in Seq(Messages) /\ Len(cw) <= MaxCw /\ snaps \in [Ids -> Nat]
    /\ inboxes \in Nat /\ rconv \in Seq(Nat) /\ shown \in Seq(States)
    /\ bind \in Nat /\ cmap \in Nat
    /\ sent \subseteq AnyEvent /\ \A d \in sent : d[1] # "resolved" => d[2] \in 1..Len(cw)
TypedHooks ==
    /\ hook \in [DOMAIN hook -> {"accepting", "pending", "success", "failed", "ignored"}]
    /\ DOMAIN hook \subseteq sent
    /\ \A k \in DOMAIN task : k \in AnyHook => k[2] \in DOMAIN hook
TypedRows ==
    /\ row \in [DOMAIN row -> Rows] /\ DOMAIN row \subseteq Pks
    /\ map \in [DOMAIN map -> Maps] /\ DOMAIN map \subseteq Pks
(* What a task works on, and what is mapped, is a local message.           *)
PieceOf(t) == CHOOSE pk \in t.todo : pk[3] = "text" \/ \A q \in t.todo : q[3] # "text"
Backed ==
    /\ DOMAIN map \subseteq DOMAIN row
    /\ \A k \in DOMAIN task :
         /\ k \in LocalKeys => k[2] \in DOMAIN row
         /\ task[k].yes \cup task[k].no \subseteq DOMAIN row
         /\ task[k].pc = "map" /\ k \in AnyHook => task[k].todo \subseteq DOMAIN row
         /\ task[k].pc = "wait" => PieceOf(task[k]) \in DOMAIN row
         /\ task[k].pc = "recall" => \A item \in task[k].todo : item[1] \in DOMAIN row

(* The account's tasks run one at a time; the others are in aside.         *)
Lane(f) ==
    \A j, k \in DOMAIN f :
       f[j].pc # "idle" /\ f[k].pc # "idle" /\ ~f[j].sys /\ ~f[k].sys => j = k
Asides == \A k \in DOMAIN task : task[k].sys => k \in aside

Tidy == TypedTasks(task) /\ Lane(task) /\ Asides
Base == TypedWorld /\ TypedHooks /\ TypedRows /\ Tidy /\ Backed

-----------------------------------------------------------------------------
(* Alerts and snapshots.                                                   *)

Due(s) == IF s = "online" THEN last \notin {None, "online"} ELSE last # s
KnownBefore(n) == {m \in 1..(n - 1) : <<"alert", m>> \notin lost}
Before(n) == IF KnownBefore(n) = {} THEN None
             ELSE shown[CHOOSE m \in KnownBefore(n) : \A x \in KnownBefore(n) : x <= m]
(* last is the last alert that is known to have arrived, but for one that  *)
(* a task is about to record.                                              *)
Alerts ==
    /\ \A m : <<"alert", m>> \in lost => m \in 1..Len(shown)
    /\ \A k \in DOMAIN task : k[1] = "alert" /\ task[k].pc \in Telling => Due(k[3])
    /\ \A k \in DOMAIN task : task[k].pc = "told" =>
         /\ task[k].c = Len(shown) /\ task[k].c > 0 /\ shown[task[k].c] = k[3]
         /\ <<"alert", task[k].c>> \notin lost /\ last = Before(Len(shown))
    /\ (\A k \in DOMAIN task : task[k].pc # "told") => last = Before(Len(shown) + 1)
    /\ AlertsAlternate
Snaps ==
    /\ \A k \in DOMAIN task : task[k].pc = "snap" /\ ~task[k].sys /\ task[k].c \in Ids =>
         snaps[task[k].c] = 0 \/ DeletedAside(task[k].c)
    /\ SnapshotOnce

-----------------------------------------------------------------------------
(* The inbox and the conversation.                                         *)

Places ==
    /\ inboxes <= 1 /\ bind \in {0, inboxes} /\ cmap <= Len(rconv)
    /\ OneInboxOneConversation
    /\ \A k \in DOMAIN task :
         /\ task[k].pc = "newinbox" => inboxes = 0
         /\ task[k].pc \in {"conv", "newconv", "mapconv", "moved", "post"} => bind = 1
         /\ task[k].pc = "newconv" => \A v \in 1..Len(rconv) : rconv[v] # bind
         /\ task[k].pc = "mapconv" => task[k].c \in 1..Len(rconv) /\ rconv[task[k].c] = bind
         /\ task[k].pc \in {"moved", "post"} => Managed

-----------------------------------------------------------------------------
(* Copies.                                                                 *)

Mirror(i) == i \in 1..Len(cw) /\ cw[i].by = "mirror"
Live(i) == Mirror(i) /\ <<"local", i>> \notin lost
Recording(i) == \E k \in DOMAIN task : k \in LocalKeys /\ task[k].pc = "map" /\ task[k].c = i
PksOf(t) == {item[1] : item \in t.todo} \cup t.yes \cup t.no
Recalling == {"recall", "look", "snap", "final"}

Plats == \A pk \in DOMAIN row : row[pk].plat <= 1 /\ (row[pk].st = "sending" => row[pk].plat = 0)

-----------------------------------------------------------------------------
(* Functions and keys.                                                     *)

LEMMA WithFacts ==
    \A f, x, v : /\ DOMAIN With(f, x, v) = DOMAIN f \cup {x} /\ With(f, x, v)[x] = v
                 /\ \A y \in DOMAIN f : y # x => With(f, x, v)[y] = f[y]
BY DEF With

LEMMA WithTyped ==
    ASSUME NEW f, NEW S, f \in [DOMAIN f -> S], NEW x, NEW v \in S
    PROVE  With(f, x, v) \in [DOMAIN With(f, x, v) -> S]
BY DEF With

LEMMA KeyKinds ==
    /\ \A k \in LocalKeys : k[1] = "local" /\ k[2] \in Pks /\ k \notin AnyHook \cup HookKeys
    /\ \A k \in MoveKeys : /\ k[1] \in {"meta", "status", "alert"} /\ k[3] \in States
                           /\ k \notin AnyHook \cup HookKeys \cup LocalKeys
    /\ \A k \in AnyHook : /\ k[1] = "hook" /\ k[2] \in AnyEvent /\ k = <<"hook", k[2]>>
                          /\ k \notin LocalKeys \cup MoveKeys
    /\ HookKeys \subseteq AnyHook
<1>1. \A k \in LocalKeys : k[1] = "local" /\ k[2] \in Pks
  BY DEF LocalKeys
<1>2. \A k \in MoveKeys : k[1] \in {"meta", "status", "alert"} /\ k[3] \in States
  BY DEF MoveKeys
<1>3. \A k \in AnyHook : k[1] = "hook" /\ k[2] \in AnyEvent /\ k = <<"hook", k[2]>>
  BY DEF AnyHook
<1>4. HookKeys \subseteq AnyHook
  <2>1. Events \subseteq AnyEvent
    BY DEF Events, AnyEvent, Convs
  <2> QED BY <2>1 DEF HookKeys, AnyHook
<1> QED BY <1>1, <1>2, <1>3, <1>4

LEMMA EventKinds ==
    \A d \in AnyEvent : d = <<d[1], d[2]>> /\ d[2] \in Nat /\ (d[1] # "resolved" => d[2] \in Ids)
BY BoundAssumption DEF AnyEvent, Ids

LEMMA TaskTyped ==
    ASSUME NEW st \in {"pending", "running", "success", "failed"}, NEW n \in Nat,
           NEW sys \in BOOLEAN, NEW pc \in Pcs
    PROVE  Task(st, n, sys, pc) \in Tasks
BY DEF Task, Tasks

LEMMA TaskFits ==
    ASSUME NEW k, NEW st, NEW n, NEW sys \in BOOLEAN, sys => k \in AnyHook, NEW pc \in {"idle", "retry"}
    PROVE  Fits(k, Task(st, n, sys, pc))
BY DEF Task, Fits, Shared

LEMMA UpdateTyped ==
    ASSUME NEW f, TypedTasks(f), NEW k \in DOMAIN f, NEW t \in Tasks, Fits(k, t)
    PROVE  TypedTasks([f EXCEPT ![k] = t])
<1> DEFINE g == [f EXCEPT ![k] = t]
<1>1. f \in [DOMAIN f -> Tasks] /\ DOMAIN f \subseteq LocalKeys \cup MoveKeys \cup AnyHook
  BY DEF TypedTasks
<1>2. g \in [DOMAIN f -> Tasks] /\ DOMAIN g = DOMAIN f /\ \A j \in DOMAIN f : g[j] = IF j = k THEN t ELSE f[j]
  BY <1>1
<1>3. \A j \in DOMAIN f : Fits(j, g[j])
  BY <1>2 DEF TypedTasks
<1> QED BY <1>1, <1>2, <1>3 DEF TypedTasks

LEMMA UpdateLane ==
    ASSUME NEW f, Lane(f), NEW k \in DOMAIN f, NEW t,
           \/ t.pc = "idle" \/ t.sys \/ (f[k].pc # "idle" /\ ~f[k].sys)
           \/ \A j \in DOMAIN f : f[j].pc # "idle" => f[j].sys
    PROVE  Lane([f EXCEPT ![k] = t])
<1> DEFINE g == [f EXCEPT ![k] = t]
<1>1. DOMAIN g = DOMAIN f /\ g[k] = t /\ \A j \in DOMAIN f : j # k => g[j] = f[j]
  OBVIOUS
<1> HIDE DEF g
<1>2. Lane(g)
  BY <1>1 DEF Lane
<1> QED BY <1>2 DEF g

LEMMA CreatedFacts ==
    ASSUME NEW f, NEW k, NEW sys, NEW g, g = Created(f, k, sys)
    PROVE  /\ DOMAIN g = DOMAIN f \cup {k} /\ \A j \in DOMAIN f : g[j] = f[j]
           /\ k \notin DOMAIN f => g[k] = Task("pending", 0, sys, "idle")
<1> DEFINE t == Task("pending", 0, sys, "idle")
<1>1. g = IF k \in DOMAIN f THEN f ELSE With(f, k, t)
  BY DEF Created
<1> HIDE DEF t
<1>2. /\ DOMAIN g = DOMAIN f \cup {k} /\ \A j \in DOMAIN f : g[j] = f[j]
      /\ k \notin DOMAIN f => g[k] = t
  BY <1>1 DEF With
<1> QED BY <1>2 DEF t

LEMMA CreatedTyped ==
    ASSUME NEW f, TypedTasks(f), NEW k \in LocalKeys \cup MoveKeys \cup AnyHook,
           NEW sys \in BOOLEAN, sys => k \in AnyHook
    PROVE  TypedTasks(Created(f, k, sys))
<1> DEFINE t == Task("pending", 0, sys, "idle")
<1>1. PICK g : g = Created(f, k, sys)
  OBVIOUS
<1>2. g = IF k \in DOMAIN f THEN f ELSE With(f, k, t)
  BY <1>1 DEF Created
<1>3. t \in Tasks /\ Fits(k, t)
  BY TaskTyped, TaskFits DEF Pcs
<1> HIDE DEF t
<1>4. f \in [DOMAIN f -> Tasks] /\ DOMAIN f \subseteq LocalKeys \cup MoveKeys \cup AnyHook
  BY DEF TypedTasks
<1>5. /\ g \in [DOMAIN g -> Tasks] /\ DOMAIN g = DOMAIN f \cup {k}
      /\ \A j \in DOMAIN g : g[j] = IF j \in DOMAIN f THEN f[j] ELSE t
  BY <1>2, <1>3, <1>4 DEF With
<1>6. \A j \in DOMAIN g : Fits(j, g[j])
  BY <1>3, <1>5 DEF TypedTasks
<1>7. TypedTasks(g)
  BY <1>4, <1>5, <1>6 DEF TypedTasks
<1> QED BY <1>1, <1>7

LEMMA CreatedLane ==
    ASSUME NEW f, Lane(f), NEW k, NEW sys
    PROVE  Lane(Created(f, k, sys))
<1> DEFINE t == Task("pending", 0, sys, "idle")
<1>1. PICK g : g = Created(f, k, sys)
  OBVIOUS
<1>2. g = IF k \in DOMAIN f THEN f ELSE With(f, k, t)
  BY <1>1 DEF Created
<1>3. t.pc = "idle"
  BY DEF Task
<1> HIDE DEF t
<1>4. DOMAIN g = DOMAIN f \cup {k} /\ \A j \in DOMAIN g : g[j] = IF j \in DOMAIN f THEN f[j] ELSE t
  BY <1>2 DEF With
<1>5. Lane(g)
  BY <1>3, <1>4 DEF Lane
<1> QED BY <1>1, <1>5

-----------------------------------------------------------------------------
(* What the steps do to the tasks.                                         *)

(* Only task k changes, and tasks for local messages are created; task k   *)
(* keeps what it knows; it goes to pc; it stops.                           *)
Only(k) ==
    /\ DOMAIN task \subseteq DOMAIN task' /\ \A j \in DOMAIN task : j # k => task'[j] = task[j]
    /\ \A j \in DOMAIN task' \ DOMAIN task :
         j \in LocalKeys /\ j[2] \in DOMAIN row' /\ task'[j].pc = "idle"
Like(k) ==
    /\ task'[k].sys = task[k].sys /\ task'[k].c = task[k].c /\ task'[k].todo = task[k].todo
    /\ task'[k].yes = task[k].yes /\ task'[k].no = task[k].no
Steps(k, pc) == Only(k) /\ Like(k) /\ task'[k].pc = pc
Stops(k) == Only(k) /\ task'[k].pc \in {"idle", "retry"}

Goer(k) == k \in DOMAIN task /\ (Running(k) \/ Ready(k))

LEMMA SetsTidy ==
    ASSUME Tidy, NEW k \in DOMAIN task, NEW t \in Tasks, Fits(k, t), t.sys => task[k].sys,
           t.pc = "idle" \/ (t.sys = task[k].sys /\ Goer(k)),
           task' = [task EXCEPT ![k] = t], aside \subseteq aside'
    PROVE  Tidy' /\ Only(k) /\ task'[k] = t
<1>1. TypedTasks(task')
  BY UpdateTyped DEF Tidy
<1>2. Lane(task')
  <2>1. Lane(task) /\ (\/ t.pc = "idle" \/ t.sys \/ (task[k].pc # "idle" /\ ~task[k].sys)
                       \/ \A j \in DOMAIN task : task[j].pc # "idle" => task[j].sys)
    BY DEF Tidy, Goer, Ready, LaneFree, Running
  <2> QED BY <2>1, UpdateLane
<1>3. Only(k) /\ task'[k] = t
  BY DEF Only
<1>4. Asides'
  BY <1>3 DEF Tidy, Asides, Only
<1> QED BY <1>1, <1>2, <1>3, <1>4 DEF Tidy

LEMMA TidyTask == ASSUME Tidy, NEW k \in DOMAIN task PROVE task[k] \in Tasks /\ Fits(k, task[k])
BY DEF Tidy, TypedTasks

LEMMA AtTidy ==
    ASSUME Tidy, NEW k, Goer(k), NEW pc \in Pcs, task' = At(k, pc), UNCHANGED aside,
           Fits(k, [task[k] EXCEPT !.st = "running", !.pc = pc])
    PROVE  Tidy' /\ Steps(k, pc)
<1> DEFINE t == [task[k] EXCEPT !.st = "running", !.pc = pc]
<1>1. k \in DOMAIN task /\ task \in [DOMAIN task -> Tasks] /\ task[k] \in Tasks
  BY DEF Goer, Tidy, TypedTasks
<1>2. /\ t \in Tasks /\ t.sys = task[k].sys /\ t.c = task[k].c /\ t.todo = task[k].todo
      /\ t.yes = task[k].yes /\ t.no = task[k].no /\ t.pc = pc
  BY <1>1 DEF Tasks
<1>3. task' = [task EXCEPT ![k] = t]
  BY <1>1 DEF At
<1>4. Fits(k, t)
  OBVIOUS
<1> HIDE DEF t
<1>5. Tidy' /\ Only(k) /\ task'[k] = t
  BY <1>1, <1>2, <1>3, <1>4, SetsTidy
<1> QED BY <1>2, <1>5 DEF Steps, Like

LEMMA EndedTidy ==
    ASSUME Tidy, NEW k \in DOMAIN task, task' = Ended(k), UNCHANGED aside
    PROVE  Tidy' /\ Stops(k) /\ task'[k].pc = "idle" /\ task'[k].st = "success"
<1> DEFINE t == Task("success", 0, FALSE, "idle")
<1>1. t \in Tasks /\ Fits(k, t) /\ ~t.sys /\ t.pc = "idle" /\ t.st = "success"
  BY TaskTyped, TaskFits DEF Task, Pcs
<1>2. task' = [task EXCEPT ![k] = t]
  BY DEF Ended
<1> HIDE DEF t
<1> QED BY <1>1, <1>2, SetsTidy DEF Stops

LEMMA FailedTidy ==
    ASSUME Tidy, NEW k, Goer(k), task' = Failed(k), aside \subseteq aside'
    PROVE  Tidy' /\ Stops(k) /\ task'[k].st = "failed"
<1> DEFINE t == IF task[k].n < Retries THEN Task("failed", task[k].n, task[k].sys, "retry")
                ELSE Task("failed", 0, FALSE, "idle")
<1>0. k \in DOMAIN task
  BY DEF Goer
<1>1. task[k] \in Tasks /\ task[k].n \in Nat /\ task[k].sys \in BOOLEAN /\ (task[k].sys => k \in AnyHook)
  BY <1>0, TidyTask DEF Tasks, Fits
<1>2. t \in Tasks /\ Fits(k, t)
  BY <1>1, TaskTyped, TaskFits DEF Pcs
<1>3. t.st = "failed" /\ ((t.pc = "idle" /\ ~t.sys) \/ (t.pc = "retry" /\ t.sys = task[k].sys))
  <2>1. CASE task[k].n < Retries
    <3>1. t = Task("failed", task[k].n, task[k].sys, "retry")
      BY <2>1
    <3> QED BY <3>1 DEF Task
  <2>2. CASE ~(task[k].n < Retries)
    <3>1. t = Task("failed", 0, FALSE, "idle")
      BY <2>2
    <3> QED BY <3>1 DEF Task
  <2> QED BY <2>1, <2>2
<1>4. task' = [task EXCEPT ![k] = t]
  BY <1>0 DEF Failed
<1> HIDE DEF t
<1> QED BY <1>0, <1>2, <1>3, <1>4, SetsTidy DEF Stops

(* Task k goes to pc with the value c.                                     *)
Jumps(k, pc, c) ==
    /\ Only(k) /\ task'[k].sys = task[k].sys /\ task'[k].todo = task[k].todo
    /\ task'[k].yes = task[k].yes /\ task'[k].no = task[k].no
    /\ task'[k].pc = pc /\ task'[k].c = c

Plain == Shared \cup {"end", "place", "newplace", "setplace", "alert", "told", "post", "look",
                      "snap", "final", "takeover", "map"}
(* The stage pc is one of the key k, with the value c.                     *)
Stage(k, pc, c) ==
    /\ pc \in Plain
    /\ pc \in Shared => k \notin AnyHook
    /\ pc \in {"place", "newplace", "setplace", "alert", "told"} => k[1] = "alert"
    /\ pc = "post" => k \in LocalKeys
    /\ pc = "map" => k \in LocalKeys /\ c \in Ids
    /\ pc \in {"look", "snap", "final"} => k \in LocalKeys \/ Deletion(k, c)
    /\ pc = "takeover" => Creation(k, c)

LEMMA StageFits ==
    ASSUME NEW k, NEW t \in Tasks, Fits(k, t), NEW u \in Tasks, Stage(k, u.pc, u.c), u.sys = t.sys
    PROVE  Fits(k, u)
<1>1. k \in LocalKeys => k \notin AnyHook
  BY KeyKinds
<1> QED BY <1>1 DEF Fits, Stage, Plain, Shared

LEMMA PlainPcs == Plain \subseteq Pcs /\ "idle" \notin Plain
BY DEF Plain, Pcs, Posting, Telling, Shared

LEMMA StepsTidy ==
    ASSUME Tidy, NEW k, Goer(k), NEW pc, Stage(k, pc, task[k].c), task' = At(k, pc), UNCHANGED aside
    PROVE  Tidy' /\ Steps(k, pc)
<1> DEFINE t == [task[k] EXCEPT !.st = "running", !.pc = pc]
<1>1. k \in DOMAIN task /\ task[k] \in Tasks /\ Fits(k, task[k]) /\ pc \in Pcs
  BY TidyTask, PlainPcs DEF Goer, Stage
<1>2. t \in Tasks /\ t.sys = task[k].sys /\ t.c = task[k].c /\ t.pc = pc
  BY <1>1 DEF Tasks
<1>3. Fits(k, t)
  <2> HIDE DEF t
  <2> QED BY <1>1, <1>2, StageFits
<1> QED BY <1>1, <1>3, AtTidy

LEMMA JumpsTidy ==
    ASSUME Tidy, NEW k, Goer(k), NEW st \in {"pending", "running", "success", "failed"}, NEW pc, NEW c \in Nat,
           Stage(k, pc, c), UNCHANGED aside,
           task' = [task EXCEPT ![k] = [task[k] EXCEPT !.st = st, !.pc = pc, !.c = c]]
    PROVE  Tidy' /\ Jumps(k, pc, c)
<1> DEFINE t == [task[k] EXCEPT !.st = st, !.pc = pc, !.c = c]
<1>1. k \in DOMAIN task /\ task[k] \in Tasks /\ Fits(k, task[k]) /\ pc \in Pcs
  BY TidyTask, PlainPcs DEF Goer, Stage
<1>2. /\ t \in Tasks /\ t.sys = task[k].sys /\ t.c = c /\ t.pc = pc /\ t.todo = task[k].todo
      /\ t.yes = task[k].yes /\ t.no = task[k].no
  BY <1>1 DEF Tasks
<1> HIDE DEF t
<1>3. Fits(k, t)
  BY <1>1, <1>2, StageFits
<1>4. Tidy' /\ Only(k) /\ task'[k] = t
  <2>1. task' = [task EXCEPT ![k] = t]
    BY DEF t
  <2> QED BY <1>1, <1>2, <1>3, <2>1, SetsTidy
<1> QED BY <1>2, <1>4 DEF Jumps

LEMMA JumpStep ==
    ASSUME Tidy, NEW k, Goer(k), NEW pc, NEW c \in Nat, Stage(k, pc, c), UNCHANGED aside,
           \/ task' = [task EXCEPT ![k].pc = pc, ![k].c = c]
           \/ task' = [task EXCEPT ![k].st = "running", ![k].pc = pc, ![k].c = c]
           \/ task' = [task EXCEPT ![k].st = "running", ![k].c = c, ![k].pc = pc]
    PROVE  Tidy' /\ Jumps(k, pc, c)
<1>1. k \in DOMAIN task /\ task \in [DOMAIN task -> Tasks] /\ task[k] \in Tasks
  BY DEF Goer, Tidy, TypedTasks
<1>2. PICK st \in {"pending", "running", "success", "failed"} :
         task' = [task EXCEPT ![k] = [task[k] EXCEPT !.st = st, !.pc = pc, !.c = c]]
  <2>1. CASE task' = [task EXCEPT ![k].pc = pc, ![k].c = c]
    <3>1. [task[k] EXCEPT !.pc = pc, !.c = c] = [task[k] EXCEPT !.st = task[k].st, !.pc = pc, !.c = c]
      BY <1>1 DEF Tasks
    <3>2. task' = [task EXCEPT ![k] = [task[k] EXCEPT !.pc = pc, !.c = c]]
      BY <1>1, <2>1
    <3>3. task[k].st \in {"pending", "running", "success", "failed"}
      BY <1>1 DEF Tasks
    <3> QED BY <3>1, <3>2, <3>3, Zenon
  <2>2. CASE task' = [task EXCEPT ![k].st = "running", ![k].pc = pc, ![k].c = c]
    BY <1>1, <2>2
  <2>3. CASE task' = [task EXCEPT ![k].st = "running", ![k].c = c, ![k].pc = pc]
    <3>1. [task[k] EXCEPT !.st = "running", !.c = c, !.pc = pc] =
             [task[k] EXCEPT !.st = "running", !.pc = pc, !.c = c]
      BY <1>1 DEF Tasks
    <3>2. task' = [task EXCEPT ![k] = [task[k] EXCEPT !.st = "running", !.c = c, !.pc = pc]]
      BY <1>1, <2>3
    <3> QED BY <3>1, <3>2, Zenon
  <2> QED BY <2>1, <2>2, <2>3
<1> QED BY <1>2, JumpsTidy

LEMMA Going == ASSUME NEW k \in DOMAIN task, task[k].pc # "idle" PROVE Goer(k)
BY DEF Goer, Running

LEMMA FitsAs == ASSUME Tidy, NEW k \in DOMAIN task PROVE
    /\ task[k].pc \in Shared => k \notin AnyHook
    /\ task[k].pc \in {"place", "newplace", "setplace", "alert", "told"} => k[1] = "alert"
    /\ task[k].pc = "post" => k \in LocalKeys
BY TidyTask DEF Fits

LEMMA RetryStep == ASSUME Tidy, NEW k \in DOMAIN task, CreateRetry(k) PROVE Tidy' /\ Stops(k)
<1> DEFINE t == Task("pending", task[k].n + 1, task[k].sys, "idle")
<1>1. task[k] \in Tasks /\ task[k].n \in Nat /\ task[k].sys \in BOOLEAN /\ (task[k].sys => k \in AnyHook)
  BY TidyTask DEF Tasks, Fits
<1>2. t \in Tasks /\ Fits(k, t)
  BY <1>1, TaskTyped, TaskFits DEF Pcs
<1>3. t.pc = "idle" /\ t.sys = task[k].sys
  BY <1>1 DEF Task
<1>4. task' = [task EXCEPT ![k] = t] /\ UNCHANGED aside
  BY DEF CreateRetry, history
<1> HIDE DEF t
<1> QED BY <1>2, <1>3, <1>4, SetsTidy DEF Stops

LEMMA FailsStep ==
    ASSUME Tidy, NEW k \in DOMAIN task, RequestFails(k) \/ PieceTimesOut(k) PROVE Tidy' /\ Stops(k)
<1>1. task[k].pc # "idle" /\ task' = Failed(k) /\ UNCHANGED aside
  BY DEF RequestFails, PieceTimesOut, Fails
<1> QED BY <1>1, Going, FailedTidy

LEMMA FindInboxStep ==
    ASSUME Tidy, NEW k \in DOMAIN task, FindInbox(k)
    PROVE  Tidy' /\ Steps(k, IF inboxes > 0 THEN "conv" ELSE "newinbox")
<1> DEFINE pc == IF inboxes > 0 THEN "conv" ELSE "newinbox"
<1>1. task[k].pc = "inbox" /\ task' = At(k, pc) /\ UNCHANGED aside
  BY DEF FindInbox, Goes, history
<1>2. Stage(k, pc, task[k].c)
  BY <1>1, FitsAs DEF Stage, Plain, Shared
<1> QED BY <1>1, <1>2, Going, StepsTidy

LEMMA NewInboxStep ==
    ASSUME Tidy, NEW k \in DOMAIN task, NewInbox(k)
    PROVE  Tidy' /\ ((Steps(k, "conv") /\ bind' = inboxes') \/ (Stops(k) /\ UNCHANGED bind))
<1>1. task[k].pc = "newinbox" /\ UNCHANGED aside
  BY DEF NewInbox, history
<1>2. Stage(k, "conv", task[k].c)
  BY <1>1, FitsAs DEF Stage, Plain, Shared
<1>3. CASE task' = At(k, "conv") /\ bind' = inboxes'
  BY <1>1, <1>2, <1>3, Going, StepsTidy
<1>4. CASE task' = Failed(k) /\ UNCHANGED bind
  BY <1>1, <1>4, Going, FailedTidy
<1> QED BY <1>3, <1>4 DEF NewInbox, Fails

LEMMA AfterStage ==
    ASSUME Tidy, NEW k \in DOMAIN task, NEW c
    PROVE  Stage(k, After(k), c) /\ After(k) \in {"post", "place", "end"}
           /\ (After(k) = "place" => k[1] = "alert") /\ (After(k) = "post" => k \in LocalKeys)
<1>1. After(k) \in {"post", "place", "end"} /\ (After(k) = "place" => k[1] = "alert")
         /\ (After(k) = "post" => k \in LocalKeys)
  BY DEF After
<1> QED BY <1>1 DEF Stage, Plain, Shared

LEMMA FindConvStep ==
    ASSUME Tidy, NEW k \in DOMAIN task, FindConv(k)
    PROVE  /\ Tidy'
           /\ \/ Steps(k, After(k)) /\ (Managed \/ ~NeedsConv(k))
              \/ Steps(k, "newconv") /\ \A v \in 1..Len(rconv) : rconv[v] # bind
              \/ \E v \in 1..Len(rconv) : rconv[v] = bind /\ Jumps(k, "mapconv", v)
<1>1. task[k].pc = "conv" /\ UNCHANGED aside
  BY DEF FindConv, Goes, history
<1>2. k \notin AnyHook /\ Goer(k)
  BY <1>1, FitsAs, Going DEF Shared
<1>3. CASE (Managed \/ ~NeedsConv(k)) /\ Goes(k, After(k))
  <2>1. task' = At(k, After(k))
    BY <1>3 DEF Goes
  <2> QED BY <1>1, <1>2, <1>3, <2>1, AfterStage, StepsTidy
<1>4. CASE (\A v \in 1..Len(rconv) : rconv[v] # bind) /\ Goes(k, "newconv")
  <2>1. task' = At(k, "newconv")
    BY <1>4 DEF Goes
  <2>2. Stage(k, "newconv", task[k].c)
    BY <1>2 DEF Stage, Plain, Shared
  <2> QED BY <1>1, <1>2, <1>4, <2>1, <2>2, StepsTidy
<1>5. ASSUME NEW v \in 1..Len(rconv), rconv[v] = bind,
             task' = [task EXCEPT ![k].pc = "mapconv", ![k].c = v]
      PROVE  Tidy' /\ Jumps(k, "mapconv", v)
  <2>1. Stage(k, "mapconv", v) /\ v \in Nat
    BY <1>2 DEF Stage, Plain, Shared
  <2> QED BY <1>1, <1>2, <1>5, <2>1, JumpStep
<1> QED BY <1>3, <1>4, <1>5 DEF FindConv

LEMMA NewConvStep ==
    ASSUME Tidy, rconv \in Seq(Nat), bind \in Nat, NEW k \in DOMAIN task, NewConv(k)
    PROVE  Tidy' /\ (Stops(k) \/ Jumps(k, "mapconv", Len(rconv) + 1))
<1>1. task[k].pc = "newconv" /\ UNCHANGED aside /\ rconv' = Append(rconv, bind)
  BY DEF NewConv, history
<1>2. Len(rconv') = Len(rconv) + 1 /\ Len(rconv') \in Nat
  BY <1>1
<1>3. CASE task' = [task EXCEPT ![k].pc = "mapconv", ![k].c = Len(rconv')]
  <2>1. Stage(k, "mapconv", Len(rconv'))
    BY <1>1, FitsAs DEF Stage, Plain, Shared
  <2>2. PICK c : c = Len(rconv')
    OBVIOUS
  <2> QED BY <1>1, <1>2, <1>3, <2>1, <2>2, Going, JumpStep
<1>4. CASE task' = Failed(k)
  BY <1>1, <1>4, Going, FailedTidy
<1> QED BY <1>3, <1>4 DEF NewConv, Fails

LEMMA MapConvStep ==
    ASSUME Tidy, cmap \in Nat, NEW k \in DOMAIN task, MapConv(k) PROVE Tidy' /\ Jumps(k, "moved", cmap)
<1>1. task[k].pc = "mapconv" /\ UNCHANGED aside
  BY DEF MapConv, history
<1>2. Stage(k, "moved", cmap)
  BY <1>1, FitsAs DEF Stage, Plain, Shared
<1>3. task' = [task EXCEPT ![k].pc = "moved", ![k].c = cmap]
  BY DEF MapConv
<1> QED BY <1>1, <1>2, <1>3, Going, JumpStep

LEMMA ResolveOldStep ==
    ASSUME Tidy, NEW k \in DOMAIN task, ResolveOld(k) PROVE Tidy' /\ Steps(k, After(k))
<1>1. task[k].pc = "moved" /\ UNCHANGED aside /\ task' = At(k, After(k))
  BY DEF ResolveOld, history
<1> QED BY <1>1, AfterStage, Going, StepsTidy

LEMMA Taken == ASSUME Tidy, NEW k \in DOMAIN task, Ready(k)
    PROVE Goer(k) /\ (k[1] \in {"meta", "status", "alert", "local"} => k \notin AnyHook)
          /\ (task[k].sys \/ \A j \in DOMAIN task : task[j].pc # "idle" => task[j].sys)
BY KeyKinds DEF Goer, Ready, LaneFree, Running

LEMMA EndMetaStep ==
    ASSUME Tidy, NEW k \in DOMAIN task, EndMeta(k) \/ RecordAlert(k) \/ RecordMirror(k) \/ RecordRecalled(k)
    PROVE  Tidy' /\ Stops(k)
<1>1. task' = Ended(k) /\ UNCHANGED aside
  BY DEF EndMeta, RecordAlert, RecordMirror, RecordRecalled, history
<1> QED BY <1>1, EndedTidy

LEMMA TakeMetaStep ==
    ASSUME Tidy, NEW k \in DOMAIN task, TakeMeta(k)
    PROVE  Tidy' /\ k[1] = "meta" /\ \E pc \in {"inbox", "end"}, c \in {0, 1} : Jumps(k, pc, c)
<1> DEFINE pc == IF on = "on" \/ (on = "account" /\ bind # 0) THEN "inbox" ELSE "end"
           c == IF on = "on" THEN 1 ELSE 0
<1>1. /\ k[1] = "meta" /\ Ready(k) /\ UNCHANGED aside
      /\ task' = [task EXCEPT ![k].st = "running", ![k].c = c, ![k].pc = pc]
  BY DEF TakeMeta, history
<1>2. pc \in {"inbox", "end"} /\ c \in {0, 1}
  OBVIOUS
<1> HIDE DEF pc, c
<1>3. Stage(k, pc, c)
  BY <1>1, <1>2, Taken DEF Stage, Plain, Shared
<1>4. Tidy' /\ Jumps(k, pc, c)
  BY <1>1, <1>2, <1>3, Taken, JumpStep
<1> QED BY <1>1, <1>2, <1>4

LEMMA TakeAccountStep ==
    ASSUME Tidy, NEW k \in DOMAIN task, TakeStatus(k) \/ TakeAlert(k)
    PROVE  /\ Tidy' /\ Ready(k) /\ k[1] \in {"status", "alert"}
           /\ Steps(k, "end") \/ (Steps(k, "inbox") /\ (k[1] = "alert" => Due(k[3])))
<1>1. Ready(k) /\ k[1] \in {"status", "alert"} /\ UNCHANGED aside
  BY DEF TakeStatus, TakeAlert, Goes, history
<1>2. \A pc \in {"inbox", "end"} : Stage(k, pc, task[k].c)
  BY <1>1, Taken DEF Stage, Plain, Shared
<1>3. task' = At(k, "end") \/ (task' = At(k, "inbox") /\ (k[1] = "alert" => Due(k[3])))
  BY DEF TakeStatus, TakeAlert, Goes, AlertDue, Due
<1> QED BY <1>1, <1>2, <1>3, Taken, StepsTidy

LEMMA PlaceStep ==
    ASSUME Tidy, NEW k \in DOMAIN task, FindPlace(k) \/ NewPlace(k) \/ RecordPlace(k)
    PROVE  /\ Tidy' /\ task[k].pc \in {"place", "newplace", "setplace"}
           /\ Stops(k) \/ \E pc \in {"newplace", "setplace", "alert"} : Steps(k, pc)
<1>1. /\ task[k].pc \in {"place", "newplace", "setplace"} /\ UNCHANGED aside
      /\ \/ task' = Failed(k) \/ task' = At(k, "newplace") \/ task' = At(k, "setplace")
         \/ task' = At(k, "alert")
  BY DEF FindPlace, NewPlace, RecordPlace, Goes, Fails, history
<1>2. \A pc \in {"newplace", "setplace", "alert"} : Stage(k, pc, task[k].c)
  BY <1>1, FitsAs DEF Stage, Plain, Shared
<1>3. Goer(k)
  BY <1>1, Going
<1>4. CASE task' = Failed(k)
  BY <1>1, <1>3, <1>4, FailedTidy
<1>5. ASSUME NEW pc \in {"newplace", "setplace", "alert"}, task' = At(k, pc) PROVE Tidy' /\ Steps(k, pc)
  BY <1>1, <1>2, <1>3, <1>5, StepsTidy
<1> QED BY <1>1, <1>4, <1>5

LEMMA PostAlertStep ==
    ASSUME Tidy, shown \in Seq(States), NEW k \in DOMAIN task, PostAlert(k)
    PROVE  /\ Tidy' /\ k[1] = "alert" /\ task[k].pc = "alert"
           /\ \/ Jumps(k, "told", Len(shown) + 1) /\ UNCHANGED lost
              \/ Stops(k) /\ lost' = lost \cup {<<"alert", Len(shown) + 1>>}
<1>1. task[k].pc = "alert" /\ UNCHANGED aside /\ shown' = Append(shown, k[3])
  BY DEF PostAlert
<1>2. k[1] = "alert" /\ Goer(k)
  BY <1>1, FitsAs, Going
<1>3. k[3] \in States
  BY <1>2, KeyKinds DEF Tidy, TypedTasks
<1>4. Len(shown') = Len(shown) + 1 /\ Len(shown) + 1 \in Nat
  BY <1>1, <1>3
<1>5. Stage(k, "told", Len(shown) + 1)
  BY <1>2 DEF Stage, Plain, Shared
<1>6. CASE task' = [task EXCEPT ![k].pc = "told", ![k].c = Len(shown')] /\ UNCHANGED lost
  <2>1. task' = [task EXCEPT ![k].pc = "told", ![k].c = Len(shown) + 1]
    BY <1>4, <1>6
  <2> QED BY <1>1, <1>2, <1>4, <1>5, <1>6, <2>1, JumpStep
<1>7. CASE task' = Failed(k) /\ lost' = lost \cup {<<"alert", Len(shown')>>}
  <2>1. Tidy' /\ Stops(k)
    BY <1>1, <1>2, <1>7, FailedTidy
  <2> QED BY <1>1, <1>2, <1>4, <1>7, <2>1
<1> QED BY <1>6, <1>7 DEF PostAlert, Fails

LEMMA TakeLocalStep ==
    ASSUME Tidy, TypedRows, NEW k \in DOMAIN task, TakeLocal(k)
    PROVE  /\ Tidy' /\ k \in LocalKeys /\ Ready(k)
           /\ \/ Stops(k)
              \/ /\ LocalGoes(k[2]) \in {"look", "inbox"}
                 /\ Jumps(k, LocalGoes(k[2]), MapOf(k[2]).c)
<1> DEFINE pc == LocalGoes(k[2])
           c == MapOf(k[2]).c
<1>1. /\ k \in LocalKeys /\ Ready(k) /\ UNCHANGED aside
      /\ task' = IF pc = "end" THEN Ended(k)
                 ELSE [task EXCEPT ![k].st = "running", ![k].pc = pc, ![k].c = c]
  BY DEF TakeLocal, history
<1>2. c \in Nat
  BY DEF MapOf, Map, TypedRows, Maps, Ids
<1>3. pc \in {"look", "inbox", "end"}
  BY DEF LocalGoes
<1> HIDE DEF pc, c
<1>4. CASE pc = "end"
  BY <1>1, <1>4, EndedTidy
<1>5. CASE pc # "end"
  <2>1. Stage(k, pc, c)
    BY <1>1, <1>3, <1>5, KeyKinds DEF Stage, Plain, Shared
  <2>2. Tidy' /\ Jumps(k, pc, c)
    BY <1>1, <1>2, <1>5, <2>1, Taken, JumpStep
  <2> QED BY <1>1, <1>3, <1>5, <2>2 DEF pc, c
<1> QED BY <1>4, <1>5

LEMMA PostMessageStep ==
    ASSUME Tidy, TypedWorld, NEW k \in DOMAIN task, PostMessage(k)
    PROVE  /\ Tidy' /\ k \in LocalKeys /\ task[k].pc = "post" /\ Len(cw) + 1 \in Ids
           /\ \/ Jumps(k, "map", Len(cw) + 1) /\ UNCHANGED lost
              \/ Stops(k) /\ lost' = lost \cup {<<"local", Len(cw) + 1>>}
<1> DEFINE m == Cw("mirror", k[2], row[k[2]].dir = "out", "text", cmap)
<1>1. task[k].pc = "post" /\ UNCHANGED aside /\ cw' = Append(cw, m) /\ Len(cw) < MaxCw
  BY DEF PostMessage
<1>2. k \in LocalKeys /\ Goer(k)
  BY <1>1, FitsAs, Going
<1> HIDE DEF m
<1>3. cw \in Seq(Messages) /\ MaxCw \in Nat
  BY BoundAssumption DEF TypedWorld
<1>4. Len(cw') = Len(cw) + 1 /\ Len(cw) + 1 \in Ids /\ Len(cw) + 1 \in Nat
  BY <1>1, <1>3 DEF Ids
<1>5. Stage(k, "map", Len(cw) + 1)
  BY <1>2, <1>4 DEF Stage, Plain, Shared
<1>6. CASE task' = [task EXCEPT ![k].pc = "map", ![k].c = Len(cw')] /\ UNCHANGED lost
  <2>1. task' = [task EXCEPT ![k].pc = "map", ![k].c = Len(cw) + 1]
    BY <1>4, <1>6
  <2> QED BY <1>1, <1>2, <1>4, <1>5, <1>6, <2>1, JumpStep
<1>7. CASE task' = Failed(k) /\ lost' = lost \cup {<<"local", Len(cw')>>}
  <2>1. Tidy' /\ Stops(k)
    BY <1>1, <1>2, <1>7, FailedTidy
  <2> QED BY <1>1, <1>2, <1>4, <1>7, <2>1
<1> QED BY <1>6, <1>7 DEF PostMessage, Fails

LEMMA SnapshotStep ==
    ASSUME Tidy, NEW k \in DOMAIN task, LookForSnapshot(k) \/ CreateSnapshot(k)
    PROVE  /\ Tidy' /\ task[k].pc \in {"look", "snap"}
           /\ \/ Stops(k) /\ task[k].pc = "snap"
              \/ Steps(k, "final")
              \/ Steps(k, "snap") /\ task[k].pc = "look" /\ ~(snaps[task[k].c] > 0)
<1>1. /\ task[k].pc \in {"look", "snap"} /\ UNCHANGED aside
      /\ \/ task' = Failed(k) /\ task[k].pc = "snap"
         \/ task' = At(k, "final")
         \/ task' = At(k, "snap") /\ task[k].pc = "look" /\ ~(snaps[task[k].c] > 0)
  BY DEF LookForSnapshot, CreateSnapshot, Goes, Fails, history
<1>2. \A pc \in {"snap", "final"} : Stage(k, pc, task[k].c)
  BY <1>1, TidyTask DEF Stage, Plain, Shared, Fits
<1>3. Goer(k)
  BY <1>1, Going
<1>4. CASE task' = Failed(k) /\ task[k].pc = "snap"
  BY <1>1, <1>3, <1>4, FailedTidy
<1>5. ASSUME NEW pc \in {"snap", "final"}, task' = At(k, pc) PROVE Tidy' /\ Steps(k, pc)
  BY <1>1, <1>2, <1>3, <1>5, StepsTidy
<1> QED BY <1>1, <1>4, <1>5

TidyOf(f) == TypedTasks(f) /\ Lane(f) /\ \A j \in DOMAIN f : f[j].sys => j \in aside

LEMMA SetsOf ==
    ASSUME Tidy, NEW k \in DOMAIN task, NEW t \in Tasks, Fits(k, t), t.sys = task[k].sys, Goer(k),
           NEW f, f = [task EXCEPT ![k] = t]
    PROVE  /\ TidyOf(f) /\ DOMAIN f = DOMAIN task /\ f[k] = t
           /\ \A j \in DOMAIN task : j # k => f[j] = task[j]
<1>1. TypedTasks(f)
  BY UpdateTyped DEF Tidy
<1>2. Lane(f)
  <2>1. Lane(task) /\ (\/ t.pc = "idle" \/ t.sys \/ (task[k].pc # "idle" /\ ~task[k].sys)
                       \/ \A j \in DOMAIN task : task[j].pc # "idle" => task[j].sys)
    BY DEF Tidy, Goer, Ready, LaneFree, Running
  <2> QED BY <2>1, UpdateLane
<1>3. DOMAIN f = DOMAIN task /\ f[k] = t /\ \A j \in DOMAIN task : j # k => f[j] = task[j]
  OBVIOUS
<1>4. \A j \in DOMAIN f : f[j].sys => j \in aside
  BY <1>3 DEF Tidy, Asides
<1> QED BY <1>1, <1>2, <1>3, <1>4 DEF TidyOf

LEMMA EnqueueFacts ==
    ASSUME NEW f, TidyOf(f), NEW pk \in Pks, NEW rev \in Revs, NEW g, g = Enqueue(f, pk, rev)
    PROVE  /\ TidyOf(g) /\ DOMAIN f \subseteq DOMAIN g /\ \A j \in DOMAIN f : g[j] = f[j]
           /\ \A j \in DOMAIN g \ DOMAIN f : j = <<"local", pk, rev>> /\ g[j].pc = "idle" /\ ~g[j].sys
<1> DEFINE key == <<"local", pk, rev>>
<1>1. key \in LocalKeys
  BY DEF LocalKeys
<1>2. CASE on # "on"
  BY <1>2 DEF Enqueue
<1>3. CASE on = "on"
  <2> HIDE DEF key
  <2>1. g = Created(f, key, FALSE)
    BY <1>3 DEF Enqueue, key
  <2> DEFINE t == Task("pending", 0, FALSE, "idle")
  <2>a. g = IF key \in DOMAIN f THEN f ELSE With(f, key, t)
    BY <2>1 DEF Created
  <2>3. t.pc = "idle" /\ ~t.sys
    BY DEF Task
  <2> HIDE DEF t
  <2>2. /\ DOMAIN g = DOMAIN f \cup {key} /\ \A j \in DOMAIN f : g[j] = f[j]
        /\ key \notin DOMAIN f => g[key] = t
    BY <2>a DEF With
  <2>4. TypedTasks(g)
    BY <1>1, <2>1, CreatedTyped DEF TidyOf
  <2>5. Lane(g)
    BY <2>1, CreatedLane DEF TidyOf
  <2>6. \A j \in DOMAIN g \ DOMAIN f : j = key /\ g[j].pc = "idle" /\ ~g[j].sys
    BY <2>2, <2>3
  <2>7. \A j \in DOMAIN g : g[j].sys => j \in aside
    BY <2>2, <2>6 DEF TidyOf
  <2> QED BY <2>2, <2>4, <2>5, <2>6, <2>7 DEF TidyOf, key
<1> QED BY <1>2, <1>3

LEMMA RevisionTyped == ASSUME NEW r \in Rows PROVE Revision(r) \in Revs
BY DEF Revision, Rows, Revs

(* A message is written and task k becomes t.                              *)
LEMMA WriteStep ==
    ASSUME Tidy, NEW k \in DOMAIN task, Goer(k), NEW t \in Tasks, Fits(k, t), t.sys = task[k].sys,
           NEW pk \in Pks, NEW r \in Rows, Write([task EXCEPT ![k] = t], pk, r), UNCHANGED aside
    PROVE  Tidy' /\ Only(k) /\ task'[k] = t
<1>1. PICK f : f = [task EXCEPT ![k] = t]
  OBVIOUS
<1>2. /\ TidyOf(f) /\ DOMAIN f = DOMAIN task /\ f[k] = t
      /\ \A j \in DOMAIN task : j # k => f[j] = task[j]
  BY <1>1, SetsOf
<1>3. task' = Enqueue(f, pk, Revision(r)) /\ row' = With(row, pk, r)
  BY <1>1 DEF Write
<1>4. /\ TidyOf(task') /\ DOMAIN f \subseteq DOMAIN task' /\ \A j \in DOMAIN f : task'[j] = f[j]
      /\ \A j \in DOMAIN task' \ DOMAIN f : j = <<"local", pk, Revision(r)>> /\ task'[j].pc = "idle"
  BY <1>2, <1>3, RevisionTyped, EnqueueFacts
<1>5. <<"local", pk, Revision(r)>> \in LocalKeys /\ <<"local", pk, Revision(r)>>[2] = pk
  BY RevisionTyped DEF LocalKeys
<1>6. pk \in DOMAIN row'
  BY <1>3 DEF With
<1> QED BY <1>2, <1>4, <1>5, <1>6 DEF TidyOf, Tidy, Asides, Only

LEMMA PieceIn == ASSUME NEW k, task[k].todo # {} PROVE Piece(k) \in task[k].todo
<1>1. \E pk \in task[k].todo : pk[3] = "text" \/ \A q \in task[k].todo : q[3] # "text"
  OBVIOUS
<1> QED BY <1>1 DEF Piece

-----------------------------------------------------------------------------
(* The steps of the webhooks.                                              *)

LEMMA HookKinds ==
    /\ \A k \in HookKeys : k \in AnyHook /\ k[2] \in Events /\ k = <<"hook", k[2]>>
    /\ \A k \in HookKeys : k[2][1] = "created" => k[2][2] \in Ids /\ Creation(k, k[2][2])
    /\ \A k \in HookKeys : k[2][1] \in {"deleted", "again"} => k[2][2] \in Ids /\ Deletion(k, k[2][2])
<1>1. \A k \in HookKeys : k \in AnyHook /\ k[2] \in Events /\ k = <<"hook", k[2]>>
  BY KeyKinds DEF HookKeys
<1>2. \A d \in Events : /\ d = <<d[1], d[2]>>
                        /\ d[1] \in {"created", "deleted", "again"} => d[2] \in Ids
  BY DEF Events
<1> QED BY <1>1, <1>2 DEF Creation, Deletion

LEMMA PiecesTyped == \A i \in Ids : Pieces(i) \subseteq Pks
BY DEF Pieces, Pks

LEMMA HookEndsStep ==
    ASSUME Tidy, NEW k \in DOMAIN task, NEW st, HookEnds(k, st), UNCHANGED aside
    PROVE  Tidy' /\ Stops(k) /\ task'[k].pc = "idle" /\ task'[k].st = "success"
BY EndedTidy DEF HookEnds

LEMMA HookTakenStep ==
    ASSUME Tidy, NEW k \in DOMAIN task, TakeIgnored(k) \/ TakeResolved(k) \/ TakeOver(k)
    PROVE  Tidy' /\ Stops(k)
<1>1. PICK st : HookEnds(k, st) /\ UNCHANGED aside
  BY DEF TakeIgnored, TakeResolved, TakeOver, history
<1> QED BY <1>1, HookEndsStep

(* The webhook of message i starts to send.                                *)
Sends(k, i) ==
    /\ Only(k) /\ i \in Ids /\ Creation(k, i) /\ task'[k].pc = "send" /\ task'[k].c = i
    /\ task'[k].sys = task[k].sys /\ task'[k].todo \subseteq Pieces(i)
    /\ task'[k].yes = {} /\ task'[k].no = {}

LEMMA TakeCreatedStep ==
    ASSUME Tidy, NEW k \in DOMAIN task, TakeCreated(k)
    PROVE  /\ Tidy' /\ k \in HookKeys /\ Ready(k) /\ k[2][1] = "created"
           /\ \/ Stops(k)
              \/ /\ Sends(k, k[2][2]) /\ UNCHANGED hook
                 /\ ~Skipped(k[2][2]) /\ cmap = cw[k[2][2]].conv
<1>1. k \in HookKeys /\ Ready(k) /\ k[2][1] = "created" /\ UNCHANGED aside
  BY DEF TakeCreated, Takes, history
<1>2. PICK i : i = k[2][2]
  OBVIOUS
<1>3. i \in Ids /\ Creation(k, i) /\ Goer(k)
  BY <1>1, <1>2, HookKinds, Taken
<1>4. ASSUME NEW st, HookEnds(k, st) PROVE Tidy' /\ Stops(k)
  BY <1>1, <1>4, HookEndsStep
<1>5. ASSUME Fails(k) PROVE Tidy' /\ Stops(k)
  BY <1>1, <1>3, <1>5, FailedTidy DEF Fails
<1>6. ASSUME NEW todo, todo \subseteq Pieces(i), todo # {},
             task' = [task EXCEPT ![k].st = "running", ![k].pc = "send", ![k].c = i, ![k].todo = todo]
      PROVE  Tidy' /\ Sends(k, i)
  <2> DEFINE t == [task[k] EXCEPT !.st = "running", !.pc = "send", !.c = i, !.todo = todo]
  <2>1. task \in [DOMAIN task -> Tasks] /\ task[k] \in Tasks /\ Fits(k, task[k])
    BY TidyTask DEF Tidy, TypedTasks
  <2>2. task[k].yes = {} /\ task[k].no = {}
    BY <1>1, <2>1 DEF Fits, Ready, Running
  <2>3. todo \subseteq Pks /\ i \in Nat
    BY <1>3, <1>6, PiecesTyped DEF Ids
  <2>4. /\ t \in Tasks /\ t.pc = "send" /\ t.c = i /\ t.todo = todo /\ t.yes = {} /\ t.no = {}
        /\ t.sys = task[k].sys
    BY <2>1, <2>2, <2>3 DEF Tasks, Pcs
  <2>5. task' = [task EXCEPT ![k] = t]
    BY <1>6, <2>1
  <2> HIDE DEF t
  <2>6. Fits(k, t)
    BY <1>1, <1>3, <1>6, <2>1, <2>4, HookKinds DEF Fits, Shared
  <2> QED BY <1>1, <1>3, <1>6, <2>4, <2>5, <2>6, SetsTidy DEF Sends
<1>7. \/ \E st : HookEnds(k, st)
      \/ Fails(k)
      \/ /\ ~Skipped(i) /\ cmap = cw[i].conv /\ UNCHANGED hook
         /\ task' = [task EXCEPT ![k].st = "running", ![k].pc = "send", ![k].c = i,
                       ![k].todo = {"c"} \X {i} \X (IF cw[i].type = "both" THEN {"text", "image"} ELSE {"text"})]
  BY <1>2, Zenon DEF TakeCreated
<1>8. PICK todo : todo = {"c"} \X {i} \X (IF cw[i].type = "both" THEN {"text", "image"} ELSE {"text"})
  OBVIOUS
<1>9. todo \subseteq Pieces(i) /\ todo # {}
  <2>1. <<"c", i, "text">> \in todo
    BY <1>8
  <2> QED BY <1>8, <2>1 DEF Pieces
<1> QED BY <1>1, <1>2, <1>4, <1>5, <1>6, <1>7, <1>8, <1>9

(* Task k has the result of the piece pk, and goes on to the next one or   *)
(* to the map.                                                             *)
Gets(k, pk, ok) ==
    /\ Only(k) /\ task'[k].c = task[k].c /\ task'[k].sys = task[k].sys
    /\ task'[k].yes = IF ok THEN task[k].yes \cup {pk} ELSE task[k].yes
    /\ task'[k].no = IF ok THEN task[k].no ELSE task[k].no \cup {pk}
    /\ \/ task'[k].pc = "send" /\ task'[k].todo = task[k].todo \ {pk} /\ task'[k].todo # {}
       \/ /\ task'[k].pc = "map" /\ task[k].todo \ {pk} = {}
          /\ task'[k].todo = task'[k].yes \cup task'[k].no

LEMMA GotPieceStep ==
    ASSUME Tidy, NEW k \in DOMAIN task, task[k].pc \in {"send", "wait"}, NEW ok \in BOOLEAN,
           task' = GotPiece(k, ok), UNCHANGED aside
    PROVE  Tidy' /\ Piece(k) \in task[k].todo /\ Piece(k) \in Pieces(task[k].c) /\ Gets(k, Piece(k), ok)
<1>1. task \in [DOMAIN task -> Tasks] /\ task[k] \in Tasks /\ Fits(k, task[k]) /\ Goer(k)
  BY TidyTask, Going DEF Tidy, TypedTasks
<1>2. PICK pk : pk = Piece(k)
  OBVIOUS
<1>3. pk \in task[k].todo /\ pk \in Pieces(task[k].c) /\ Creation(k, task[k].c)
  BY <1>1, <1>2, PieceIn DEF Fits
<1> DEFINE yes == IF ok THEN task[k].yes \cup {pk} ELSE task[k].yes
           no == IF ok THEN task[k].no ELSE task[k].no \cup {pk}
           u == [task[k] EXCEPT !.pc = "send", !.todo = task[k].todo \ {pk}, !.yes = yes, !.no = no]
           t == IF u.todo = {} THEN [u EXCEPT !.pc = "map", !.todo = u.yes \cup u.no] ELSE u
<1>4. task' = [task EXCEPT ![k] = t]
  BY <1>1, <1>2 DEF GotPiece
<1>5. /\ task[k].todo \subseteq Pieces(task[k].c) /\ task[k].yes \subseteq Pieces(task[k].c)
      /\ task[k].no \subseteq Pieces(task[k].c)
  BY <1>1 DEF Fits
<1>6. yes \subseteq Pieces(task[k].c) /\ no \subseteq Pieces(task[k].c)
  BY <1>3, <1>5
<1>7. k \in AnyHook /\ task[k].c \in Ids
  <2>1. k \in AnyHook
    BY <1>3, KeyKinds DEF Creation, Tidy, TypedTasks, LocalKeys, MoveKeys
  <2>2. k[2] = <<"created", task[k].c>> /\ k[2] \in AnyEvent
    BY <1>3, <2>1, KeyKinds DEF Creation
  <2> QED BY <2>1, <2>2, EventKinds
<1>8. Pieces(task[k].c) \subseteq Pks
  BY <1>7, PiecesTyped
<1> HIDE DEF yes, no
<1>9. /\ u \in Tasks /\ u.pc = "send" /\ u.todo = task[k].todo \ {pk} /\ u.yes = yes /\ u.no = no
      /\ u.c = task[k].c /\ u.sys = task[k].sys
  BY <1>1, <1>5, <1>6, <1>8 DEF Tasks, Pcs
<1> HIDE DEF u
<1>10. /\ t \in Tasks /\ t.yes = yes /\ t.no = no /\ t.c = task[k].c /\ t.sys = task[k].sys
       /\ \/ t.pc = "send" /\ t.todo = task[k].todo \ {pk} /\ t.todo # {}
          \/ t.pc = "map" /\ task[k].todo \ {pk} = {} /\ t.todo = yes \cup no
  <2>1. CASE u.todo = {}
    <3> DEFINE w == [u EXCEPT !.pc = "map", !.todo = u.yes \cup u.no]
    <3>1. /\ w \in Tasks /\ w.yes = yes /\ w.no = no /\ w.c = task[k].c /\ w.sys = task[k].sys
          /\ w.pc = "map" /\ w.todo = yes \cup no
      BY <1>6, <1>8, <1>9 DEF Tasks, Pcs
    <3> QED BY <1>9, <2>1, <3>1
  <2>2. CASE u.todo # {}
    BY <1>9, <2>2
  <2> QED BY <2>1, <2>2
<1> HIDE DEF t
<1>11. Fits(k, t)
  BY <1>1, <1>3, <1>5, <1>6, <1>7, <1>10, KeyKinds DEF Fits, Shared
<1>12. Tidy' /\ Only(k) /\ task'[k] = t
  BY <1>1, <1>4, <1>10, <1>11, SetsTidy
<1>13. Gets(k, pk, ok)
  BY <1>10, <1>12 DEF Gets, yes, no
<1> QED BY <1>2, <1>3, <1>12, <1>13

LEMMA HookGoes ==
    ASSUME Tidy, NEW k \in DOMAIN task
    PROVE  /\ Creation(k, task[k].c) \/ Deletion(k, task[k].c) => k \in AnyHook /\ task[k].c \in Ids
           /\ Creation(k, task[k].c) => ~Deletion(k, task[k].c)
<1>1. SUFFICES ASSUME Creation(k, task[k].c) \/ Deletion(k, task[k].c)
               PROVE  k \in AnyHook /\ task[k].c \in Ids
  BY DEF Creation, Deletion
<1>2. PICK e \in {"created", "deleted", "again"} : k = <<"hook", <<e, task[k].c>>>>
  BY <1>1 DEF Creation, Deletion
<1>3. k \in AnyHook
  BY <1>2, KeyKinds DEF Tidy, TypedTasks, LocalKeys, MoveKeys
<1>4. k[2] = <<e, task[k].c>> /\ k[2] \in AnyEvent
  BY <1>2, <1>3, KeyKinds
<1> QED BY <1>3, <1>4, EventKinds

LEMMA SendPieceStep ==
    ASSUME Tidy, NEW k \in DOMAIN task, SendPiece(k)
    PROVE  /\ Tidy' /\ task[k].pc = "send"
           /\ Piece(k) \in task[k].todo /\ Piece(k) \in Pieces(task[k].c) /\ Piece(k) \in Pks
           /\ \/ /\ Steps(k, "wait") /\ Piece(k) \notin DOMAIN row
                 /\ row' = With(row, Piece(k), Row("out", "sending"))
              \/ /\ Gets(k, Piece(k), row[Piece(k)].st = "sent") /\ Piece(k) \in DOMAIN row
                 /\ UNCHANGED row
<1>1. task \in [DOMAIN task -> Tasks] /\ task[k] \in Tasks /\ Fits(k, task[k])
  BY TidyTask DEF Tidy, TypedTasks
<1>2. task[k].pc = "send" /\ UNCHANGED aside
  BY DEF SendPiece, Quiet, history
<1>3. Goer(k) /\ task[k].c \in Ids /\ k \in AnyHook
  BY <1>1, <1>2, Going, HookGoes DEF Fits
<1>4. PICK pk : pk = Piece(k)
  OBVIOUS
<1>5. pk \in task[k].todo /\ pk \in Pieces(task[k].c) /\ pk \in Pks
  BY <1>1, <1>2, <1>3, <1>4, PieceIn, PiecesTyped DEF Fits
<1>6. CASE pk \notin DOMAIN row
  <2> DEFINE t == [task[k] EXCEPT !.pc = "wait"]
             r == Row("out", "sending")
  <2>1. Write([task EXCEPT ![k].pc = "wait"], pk, r)
    BY <1>4, <1>6 DEF SendPiece
  <2>2. /\ t \in Tasks /\ t.sys = task[k].sys /\ t.c = task[k].c /\ t.todo = task[k].todo
        /\ t.yes = task[k].yes /\ t.no = task[k].no /\ t.pc = "wait"
    BY <1>1 DEF Tasks, Pcs
  <2>3. [task EXCEPT ![k].pc = "wait"] = [task EXCEPT ![k] = t]
    BY <1>1
  <2>4. r \in Rows
    BY DEF Row, Rows
  <2> HIDE DEF t, r
  <2>5. Fits(k, t)
    BY <1>1, <1>2, <1>3, <2>2, KeyKinds DEF Fits, Shared
  <2>6. Write([task EXCEPT ![k] = t], pk, r)
    BY <2>1, <2>3
  <2>7. Tidy' /\ Only(k) /\ task'[k] = t
    BY <1>2, <1>3, <1>5, <2>2, <2>4, <2>5, <2>6, WriteStep
  <2>8. Steps(k, "wait") /\ row' = With(row, pk, r)
    BY <2>2, <2>6, <2>7 DEF Steps, Like, Write
  <2> QED BY <1>2, <1>4, <1>5, <1>6, <2>7, <2>8 DEF r
<1>7. CASE pk \in DOMAIN row
  <2> DEFINE ok == row[pk].st = "sent"
  <2>1. task' = GotPiece(k, ok) /\ UNCHANGED row
    BY <1>4, <1>7 DEF SendPiece
  <2>2. ok \in BOOLEAN
    OBVIOUS
  <2> HIDE DEF ok
  <2>3. Tidy' /\ Gets(k, pk, ok)
    BY <1>2, <1>4, <2>1, <2>2, GotPieceStep
  <2> QED BY <1>2, <1>4, <1>5, <1>7, <2>1, <2>3 DEF ok
<1> QED BY <1>6, <1>7

LEMMA PieceAnsweredStep ==
    ASSUME Tidy, NEW k \in DOMAIN task, PieceAnswered(k)
    PROVE  /\ Tidy' /\ task[k].pc = "wait"
           /\ Piece(k) \in task[k].todo /\ Piece(k) \in Pieces(task[k].c)
           /\ Gets(k, Piece(k), row[Piece(k)].st = "sent")
           /\ row[Piece(k)].st \in {"sent", "failed"}
<1> DEFINE ok == row[Piece(k)].st = "sent"
<1>1. task[k].pc = "wait" /\ task' = GotPiece(k, ok) /\ UNCHANGED aside /\ row[Piece(k)].st \in {"sent", "failed"}
  BY DEF PieceAnswered, Quiet, history
<1>2. ok \in BOOLEAN
  OBVIOUS
<1> HIDE DEF ok
<1>3. Tidy' /\ Piece(k) \in task[k].todo /\ Piece(k) \in Pieces(task[k].c) /\ Gets(k, Piece(k), ok)
  BY <1>1, <1>2, GotPieceStep
<1> QED BY <1>1, <1>3 DEF ok

(* Task k is done with x.                                                  *)
Sets(k, todo, yes, no) ==
    /\ Only(k) /\ task'[k].pc = task[k].pc /\ task'[k].c = task[k].c /\ task'[k].sys = task[k].sys
    /\ task'[k].todo = todo /\ task'[k].yes = yes /\ task'[k].no = no
LEMMA SetsStep ==
    ASSUME Tidy, NEW k, Goer(k), UNCHANGED aside,
           NEW t \in Tasks, t.pc = task[k].pc, t.c = task[k].c, t.sys = task[k].sys, Fits(k, t),
           task' = [task EXCEPT ![k] = t]
    PROVE  Tidy' /\ Sets(k, t.todo, t.yes, t.no)
BY SetsTidy DEF Sets, Goer

LEMMA RecordPieceStep ==
    ASSUME Tidy, NEW k \in DOMAIN task, NEW pk \in task[k].todo, RecordPiece(k, pk)
    PROVE  /\ Tidy' /\ task[k].pc = "map" /\ Creation(k, task[k].c) /\ task[k].c \in Ids
           /\ pk \in Pieces(task[k].c) /\ k \in AnyHook
           /\ \/ /\ Sets(k, task[k].todo \ {pk}, task[k].yes, task[k].no)
                 /\ UNCHANGED hook /\ task[k].todo # {pk}
              \/ Stops(k) /\ task[k].todo = {pk} /\ task[k].no # {} /\ hook' = [hook EXCEPT ![k[2]] = "failed"]
              \/ Steps(k, "takeover") /\ task[k].todo = {pk} /\ task[k].no = {} /\ UNCHANGED hook
<1>1. task[k].pc = "map" /\ k \in HookKeys /\ UNCHANGED aside
  BY DEF RecordPiece, history
<1>2. task \in [DOMAIN task -> Tasks] /\ task[k] \in Tasks /\ Fits(k, task[k]) /\ Goer(k)
  BY <1>1, TidyTask, Going DEF Tidy, TypedTasks
<1>3. Creation(k, task[k].c) /\ task[k].c \in Ids /\ k \in AnyHook /\ task[k].todo \subseteq Pieces(task[k].c)
  BY <1>1, <1>2, KeyKinds DEF Fits
<1>4. CASE task[k].todo # {pk}
  <2> DEFINE t == [task[k] EXCEPT !.todo = task[k].todo \ {pk}]
  <2>1. task' = [task EXCEPT ![k] = t] /\ UNCHANGED hook
    BY <1>2, <1>4 DEF RecordPiece
  <2>2. /\ t \in Tasks /\ t.pc = task[k].pc /\ t.c = task[k].c /\ t.sys = task[k].sys
        /\ t.todo = task[k].todo \ {pk} /\ t.yes = task[k].yes /\ t.no = task[k].no
    BY <1>2 DEF Tasks
  <2> HIDE DEF t
  <2>3. Fits(k, t)
    BY <1>1, <1>2, <1>3, <2>2, KeyKinds DEF Fits, Shared
  <2>4. Tidy' /\ Sets(k, t.todo, t.yes, t.no)
    BY <1>1, <1>2, <2>1, <2>2, <2>3, SetsStep
  <2> QED BY <1>1, <1>3, <1>4, <2>1, <2>2, <2>4
<1>5. CASE task[k].todo = {pk} /\ task[k].no # {}
  <2>1. task' = Failed(k) /\ hook' = [hook EXCEPT ![k[2]] = "failed"]
    BY <1>1, <1>5 DEF RecordPiece, Fails
  <2> QED BY <1>1, <1>2, <1>3, <1>5, <2>1, FailedTidy
<1>6. CASE task[k].todo = {pk} /\ task[k].no = {}
  <2>1. task' = At(k, "takeover") /\ UNCHANGED hook
    BY <1>6 DEF RecordPiece
  <2>2. Stage(k, "takeover", task[k].c)
    BY <1>3 DEF Stage, Plain, Shared
  <2> QED BY <1>1, <1>2, <1>3, <1>6, <2>1, <2>2, StepsTidy
<1> QED BY <1>4, <1>5, <1>6

(* The webhook of the deletion of message i reads the rows.                *)
Reads(k, i) ==
    /\ Only(k) /\ i \in Ids /\ Deletion(k, i) /\ task'[k].pc = "recall" /\ task'[k].c = i
    /\ task'[k].sys = task[k].sys /\ task'[k].todo = {<<pk, map[pk].st>> : pk \in MapsOf(i)}
    /\ task'[k].yes = {} /\ task'[k].no = {}

LEMMA TakeDeletedStep ==
    ASSUME Tidy, TypedRows, NEW k \in DOMAIN task, TakeDeleted(k)
    PROVE  /\ Tidy' /\ k \in HookKeys /\ Ready(k) /\ k[2][2] \in Ids /\ Deletion(k, k[2][2])
           /\ \/ Reads(k, k[2][2]) /\ UNCHANGED <<hook, map>> /\ cw[k[2][2]].out
              \/ /\ Stops(k) /\ hook' = [hook EXCEPT ![k[2]] = "success"]
                 /\ map' = [pk \in DOMAIN map |-> IF pk \in MapsOf(k[2][2]) /\ on = "on"
                                                  THEN Map(k[2][2], "remote_deleted") ELSE map[pk]]
<1>1. k \in HookKeys /\ Ready(k) /\ k[2][1] \in {"deleted", "again"} /\ UNCHANGED aside
  BY DEF TakeDeleted, Takes, history
<1>2. PICK i : i = k[2][2]
  OBVIOUS
<1>3. i \in Ids /\ Deletion(k, i) /\ Goer(k) /\ k \in AnyHook
  BY <1>1, <1>2, HookKinds, Taken
<1>4. CASE cw[i].out /\ MapsOf(i) # {}
  <2> DEFINE todo == {<<pk, map[pk].st>> : pk \in MapsOf(i)}
             t == [task[k] EXCEPT !.st = "running", !.pc = "recall", !.c = i, !.todo = todo]
  <2>1. task \in [DOMAIN task -> Tasks] /\ task[k] \in Tasks /\ Fits(k, task[k])
    BY TidyTask DEF Tidy, TypedTasks
  <2>2. task[k].yes = {} /\ task[k].no = {}
    BY <1>1, <2>1 DEF Fits, Ready, Running
  <2>3. todo \subseteq Items /\ i \in Nat
    BY <1>3 DEF Ids, Items, MapsOf, TypedRows, Maps
  <2>4. task' = [task EXCEPT ![k].st = "running", ![k].pc = "recall", ![k].c = i, ![k].todo = todo]
           /\ UNCHANGED <<hook, map>>
    BY <1>2, <1>4 DEF TakeDeleted
  <2> HIDE DEF todo
  <2>5. /\ t \in Tasks /\ t.pc = "recall" /\ t.c = i /\ t.todo = todo /\ t.yes = {} /\ t.no = {}
        /\ t.sys = task[k].sys
    BY <2>1, <2>2, <2>3 DEF Tasks, Pcs
  <2>6. task' = [task EXCEPT ![k] = t]
    BY <2>1, <2>4
  <2> HIDE DEF t
  <2>7. Fits(k, t)
    BY <1>3, <2>1, <2>3, <2>5 DEF Fits, Shared
  <2>8. Tidy' /\ Only(k) /\ task'[k] = t
    BY <1>1, <1>3, <2>5, <2>6, <2>7, SetsTidy
  <2> QED BY <1>1, <1>2, <1>3, <1>4, <2>4, <2>5, <2>8 DEF Reads, todo
<1>5. CASE ~(cw[i].out /\ MapsOf(i) # {})
  <2>1. /\ HookEnds(k, "success")
        /\ map' = [pk \in DOMAIN map |-> IF pk \in MapsOf(i) /\ on = "on"
                                         THEN Map(i, "remote_deleted") ELSE map[pk]]
    BY <1>2, <1>5 DEF TakeDeleted
  <2>2. Tidy' /\ Stops(k) /\ hook' = [hook EXCEPT ![k[2]] = "success"]
    BY <1>1, <2>1, HookEndsStep DEF HookEnds
  <2> QED BY <1>1, <1>2, <1>3, <2>1, <2>2
<1> QED BY <1>4, <1>5

(* A task that recalls goes on with the todo, the successes and failures.  *)
Having(t, todo, yes, no) == [t EXCEPT !.todo = todo, !.yes = yes, !.no = no]
LEMMA RecallStep ==
    ASSUME Tidy, NEW k \in DOMAIN task, task[k].pc = "recall",
           NEW todo \in SUBSET Items, NEW yes \in SUBSET Pks, NEW no \in SUBSET Pks,
           NEW t, t = Having(task[k], todo, yes, no)
    PROVE  /\ t \in Tasks /\ t.todo = todo /\ t.yes = yes /\ t.no = no
           /\ t.pc = task[k].pc /\ t.c = task[k].c /\ t.sys = task[k].sys
           /\ Fits(k, t) /\ Goer(k)
<1>1. task[k] \in Tasks /\ Fits(k, task[k]) /\ Goer(k)
  BY TidyTask, Going DEF Tidy, TypedTasks
<1>2. /\ t \in Tasks /\ t.pc = task[k].pc /\ t.c = task[k].c /\ t.sys = task[k].sys
      /\ t.todo = todo /\ t.yes = yes /\ t.no = no
  BY <1>1 DEF Tasks, Having
<1>4. Fits(k, t)
  BY <1>1, <1>2 DEF Fits, Shared
<1> QED BY <1>1, <1>2, <1>4

LEMMA PicksItem ==
    ASSUME Tidy, NEW k \in DOMAIN task, NEW item, Picks(k, item)
    PROVE  /\ task[k].pc = "recall" /\ item \in task[k].todo /\ item \in Items /\ item[1] \in Pks
           /\ item = <<item[1], item[2]>> /\ task[k].todo \subseteq Items /\ Deletion(k, task[k].c)
           /\ k \in AnyHook /\ task[k].c \in Ids
           /\ task[k].yes \in SUBSET Pks /\ task[k].no \in SUBSET Pks /\ task[k] \in Tasks
<1>1. task[k] \in Tasks /\ Fits(k, task[k]) /\ task[k].pc = "recall" /\ item \in task[k].todo
  BY TidyTask DEF Picks
<1>2. task[k].todo \subseteq Items /\ Deletion(k, task[k].c)
  BY <1>1 DEF Fits
<1>3. item \in Items /\ item[1] \in Pks /\ item = <<item[1], item[2]>>
  BY <1>1, <1>2 DEF Items
<1>4. task[k].yes \in SUBSET Pks /\ task[k].no \in SUBSET Pks
  BY <1>1 DEF Tasks
<1> QED BY <1>1, <1>2, <1>3, <1>4, HookGoes

LEMMA RecallHandledStep ==
    ASSUME Tidy, NEW k \in DOMAIN task, NEW item, RecallHandled(k, item)
    PROVE  /\ Tidy' /\ Picks(k, item)
           /\ \E yes \in SUBSET Pks, no \in SUBSET Pks :
                 /\ Sets(k, task[k].todo \ {item}, yes, no)
                 /\ \/ yes = task[k].yes /\ no = task[k].no
                    \/ item[2] = "recall_snapshot_pending" /\ yes = task[k].yes \cup {item[1]} /\ no = task[k].no
                    \/ /\ item[2] = "recall_failed_snapshot_pending"
                       /\ yes = task[k].yes /\ no = task[k].no \cup {item[1]}
<1>1. Picks(k, item) /\ UNCHANGED aside
  BY DEF RecallHandled, Quiet, history
<1>2. /\ task[k].pc = "recall" /\ item[1] \in Pks /\ task[k].todo \ {item} \in SUBSET Items
      /\ task[k].yes \in SUBSET Pks /\ task[k].no \in SUBSET Pks /\ task[k] \in Tasks
  BY <1>1, PicksItem
<1>3. task \in [DOMAIN task -> Tasks]
  BY DEF Tidy, TypedTasks
<1>4. PICK yes \in SUBSET Pks, no \in SUBSET Pks :
         /\ task' = [task EXCEPT ![k] = [task[k] EXCEPT !.todo = task[k].todo \ {item}, !.yes = yes, !.no = no]]
         /\ \/ yes = task[k].yes /\ no = task[k].no
            \/ item[2] = "recall_snapshot_pending" /\ yes = task[k].yes \cup {item[1]} /\ no = task[k].no
            \/ /\ item[2] = "recall_failed_snapshot_pending"
               /\ yes = task[k].yes /\ no = task[k].no \cup {item[1]}
  <2>1. CASE task' = [task EXCEPT ![k].todo = @ \ {item}]
    <3>1. [task[k] EXCEPT !.todo = task[k].todo \ {item}] =
             [task[k] EXCEPT !.todo = task[k].todo \ {item}, !.yes = task[k].yes, !.no = task[k].no]
      BY <1>2 DEF Tasks
    <3>2. task' = [task EXCEPT ![k] = [task[k] EXCEPT !.todo = task[k].todo \ {item}]]
      BY <1>3, <2>1
    <3> QED BY <1>2, <3>1, <3>2, Zenon
  <2>2. CASE /\ item[2] = "recall_snapshot_pending"
             /\ task' = [task EXCEPT ![k].todo = @ \ {item}, ![k].yes = @ \cup {item[1]}]
    <3> DEFINE yes == task[k].yes \cup {item[1]}
    <3>1. yes \in SUBSET Pks
      BY <1>2
    <3>2. task' = [task EXCEPT ![k] = [task[k] EXCEPT !.todo = task[k].todo \ {item}, !.yes = yes]]
      BY <1>3, <2>2
    <3> HIDE DEF yes
    <3>3. [task[k] EXCEPT !.todo = task[k].todo \ {item}, !.yes = yes] =
             [task[k] EXCEPT !.todo = task[k].todo \ {item}, !.yes = yes, !.no = task[k].no]
      BY <1>2 DEF Tasks
    <3> QED BY <1>2, <2>2, <3>1, <3>2, <3>3, Zenon DEF yes
  <2>3. CASE /\ item[2] = "recall_failed_snapshot_pending"
             /\ task' = [task EXCEPT ![k].todo = @ \ {item}, ![k].no = @ \cup {item[1]}]
    <3> DEFINE no == task[k].no \cup {item[1]}
    <3>1. no \in SUBSET Pks
      BY <1>2
    <3>2. task' = [task EXCEPT ![k] = [task[k] EXCEPT !.todo = task[k].todo \ {item}, !.no = no]]
      BY <1>3, <2>3
    <3> HIDE DEF no
    <3>3. [task[k] EXCEPT !.todo = task[k].todo \ {item}, !.no = no] =
             [task[k] EXCEPT !.todo = task[k].todo \ {item}, !.yes = task[k].yes, !.no = no]
      BY <1>2 DEF Tasks
    <3> QED BY <1>2, <2>3, <3>1, <3>2, <3>3, Zenon DEF no
  <2> QED BY <2>1, <2>2, <2>3 DEF RecallHandled
<1> DEFINE todo == task[k].todo \ {item}
           t == Having(task[k], todo, yes, no)
<1>6. task' = [task EXCEPT ![k] = t]
  BY <1>4 DEF Having
<1>a. todo \in SUBSET Items
  BY <1>2
<1> HIDE DEF todo
<1>5. /\ t \in Tasks /\ t.todo = todo /\ t.yes = yes /\ t.no = no
      /\ t.pc = task[k].pc /\ t.c = task[k].c /\ t.sys = task[k].sys /\ Fits(k, t) /\ Goer(k)
  BY <1>2, <1>4, <1>a, RecallStep
<1> HIDE DEF t
<1>7. Tidy' /\ Sets(k, task[k].todo \ {item}, yes, no)
  BY <1>1, <1>5, <1>6, SetsStep DEF todo
<1> QED BY <1>1, <1>4, <1>7

(* The row has an outcome, which is noted next.                            *)
Outcome(k, item, ok) ==
    Sets(k, (task[k].todo \ {item}) \cup {<<item[1], "note">>},
         IF ok THEN task[k].yes \cup {item[1]} ELSE task[k].yes,
         IF ok THEN task[k].no ELSE task[k].no \cup {item[1]})

LEMMA OutcomeTask ==
    ASSUME Tidy, NEW k \in DOMAIN task, NEW item, Picks(k, item), NEW ok \in BOOLEAN,
           NEW todo, todo = (task[k].todo \ {item}) \cup {<<item[1], "note">>},
           NEW yes, yes = IF ok THEN task[k].yes \cup {item[1]} ELSE task[k].yes,
           NEW no, no = IF ok THEN task[k].no ELSE task[k].no \cup {item[1]},
           NEW t, t = Having(task[k], todo, yes, no)
    PROVE  /\ t \in Tasks /\ GotRecall(k, item, ok) = [task EXCEPT ![k] = t] /\ Fits(k, t) /\ Goer(k)
           /\ t.pc = task[k].pc /\ t.c = task[k].c /\ t.sys = task[k].sys
           /\ t.todo = todo /\ t.yes = yes /\ t.no = no
<1>1. /\ task[k].pc = "recall" /\ item[1] \in Pks /\ task[k].todo \subseteq Items
      /\ task[k].yes \in SUBSET Pks /\ task[k].no \in SUBSET Pks /\ task[k] \in Tasks
  BY PicksItem
<1>2. <<item[1], "note">> \in Items
  BY <1>1 DEF Items
<1>3. todo \in SUBSET Items /\ yes \in SUBSET Pks /\ no \in SUBSET Pks
  BY <1>1, <1>2
<1>4. task \in [DOMAIN task -> Tasks]
  BY DEF Tidy, TypedTasks
<1>5. GotRecall(k, item, ok) = [task EXCEPT ![k] = [task[k] EXCEPT !.todo = todo, !.yes = yes, !.no = no]]
  BY <1>4 DEF GotRecall
<1>6. /\ t \in Tasks /\ t.todo = todo /\ t.yes = yes /\ t.no = no
      /\ t.pc = task[k].pc /\ t.c = task[k].c /\ t.sys = task[k].sys
      /\ Fits(k, t) /\ Goer(k)
  BY <1>1, <1>3, RecallStep
<1> QED BY <1>5, <1>6 DEF Having

LEMMA CommandStep ==
    ASSUME Tidy, TypedRows, NEW k \in DOMAIN task, NEW item, Picks(k, item), item[1] \in DOMAIN row,
           NEW ok \in BOOLEAN, NEW rec \in BOOLEAN, Command(GotRecall(k, item, ok), item, rec), UNCHANGED aside
    PROVE  /\ Tidy' /\ Outcome(k, item, ok)
           /\ row' = With(row, item[1], [row[item[1]] EXCEPT !.recalled = rec, !.recalls = @ + 1])
<1>a. PICK todo, yes, no, t :
         /\ todo = (task[k].todo \ {item}) \cup {<<item[1], "note">>}
         /\ yes = IF ok THEN task[k].yes \cup {item[1]} ELSE task[k].yes
         /\ no = IF ok THEN task[k].no ELSE task[k].no \cup {item[1]}
         /\ t = Having(task[k], todo, yes, no)
  BY Zenon
<1>1. /\ t \in Tasks /\ GotRecall(k, item, ok) = [task EXCEPT ![k] = t] /\ Fits(k, t) /\ Goer(k)
      /\ t.pc = task[k].pc /\ t.c = task[k].c /\ t.sys = task[k].sys
      /\ t.todo = todo /\ t.yes = yes /\ t.no = no
  BY <1>a, OutcomeTask
<1> DEFINE r == [row[item[1]] EXCEPT !.recalled = rec, !.recalls = @ + 1]
<1>2. row[item[1]] \in Rows /\ item[1] \in Pks
  BY DEF TypedRows
<1>3. r \in Rows
  <2>1. PICK q \in Rows : q = row[item[1]]
    BY <1>2
  <2>2. PICK n \in Nat : n = q.recalls + 1
    BY DEF Rows
  <2>3. [q EXCEPT !.recalled = rec, !.recalls = n] \in Rows
    BY DEF Rows
  <2> QED BY <2>1, <2>2, <2>3
<1>4. Write([task EXCEPT ![k] = t], item[1], r)
  BY <1>1 DEF Command
<1>5. row' = With(row, item[1], r)
  BY <1>4 DEF Write
<1> HIDE DEF r
<1>6. Tidy' /\ Only(k) /\ task'[k] = t
  BY <1>1, <1>2, <1>3, <1>4, WriteStep
<1>7. Outcome(k, item, ok)
  BY <1>a, <1>1, <1>6 DEF Outcome, Sets
<1> QED BY <1>5, <1>6, <1>7 DEF r

LEMMA RecallSucceedsStep ==
    ASSUME Tidy, TypedRows, NEW k \in DOMAIN task, NEW item, RecallSucceeds(k, item), item[1] \in DOMAIN row
    PROVE  /\ Tidy' /\ RecallOpen(k, item) /\ Outcome(k, item, TRUE)
           /\ row' = With(row, item[1], [row[item[1]] EXCEPT !.recalled = TRUE, !.recalls = @ + 1])
<1>1. RecallOpen(k, item) /\ Command(GotRecall(k, item, TRUE), item, TRUE) /\ UNCHANGED aside
  BY DEF RecallSucceeds, Quiet, history
<1>2. Picks(k, item)
  BY <1>1 DEF RecallOpen
<1>3. PICK ok \in BOOLEAN : ok = TRUE
  OBVIOUS
<1>4. Command(GotRecall(k, item, ok), item, ok)
  BY <1>1, <1>3
<1>5. /\ Tidy' /\ Outcome(k, item, ok)
      /\ row' = With(row, item[1], [row[item[1]] EXCEPT !.recalled = ok, !.recalls = @ + 1])
  BY <1>1, <1>2, <1>4, CommandStep
<1> QED BY <1>1, <1>3, <1>5

LEMMA RecallFailsStep ==
    ASSUME Tidy, TypedRows, NEW k \in DOMAIN task, NEW item, RecallFails(k, item), item[1] \in DOMAIN row
    PROVE  /\ Tidy' /\ RecallOpen(k, item) /\ Outcome(k, item, FALSE)
           /\ \/ UNCHANGED row
              \/ /\ ~row[item[1]].recalled
                 /\ \E rec \in BOOLEAN :
                    row' = With(row, item[1], [row[item[1]] EXCEPT !.recalled = rec, !.recalls = @ + 1])
<1>1. RecallOpen(k, item) /\ UNCHANGED aside
  BY DEF RecallFails, Quiet, history
<1>2. Picks(k, item)
  BY <1>1 DEF RecallOpen
<1>3. PICK ok \in BOOLEAN : ok = FALSE
  OBVIOUS
<1>4. CASE task' = GotRecall(k, item, FALSE) /\ UNCHANGED row
  <2>a. PICK todo, yes, no, t :
           /\ todo = (task[k].todo \ {item}) \cup {<<item[1], "note">>}
           /\ yes = IF ok THEN task[k].yes \cup {item[1]} ELSE task[k].yes
           /\ no = IF ok THEN task[k].no ELSE task[k].no \cup {item[1]}
           /\ t = Having(task[k], todo, yes, no)
    BY Zenon
  <2>1. /\ t \in Tasks /\ GotRecall(k, item, ok) = [task EXCEPT ![k] = t] /\ Fits(k, t) /\ Goer(k)
        /\ t.pc = task[k].pc /\ t.c = task[k].c /\ t.sys = task[k].sys
        /\ t.todo = todo /\ t.yes = yes /\ t.no = no
    BY <1>2, <2>a, OutcomeTask
  <2>2. task' = [task EXCEPT ![k] = t]
    BY <1>3, <1>4, <2>1
  <2>3. Tidy' /\ Sets(k, t.todo, t.yes, t.no)
    BY <1>1, <2>1, <2>2, SetsStep
  <2>4. Outcome(k, item, ok)
    BY <2>a, <2>1, <2>3 DEF Outcome
  <2> QED BY <1>1, <1>3, <1>4, <2>3, <2>4
<1>5. ASSUME ~row[item[1]].recalled, NEW rec \in BOOLEAN, Command(GotRecall(k, item, FALSE), item, rec)
      PROVE  /\ Tidy' /\ Outcome(k, item, FALSE)
             /\ row' = With(row, item[1], [row[item[1]] EXCEPT !.recalled = rec, !.recalls = @ + 1])
  <2>1. Command(GotRecall(k, item, ok), item, rec)
    BY <1>3, <1>5
  <2>2. /\ Tidy' /\ Outcome(k, item, ok)
        /\ row' = With(row, item[1], [row[item[1]] EXCEPT !.recalled = rec, !.recalls = @ + 1])
    BY <1>1, <1>2, <2>1, CommandStep
  <2> QED BY <1>3, <2>2
<1>6. \/ task' = GotRecall(k, item, FALSE) /\ UNCHANGED row
      \/ /\ ~row[item[1]].recalled
         /\ \E rec \in BOOLEAN : Command(GotRecall(k, item, FALSE), item, rec)
  BY DEF RecallFails
<1> QED BY <1>1, <1>4, <1>5, <1>6

LEMMA NoteRecallStep ==
    ASSUME Tidy, NEW k \in DOMAIN task, NEW item, NoteRecall(k, item)
    PROVE  Tidy' /\ Picks(k, item) /\ item[2] = "note"
           /\ Sets(k, task[k].todo \ {item}, task[k].yes, task[k].no)
<1>1. Picks(k, item) /\ item[2] = "note" /\ UNCHANGED aside
  BY DEF NoteRecall, history
<1>2. /\ task[k].pc = "recall" /\ task[k].todo \ {item} \in SUBSET Items
      /\ task[k].yes \in SUBSET Pks /\ task[k].no \in SUBSET Pks /\ task[k] \in Tasks
  BY <1>1, PicksItem
<1>3. task \in [DOMAIN task -> Tasks]
  BY DEF Tidy, TypedTasks
<1>a. PICK todo, yes, no, t :
         /\ todo = task[k].todo \ {item} /\ yes = task[k].yes /\ no = task[k].no
         /\ t = Having(task[k], todo, yes, no)
  BY Zenon
<1>4. /\ t \in Tasks /\ t.todo = todo /\ t.yes = yes /\ t.no = no
      /\ t.pc = task[k].pc /\ t.c = task[k].c /\ t.sys = task[k].sys
      /\ Fits(k, t) /\ Goer(k)
  BY <1>a, <1>2, RecallStep
<1>5. t = [task[k] EXCEPT !.todo = task[k].todo \ {item}]
  BY <1>2, <1>a DEF Tasks, Having
<1>6. task' = [task EXCEPT ![k] = t]
  BY <1>3, <1>5 DEF NoteRecall
<1> QED BY <1>a, <1>1, <1>4, <1>6, SetsStep

LEMMA RecallsDoneStep ==
    ASSUME Tidy, NEW k \in DOMAIN task, RecallsDone(k)
    PROVE  /\ Tidy' /\ task[k].pc = "recall" /\ Deletion(k, task[k].c) /\ k \in AnyHook /\ task[k].todo = {}
           /\ Stops(k) \/ (Steps(k, "look") /\ UNCHANGED hook)
<1>1. task[k].pc = "recall" /\ UNCHANGED aside /\ task[k].todo = {}
  BY DEF RecallsDone, history
<1>2. Deletion(k, task[k].c) /\ Goer(k) /\ k \in AnyHook
  BY <1>1, TidyTask, Going, HookGoes DEF Fits
<1>3. CASE HookEnds(k, "success")
  BY <1>1, <1>2, <1>3, HookEndsStep
<1>4. CASE task' = At(k, "look") /\ UNCHANGED hook
  <2>1. Stage(k, "look", task[k].c)
    BY <1>2 DEF Stage, Plain, Shared
  <2> QED BY <1>1, <1>2, <1>4, <2>1, StepsTidy
<1> QED BY <1>3, <1>4 DEF RecallsDone

LEMMA FinishRecallStep ==
    ASSUME Tidy, NEW k \in DOMAIN task, NEW pk, FinishRecall(k, pk)
    PROVE  /\ Tidy' /\ task[k].pc = "final" /\ Deletion(k, task[k].c) /\ k \in AnyHook /\ task[k].c \in Ids
           /\ pk \in Pks
           /\ \/ Stops(k) /\ task[k].yes \cup task[k].no = {pk}
              \/ Sets(k, task[k].todo, task[k].yes \ {pk}, task[k].no \ {pk}) /\ UNCHANGED hook
<1>1. task[k].pc = "final" /\ k \in HookKeys /\ UNCHANGED aside /\ pk \in task[k].yes \cup task[k].no
  BY DEF FinishRecall, history
<1>2. task \in [DOMAIN task -> Tasks] /\ task[k] \in Tasks /\ Fits(k, task[k]) /\ Goer(k)
  BY <1>1, TidyTask, Going DEF Tidy, TypedTasks
<1>3. Deletion(k, task[k].c) /\ k \in AnyHook /\ task[k].c \in Ids
  BY <1>1, <1>2, KeyKinds, HookGoes DEF Fits
<1>4. pk \in Pks
  BY <1>1, <1>2 DEF Tasks
<1>5. CASE task[k].yes \cup task[k].no = {pk}
  <2>1. HookEnds(k, "success")
    BY <1>5 DEF FinishRecall
  <2> QED BY <1>1, <1>3, <1>4, <1>5, <2>1, HookEndsStep
<1>6. CASE task[k].yes \cup task[k].no # {pk}
  <2> DEFINE t == [task[k] EXCEPT !.yes = task[k].yes \ {pk}, !.no = task[k].no \ {pk}]
  <2>1. task' = [task EXCEPT ![k] = t] /\ UNCHANGED hook
    BY <1>2, <1>6 DEF FinishRecall
  <2>2. /\ t \in Tasks /\ t.pc = task[k].pc /\ t.c = task[k].c /\ t.sys = task[k].sys
        /\ t.todo = task[k].todo /\ t.yes = task[k].yes \ {pk} /\ t.no = task[k].no \ {pk}
    BY <1>2 DEF Tasks
  <2> HIDE DEF t
  <2>3. Fits(k, t)
    BY <1>1, <1>2, <1>3, <2>2 DEF Fits, Shared
  <2>4. Tidy' /\ Sets(k, t.todo, t.yes, t.no)
    BY <1>1, <1>2, <2>1, <2>2, <2>3, SetsStep
  <2> QED BY <1>1, <1>3, <1>4, <2>1, <2>2, <2>4
<1> QED BY <1>5, <1>6

-----------------------------------------------------------------------------
(* The steps outside the worker, and its crash.                            *)

(* Tasks are created, and no other changes.                                *)
Adds ==
    /\ DOMAIN task \subseteq DOMAIN task' /\ \A j \in DOMAIN task : task'[j] = task[j]
    /\ \A j \in DOMAIN task' \ DOMAIN task : task'[j].pc = "idle" /\ (j \in LocalKeys => j[2] \in DOMAIN row')

LEMMA StaysTidy == ASSUME Tidy, UNCHANGED task, aside \subseteq aside' PROVE Tidy' /\ Adds
BY DEF Tidy, TypedTasks, Lane, Asides, Adds

LEMMA TidyIs == Tidy <=> TidyOf(task)
BY DEF Tidy, TidyOf, Asides

New(f, key) == Created(f, key, FALSE)
Extends(f, g) ==
    /\ DOMAIN f \subseteq DOMAIN g /\ \A j \in DOMAIN f : g[j] = f[j]
    /\ \A j \in DOMAIN g \ DOMAIN f : j \notin LocalKeys /\ g[j].pc = "idle"
LEMMA CreatedOf ==
    ASSUME NEW f, TidyOf(f), NEW key \in MoveKeys, NEW g, g = New(f, key)
    PROVE  TidyOf(g) /\ Extends(f, g)
<1> DEFINE t == Task("pending", 0, FALSE, "idle")
<1>1. g = IF key \in DOMAIN f THEN f ELSE With(f, key, t)
  BY DEF Created, New
<1>2. t.pc = "idle" /\ ~t.sys
  BY DEF Task
<1> HIDE DEF t
<1>3. /\ DOMAIN g = DOMAIN f \cup {key} /\ \A j \in DOMAIN f : g[j] = f[j]
      /\ key \notin DOMAIN f => g[key] = t
  BY <1>1 DEF With
<1>4. TypedTasks(g)
  BY CreatedTyped DEF TidyOf, New
<1>5. Lane(g)
  BY CreatedLane DEF TidyOf, New
<1>6. \A j \in DOMAIN g \ DOMAIN f : j \notin LocalKeys /\ g[j].pc = "idle" /\ ~g[j].sys
  BY <1>2, <1>3, KeyKinds
<1>7. \A j \in DOMAIN g : g[j].sys => j \in aside
  BY <1>3, <1>6 DEF TidyOf
<1> QED BY <1>3, <1>4, <1>5, <1>6, <1>7 DEF TidyOf, Extends

LEMMA WriteAdds ==
    ASSUME Tidy, NEW pk \in Pks, NEW r \in Rows, Write(task, pk, r), UNCHANGED aside
    PROVE  Tidy' /\ Adds /\ row' = With(row, pk, r)
<1>1. TidyOf(task) /\ task' = Enqueue(task, pk, Revision(r)) /\ row' = With(row, pk, r)
  BY TidyIs DEF Write
<1>2. /\ TidyOf(task') /\ DOMAIN task \subseteq DOMAIN task' /\ \A j \in DOMAIN task : task'[j] = task[j]
      /\ \A j \in DOMAIN task' \ DOMAIN task : j = <<"local", pk, Revision(r)>> /\ task'[j].pc = "idle"
  BY <1>1, RevisionTyped, EnqueueFacts
<1>3. pk \in DOMAIN row'
  BY <1>1 DEF With
<1> QED BY <1>1, <1>2, <1>3 DEF TidyOf, Tidy, Asides, Adds

LEMMA ReceivedStep ==
    ASSUME Tidy, NEW j \in Locals, Received(j) \/ Begins(j)
    PROVE  /\ Tidy' /\ Adds /\ <<"l", j, "text">> \in Pks /\ <<"l", j, "text">> \notin DOMAIN row
           /\ \E r \in Rows : /\ row' = With(row, <<"l", j, "text">>, r) /\ r.plat = 0 /\ r.recalls = 0
<1> DEFINE r == IF Received(j) THEN Row("in", "received") ELSE Row("out", "sending")
<1>1. PICK pk : pk = <<"l", j, "text">>
  OBVIOUS
<1>2. pk \in Pks
  BY <1>1 DEF Pks
<1>3. r \in Rows /\ r.plat = 0 /\ r.recalls = 0
  BY DEF Row, Rows
<1>4. Write(task, pk, r) /\ UNCHANGED aside /\ pk \notin DOMAIN row
  BY <1>1 DEF Received, Begins, Quiet, history
<1> HIDE DEF r
<1>5. Tidy' /\ Adds /\ row' = With(row, pk, r)
  BY <1>2, <1>3, <1>4, WriteAdds
<1> QED BY <1>1, <1>2, <1>3, <1>4, <1>5

LEMMA CompletesStep ==
    ASSUME Tidy, TypedRows, NEW pk \in DOMAIN row, Completes(pk)
    PROVE  /\ Tidy' /\ Adds /\ row[pk].st = "sending"
           /\ \E r \in Rows : /\ row' = With(row, pk, r) /\ r.plat = row[pk].plat + 1 /\ r.st = "sent"
                              /\ r.recalled = row[pk].recalled /\ r.recalls = row[pk].recalls /\ r.dir = row[pk].dir
<1>1. PICK q \in Rows : q = row[pk]
  BY DEF TypedRows
<1>2. PICK n \in Nat : n = q.plat + 1
  BY DEF Rows
<1>3. PICK r : r = [q EXCEPT !.st = "sent", !.plat = n]
  OBVIOUS
<1>4. r \in Rows /\ r.plat = n /\ r.st = "sent" /\ r.recalled = q.recalled /\ r.recalls = q.recalls /\ r.dir = q.dir
  BY <1>3 DEF Rows
<1>5. Write(task, pk, r) /\ UNCHANGED aside /\ row[pk].st = "sending"
  BY <1>1, <1>2, <1>3 DEF Completes, Quiet, history
<1>6. Tidy' /\ Adds /\ row' = With(row, pk, r)
  BY <1>4, <1>5, WriteAdds DEF TypedRows
<1> QED BY <1>1, <1>2, <1>4, <1>5, <1>6

LEMMA RefusedStep ==
    ASSUME Tidy, TypedRows, NEW pk \in DOMAIN row, Refused(pk)
    PROVE  /\ Tidy' /\ Adds /\ row[pk].st = "sending"
           /\ \E r \in Rows : /\ row' = With(row, pk, r) /\ r.plat = row[pk].plat /\ r.st = "failed"
                              /\ r.recalled = row[pk].recalled /\ r.recalls = row[pk].recalls /\ r.dir = row[pk].dir
<1>1. PICK q \in Rows : q = row[pk]
  BY DEF TypedRows
<1>3. PICK r : r = [q EXCEPT !.st = "failed"]
  OBVIOUS
<1>4. r \in Rows /\ r.plat = q.plat /\ r.st = "failed" /\ r.recalled = q.recalled /\ r.recalls = q.recalls /\ r.dir = q.dir
  BY <1>3 DEF Rows
<1>5. Write(task, pk, r) /\ UNCHANGED aside /\ row[pk].st = "sending"
  BY <1>1, <1>3 DEF Refused, Quiet, history
<1>6. Tidy' /\ Adds /\ row' = With(row, pk, r)
  BY <1>4, <1>5, WriteAdds DEF TypedRows
<1> QED BY <1>1, <1>4, <1>5, <1>6

LEMMA RecalledStep ==
    ASSUME Tidy, TypedRows, NEW pk \in DOMAIN row, Recalled(pk)
    PROVE  /\ Tidy' /\ Adds /\ row[pk].st \in {"received", "sent"}
           /\ \E r \in Rows : /\ row' = With(row, pk, r) /\ r.plat = row[pk].plat /\ r.st = row[pk].st
                              /\ r.recalled /\ r.recalls = row[pk].recalls /\ r.dir = row[pk].dir
<1>1. PICK q \in Rows : q = row[pk]
  BY DEF TypedRows
<1>3. PICK r : r = [q EXCEPT !.recalled = TRUE]
  OBVIOUS
<1>4. r \in Rows /\ r.plat = q.plat /\ r.st = q.st /\ r.recalled /\ r.recalls = q.recalls /\ r.dir = q.dir
  BY <1>3 DEF Rows
<1>5. Write(task, pk, r) /\ UNCHANGED aside /\ row[pk].st \in {"received", "sent"}
  BY <1>1, <1>3 DEF Recalled, Quiet, history
<1>6. Tidy' /\ Adds /\ row' = With(row, pk, r)
  BY <1>4, <1>5, WriteAdds DEF TypedRows
<1> QED BY <1>1, <1>4, <1>5, <1>6

LEMMA MoveBound ==
    ASSUME TypedWorld, moves < scen.moves PROVE moves + 1 \in 1..MaxMoves
<1>1. scen.moves \in 0..MaxMoves /\ moves \in Nat
  BY ScenariosAssumption DEF TypedWorld
<1> QED BY <1>1, BoundAssumption

LEMMA BackfillStep == ASSUME Tidy, TypedWorld, Backfill PROVE Tidy' /\ Adds
<1>1. PICK key : key = <<"meta", moves + 1, "online">>
  OBVIOUS
<1>2. key \in MoveKeys
  BY <1>1, MoveBound, BoundAssumption DEF Backfill, Move, MoveKeys
<1>3. TidyOf(task) /\ task' = New(task, key) /\ UNCHANGED aside
  BY <1>1, TidyIs DEF Backfill, Quiet, history, New
<1>4. TidyOf(task') /\ Extends(task, task')
  BY <1>2, <1>3, CreatedOf
<1> QED BY <1>3, <1>4 DEF TidyOf, Tidy, Asides, Adds, Extends

LEMMA StateChangesStep ==
    ASSUME Tidy, NEW s \in States, NEW b \in 0..MaxMoves, StateChanges(s, b) PROVE Tidy' /\ Adds
<1>1. PICK ks, ka : ks = <<"status", b, s>> /\ ka = <<"alert", b, s>>
  OBVIOUS
<1>2. ks \in MoveKeys /\ ka \in MoveKeys
  <2>1. b \in 1..MaxMoves
    BY BoundAssumption DEF StateChanges
  <2> QED BY <1>1, <2>1 DEF MoveKeys
<1>3. TidyOf(task) /\ UNCHANGED aside
  BY TidyIs DEF StateChanges, Quiet, history
<1>4. CASE on # "on"
  <2>1. UNCHANGED task
    BY <1>4 DEF StateChanges
  <2> QED BY <1>3, <2>1, StaysTidy
<1>5. CASE on = "on"
  <2>1. PICK mid : mid = New(task, ks)
    OBVIOUS
  <2>2. TidyOf(mid) /\ Extends(task, mid)
    BY <1>2, <1>3, <2>1, CreatedOf
  <2>3. task' = New(mid, ka)
    BY <1>1, <1>5, <2>1 DEF StateChanges, New
  <2>4. TidyOf(task') /\ Extends(mid, task')
    BY <1>2, <2>2, <2>3, CreatedOf
  <2>5. Extends(task, task')
    BY <2>2, <2>4 DEF Extends
  <2> QED BY <1>3, <2>4, <2>5 DEF TidyOf, Tidy, Asides, Adds, Extends
<1> QED BY <1>4, <1>5

LEMMA CreateHookTaskStep ==
    ASSUME Tidy, NEW d \in AnyEvent, CreateHookTask(d)
    PROVE  /\ Tidy' /\ Adds /\ DOMAIN task' = DOMAIN task \cup {<<"hook", d>>}
           /\ \A j \in DOMAIN task' \ DOMAIN task : j \in AnyHook
<1> DEFINE key == <<"hook", d>>
           sys == ConvOf(d) # cmap
           t == Task("pending", 0, sys, "idle")
<1>1. key \in AnyHook /\ sys \in BOOLEAN
  BY DEF AnyHook
<1>2. task' = Created(task, key, sys) /\ aside \subseteq aside' /\ (sys => key \in aside')
  BY DEF CreateHookTask
<1>3. t.pc = "idle" /\ t.sys = sys
  BY <1>1 DEF Task
<1>4. task' = IF key \in DOMAIN task THEN task ELSE With(task, key, t)
  BY <1>2 DEF Created
<1> HIDE DEF key, sys, t
<1>5. /\ DOMAIN task' = DOMAIN task \cup {key} /\ \A j \in DOMAIN task : task'[j] = task[j]
      /\ key \notin DOMAIN task => task'[key] = t
  BY <1>4 DEF With
<1>6. TypedTasks(task')
  BY <1>1, <1>2, CreatedTyped DEF Tidy
<1>7. Lane(task')
  BY <1>2, CreatedLane DEF Tidy
<1>8. Asides'
  BY <1>2, <1>3, <1>5 DEF Asides, Tidy
<1>9. Adds
  BY <1>1, <1>3, <1>5, KeyKinds DEF Adds
<1> QED BY <1>1, <1>5, <1>6, <1>7, <1>8, <1>9 DEF Tidy, key

(* Every task that runs is stopped.                                        *)
Halts ==
    /\ DOMAIN task' = DOMAIN task
    /\ \A k \in DOMAIN task : /\ task'[k].pc = "idle"
                              /\ ~Running(k) => task'[k] = task[k]
                              /\ Running(k) => k \in hit'

LEMMA CrashStep == ASSUME Tidy, WorkerCrashes PROVE Tidy' /\ Halts
<1> DEFINE t == Task("failed", 0, FALSE, "idle")
<1>1. t \in Tasks /\ t.pc = "idle" /\ ~t.sys /\ \A k : Fits(k, t)
  BY TaskTyped, TaskFits DEF Task, Pcs
<1>2. /\ task' = [k \in DOMAIN task |-> IF k \in {j \in DOMAIN task : Running(j)} THEN t ELSE task[k]]
      /\ UNCHANGED aside /\ hit' = hit \cup {k \in DOMAIN task : Running(k)}
  BY DEF WorkerCrashes
<1> HIDE DEF t
<1>3. task \in [DOMAIN task -> Tasks] /\ DOMAIN task \subseteq LocalKeys \cup MoveKeys \cup AnyHook
      /\ \A k \in DOMAIN task : Fits(k, task[k])
  BY DEF Tidy, TypedTasks
<1>4. /\ DOMAIN task' = DOMAIN task /\ task' \in [DOMAIN task' -> Tasks]
      /\ \A k \in DOMAIN task : task'[k] = IF Running(k) THEN t ELSE task[k]
  BY <1>1, <1>2, <1>3
<1>5. \A k \in DOMAIN task : task'[k].pc = "idle"
  BY <1>1, <1>4 DEF Running
<1>6. TypedTasks(task')
  BY <1>1, <1>3, <1>4 DEF TypedTasks
<1>7. Lane(task')
  BY <1>4, <1>5 DEF Lane
<1>8. Asides'
  BY <1>1, <1>2, <1>4 DEF Asides, Tidy
<1>9. Halts
  BY <1>2, <1>4, <1>5 DEF Halts
<1> QED BY <1>6, <1>7, <1>8, <1>9 DEF Tidy

-----------------------------------------------------------------------------
(* The steps keep every task backed by local messages.                     *)

Grown == DOMAIN row \subseteq DOMAIN row' /\ DOMAIN map' \subseteq DOMAIN row'

LEMMA PieceIs == \A k : Piece(k) = PieceOf(task[k])
BY DEF Piece, PieceOf

LEMMA BackedOnly ==
    ASSUME Backed, Grown, NEW k \in DOMAIN task, Only(k),
           task'[k].yes \cup task'[k].no \subseteq DOMAIN row',
           task'[k].pc = "map" /\ k \in AnyHook => task'[k].todo \subseteq DOMAIN row',
           task'[k].pc = "wait" => PieceOf(task'[k]) \in DOMAIN row',
           task'[k].pc = "recall" => \A item \in task'[k].todo : item[1] \in DOMAIN row',
           Tidy'
    PROVE  Backed'
<1> DEFINE P(j) == /\ j \in LocalKeys => j[2] \in DOMAIN row'
                   /\ task'[j].yes \cup task'[j].no \subseteq DOMAIN row'
                   /\ task'[j].pc = "map" /\ j \in AnyHook => task'[j].todo \subseteq DOMAIN row'
                   /\ task'[j].pc = "wait" => PieceOf(task'[j]) \in DOMAIN row'
                   /\ task'[j].pc = "recall" => \A item \in task'[j].todo : item[1] \in DOMAIN row'
<1>1. P(k)
  BY DEF Backed, Grown
<1>2. ASSUME NEW j \in DOMAIN task, j # k PROVE P(j)
  <2>1. task'[j] = task[j]
    BY <1>2 DEF Only
  <2>2. /\ j \in LocalKeys => j[2] \in DOMAIN row
        /\ task[j].yes \cup task[j].no \subseteq DOMAIN row
        /\ task[j].pc = "map" /\ j \in AnyHook => task[j].todo \subseteq DOMAIN row
        /\ task[j].pc = "wait" => PieceOf(task[j]) \in DOMAIN row
        /\ task[j].pc = "recall" => \A item \in task[j].todo : item[1] \in DOMAIN row
    BY DEF Backed
  <2> QED BY <2>1, <2>2 DEF Grown
<1>3. ASSUME NEW j \in DOMAIN task' \ DOMAIN task PROVE P(j)
  <2>1. j \in LocalKeys /\ j[2] \in DOMAIN row' /\ task'[j].pc = "idle"
    BY <1>3 DEF Only
  <2>2. Fits(j, task'[j])
    BY <1>3 DEF Tidy, TypedTasks
  <2>3. task'[j].yes = {} /\ task'[j].no = {}
    BY <2>1, <2>2 DEF Fits
  <2> QED BY <2>1, <2>3
<1>4. \A j \in DOMAIN task' : P(j)
  BY <1>1, <1>2, <1>3
<1> QED BY <1>4 DEF Backed, Grown

LEMMA BackedStops ==
    ASSUME Backed, Grown, NEW k \in DOMAIN task, Stops(k), Tidy' PROVE Backed'
<1>1. Only(k) /\ task'[k].pc \in {"idle", "retry"} /\ k \in DOMAIN task'
  BY DEF Stops, Only
<1>2. Fits(k, task'[k])
  BY <1>1 DEF Tidy, TypedTasks
<1>3. task'[k].yes = {} /\ task'[k].no = {}
  BY <1>1, <1>2 DEF Fits
<1> QED BY <1>1, <1>3, BackedOnly

(* The step keeps what the task has done and goes to a plain stage.        *)
Keeps(k) ==
    /\ Only(k) /\ task'[k].yes = task[k].yes /\ task'[k].no = task[k].no
    /\ task'[k].pc \in Plain /\ (task'[k].pc = "map" => k \in LocalKeys)
LEMMA KeepsAs ==
    ASSUME NEW k, NEW pc \in Plain, pc # "map" \/ k \in LocalKeys,
           Steps(k, pc) \/ \E c : Jumps(k, pc, c)
    PROVE  Keeps(k)
BY DEF Steps, Jumps, Like, Keeps

LEMMA BackedKeeps ==
    ASSUME Backed, Grown, NEW k \in DOMAIN task, Keeps(k), Tidy' PROVE Backed'
<1>1. /\ Only(k) /\ task'[k].pc \notin {"wait", "recall"}
      /\ task'[k].pc = "map" => k \notin AnyHook
  BY KeyKinds DEF Keeps, Plain, Shared
<1>2. task'[k].yes \cup task'[k].no \subseteq DOMAIN row'
  BY DEF Keeps, Backed, Grown
<1> QED BY <1>1, <1>2, BackedOnly

LEMMA BackedAdds == ASSUME Backed, Grown, Adds, Tidy' PROVE Backed'
<1> DEFINE P(j) == /\ j \in LocalKeys => j[2] \in DOMAIN row'
                   /\ task'[j].yes \cup task'[j].no \subseteq DOMAIN row'
                   /\ task'[j].pc = "map" /\ j \in AnyHook => task'[j].todo \subseteq DOMAIN row'
                   /\ task'[j].pc = "wait" => PieceOf(task'[j]) \in DOMAIN row'
                   /\ task'[j].pc = "recall" => \A item \in task'[j].todo : item[1] \in DOMAIN row'
<1>2. ASSUME NEW j \in DOMAIN task PROVE P(j)
  <2>1. task'[j] = task[j]
    BY <1>2 DEF Adds
  <2>2. /\ j \in LocalKeys => j[2] \in DOMAIN row
        /\ task[j].yes \cup task[j].no \subseteq DOMAIN row
        /\ task[j].pc = "map" /\ j \in AnyHook => task[j].todo \subseteq DOMAIN row
        /\ task[j].pc = "wait" => PieceOf(task[j]) \in DOMAIN row
        /\ task[j].pc = "recall" => \A item \in task[j].todo : item[1] \in DOMAIN row
    BY DEF Backed
  <2> QED BY <2>1, <2>2 DEF Grown
<1>3. ASSUME NEW j \in DOMAIN task' \ DOMAIN task PROVE P(j)
  <2>1. (j \in LocalKeys => j[2] \in DOMAIN row') /\ task'[j].pc = "idle"
    BY <1>3 DEF Adds
  <2>2. Fits(j, task'[j])
    BY <1>3 DEF Tidy, TypedTasks
  <2>3. task'[j].yes = {} /\ task'[j].no = {}
    BY <2>1, <2>2 DEF Fits
  <2> QED BY <2>1, <2>3
<1>4. \A j \in DOMAIN task' : P(j)
  BY <1>2, <1>3
<1> QED BY <1>4 DEF Backed, Grown

LEMMA BackedHalts == ASSUME Backed, Grown, Halts, Tidy' PROVE Backed'
<1>1. ASSUME NEW j \in DOMAIN task'
      PROVE  /\ j \in LocalKeys => j[2] \in DOMAIN row'
             /\ task'[j].yes = {} /\ task'[j].no = {} /\ task'[j].pc = "idle"
  <2>1. task'[j].pc = "idle" /\ j \in DOMAIN task
    BY <1>1 DEF Halts
  <2>2. Fits(j, task'[j])
    BY <1>1 DEF Tidy, TypedTasks
  <2> QED BY <2>1, <2>2 DEF Fits, Backed, Grown
<1> QED BY <1>1 DEF Backed, Grown

LEMMA BackedGets ==
    ASSUME Backed, Grown, Tidy, NEW k \in DOMAIN task, NEW pk \in DOMAIN row, NEW ok \in BOOLEAN, Gets(k, pk, ok), Tidy'
    PROVE  Backed'
<1>1. task'[k].yes \cup task'[k].no \subseteq DOMAIN row'
  BY DEF Gets, Backed, Grown
<1>2. Only(k) /\ task'[k].pc \in {"send", "map"} /\ (task'[k].pc = "map" => task'[k].todo = task'[k].yes \cup task'[k].no)
  BY DEF Gets
<1> QED BY <1>1, <1>2, BackedOnly

LEMMA BackedSets ==
    ASSUME Backed, Grown, NEW k \in DOMAIN task, NEW todo, NEW yes, NEW no, Sets(k, todo, yes, no),
           task[k].pc \in {"map", "recall", "final"}, yes \cup no \subseteq DOMAIN row,
           task[k].pc = "map" /\ k \in AnyHook => todo \subseteq DOMAIN row,
           task[k].pc = "recall" => \A item \in todo : item[1] \in DOMAIN row, Tidy'
    PROVE  Backed'
BY BackedOnly DEF Sets, Grown

LEMMA Stays ==
    ASSUME Backed, UNCHANGED row, UNCHANGED map \/ DOMAIN map' \subseteq DOMAIN map PROVE Grown
BY DEF Grown, Backed

-----------------------------------------------------------------------------
(* Every step keeps Base.                                                  *)

Statuses == {"accepting", "pending", "success", "failed", "ignored"}
HookMoves == UNCHANGED hook \/ \E d \in AnyEvent, st \in Statuses : hook' = [hook EXCEPT ![d] = st]
WorldSame == UNCHANGED <<scen, moves, acct, last, cw, snaps, inboxes, rconv, shown, bind, cmap, sent>>

LEMMA WorldStays == ASSUME TypedWorld, WorldSame PROVE TypedWorld' /\ sent \subseteq sent'
BY DEF TypedWorld, WorldSame

LEMMA RowsStay == ASSUME TypedRows, Backed, UNCHANGED <<row, map>> PROVE TypedRows' /\ Grown
BY DEF TypedRows, Grown, Backed

LEMMA HooksStay ==
    ASSUME TypedHooks, sent \subseteq sent', HookMoves, DOMAIN task \subseteq DOMAIN task',
           \A j \in DOMAIN task' \ DOMAIN task : j \notin AnyHook
    PROVE  TypedHooks'
<1>1. hook \in [DOMAIN hook -> Statuses] /\ DOMAIN hook \subseteq sent
  BY DEF TypedHooks, Statuses
<1>2. hook' \in [DOMAIN hook -> Statuses] /\ DOMAIN hook' = DOMAIN hook
  BY <1>1 DEF HookMoves
<1>3. \A k \in DOMAIN task' : k \in AnyHook => k[2] \in DOMAIN hook'
  BY <1>2 DEF TypedHooks
<1> QED BY <1>1, <1>2, <1>3 DEF TypedHooks, Statuses

LEMMA OnlyLocals == ASSUME NEW k, Only(k)
    PROVE DOMAIN task \subseteq DOMAIN task' /\ \A j \in DOMAIN task' \ DOMAIN task : j \notin AnyHook
BY KeyKinds DEF Only

LEMMA HookFails ==
    ASSUME TypedHooks, NEW k \in DOMAIN task, Fails(k) \/ \E st \in Statuses : HookEnds(k, st),
           TypedWorld, Tidy
    PROVE  HookMoves
<1>1. k \in HookKeys => k \in AnyHook
  BY KeyKinds
<1>2. CASE k \in AnyHook
  <2>1. k[2] \in AnyEvent
    BY <1>2, KeyKinds
  <2>2. \E st \in Statuses : hook' = [hook EXCEPT ![k[2]] = st] \/ UNCHANGED hook
    BY DEF Fails, HookEnds, Statuses
  <2> QED BY <2>1, <2>2 DEF HookMoves
<1>3. CASE k \notin AnyHook /\ Fails(k)
  BY <1>1, <1>3 DEF HookMoves, Fails
<1>4. CASE k \notin AnyHook /\ \E st \in Statuses : HookEnds(k, st)
  <2>1. PICK st \in Statuses : hook' = [hook EXCEPT ![k[2]] = st]
    BY <1>4 DEF HookEnds
  <2>2. CASE k[2] \in DOMAIN hook
    <3>1. k[2] \in AnyEvent
      BY <2>2 DEF TypedHooks, TypedWorld
    <3> QED BY <2>1, <3>1 DEF HookMoves
  <2>3. CASE k[2] \notin DOMAIN hook
    <3>1. hook' = hook
      BY <2>1, <2>3 DEF TypedHooks
    <3> QED BY <3>1 DEF HookMoves
  <2> QED BY <2>2, <2>3
<1> QED BY <1>2, <1>3, <1>4

LEMMA BaseOf ==
    ASSUME Base, Tidy', TypedWorld', sent \subseteq sent', HookMoves, TypedRows', Grown,
           NEW k \in DOMAIN task, Stops(k) \/ Keeps(k)
    PROVE  Base'
<1>1. Only(k)
  BY DEF Stops, Keeps
<1>2. TypedHooks'
  BY <1>1, OnlyLocals, HooksStay DEF Base
<1>3. Backed'
  BY BackedStops, BackedKeeps DEF Base
<1> QED BY <1>2, <1>3 DEF Base

LEMMA BaseSame ==
    ASSUME Base, Tidy', WorldSame, HookMoves, UNCHANGED <<row, map>>,
           NEW k \in DOMAIN task, Stops(k) \/ Keeps(k)
    PROVE  Base'
BY WorldStays, RowsStay, BaseOf DEF Base

LEMMA PlainStages ==
    /\ Shared \subseteq Plain /\ {"end", "place", "newplace", "setplace", "alert", "told", "post", "look",
                      "snap", "final", "takeover", "map"} \subseteq Plain
    /\ "map" \notin Shared
BY DEF Plain, Shared

LEMMA RetryBase == ASSUME Base, NEW k \in DOMAIN task, CreateRetry(k) PROVE Base'
<1>1. WorldSame /\ HookMoves /\ UNCHANGED <<row, map>>
  BY DEF CreateRetry, WorldSame, HookMoves, remote, mapping, control
<1>2. Tidy' /\ Stops(k)
  BY RetryStep DEF Base
<1> QED BY <1>1, <1>2, BaseSame

LEMMA FailsBase == ASSUME Base, NEW k \in DOMAIN task, RequestFails(k) \/ PieceTimesOut(k) PROVE Base'
<1>1. WorldSame /\ UNCHANGED <<row, map>> /\ Fails(k)
  BY DEF RequestFails, PieceTimesOut, WorldSame, remote, mapping, control
<1>2. Tidy' /\ Stops(k)
  BY FailsStep DEF Base
<1>3. HookMoves
  BY <1>1, HookFails DEF Base
<1> QED BY <1>1, <1>2, <1>3, BaseSame

LEMMA InboxBase == ASSUME Base, NEW k \in DOMAIN task, FindInbox(k) \/ NewInbox(k) PROVE Base'
<1>1. CASE FindInbox(k)
  <2>1. /\ UNCHANGED <<scen, moves, acct, last, cw, snaps, inboxes, rconv, shown, cmap, sent, row, map, hook>>
        /\ bind' = 1 \/ UNCHANGED bind
    BY <1>1 DEF FindInbox, Goes, remote, control
  <2>2. TypedWorld'
    BY <2>1 DEF TypedWorld, Base
  <2>3. PICK pc \in Shared : Tidy' /\ Steps(k, pc)
    BY <1>1, FindInboxStep DEF Base, Shared
  <2>4. Keeps(k)
    BY <2>3, KeepsAs, PlainStages
  <2>5. TypedRows' /\ Grown /\ HookMoves
    BY <2>1, RowsStay DEF Base, HookMoves
  <2> QED BY <2>1, <2>2, <2>3, <2>4, <2>5, BaseOf
<1>2. CASE NewInbox(k)
  <2>1. /\ UNCHANGED <<scen, moves, acct, last, cw, snaps, rconv, shown, cmap, sent, row, map>>
        /\ inboxes' = inboxes + 1 /\ (bind' = inboxes' \/ UNCHANGED bind) /\ (UNCHANGED hook \/ Fails(k))
    BY <1>2 DEF NewInbox, control
  <2>2. TypedWorld'
    BY <2>1 DEF TypedWorld, Base
  <2>3. Tidy' /\ (Steps(k, "conv") \/ Stops(k))
    BY <1>2, NewInboxStep DEF Base
  <2>4. Stops(k) \/ Keeps(k)
    <3>1. "conv" \in Plain
      BY PlainStages DEF Shared
    <3> QED BY <2>3, <3>1, KeepsAs
  <2>5. TypedRows' /\ Grown /\ HookMoves
    BY <2>1, RowsStay, HookFails DEF Base, HookMoves
  <2> QED BY <2>1, <2>2, <2>3, <2>4, <2>5, BaseOf
<1> QED BY <1>1, <1>2

LEMMA FindConvBase == ASSUME Base, NEW k \in DOMAIN task, FindConv(k) PROVE Base'
<1>1. WorldSame /\ HookMoves /\ UNCHANGED <<row, map>>
  BY DEF FindConv, Goes, WorldSame, HookMoves, remote, mapping, control
<1>2. Tidy' /\ (Steps(k, After(k)) \/ Steps(k, "newconv") \/ \E v : Jumps(k, "mapconv", v))
  BY FindConvStep DEF Base
<1>3. Keeps(k)
  <2>1. {After(k), "newconv", "mapconv"} \subseteq Plain \ {"map"}
    BY AfterStage, PlainStages DEF Shared, Base
  <2> QED BY <1>2, <2>1, KeepsAs
<1> QED BY <1>1, <1>2, <1>3, BaseSame

LEMMA NewConvBase == ASSUME Base, NEW k \in DOMAIN task, NewConv(k) PROVE Base'
<1>1. /\ UNCHANGED <<scen, moves, acct, last, cw, snaps, inboxes, shown, bind, cmap, sent, row, map>>
      /\ rconv' = Append(rconv, bind) /\ (UNCHANGED hook \/ Fails(k))
  BY DEF NewConv, control, mapping
<1>2. TypedWorld'
  <2>1. rconv' \in Seq(Nat)
    BY <1>1 DEF TypedWorld, Base
  <2> QED BY <1>1, <2>1 DEF TypedWorld, Base
<1>3. Tidy' /\ (Stops(k) \/ Jumps(k, "mapconv", Len(rconv) + 1))
  BY NewConvStep DEF Base, TypedWorld
<1>4. Stops(k) \/ Keeps(k)
  <2>1. "mapconv" \in Plain
    BY PlainStages DEF Shared
  <2> QED BY <1>3, <2>1, KeepsAs
<1>5. TypedRows' /\ Grown /\ HookMoves
  BY <1>1, RowsStay, HookFails DEF Base, HookMoves
<1> QED BY <1>1, <1>2, <1>3, <1>4, <1>5, BaseOf

LEMMA MapConvBase == ASSUME Base, NEW k \in DOMAIN task, MapConv(k) PROVE Base'
<1>1. /\ UNCHANGED <<scen, moves, acct, last, cw, snaps, inboxes, shown, bind, rconv, sent, row, map, hook>>
      /\ cmap' = task[k].c
  BY DEF MapConv, control, remote
<1>2. TypedWorld'
  <2>1. cmap' \in Nat
    BY <1>1, TidyTask DEF Base, Tasks
  <2> QED BY <1>1, <2>1 DEF TypedWorld, Base
<1>3. Tidy' /\ Jumps(k, "moved", cmap)
  BY MapConvStep DEF Base, TypedWorld
<1>4. Keeps(k)
  <2>1. "moved" \in Plain
    BY PlainStages DEF Shared
  <2> QED BY <1>3, <2>1, KeepsAs
<1>5. TypedRows' /\ Grown /\ HookMoves
  BY <1>1, RowsStay DEF Base, HookMoves
<1> QED BY <1>1, <1>2, <1>3, <1>4, <1>5, BaseOf

LEMMA ResolveOldBase == ASSUME Base, NEW k \in DOMAIN task, ResolveOld(k) PROVE Base'
<1>1. /\ UNCHANGED <<scen, moves, acct, last, cw, snaps, inboxes, shown, bind, rconv, cmap, row, map, hook>>
      /\ sent \subseteq sent' /\ \A d \in sent' : d \in sent \/ d = <<"resolved", task[k].c>>
  BY DEF ResolveOld, control, mapping
<1>2. TypedWorld'
  <2>1. task[k].c \in Nat
    BY TidyTask DEF Base, Tasks
  <2>2. <<"resolved", task[k].c>> \in AnyEvent /\ <<"resolved", task[k].c>>[1] = "resolved"
    BY <2>1 DEF AnyEvent
  <2>3. sent' \subseteq AnyEvent /\ \A d \in sent' : d[1] # "resolved" => d[2] \in 1..Len(cw)
    BY <1>1, <2>2 DEF TypedWorld, Base
  <2> QED BY <1>1, <2>3 DEF TypedWorld, Base
<1>3. Tidy' /\ Steps(k, After(k))
  BY ResolveOldStep DEF Base
<1>4. Keeps(k)
  <2>1. After(k) \in Plain \ {"map"}
    BY AfterStage, PlainStages DEF Base
  <2> QED BY <1>3, <2>1, KeepsAs
<1>5. TypedRows' /\ Grown /\ HookMoves
  BY <1>1, RowsStay DEF Base, HookMoves
<1> QED BY <1>1, <1>2, <1>3, <1>4, <1>5, BaseOf

LEMMA TakeMoveBase ==
    ASSUME Base, NEW k \in DOMAIN task,
           EndMeta(k) \/ TakeMeta(k) \/ TakeStatus(k) \/ TakeAlert(k) \/ FindPlace(k) \/ NewPlace(k) \/ RecordPlace(k)
    PROVE  Base'
<1>1. WorldSame /\ UNCHANGED <<row, map>> /\ (UNCHANGED hook \/ Fails(k))
  BY DEF EndMeta, TakeMeta, TakeStatus, TakeAlert, FindPlace, NewPlace, RecordPlace, Goes, WorldSame, remote, mapping, control
<1>2. HookMoves
  BY <1>1, HookFails DEF Base, HookMoves
<1>3. CASE EndMeta(k)
  BY <1>1, <1>2, <1>3, EndMetaStep, BaseSame DEF Base
<1>4. CASE TakeMeta(k)
  <2>1. Tidy' /\ \E pc \in {"inbox", "end"}, c \in {0, 1} : Jumps(k, pc, c)
    BY <1>4, TakeMetaStep DEF Base
  <2>2. {"inbox", "end"} \subseteq Plain \ {"map"}
    BY PlainStages DEF Shared
  <2>3. Keeps(k)
    BY <2>1, <2>2, KeepsAs
  <2> QED BY <1>1, <1>2, <2>1, <2>3, BaseSame
<1>5. CASE TakeStatus(k) \/ TakeAlert(k)
  <2>1. Tidy' /\ (Steps(k, "end") \/ Steps(k, "inbox"))
    BY <1>5, TakeAccountStep DEF Base
  <2>2. {"inbox", "end"} \subseteq Plain \ {"map"}
    BY PlainStages DEF Shared
  <2>3. Keeps(k)
    BY <2>1, <2>2, KeepsAs
  <2> QED BY <1>1, <1>2, <2>1, <2>3, BaseSame
<1>6. CASE FindPlace(k) \/ NewPlace(k) \/ RecordPlace(k)
  <2>1. Tidy' /\ (Stops(k) \/ \E pc \in {"newplace", "setplace", "alert"} : Steps(k, pc))
    BY <1>6, PlaceStep DEF Base
  <2>2. {"newplace", "setplace", "alert"} \subseteq Plain \ {"map"}
    BY PlainStages
  <2>3. Stops(k) \/ Keeps(k)
    BY <2>1, <2>2, KeepsAs
  <2> QED BY <1>1, <1>2, <2>1, <2>3, BaseSame
<1> QED BY <1>3, <1>4, <1>5, <1>6

LEMMA AlertBase == ASSUME Base, NEW k \in DOMAIN task, PostAlert(k) \/ RecordAlert(k) PROVE Base'
<1>1. CASE PostAlert(k)
  <2>1. /\ UNCHANGED <<scen, moves, acct, last, cw, snaps, inboxes, bind, rconv, cmap, sent, row, map>>
        /\ shown' = Append(shown, k[3]) /\ (UNCHANGED hook \/ Fails(k))
    BY <1>1 DEF PostAlert, control, mapping
  <2>2. Tidy' /\ k[1] = "alert" /\ (Jumps(k, "told", Len(shown) + 1) \/ Stops(k))
    BY <1>1, PostAlertStep DEF Base, TypedWorld
  <2>3. k[3] \in States
    BY <2>2, KeyKinds DEF Base, Tidy, TypedTasks
  <2>4. TypedWorld'
    <3>1. shown' \in Seq(States)
      BY <2>1, <2>3 DEF TypedWorld, Base
    <3> QED BY <2>1, <3>1 DEF TypedWorld, Base
  <2>5. Stops(k) \/ Keeps(k)
    BY <2>2, KeepsAs, PlainStages
  <2>6. TypedRows' /\ Grown /\ HookMoves
    BY <2>1, RowsStay, HookFails DEF Base, HookMoves
  <2> QED BY <2>1, <2>2, <2>4, <2>5, <2>6, BaseOf
<1>2. CASE RecordAlert(k)
  <2>1. /\ UNCHANGED <<scen, moves, acct, shown, cw, snaps, inboxes, bind, rconv, cmap, sent, row, map, hook>>
        /\ last' = k[3] /\ task[k].pc = "told"
    BY <1>2 DEF RecordAlert, control, remote
  <2>2. k[1] = "alert"
    BY <2>1, FitsAs DEF Base
  <2>3. k[3] \in States
    BY <2>2, KeyKinds DEF Base, Tidy, TypedTasks
  <2>4. TypedWorld'
    BY <2>1, <2>3 DEF TypedWorld, Base
  <2>5. Tidy' /\ Stops(k)
    BY <1>2, EndMetaStep DEF Base
  <2>6. TypedRows' /\ Grown /\ HookMoves
    BY <2>1, RowsStay DEF Base, HookMoves
  <2> QED BY <2>1, <2>4, <2>5, <2>6, BaseOf
<1> QED BY <1>1, <1>2

LEMMA LocalBase == ASSUME Base, NEW k \in DOMAIN task, TakeLocal(k) \/ PostMessage(k) PROVE Base'
<1>1. CASE TakeLocal(k)
  <2>1. WorldSame /\ HookMoves /\ UNCHANGED <<row, map>>
    BY <1>1 DEF TakeLocal, WorldSame, HookMoves, remote, mapping, control
  <2>2. PICK pc, c : pc \in {"look", "inbox"} /\ Tidy' /\ (Stops(k) \/ Jumps(k, pc, c))
    <3>1. Tidy' /\ (Stops(k) \/ (LocalGoes(k[2]) \in {"look", "inbox"} /\ Jumps(k, LocalGoes(k[2]), MapOf(k[2]).c)))
      BY <1>1, TakeLocalStep DEF Base
    <3> QED BY <3>1
  <2>3. {"look", "inbox"} \subseteq Plain \ {"map"}
    BY PlainStages DEF Shared
  <2>4. Stops(k) \/ Keeps(k)
    BY <2>2, <2>3, KeepsAs
  <2> QED BY <2>1, <2>2, <2>4, BaseSame
<1>2. CASE PostMessage(k)
  <2> DEFINE m == Cw("mirror", k[2], row[k[2]].dir = "out", "text", cmap)
  <2>1. /\ UNCHANGED <<scen, moves, acct, last, snaps, inboxes, bind, rconv, cmap, shown, row, map>>
        /\ cw' = Append(cw, m) /\ sent' = sent \cup {<<"created", Len(cw')>>} /\ (UNCHANGED hook \/ Fails(k))
        /\ Len(cw) < MaxCw
    BY <1>2 DEF PostMessage, control, mapping
  <2>2. Tidy' /\ k \in LocalKeys /\ (Jumps(k, "map", Len(cw) + 1) \/ Stops(k)) /\ Len(cw) + 1 \in Ids
    BY <1>2, PostMessageStep DEF Base
  <2>3. m \in Messages
    <3>1. k[2] \in Pks /\ cmap \in Nat
      BY <2>2, KeyKinds DEF Base, TypedWorld
    <3>2. PICK out \in BOOLEAN : out = (row[k[2]].dir = "out")
      OBVIOUS
    <3>3. m = [by |-> "mirror", pk |-> k[2], out |-> out, type |-> "text", conv |-> cmap, deleted |-> FALSE]
      BY <3>2 DEF Cw
    <3> HIDE DEF m
    <3> QED BY <3>1, <3>3 DEF Messages, Types
  <2> HIDE DEF m
  <2>4. TypedWorld'
    <3>1. cw \in Seq(Messages) /\ MaxCw \in Nat
      BY BoundAssumption DEF Base, TypedWorld
    <3>2. cw' \in Seq(Messages) /\ Len(cw') = Len(cw) + 1 /\ Len(cw') <= MaxCw
      BY <2>1, <2>3, <3>1
    <3>3. <<"created", Len(cw')>> \in AnyEvent
      BY <2>2, <3>2 DEF AnyEvent
    <3>4. ASSUME NEW d \in sent', d[1] # "resolved" PROVE d[2] \in 1..Len(cw')
      <4>1. Len(cw) \in Nat
        BY <3>1
      <4>2. CASE d \in sent
        <5>1. d[2] \in 1..Len(cw)
          BY <3>4, <4>2 DEF Base, TypedWorld
        <5> QED BY <3>2, <4>1, <5>1
      <4>3. CASE d = <<"created", Len(cw')>>
        <5>1. d[2] = Len(cw')
          BY <4>3
        <5> QED BY <3>2, <4>1, <5>1
      <4> QED BY <2>1, <3>4, <4>2, <4>3
    <3>5. sent' \subseteq AnyEvent
      BY <2>1, <3>3 DEF Base, TypedWorld
    <3> QED BY <2>1, <3>2, <3>4, <3>5 DEF TypedWorld, Base
  <2>5. Stops(k) \/ Keeps(k)
    BY <2>2, KeepsAs, PlainStages
  <2>6. TypedRows' /\ Grown /\ HookMoves
    BY <2>1, RowsStay, HookFails DEF Base, HookMoves
  <2> QED BY <2>1, <2>2, <2>4, <2>5, <2>6, BaseOf
<1> QED BY <1>1, <1>2

LEMMA MapTyped == ASSUME NEW c \in Ids, NEW st \in MapStates PROVE Map(c, st) \in Maps
BY DEF Map, Maps

LEMMA MapWith ==
    ASSUME TypedRows, Backed, NEW pk \in DOMAIN row, NEW m \in Maps, map' = With(map, pk, m), UNCHANGED row
    PROVE  TypedRows' /\ Grown
<1>1. DOMAIN map' = DOMAIN map \cup {pk} /\ map' \in [DOMAIN map' -> Maps]
  BY WithFacts, WithTyped DEF TypedRows
<1> QED BY <1>1 DEF TypedRows, Grown, Backed

LEMMA MapSet ==
    ASSUME TypedRows, Backed, map' \in [DOMAIN map -> Maps], UNCHANGED row
    PROVE  TypedRows' /\ Grown
BY DEF TypedRows, Grown, Backed

LEMMA RecordMirrorBase == ASSUME Base, NEW k \in DOMAIN task, RecordMirror(k) PROVE Base'
<1>1. /\ WorldSame /\ HookMoves /\ UNCHANGED row /\ task[k].pc = "map" /\ k \in LocalKeys
      /\ map' = With(map, k[2], Map(task[k].c, "synced"))
  BY DEF RecordMirror, WorldSame, HookMoves, remote, control
<1>2. task[k].c \in Ids
  BY <1>1, TidyTask DEF Base, Fits
<1>3. Map(task[k].c, "synced") \in Maps
  BY <1>2, MapTyped DEF MapStates
<1>4. k[2] \in DOMAIN row
  BY <1>1 DEF Base, Backed
<1>5. TypedRows' /\ Grown
  BY <1>1, <1>3, <1>4, MapWith DEF Base
<1>6. Tidy' /\ Stops(k)
  BY EndMetaStep DEF Base
<1> QED BY <1>1, <1>5, <1>6, WorldStays, BaseOf DEF Base

LEMMA SnapshotBase == ASSUME Base, NEW k \in DOMAIN task, LookForSnapshot(k) \/ CreateSnapshot(k) PROVE Base'
<1>1. /\ UNCHANGED <<scen, moves, acct, last, cw, inboxes, rconv, shown, bind, cmap, sent, row, map>>
      /\ UNCHANGED snaps \/ snaps' = [snaps EXCEPT ![task[k].c] = @ + 1]
      /\ UNCHANGED hook \/ Fails(k)
  BY DEF LookForSnapshot, CreateSnapshot, Goes, remote, mapping, control
<1>2. TypedWorld'
  <2>1. snaps' \in [Ids -> Nat]
    BY <1>1 DEF Base, TypedWorld
  <2> QED BY <1>1, <2>1 DEF Base, TypedWorld
<1>3. Tidy' /\ (Stops(k) \/ Steps(k, "final") \/ Steps(k, "snap"))
  BY SnapshotStep DEF Base
<1>4. Stops(k) \/ Keeps(k)
  BY <1>3, KeepsAs, PlainStages
<1>5. TypedRows' /\ Grown /\ HookMoves
  BY <1>1, RowsStay, HookFails DEF Base, HookMoves
<1> QED BY <1>1, <1>2, <1>3, <1>4, <1>5, BaseOf

LEMMA RecordRecalledBase == ASSUME Base, NEW k \in DOMAIN task, RecordRecalled(k) PROVE Base'
<1>1. WorldSame /\ HookMoves /\ UNCHANGED row /\ map' = [map EXCEPT ![k[2]].st = "recalled"]
  BY DEF RecordRecalled, WorldSame, HookMoves, remote, control
<1>2. map \in [DOMAIN map -> Maps]
  BY DEF Base, TypedRows
<1>3. \A m \in Maps : [m EXCEPT !.st = "recalled"] \in Maps
  BY DEF Maps, MapStates
<1>4. map' \in [DOMAIN map -> Maps]
  <2>1. CASE k[2] \in DOMAIN map
    <3>1. map' = [map EXCEPT ![k[2]] = [map[k[2]] EXCEPT !.st = "recalled"]]
      BY <1>1, <1>2, <2>1
    <3>2. [map[k[2]] EXCEPT !.st = "recalled"] \in Maps
      BY <1>2, <1>3, <2>1
    <3> QED BY <1>2, <3>1, <3>2
  <2>2. CASE k[2] \notin DOMAIN map
    BY <1>1, <1>2, <2>2
  <2> QED BY <2>1, <2>2
<1>5. TypedRows' /\ Grown
  BY <1>1, <1>4, MapSet DEF Base
<1>6. Tidy' /\ Stops(k)
  BY EndMetaStep DEF Base
<1> QED BY <1>1, <1>5, <1>6, WorldStays, BaseOf DEF Base

LEMMA HookTakenBase ==
    ASSUME Base, NEW k \in DOMAIN task, TakeIgnored(k) \/ TakeResolved(k) \/ TakeOver(k) PROVE Base'
<1>1. WorldSame /\ UNCHANGED <<row, map>> /\ \E st \in Statuses : HookEnds(k, st)
  BY DEF TakeIgnored, TakeResolved, TakeOver, WorldSame, remote, mapping, control, Statuses
<1>2. HookMoves
  BY <1>1, HookFails DEF Base
<1>3. Tidy' /\ Stops(k)
  BY HookTakenStep DEF Base
<1> QED BY <1>1, <1>2, <1>3, BaseSame

LEMMA TakeCreatedBase == ASSUME Base, NEW k \in DOMAIN task, TakeCreated(k) PROVE Base'
<1>1. WorldSame /\ UNCHANGED <<row, map>> /\ (UNCHANGED hook \/ Fails(k) \/ \E st \in Statuses : HookEnds(k, st))
  BY DEF TakeCreated, WorldSame, remote, control, Statuses
<1>2. HookMoves
  BY <1>1, HookFails DEF Base, HookMoves
<1>3. Tidy' /\ (Stops(k) \/ Sends(k, k[2][2]))
  BY TakeCreatedStep DEF Base
<1>4. CASE Stops(k)
  BY <1>1, <1>2, <1>3, <1>4, BaseSame
<1>5. CASE Sends(k, k[2][2])
  <2>1. Only(k) /\ task'[k].pc = "send" /\ task'[k].yes = {} /\ task'[k].no = {}
    BY <1>5 DEF Sends
  <2>2. TypedWorld' /\ sent \subseteq sent' /\ TypedRows' /\ Grown
    BY <1>1, WorldStays, RowsStay DEF Base
  <2>3. TypedHooks'
    BY <1>2, <2>1, <2>2, OnlyLocals, HooksStay DEF Base
  <2>4. Backed'
    BY <1>3, <2>1, <2>2, BackedOnly DEF Base
  <2> QED BY <1>3, <2>2, <2>3, <2>4 DEF Base
<1> QED BY <1>3, <1>4, <1>5

LEMMA RowWith ==
    ASSUME TypedRows, Backed, NEW pk \in Pks, NEW r \in Rows, row' = With(row, pk, r), UNCHANGED map
    PROVE  TypedRows' /\ Grown /\ DOMAIN row' = DOMAIN row \cup {pk} /\ row'[pk] = r
           /\ \A q \in DOMAIN row : q # pk => row'[q] = row[q]
<1>1. /\ DOMAIN row' = DOMAIN row \cup {pk} /\ row'[pk] = r
      /\ \A q \in DOMAIN row : q # pk => row'[q] = row[q]
  BY DEF With
<1>2. row \in [DOMAIN row -> Rows] /\ DOMAIN row \subseteq Pks /\ map \in [DOMAIN map -> Maps] /\ DOMAIN map \subseteq Pks
  BY DEF TypedRows
<1>3. row' \in [DOMAIN row' -> Rows]
  BY <1>2, WithTyped
<1> QED BY <1>1, <1>2, <1>3 DEF TypedRows, Grown, Backed

LEMMA SendBase == ASSUME Base, NEW k \in DOMAIN task, SendPiece(k) \/ PieceAnswered(k) PROVE Base'
<1>1. WorldSame /\ HookMoves /\ UNCHANGED map
  BY DEF SendPiece, PieceAnswered, Quiet, WorldSame, HookMoves, remote, control, mapping
<1>2. TypedWorld' /\ sent \subseteq sent'
  BY <1>1, WorldStays DEF Base
<1>3. PICK pk : pk = Piece(k)
  OBVIOUS
<1>4. CASE Steps(k, "wait") /\ SendPiece(k) /\ Tidy' /\ pk \in Pks /\ row' = With(row, pk, Row("out", "sending"))
  <2>1. Only(k) /\ task'[k].pc = "wait" /\ task'[k].todo = task[k].todo /\ task'[k].yes = task[k].yes /\ task'[k].no = task[k].no
    BY <1>4 DEF Steps, Like
  <2>2. Row("out", "sending") \in Rows
    BY DEF Row, Rows
  <2>3. TypedRows' /\ Grown /\ pk \in DOMAIN row'
    BY <1>1, <1>4, <2>2, RowWith DEF Base
  <2>4. PieceOf(task'[k]) = pk
    BY <1>3, <2>1 DEF PieceOf, Piece
  <2>5. task'[k].yes \cup task'[k].no \subseteq DOMAIN row'
    BY <2>1, <2>3 DEF Base, Backed, Grown
  <2>6. Backed'
    BY <1>4, <2>1, <2>3, <2>4, <2>5, BackedOnly DEF Base
  <2>7. TypedHooks'
    BY <1>1, <1>2, <2>1, OnlyLocals, HooksStay DEF Base
  <2> QED BY <1>2, <1>4, <2>3, <2>6, <2>7 DEF Base
<1>5. ASSUME NEW ok \in BOOLEAN, Gets(k, pk, ok), Tidy', UNCHANGED row, pk \in DOMAIN row PROVE Base'
  <2>1. Only(k)
    BY <1>5 DEF Gets
  <2>2. TypedRows' /\ Grown
    BY <1>1, <1>5, RowsStay DEF Base
  <2>3. Backed'
    BY <1>5, <2>2, BackedGets DEF Base
  <2>4. TypedHooks'
    BY <1>1, <1>2, <2>1, OnlyLocals, HooksStay DEF Base
  <2> QED BY <1>2, <1>5, <2>2, <2>3, <2>4 DEF Base
<1>6. CASE SendPiece(k)
  <2>1. \/ Steps(k, "wait") /\ Tidy' /\ pk \in Pks /\ row' = With(row, pk, Row("out", "sending"))
        \/ Gets(k, pk, row[pk].st = "sent") /\ pk \in DOMAIN row /\ UNCHANGED row /\ Tidy'
    BY <1>3, <1>6, SendPieceStep DEF Base
  <2>2. PICK ok \in BOOLEAN : ok = (row[pk].st = "sent")
    OBVIOUS
  <2> QED BY <1>4, <1>5, <1>6, <2>1, <2>2
<1>7. CASE PieceAnswered(k)
  <2>1. Gets(k, pk, row[pk].st = "sent") /\ UNCHANGED row /\ Tidy' /\ task[k].pc = "wait"
    BY <1>3, <1>7, PieceAnsweredStep DEF Base, PieceAnswered
  <2>2. pk \in DOMAIN row
    BY <1>3, <2>1, PieceIs DEF Base, Backed
  <2>3. PICK ok \in BOOLEAN : ok = (row[pk].st = "sent")
    OBVIOUS
  <2> QED BY <1>5, <2>1, <2>2, <2>3
<1> QED BY <1>6, <1>7

LEMMA RecordPieceBase ==
    ASSUME Base, NEW k \in DOMAIN task, NEW pk \in task[k].todo, RecordPiece(k, pk) PROVE Base'
<1>1. /\ WorldSame /\ UNCHANGED row /\ task[k].pc = "map"
      /\ map' = With(map, pk, Map(task[k].c, IF pk \in task[k].yes THEN "synced" ELSE "failed"))
  BY DEF RecordPiece, WorldSame, remote, control
<1>2. /\ Tidy' /\ task[k].c \in Ids /\ k \in AnyHook
      /\ \/ Sets(k, task[k].todo \ {pk}, task[k].yes, task[k].no)
         \/ Stops(k) \/ Steps(k, "takeover")
  BY RecordPieceStep DEF Base
<1>3. PICK st \in {"synced", "failed"} : map' = With(map, pk, Map(task[k].c, st))
  BY <1>1
<1>4. Map(task[k].c, st) \in Maps
  BY <1>2, <1>3, MapTyped DEF MapStates
<1>5. task[k].todo \subseteq DOMAIN row
  BY <1>1, <1>2 DEF Base, Backed
<1>6. TypedRows' /\ Grown
  BY <1>1, <1>3, <1>4, <1>5, MapWith DEF Base
<1>7. HookMoves
  <2>1. UNCHANGED hook \/ Fails(k)
    BY DEF RecordPiece
  <2> QED BY <2>1, HookFails DEF Base, HookMoves
<1>8. TypedWorld' /\ sent \subseteq sent'
  BY <1>1, WorldStays DEF Base
<1>9. CASE Stops(k) \/ Steps(k, "takeover")
  <2>1. Stops(k) \/ Keeps(k)
    BY <1>9, KeepsAs, PlainStages
  <2> QED BY <1>2, <1>6, <1>7, <1>8, <2>1, BaseOf
<1>10. CASE Sets(k, task[k].todo \ {pk}, task[k].yes, task[k].no)
  <2>1. Only(k)
    BY <1>10 DEF Sets
  <2>2. TypedHooks'
    BY <1>7, <1>8, <2>1, OnlyLocals, HooksStay DEF Base
  <2>3. task[k].yes \cup task[k].no \subseteq DOMAIN row
    BY DEF Base, Backed
  <2>4. Backed'
    BY <1>1, <1>2, <1>5, <1>6, <1>10, <2>3, BackedSets DEF Base
  <2> QED BY <1>2, <1>6, <1>8, <2>2, <2>4 DEF Base
<1> QED BY <1>2, <1>9, <1>10

LEMMA TakeDeletedBase == ASSUME Base, NEW k \in DOMAIN task, TakeDeleted(k) PROVE Base'
<1>1. WorldSame /\ UNCHANGED row /\ (UNCHANGED hook \/ HookEnds(k, "success"))
  BY DEF TakeDeleted, WorldSame, remote, control
<1>2. PICK i : i = k[2][2]
  OBVIOUS
<1>3. /\ Tidy' /\ i \in Ids
      /\ \/ Reads(k, i) /\ UNCHANGED map
         \/ /\ Stops(k)
            /\ map' = [pk \in DOMAIN map |-> IF pk \in MapsOf(i) /\ on = "on"
                                             THEN Map(i, "remote_deleted") ELSE map[pk]]
  BY <1>2, TakeDeletedStep DEF Base
<1>4. HookMoves
  BY <1>1, HookFails DEF Base, HookMoves, Statuses
<1>5. TypedWorld' /\ sent \subseteq sent'
  BY <1>1, WorldStays DEF Base
<1>6. CASE /\ Stops(k)
           /\ map' = [pk \in DOMAIN map |-> IF pk \in MapsOf(i) /\ on = "on"
                                            THEN Map(i, "remote_deleted") ELSE map[pk]]
  <2>1. Map(i, "remote_deleted") \in Maps
    BY <1>3, MapTyped DEF MapStates
  <2>2. map' \in [DOMAIN map -> Maps]
    BY <1>6, <2>1 DEF Base, TypedRows
  <2>3. TypedRows' /\ Grown
    BY <1>1, <2>2, MapSet DEF Base
  <2> QED BY <1>3, <1>4, <1>5, <1>6, <2>3, BaseOf
<1>7. CASE Reads(k, i) /\ UNCHANGED map
  <2>1. /\ Only(k) /\ task'[k].pc = "recall" /\ task'[k].yes = {} /\ task'[k].no = {}
        /\ task'[k].todo = {<<pk, map[pk].st>> : pk \in MapsOf(i)}
    BY <1>7 DEF Reads
  <2>2. \A item \in task'[k].todo : item[1] \in DOMAIN map
    BY <2>1 DEF MapsOf
  <2>3. TypedRows' /\ Grown
    BY <1>1, <1>7, RowsStay DEF Base
  <2>4. \A item \in task'[k].todo : item[1] \in DOMAIN row'
    BY <2>2, <2>3, <1>7 DEF Grown
  <2>5. Backed'
    BY <1>3, <2>1, <2>3, <2>4, BackedOnly DEF Base
  <2>6. TypedHooks'
    BY <1>4, <1>5, <2>1, OnlyLocals, HooksStay DEF Base
  <2> QED BY <1>3, <1>5, <2>3, <2>5, <2>6 DEF Base
<1> QED BY <1>3, <1>6, <1>7

(* The items of a task that recalls are local messages.                    *)
LEMMA ItemsBacked ==
    ASSUME Base, NEW k \in DOMAIN task, NEW item, Picks(k, item)
    PROVE  /\ item[1] \in DOMAIN row /\ task[k].pc = "recall" /\ \A x \in task[k].todo : x[1] \in DOMAIN row
           /\ task[k].yes \cup task[k].no \subseteq DOMAIN row
BY DEF Base, Backed, Picks

LEMMA RecallBase ==
    ASSUME Base, NEW k \in DOMAIN task, NEW item,
           RecallHandled(k, item) \/ RecallSucceeds(k, item) \/ RecallFails(k, item) \/ NoteRecall(k, item)
    PROVE  Base'
<1>1. WorldSame /\ HookMoves
  BY DEF RecallHandled, RecallSucceeds, RecallFails, NoteRecall, Quiet, WorldSame, HookMoves, remote, control, mapping
<1>2. Picks(k, item)
  BY DEF RecallHandled, RecallSucceeds, RecallFails, NoteRecall, RecallOpen
<1>3. /\ item[1] \in DOMAIN row /\ task[k].pc = "recall" /\ \A x \in task[k].todo : x[1] \in DOMAIN row
      /\ task[k].yes \cup task[k].no \subseteq DOMAIN row
  BY <1>2, ItemsBacked
<1>4. ASSUME NEW todo, NEW yes, NEW no, Sets(k, todo, yes, no), Tidy', TypedRows', Grown,
             \A x \in todo : x[1] \in DOMAIN row, yes \cup no \subseteq DOMAIN row
      PROVE  Base'
  <2>1. Only(k)
    BY <1>4 DEF Sets
  <2>2. TypedWorld' /\ sent \subseteq sent'
    BY <1>1, WorldStays DEF Base
  <2>3. TypedHooks'
    BY <1>1, <2>1, <2>2, OnlyLocals, HooksStay DEF Base
  <2>4. Backed'
    BY <1>3, <1>4, BackedSets DEF Base
  <2> QED BY <1>4, <2>2, <2>3, <2>4 DEF Base
<1>5. ASSUME NEW ok \in BOOLEAN, Outcome(k, item, ok), Tidy', TypedRows', Grown PROVE Base'
  <2>1. PICK todo, yes, no :
           /\ todo = (task[k].todo \ {item}) \cup {<<item[1], "note">>}
           /\ yes = IF ok THEN task[k].yes \cup {item[1]} ELSE task[k].yes
           /\ no = IF ok THEN task[k].no ELSE task[k].no \cup {item[1]}
    BY Zenon
  <2>2. Sets(k, todo, yes, no)
    BY <1>5, <2>1 DEF Outcome
  <2>3. (\A x \in todo : x[1] \in DOMAIN row) /\ yes \cup no \subseteq DOMAIN row
    BY <1>3, <2>1
  <2> QED BY <1>4, <1>5, <2>2, <2>3
<1>6. ASSUME NEW rec \in BOOLEAN, UNCHANGED map,
             row' = With(row, item[1], [row[item[1]] EXCEPT !.recalled = rec, !.recalls = @ + 1])
      PROVE  TypedRows' /\ Grown
  <2>1. PICK q \in Rows : q = row[item[1]]
    BY <1>3 DEF Base, TypedRows
  <2>2. PICK n \in Nat : n = q.recalls + 1
    BY DEF Rows
  <2>3. [q EXCEPT !.recalled = rec, !.recalls = n] \in Rows
    BY DEF Rows
  <2>4. row' = With(row, item[1], [q EXCEPT !.recalled = rec, !.recalls = n]) /\ item[1] \in Pks
    BY <1>2, <1>6, <2>1, <2>2, PicksItem DEF Base
  <2> QED BY <1>6, <2>3, <2>4, RowWith DEF Base
<1>7. CASE RecallHandled(k, item)
  <2>1. UNCHANGED <<row, map>>
    BY <1>7 DEF RecallHandled, Quiet, mapping
  <2>2. PICK yes \in SUBSET Pks, no \in SUBSET Pks :
                 /\ Tidy' /\ Sets(k, task[k].todo \ {item}, yes, no)
                 /\ \/ yes = task[k].yes /\ no = task[k].no
                    \/ yes = task[k].yes \cup {item[1]} /\ no = task[k].no
                    \/ yes = task[k].yes /\ no = task[k].no \cup {item[1]}
    BY <1>7, RecallHandledStep DEF Base
  <2>3. yes \cup no \subseteq DOMAIN row /\ \A x \in task[k].todo \ {item} : x[1] \in DOMAIN row
    BY <1>3, <2>2
  <2>4. TypedRows' /\ Grown
    BY <2>1, RowsStay DEF Base
  <2> QED BY <1>4, <2>2, <2>3, <2>4
<1>8. CASE RecallSucceeds(k, item)
  <2> DEFINE rec == TRUE
  <2>1. /\ Tidy' /\ Outcome(k, item, rec) /\ UNCHANGED map
        /\ row' = With(row, item[1], [row[item[1]] EXCEPT !.recalled = rec, !.recalls = @ + 1])
    BY <1>3, <1>8, RecallSucceedsStep DEF Base, RecallSucceeds, Quiet, mapping
  <2>2. rec \in BOOLEAN
    OBVIOUS
  <2> HIDE DEF rec
  <2> QED BY <1>5, <1>6, <2>1, <2>2
<1>9. CASE RecallFails(k, item)
  <2> DEFINE ok == FALSE
  <2>1. /\ Tidy' /\ Outcome(k, item, ok) /\ UNCHANGED map
        /\ \/ UNCHANGED row
           \/ \E rec \in BOOLEAN :
                 row' = With(row, item[1], [row[item[1]] EXCEPT !.recalled = rec, !.recalls = @ + 1])
    BY <1>3, <1>9, RecallFailsStep DEF Base, RecallFails, Quiet, mapping
  <2>2. ok \in BOOLEAN
    OBVIOUS
  <2> HIDE DEF ok
  <2>3. TypedRows' /\ Grown
    BY <1>6, <2>1, RowsStay DEF Base
  <2> QED BY <1>5, <2>1, <2>2, <2>3
<1>10. CASE NoteRecall(k, item)
  <2>1. /\ UNCHANGED row
        /\ map' = [map EXCEPT ![item[1]] =
                     Map(task[k].c, IF item[1] \in task[k].yes THEN "recall_snapshot_pending"
                                    ELSE "recall_failed_snapshot_pending")]
    BY <1>10 DEF NoteRecall
  <2>2. PICK st \in MapStates : map' = [map EXCEPT ![item[1]] = Map(task[k].c, st)]
    BY <2>1 DEF MapStates
  <2>3. Map(task[k].c, st) \in Maps
    BY <1>2, PicksItem, MapTyped DEF Base
  <2>4. map' \in [DOMAIN map -> Maps]
    BY <2>2, <2>3 DEF Base, TypedRows
  <2>5. TypedRows' /\ Grown
    BY <2>1, <2>4, MapSet DEF Base
  <2>6. Tidy' /\ Sets(k, task[k].todo \ {item}, task[k].yes, task[k].no)
    BY <1>10, NoteRecallStep DEF Base
  <2> QED BY <1>3, <1>4, <2>5, <2>6
<1> QED BY <1>7, <1>8, <1>9, <1>10

LEMMA RecallsDoneBase == ASSUME Base, NEW k \in DOMAIN task, RecallsDone(k) PROVE Base'
<1>1. WorldSame /\ UNCHANGED <<row, map>> /\ (UNCHANGED hook \/ HookEnds(k, "success"))
  BY DEF RecallsDone, WorldSame, remote, control, mapping
<1>2. Tidy' /\ (Stops(k) \/ Steps(k, "look"))
  BY RecallsDoneStep DEF Base
<1>3. HookMoves
  BY <1>1, HookFails DEF Base, HookMoves, Statuses
<1>4. Stops(k) \/ Keeps(k)
  BY <1>2, KeepsAs, PlainStages
<1> QED BY <1>1, <1>2, <1>3, <1>4, BaseSame

LEMMA FinishRecallBase ==
    ASSUME Base, NEW k \in DOMAIN task, NEW pk, FinishRecall(k, pk) PROVE Base'
<1>1. /\ WorldSame /\ UNCHANGED row /\ (UNCHANGED hook \/ HookEnds(k, "success"))
      /\ map' = With(map, pk, Map(task[k].c, IF pk \in task[k].yes THEN "recalled" ELSE "recall_failed"))
      /\ pk \in task[k].yes \cup task[k].no
  BY DEF FinishRecall, WorldSame, remote, control
<1>2. /\ Tidy' /\ task[k].c \in Ids /\ task[k].pc = "final" /\ k \in AnyHook
      /\ \/ Sets(k, task[k].todo, task[k].yes \ {pk}, task[k].no \ {pk})
         \/ Stops(k)
  BY FinishRecallStep DEF Base
<1>3. PICK st \in {"recalled", "recall_failed"} : map' = With(map, pk, Map(task[k].c, st))
  BY <1>1
<1>4. Map(task[k].c, st) \in Maps
  BY <1>2, <1>3, MapTyped DEF MapStates
<1>5. task[k].yes \cup task[k].no \subseteq DOMAIN row
  BY DEF Base, Backed
<1>6. TypedRows' /\ Grown
  BY <1>1, <1>3, <1>4, <1>5, MapWith DEF Base
<1>7. HookMoves
  BY <1>1, HookFails DEF Base, HookMoves, Statuses
<1>8. TypedWorld' /\ sent \subseteq sent'
  BY <1>1, WorldStays DEF Base
<1>9. CASE Stops(k)
  BY <1>2, <1>6, <1>7, <1>8, <1>9, BaseOf
<1>10. CASE Sets(k, task[k].todo, task[k].yes \ {pk}, task[k].no \ {pk})
  <2>1. Only(k)
    BY <1>10 DEF Sets
  <2>2. TypedHooks'
    BY <1>7, <1>8, <2>1, OnlyLocals, HooksStay DEF Base
  <2>3. (task[k].yes \ {pk}) \cup (task[k].no \ {pk}) \subseteq DOMAIN row
    BY <1>5
  <2>4. Backed'
    BY <1>2, <1>6, <1>10, <2>3, BackedSets DEF Base
  <2> QED BY <1>2, <1>6, <1>8, <2>2, <2>4 DEF Base
<1> QED BY <1>2, <1>9, <1>10

LEMMA AddsBase ==
    ASSUME Base, Tidy', TypedWorld', TypedRows', Grown, Adds, sent \subseteq sent', UNCHANGED hook,
           \A j \in DOMAIN task' \ DOMAIN task : j \notin AnyHook
    PROVE  Base'
<1>1. DOMAIN task \subseteq DOMAIN task' /\ HookMoves
  BY DEF Adds, HookMoves
<1>2. TypedHooks'
  BY <1>1, HooksStay DEF Base
<1>3. Backed'
  BY BackedAdds DEF Base
<1> QED BY <1>2, <1>3 DEF Base

LEMMA WrittenBase ==
    ASSUME Base, NEW pk \in Pks, NEW r \in Rows, Write(task, pk, r), WorldSame, UNCHANGED <<map, hook, aside>>
    PROVE  Base'
<1>1. Tidy' /\ Adds /\ row' = With(row, pk, r)
  BY WriteAdds DEF Base
<1>2. TypedRows' /\ Grown
  BY <1>1, RowWith DEF Base
<1>3. TypedWorld' /\ sent \subseteq sent'
  BY WorldStays DEF Base
<1>4. \A j \in DOMAIN task' \ DOMAIN task : j \notin AnyHook
  <2>1. TidyOf(task) /\ task' = Enqueue(task, pk, Revision(r))
    BY TidyIs DEF Write, Base
  <2>2. \A j \in DOMAIN task' \ DOMAIN task : j = <<"local", pk, Revision(r)>>
    BY <2>1, RevisionTyped, EnqueueFacts
  <2>3. <<"local", pk, Revision(r)>> \in LocalKeys
    BY RevisionTyped DEF LocalKeys
  <2> QED BY <2>2, <2>3, KeyKinds
<1> QED BY <1>1, <1>2, <1>3, <1>4, AddsBase

LEMMA RowBase ==
    ASSUME Base, \/ \E j \in Locals : Received(j) \/ Begins(j)
                 \/ \E pk \in DOMAIN row : Refused(pk) \/ Recalled(pk) \/ Completes(pk)
    PROVE  Base'
<1>1. WorldSame /\ UNCHANGED <<map, hook, aside>>
  BY DEF Received, Begins, Refused, Recalled, Completes, Quiet, WorldSame, remote, control, mapping, history
<1>2. ASSUME NEW j \in Locals, Received(j) \/ Begins(j) PROVE Base'
  <2>1. <<"l", j, "text">> \in Pks
    BY DEF Pks
  <2>2. Row("in", "received") \in Rows /\ Row("out", "sending") \in Rows
    BY DEF Row, Rows
  <2>3. \E r \in Rows : Write(task, <<"l", j, "text">>, r)
    BY <1>2, <2>2 DEF Received, Begins
  <2> QED BY <1>1, <2>1, <2>3, WrittenBase
<1>3. ASSUME NEW pk \in DOMAIN row, Refused(pk) \/ Recalled(pk) \/ Completes(pk) PROVE Base'
  <2>1. PICK q \in Rows : q = row[pk]
    BY <1>3 DEF Base, TypedRows
  <2>2. PICK n \in Nat : n = q.plat + 1
    BY DEF Rows
  <2>3. /\ [q EXCEPT !.st = "sent", !.plat = n] \in Rows /\ [q EXCEPT !.st = "failed"] \in Rows
        /\ [q EXCEPT !.recalled = TRUE] \in Rows
    BY DEF Rows
  <2>4. \E r \in Rows : Write(task, pk, r)
    <3>1. CASE Refused(pk)
      BY <2>1, <2>3, <3>1 DEF Refused
    <3>2. CASE Recalled(pk)
      BY <2>1, <2>3, <3>2 DEF Recalled
    <3>3. CASE Completes(pk)
      BY <2>1, <2>2, <2>3, <3>3 DEF Completes
    <3> QED BY <1>3, <3>1, <3>2, <3>3
  <2>5. pk \in Pks
    BY <1>3 DEF Base, TypedRows
  <2> QED BY <1>1, <2>4, <2>5, WrittenBase
<1> QED BY <1>2, <1>3

LEMMA AgentBase ==
    ASSUME Base, \/ \E type \in Types : AgentWrites(type)
                 \/ \E i \in Ids : AgentDeletes(i)
                 \/ \E v \in Convs : AgentResolves(v)
    PROVE  Base'
<1>1. /\ UNCHANGED <<scen, moves, acct, last, snaps, inboxes, rconv, shown, bind, cmap>>
      /\ UNCHANGED <<task, row, map, hook, aside>>
  BY DEF AgentWrites, AgentDeletes, AgentResolves, control, mapping, history
<1>2. cw \in Seq(Messages) /\ MaxCw \in Nat /\ Len(cw) \in Nat /\ Len(cw) <= MaxCw /\ sent \subseteq AnyEvent
      /\ \A d \in sent : d[1] # "resolved" => d[2] \in 1..Len(cw)
  BY BoundAssumption DEF Base, TypedWorld
<1>3. ASSUME cw' \in Seq(Messages), Len(cw') <= MaxCw, Len(cw) <= Len(cw'), Len(cw') \in Nat, sent \subseteq sent',
             \A d \in sent' \ sent : d \in AnyEvent /\ (d[1] # "resolved" => d[2] \in 1..Len(cw'))
      PROVE  Base'
  <2>1. \A d \in sent : d[1] # "resolved" => d[2] \in 1..Len(cw')
    BY <1>2, <1>3
  <2>2. sent' \subseteq AnyEvent /\ \A d \in sent' : d[1] # "resolved" => d[2] \in 1..Len(cw')
    BY <1>2, <1>3, <2>1
  <2>3. TypedWorld'
    BY <1>1, <1>3, <2>2 DEF Base, TypedWorld
  <2>4. Tidy' /\ Adds
    BY <1>1, StaysTidy DEF Base
  <2>5. TypedRows' /\ Grown
    BY <1>1, RowsStay DEF Base
  <2> QED BY <1>1, <1>3, <2>3, <2>4, <2>5, AddsBase
<1>4. ASSUME NEW type \in Types, AgentWrites(type) PROVE Base'
  <2>1. PICK v \in 1..Len(rconv) : cw' = Append(cw, Cw("agent", <<>>, TRUE, type, v))
    BY <1>4 DEF AgentWrites
  <2>2. Cw("agent", <<>>, TRUE, type, v) \in Messages
    BY <1>4, <2>1 DEF Cw, Messages
  <2>3. cw' \in Seq(Messages) /\ Len(cw') = Len(cw) + 1 /\ Len(cw) < MaxCw /\ sent' = sent \cup {<<"created", Len(cw) + 1>>}
    <3>1. PICK m \in Messages : cw' = Append(cw, m)
      BY <2>1, <2>2
    <3>2. cw' \in Seq(Messages) /\ Len(cw') = Len(cw) + 1
      BY <1>2, <3>1
    <3>3. Len(cw) < MaxCw /\ sent' = sent \cup {<<"created", Len(cw) + 1>>}
      BY <1>4 DEF AgentWrites
    <3> QED BY <3>2, <3>3
  <2>4. <<"created", Len(cw) + 1>> \in AnyEvent /\ <<"created", Len(cw) + 1>>[2] \in 1..Len(cw')
    BY <1>2, <2>3 DEF AnyEvent, Ids
  <2>5. Len(cw') <= MaxCw /\ Len(cw) <= Len(cw') /\ Len(cw') \in Nat
    BY <1>2, <2>3
  <2> QED BY <1>3, <2>3, <2>4, <2>5
<1>5. ASSUME NEW i \in Ids, AgentDeletes(i) PROVE Base'
  <2>1. /\ i \in 1..Len(cw) /\ cw' = [cw EXCEPT ![i].deleted = TRUE]
        /\ sent' = sent \cup {<<"deleted", i>>, <<"again", i>>}
    BY <1>5 DEF AgentDeletes
  <2>2. [cw[i] EXCEPT !.deleted = TRUE] \in Messages
    <3>1. PICK m \in Messages : m = cw[i]
      BY <1>2, <2>1
    <3>2. [m EXCEPT !.deleted = TRUE] \in Messages
      BY DEF Messages
    <3> QED BY <3>1, <3>2
  <2>3. cw' = [cw EXCEPT ![i] = [cw[i] EXCEPT !.deleted = TRUE]]
    BY <1>2, <2>1
  <2>4. cw' \in Seq(Messages) /\ Len(cw') = Len(cw)
    BY <1>2, <2>1, <2>2, <2>3
  <2>5. <<"deleted", i>> \in AnyEvent /\ <<"again", i>> \in AnyEvent
    BY <1>5 DEF AnyEvent
  <2>6. \A d \in sent' \ sent : d \in AnyEvent /\ d[2] = i
    BY <2>1, <2>5
  <2>7. Len(cw') <= MaxCw /\ Len(cw) <= Len(cw') /\ Len(cw') \in Nat /\ sent \subseteq sent'
    BY <1>2, <2>1, <2>4
  <2> QED BY <1>3, <2>1, <2>4, <2>6, <2>7
<1>6. ASSUME NEW v \in Convs, AgentResolves(v) PROVE Base'
  <2>1. sent' = sent \cup {<<"resolved", v>>} /\ UNCHANGED cw
    BY <1>6 DEF AgentResolves
  <2>2. <<"resolved", v>> \in AnyEvent /\ <<"resolved", v>>[1] = "resolved"
    BY <1>6 DEF AnyEvent, Convs
  <2> QED BY <1>2, <1>3, <2>1, <2>2
<1> QED BY <1>4, <1>5, <1>6

LEMMA MoveBase ==
    ASSUME Base, Switch \/ Backfill \/ \E s \in States, b \in 0..MaxMoves : StateChanges(s, b)
    PROVE  Base'
<1>1. /\ UNCHANGED <<scen, last, cw, snaps, inboxes, rconv, shown, bind, cmap, sent, row, map, hook>>
      /\ moves' = moves + 1 /\ (UNCHANGED acct \/ acct' \in States)
  BY DEF Switch, Backfill, StateChanges, Move, Quiet, remote, mapping
<1>2. TypedWorld'
  BY <1>1 DEF Base, TypedWorld
<1>3. TypedRows' /\ Grown
  BY <1>1, RowsStay DEF Base
<1>4. Tidy' /\ Adds
  <2>1. CASE Switch
    <3>1. UNCHANGED task /\ UNCHANGED aside
      BY <2>1 DEF Switch, Quiet, history
    <3> QED BY <3>1, StaysTidy DEF Base
  <2>2. CASE Backfill
    BY <2>2, BackfillStep DEF Base
  <2>3. CASE \E s \in States, b \in 0..MaxMoves : StateChanges(s, b)
    BY <2>3, StateChangesStep DEF Base
  <2> QED BY <2>1, <2>2, <2>3
<1>5. UNCHANGED aside
  BY DEF Switch, Backfill, StateChanges, Quiet, history
<1>6. \A j \in DOMAIN task' \ DOMAIN task : j \notin AnyHook
  <2>1. CASE Switch
    BY <2>1 DEF Switch
  <2>2. CASE Backfill
    <3>1. PICK key : key = <<"meta", moves + 1, "online">>
      OBVIOUS
    <3>2. task' = Created(task, key, FALSE)
      BY <2>2, <3>1 DEF Backfill
    <3>3. DOMAIN task' \subseteq DOMAIN task \cup {key}
      BY <3>2 DEF Created, With
    <3> QED BY <3>1, <3>3, KeyKinds
  <2>3. CASE \E s \in States, b \in 0..MaxMoves : StateChanges(s, b)
    <3>1. PICK s \in States, b \in 0..MaxMoves : StateChanges(s, b)
      BY <2>3
    <3>2. PICK ks, ka : ks = <<"status", b, s>> /\ ka = <<"alert", b, s>>
      OBVIOUS
    <3>3. task' = task \/ task' = Created(Created(task, ks, FALSE), ka, FALSE)
      BY <3>1, <3>2 DEF StateChanges
    <3>4. DOMAIN task' \subseteq DOMAIN task \cup {ks, ka}
      BY <3>3 DEF Created, With
    <3> QED BY <3>2, <3>4, KeyKinds
  <2> QED BY <2>1, <2>2, <2>3
<1> QED BY <1>1, <1>2, <1>3, <1>4, <1>6, AddsBase

LEMMA AcceptBase ==
    ASSUME Base, \/ \E d \in sent : RecordWebhook(d)
                 \/ \E d \in DOMAIN hook : CreateHookTask(d) \/ AcceptFails(d)
    PROVE  Base'
<1>1. WorldSame /\ UNCHANGED <<row, map>>
  BY DEF RecordWebhook, CreateHookTask, AcceptFails, WorldSame, remote, control, mapping
<1>2. TypedWorld' /\ sent \subseteq sent' /\ TypedRows' /\ Grown /\ UNCHANGED sent
  BY <1>1, WorldStays, RowsStay DEF Base, WorldSame
<1>3. hook \in [DOMAIN hook -> Statuses] /\ DOMAIN hook \subseteq sent /\ sent \subseteq AnyEvent
  BY DEF Base, TypedHooks, Statuses, TypedWorld
<1>4. ASSUME NEW d \in sent, RecordWebhook(d) PROVE Base'
  <2>1. UNCHANGED task /\ UNCHANGED aside
    BY <1>4 DEF RecordWebhook, history
  <2>2. Tidy' /\ Adds
    BY <2>1, StaysTidy DEF Base
  <2>3. PICK st \in Statuses : hook' = With(hook, d, st)
    BY <1>4 DEF RecordWebhook, Statuses
  <2>4. hook' \in [DOMAIN hook' -> Statuses]
    BY <1>3, <2>3, WithTyped
  <2>5. DOMAIN hook' = DOMAIN hook \cup {d}
    BY <2>3 DEF With
  <2>6. TypedHooks'
    BY <1>2, <1>3, <2>1, <2>4, <2>5 DEF TypedHooks, Base, Statuses
  <2>7. Backed'
    BY <1>2, <2>2, BackedAdds DEF Base
  <2> QED BY <1>2, <2>2, <2>6, <2>7 DEF Base
<1>5. ASSUME NEW d \in DOMAIN hook, CreateHookTask(d) PROVE Base'
  <2>1. d \in AnyEvent
    BY <1>3
  <2>2. Tidy' /\ Adds /\ DOMAIN task' = DOMAIN task \cup {<<"hook", d>>}
    BY <1>5, <2>1, CreateHookTaskStep DEF Base
  <2>3. hook' = [hook EXCEPT ![d] = "pending"]
    BY <1>5 DEF CreateHookTask
  <2>4. hook' \in [DOMAIN hook -> Statuses] /\ DOMAIN hook' = DOMAIN hook
    BY <1>3, <2>3 DEF Statuses
  <2>5. <<"hook", d>>[2] = d
    OBVIOUS
  <2>6. TypedHooks'
    BY <1>2, <1>3, <2>2, <2>4, <2>5 DEF TypedHooks, Base, Statuses
  <2>7. Backed'
    BY <1>2, <2>2, BackedAdds DEF Base
  <2> QED BY <1>2, <2>2, <2>6, <2>7 DEF Base
<1>6. ASSUME NEW d \in DOMAIN hook, AcceptFails(d) PROVE Base'
  <2>1. UNCHANGED task /\ UNCHANGED aside /\ hook' = [hook EXCEPT ![d] = "pending"]
    BY <1>6 DEF AcceptFails
  <2>2. Tidy' /\ Adds
    BY <2>1, StaysTidy DEF Base
  <2>4. hook' \in [DOMAIN hook -> Statuses] /\ DOMAIN hook' = DOMAIN hook
    BY <1>3, <2>1 DEF Statuses
  <2>6. TypedHooks'
    BY <1>2, <1>3, <2>1, <2>4 DEF TypedHooks, Base, Statuses
  <2>7. Backed'
    BY <1>2, <2>2, BackedAdds DEF Base
  <2> QED BY <1>2, <2>2, <2>6, <2>7 DEF Base
<1> QED BY <1>4, <1>5, <1>6

LEMMA CrashBase == ASSUME Base, WorkerCrashes PROVE Base'
<1>1. WorldSame /\ UNCHANGED <<row, map, hook>>
  BY DEF WorkerCrashes, WorldSame, remote, control, mapping
<1>2. TypedWorld' /\ sent \subseteq sent' /\ TypedRows' /\ Grown
  BY <1>1, WorldStays, RowsStay DEF Base
<1>3. Tidy' /\ Halts
  BY CrashStep DEF Base
<1>4. TypedHooks'
  BY <1>1, <1>2, <1>3 DEF TypedHooks, Halts, Base
<1>5. Backed'
  BY <1>2, <1>3, BackedHalts DEF Base
<1> QED BY <1>2, <1>3, <1>4, <1>5 DEF Base

LEMMA WorkBase == ASSUME Base, NEW k \in DOMAIN task, Work(k) PROVE Base'
BY RetryBase, InboxBase, FindConvBase, NewConvBase, MapConvBase, ResolveOldBase, TakeMoveBase, AlertBase,
   LocalBase, RecordMirrorBase, SnapshotBase, RecordRecalledBase, HookTakenBase, TakeCreatedBase, SendBase,
   RecordPieceBase, TakeDeletedBase, RecallBase, RecallsDoneBase, FinishRecallBase DEF Work

LEMMA BaseInit == ASSUME Init PROVE Base
<1>1. /\ scen \in Scenarios /\ cw = <<>> /\ snaps = [i \in Ids |-> 0] /\ sent = {} /\ shown = <<>>
      /\ inboxes \in {0, 1} /\ rconv \in {<<1>>, <<0>>, <<>>} /\ bind = inboxes /\ cmap = Len(rconv) /\ last = None
      /\ acct = "online" /\ moves = 0
      /\ hook = Nothing /\ task = Nothing /\ row = Nothing /\ map = Nothing
  BY DEF Init
<1>2. DOMAIN Nothing = {} /\ \A S : Nothing \in [{} -> S]
  BY DEF Nothing
<1>3. TypedWorld
  <2>1. cw \in Seq(Messages) /\ Len(cw) = 0 /\ shown \in Seq(States)
    BY <1>1
  <2>2. rconv \in Seq(Nat)
    <3>1. <<1>> \in Seq(Nat) /\ <<0>> \in Seq(Nat) /\ <<>> \in Seq(Nat)
      OBVIOUS
    <3> QED BY <1>1, <3>1
  <2>3. cmap \in Nat
    BY <1>1, <2>2
  <2>4. snaps \in [Ids -> Nat] /\ inboxes \in Nat /\ bind \in Nat
    BY <1>1
  <2> QED BY <1>1, <2>1, <2>2, <2>3, <2>4, BoundAssumption DEF TypedWorld
<1>4. TypedHooks /\ TypedRows /\ Tidy /\ Backed
  BY <1>1, <1>2 DEF TypedHooks, TypedRows, Tidy, TypedTasks, Lane, Asides, Backed
<1> QED BY <1>3, <1>4 DEF Base

LEMMA BaseNext == ASSUME Base, [Next]_vars PROVE Base'
<1>1. CASE UNCHANGED vars
  BY <1>1 DEF vars, remote, mapping, control, history, Base, TypedWorld, TypedHooks, TypedRows, Tidy, TypedTasks,
     Lane, Asides, Backed
<1>2. CASE World
  BY <1>2, RowBase, AgentBase, MoveBase DEF World
<1>3. CASE Accepting
  BY <1>3, AcceptBase DEF Accepting
<1>4. CASE Runtime
  BY <1>4, RowBase DEF Runtime
<1>5. CASE Worker
  BY <1>5, WorkBase DEF Worker
<1>6. CASE Faulty
  BY <1>6, CrashBase, AcceptBase, FailsBase DEF Faulty
<1> QED BY <1>1, <1>2, <1>3, <1>4, <1>5, <1>6 DEF Next

-----------------------------------------------------------------------------
(* Alerts: last is the last announcement that is known to have arrived.    *)

Top(S) == CHOOSE m \in S : \A x \in S : x <= m
LEMMA TopIn ==
    ASSUME NEW n \in Nat, NEW S \in SUBSET (1..n), S # {}
    PROVE  Top(S) \in S /\ \A x \in S : x <= Top(S)
<1> DEFINE T == {k \in Nat : n - k \in S}
<1>1. T # {} /\ T \subseteq Nat
  <2>1. PICK m \in S : m \in 1..n
    OBVIOUS
  <2>2. n - m \in Nat /\ n - (n - m) = m
    BY <2>1
  <2> QED BY <2>1, <2>2
<1>2. PICK k \in T : \A j \in T : ~(<<j, k>> \in OpToRel(<, Nat))
  <2> HIDE DEF T
  <2> QED BY <1>1, NatLessThanWellFounded, WFMin, Zenon
<1>3. \A j \in T : ~(j < k)
  BY <1>1, <1>2 DEF OpToRel
<1>4. n - k \in S /\ \A x \in S : x <= n - k
  <2>1. ASSUME NEW x \in S PROVE x <= n - k
    <3>1. x \in 1..n /\ n - x \in Nat /\ n - (n - x) = x
      OBVIOUS
    <3>2. n - x \in T
      BY <3>1
    <3>3. ~(n - x < k)
      BY <1>3, <3>2
    <3> QED BY <3>1, <3>3
  <2> QED BY <2>1
<1> QED BY <1>4 DEF Top

LEMMA TopIs ==
    ASSUME NEW n \in Nat, NEW S \in SUBSET (1..n), n \in S PROVE Top(S) = n
<1>1. \A x \in S : x <= n
  OBVIOUS
<1>2. Top(S) \in S /\ \A x \in S : x <= Top(S)
  BY <1>1 DEF Top
<1>3. Top(S) \in 1..n
  BY <1>2
<1> QED BY <1>1, <1>2, <1>3

LEMMA BeforeIs == \A n : Before(n) = IF KnownBefore(n) = {} THEN None ELSE shown[Top(KnownBefore(n))]
BY DEF Before, Top

(* An announcement in its order.                                           *)
Right(n) == IF shown[n] = "online" THEN Before(n) \notin {None, "online"} ELSE Before(n) # shown[n]
LEMMA AlternateIs == AlertsAlternate <=> \A n \in 1..Len(shown) : Right(n)
BY DEF AlertsAlternate, Right, Before, KnownBefore

(* What was announced before n is the same.                                *)
SameBefore(n) ==
    /\ \A m \in 1..(n - 1) : shown'[m] = shown[m]
    /\ KnownBefore(n)' = KnownBefore(n)
LEMMA BeforeSame == ASSUME NEW n \in Nat \ {0}, SameBefore(n) PROVE Before(n)' = Before(n)
<1>0. PICK S : S = KnownBefore(n)
  OBVIOUS
<1>1. S \in SUBSET (1..(n - 1)) /\ n - 1 \in Nat
  BY <1>0 DEF KnownBefore
<1>2. CASE S = {}
  BY <1>0, <1>2 DEF SameBefore, Before
<1>3. CASE S # {}
  <2>1. Top(S) \in 1..(n - 1)
    BY <1>1, <1>3, TopIn
  <2>2. shown'[Top(S)] = shown[Top(S)]
    BY <2>1 DEF SameBefore
  <2> QED BY <1>0, <1>3, <2>2 DEF SameBefore, Before, Top
<1> QED BY <1>2, <1>3

LEMMA RightSame ==
    ASSUME NEW n \in Nat \ {0}, SameBefore(n), shown'[n] = shown[n], Right(n) PROVE Right(n)'
BY BeforeSame DEF Right

LostSame == \A m : <<"alert", m>> \in lost' <=> <<"alert", m>> \in lost
(* The tasks that announce stay, and one only begins with what is due.     *)
Hush ==
    /\ \A j \in DOMAIN task' : task'[j].pc = "told" => j \in DOMAIN task /\ task'[j] = task[j]
    /\ \A j \in DOMAIN task : task[j].pc = "told" => j \in DOMAIN task' /\ task'[j] = task[j]
    /\ \A j \in DOMAIN task' : j[1] = "alert" /\ task'[j].pc \in Telling =>
         (j \in DOMAIN task /\ task[j].pc \in Telling) \/ Due(j[3])
    /\ \A j \in DOMAIN task' : task'[j].pc = "snap" => j \in DOMAIN task /\ task'[j] = task[j]

LEMMA AlertsHush ==
    ASSUME Alerts, shown \in Seq(States), UNCHANGED <<last, shown>>, LostSame, Hush PROVE Alerts'
<1>1. \A n \in Nat : KnownBefore(n)' = KnownBefore(n)
  BY DEF KnownBefore, LostSame
<1>2. \A n \in Nat : n # 0 => SameBefore(n)
  BY <1>1 DEF SameBefore
<1>3. Len(shown) \in Nat /\ Len(shown)' = Len(shown) /\ (Len(shown) > 0 => Len(shown) \in Nat \ {0})
  OBVIOUS
<1>4. \A n \in Nat : n # 0 => Before(n)' = Before(n)
  BY <1>2, BeforeSame
<1>5. AlertsAlternate'
  <2>1. \A n \in 1..Len(shown) : Right(n)
    BY AlternateIs DEF Alerts
  <2>2. \A n \in 1..Len(shown) : Right(n)'
    BY <1>2, <2>1, RightSame
  <2>3. AlertsAlternate' <=> \A n \in 1..Len(shown)' : Right(n)'
    BY DEF AlertsAlternate, Right, Before, KnownBefore
  <2> QED BY <1>3, <2>2, <2>3
<1>6. \A m : <<"alert", m>> \in lost' => m \in 1..Len(shown')
  BY DEF Alerts, LostSame
<1>7. \A k \in DOMAIN task' : k[1] = "alert" /\ task'[k].pc \in Telling => Due(k[3])'
  BY DEF Alerts, Hush, Due
<1>8. \A k \in DOMAIN task' : task'[k].pc = "told" =>
         /\ task'[k].c = Len(shown') /\ task'[k].c > 0 /\ shown'[task'[k].c] = k[3]
         /\ <<"alert", task'[k].c>> \notin lost' /\ last' = Before(Len(shown))'
  <2>1. SUFFICES ASSUME NEW k \in DOMAIN task', task'[k].pc = "told"
                 PROVE  /\ task'[k].c = Len(shown') /\ task'[k].c > 0 /\ shown'[task'[k].c] = k[3]
                        /\ <<"alert", task'[k].c>> \notin lost' /\ last' = Before(Len(shown))'
    OBVIOUS
  <2>2. k \in DOMAIN task /\ task'[k] = task[k]
    BY <2>1 DEF Hush
  <2>3. /\ task[k].c = Len(shown) /\ task[k].c > 0 /\ shown[task[k].c] = k[3]
        /\ <<"alert", task[k].c>> \notin lost /\ last = Before(Len(shown))
    BY <2>1, <2>2 DEF Alerts
  <2>4. PICK n : n = Len(shown)
    OBVIOUS
  <2>5. n \in Nat /\ n # 0 /\ n = Len(shown')
    BY <1>3, <2>3, <2>4
  <2>6. last = Before(n) /\ Before(n)' = Before(n)
    BY <1>4, <2>3, <2>4, <2>5
  <2>7. Before(Len(shown))' = Before(n)'
    BY <2>5
  <2> QED BY <2>2, <2>3, <2>6, <2>7 DEF LostSame
<1>9. (\A k \in DOMAIN task' : task'[k].pc # "told") => last' = Before(Len(shown) + 1)'
  <2>1. SUFFICES ASSUME \A k \in DOMAIN task' : task'[k].pc # "told" PROVE last' = Before(Len(shown) + 1)'
    OBVIOUS
  <2>2. \A k \in DOMAIN task : task[k].pc # "told"
    BY <2>1 DEF Hush
  <2>3. last = Before(Len(shown) + 1)
    BY <2>2 DEF Alerts
  <2>4. PICK n : n = Len(shown) + 1
    OBVIOUS
  <2>5. n \in Nat /\ n # 0 /\ n = Len(shown') + 1
    BY <1>3, <2>4
  <2>6. last = Before(n) /\ Before(n)' = Before(n)
    BY <1>4, <2>3, <2>4, <2>5
  <2>7. Before(Len(shown) + 1)' = Before(n)'
    BY <2>5
  <2> QED BY <2>6, <2>7
<1> QED BY <1>5, <1>6, <1>7, <1>8, <1>9 DEF Alerts

LEMMA SnapsHush ==
    ASSUME Snaps, UNCHANGED snaps, aside \subseteq aside', Hush PROVE Snaps'
<1>1. \A i : DeletedAside(i) => DeletedAside(i)'
  BY DEF DeletedAside
<1>2. SnapshotOnce'
  BY <1>1 DEF SnapshotOnce, Snaps
<1>3. ASSUME NEW k \in DOMAIN task', task'[k].pc = "snap", ~task'[k].sys, task'[k].c \in Ids
      PROVE  snaps'[task'[k].c] = 0 \/ DeletedAside(task[k].c)'
  <2>1. k \in DOMAIN task /\ task'[k] = task[k]
    BY <1>3 DEF Hush
  <2>2. PICK i : i = task[k].c
    OBVIOUS
  <2>3. snaps[i] = 0 \/ DeletedAside(i)
    BY <1>3, <2>1, <2>2 DEF Snaps
  <2>4. snaps'[i] = 0 \/ DeletedAside(i)'
    BY <1>1, <2>3
  <2>5. i = task'[k].c
    BY <2>1, <2>2
  <2> QED BY <2>4, <2>5
<1> QED BY <1>2, <1>3 DEF Snaps

Silent(k) ==
    /\ Only(k) /\ task[k].pc # "told" /\ task'[k].pc \notin {"told", "snap"}
    /\ k[1] = "alert" /\ task'[k].pc \in Telling => task[k].pc \in Telling \/ Due(k[3])
LEMMA SilentHush == ASSUME NEW k \in DOMAIN task, Silent(k) PROVE Hush
<1>1. /\ Only(k) /\ task[k].pc # "told" /\ task'[k].pc \notin {"told", "snap"}
      /\ k[1] = "alert" /\ task'[k].pc \in Telling => task[k].pc \in Telling \/ Due(k[3])
  BY DEF Silent
<1>2. \A j \in DOMAIN task' \ DOMAIN task : task'[j].pc \notin Telling \cup {"told", "snap"}
  BY <1>1 DEF Only, Telling, Shared
<1>3. DOMAIN task \subseteq DOMAIN task' /\ \A j \in DOMAIN task : j # k => task'[j] = task[j]
  BY <1>1 DEF Only
<1> QED BY <1>1, <1>2, <1>3 DEF Hush

LEMMA AddsHush == ASSUME Adds PROVE Hush
<1>1. \A j \in DOMAIN task' \ DOMAIN task : task'[j].pc \notin Telling \cup {"told", "snap"}
  BY DEF Adds, Telling, Shared
<1> QED BY <1>1 DEF Adds, Hush

LEMMA StopsSilent == ASSUME NEW k, Stops(k), task[k].pc # "told" PROVE Silent(k)
BY DEF Stops, Silent, Telling, Shared

LEMMA StepsSilent ==
    ASSUME NEW k, task[k].pc # "told", NEW pc, pc \notin {"told", "snap"},
           Steps(k, pc) \/ \E c : Jumps(k, pc, c),
           k[1] = "alert" /\ pc \in Telling => task[k].pc \in Telling \/ Due(k[3])
    PROVE  Silent(k)
BY DEF Steps, Jumps, Silent

LEMMA HookSilent ==
    ASSUME NEW k \in AnyHook, Only(k), task[k].pc # "told", task'[k].pc \notin {"told", "snap"} PROVE Silent(k)
BY KeyKinds DEF Silent

LEMMA ReadyIdle == ASSUME NEW k, Ready(k) PROVE task[k].pc = "idle"
BY DEF Ready, Running

LEMMA InboxHush ==
    ASSUME Base, NEW k \in DOMAIN task,
           FindInbox(k) \/ NewInbox(k) \/ FindConv(k) \/ NewConv(k) \/ MapConv(k) \/ ResolveOld(k)
    PROVE  Silent(k)
<1>0. Tidy /\ rconv \in Seq(Nat) /\ bind \in Nat /\ cmap \in Nat
  BY DEF Base, TypedWorld
<1>1. task[k].pc \in Shared /\ task[k].pc \in Telling /\ task[k].pc # "told"
  BY DEF FindInbox, NewInbox, FindConv, NewConv, MapConv, ResolveOld, Shared, Telling
<1>2. PICK pc : pc \notin {"told", "snap"} /\ (Stops(k) \/ Steps(k, pc) \/ \E c : Jumps(k, pc, c))
  <2>1. CASE FindInbox(k)
    BY <1>0, <2>1, FindInboxStep
  <2>2. CASE NewInbox(k)
    BY <1>0, <2>2, NewInboxStep
  <2>3. CASE FindConv(k)
    BY <1>0, <2>3, FindConvStep, AfterStage
  <2>4. CASE NewConv(k)
    <3>1. PICK c : c = Len(rconv) + 1
      OBVIOUS
    <3>2. Stops(k) \/ Jumps(k, "mapconv", c)
      BY <1>0, <2>4, <3>1, NewConvStep
    <3> QED BY <3>2
  <2>5. CASE MapConv(k)
    BY <1>0, <2>5, MapConvStep
  <2>6. CASE ResolveOld(k)
    BY <1>0, <2>6, ResolveOldStep, AfterStage
  <2> QED BY <2>1, <2>2, <2>3, <2>4, <2>5, <2>6
<1> QED BY <1>1, <1>2, StopsSilent, StepsSilent

LEMMA MoveHush ==
    ASSUME Base, NEW k \in DOMAIN task,
           EndMeta(k) \/ TakeMeta(k) \/ TakeStatus(k) \/ TakeAlert(k) \/ FindPlace(k) \/ NewPlace(k) \/ RecordPlace(k)
    PROVE  Silent(k)
<1>0. Tidy
  BY DEF Base
<1>1. CASE EndMeta(k)
  BY <1>0, <1>1, EndMetaStep, StopsSilent DEF EndMeta
<1>2. CASE TakeMeta(k)
  <2>1. task[k].pc # "told" /\ k[1] = "meta"
    BY <1>2, ReadyIdle DEF TakeMeta
  <2>2. \E pc \in {"inbox", "end"}, c \in {0, 1} : Jumps(k, pc, c)
    BY <1>0, <1>2, TakeMetaStep
  <2> QED BY <2>1, <2>2, StepsSilent
<1>3. CASE TakeStatus(k) \/ TakeAlert(k)
  <2>1. /\ Ready(k) /\ (k[1] = "alert" \/ k[1] = "status")
        /\ Steps(k, "end") \/ (Steps(k, "inbox") /\ (k[1] = "alert" => Due(k[3])))
    BY <1>0, <1>3, TakeAccountStep
  <2>2. task[k].pc # "told" /\ "end" \notin Telling
    BY <2>1, ReadyIdle DEF Telling, Shared
  <2> QED BY <2>1, <2>2, StepsSilent
<1>4. CASE FindPlace(k) \/ NewPlace(k) \/ RecordPlace(k)
  <2>1. /\ task[k].pc \in {"place", "newplace", "setplace"}
        /\ Stops(k) \/ \E pc \in {"newplace", "setplace", "alert"} : Steps(k, pc)
    BY <1>0, <1>4, PlaceStep
  <2>2. task[k].pc \in Telling /\ task[k].pc # "told"
    BY <2>1 DEF Telling
  <2> QED BY <2>1, <2>2, StopsSilent, StepsSilent
<1> QED BY <1>1, <1>2, <1>3, <1>4

LEMMA LocalHush ==
    ASSUME Base, NEW k \in DOMAIN task,
           TakeLocal(k) \/ PostMessage(k) \/ RecordMirror(k) \/ RecordRecalled(k)
    PROVE  Silent(k)
<1>0. Tidy /\ TypedRows /\ TypedWorld
  BY DEF Base
<1>1. CASE TakeLocal(k)
  <2>1. /\ k \in LocalKeys /\ Ready(k)
        /\ \/ Stops(k)
           \/ /\ LocalGoes(k[2]) \in {"look", "inbox"}
              /\ Jumps(k, LocalGoes(k[2]), MapOf(k[2]).c)
    BY <1>0, <1>1, TakeLocalStep
  <2>2. task[k].pc # "told" /\ k[1] # "alert"
    BY <2>1, ReadyIdle, KeyKinds
  <2>3. PICK pc, c : Stops(k) \/ (pc \in {"look", "inbox"} /\ Jumps(k, pc, c))
    BY <2>1
  <2> QED BY <2>2, <2>3, StopsSilent, StepsSilent
<1>2. CASE PostMessage(k)
  <2>0. PICK c : c = Len(cw) + 1
    OBVIOUS
  <2>1. /\ k \in LocalKeys /\ task[k].pc = "post"
        /\ Jumps(k, "map", c) \/ Stops(k)
    BY <1>0, <1>2, <2>0, PostMessageStep
  <2>2. task[k].pc # "told" /\ k[1] # "alert"
    BY <2>1, KeyKinds
  <2>3. CASE Jumps(k, "map", c)
    BY <2>2, <2>3 DEF Jumps, Silent
  <2> QED BY <2>1, <2>2, <2>3, StopsSilent
<1>3. CASE RecordMirror(k) \/ RecordRecalled(k)
  <2>1. Stops(k) /\ task[k].pc # "told"
    BY <1>0, <1>3, EndMetaStep DEF RecordMirror, RecordRecalled
  <2> QED BY <2>1, StopsSilent
<1> QED BY <1>1, <1>2, <1>3

LEMMA HookHush ==
    ASSUME Base, NEW k \in DOMAIN task,
           TakeIgnored(k) \/ TakeResolved(k) \/ TakeOver(k) \/ TakeCreated(k) \/ SendPiece(k) \/ PieceAnswered(k)
           \/ TakeDeleted(k) \/ RecallsDone(k)
    PROVE  Silent(k)
<1>0. Tidy /\ TypedRows
  BY DEF Base
<1>1. CASE TakeIgnored(k) \/ TakeResolved(k) \/ TakeOver(k)
  <2>1. Stops(k) /\ task[k].pc # "told"
    BY <1>0, <1>1, HookTakenStep, ReadyIdle DEF TakeIgnored, TakeResolved, TakeOver, Takes
  <2> QED BY <2>1, StopsSilent
<1>2. CASE TakeCreated(k)
  <2>1. k \in HookKeys /\ Ready(k) /\ (Stops(k) \/ Sends(k, k[2][2]))
    BY <1>0, <1>2, TakeCreatedStep
  <2>2. k \in AnyHook /\ task[k].pc # "told"
    BY <2>1, ReadyIdle, KeyKinds
  <2>3. CASE Sends(k, k[2][2])
    BY <2>2, <2>3, HookSilent DEF Sends
  <2> QED BY <2>1, <2>2, <2>3, StopsSilent
<1>3. CASE SendPiece(k) \/ PieceAnswered(k)
  <2>1. /\ task[k].pc \in {"send", "wait"}
        /\ \/ Steps(k, "wait") \/ \E pk, ok : Gets(k, pk, ok)
    BY <1>0, <1>3, SendPieceStep, PieceAnsweredStep
  <2>2. k \in AnyHook
    BY <1>0, <2>1, TidyTask, HookGoes DEF Fits
  <2>3. Only(k) /\ task'[k].pc \notin {"told", "snap"}
    BY <2>1 DEF Steps, Gets
  <2> QED BY <2>1, <2>2, <2>3, HookSilent
<1>4. CASE TakeDeleted(k)
  <2>1. k \in HookKeys /\ Ready(k) /\ (Stops(k) \/ Reads(k, k[2][2]))
    BY <1>0, <1>4, TakeDeletedStep
  <2>2. k \in AnyHook /\ task[k].pc # "told"
    BY <2>1, ReadyIdle, KeyKinds
  <2>3. CASE Reads(k, k[2][2])
    BY <2>2, <2>3, HookSilent DEF Reads
  <2> QED BY <2>1, <2>2, <2>3, StopsSilent
<1>5. CASE RecallsDone(k)
  <2>1. task[k].pc = "recall" /\ k \in AnyHook /\ (Stops(k) \/ Steps(k, "look"))
    BY <1>0, <1>5, RecallsDoneStep
  <2>2. CASE Steps(k, "look")
    BY <2>1, <2>2, HookSilent DEF Steps
  <2> QED BY <2>1, <2>2, StopsSilent
<1> QED BY <1>1, <1>2, <1>3, <1>4, <1>5

LEMMA PartsHush ==
    ASSUME Base, NEW k \in DOMAIN task, NEW x,
           \/ x \in task[k].todo /\ RecordPiece(k, x)
           \/ FinishRecall(k, x)
           \/ RecallHandled(k, x) \/ RecallSucceeds(k, x) \/ RecallFails(k, x) \/ NoteRecall(k, x)
    PROVE  Silent(k)
<1>0. Tidy /\ TypedRows
  BY DEF Base
<1>1. CASE x \in task[k].todo /\ RecordPiece(k, x)
  <2>1. /\ task[k].pc = "map" /\ k \in AnyHook
        /\ \/ \E todo, yes, no : Sets(k, todo, yes, no)
           \/ Stops(k) \/ Steps(k, "takeover")
    BY <1>0, <1>1, RecordPieceStep
  <2>2. Only(k) /\ task'[k].pc \notin {"told", "snap"}
    BY <2>1 DEF Sets, Stops, Steps
  <2> QED BY <2>1, <2>2, HookSilent
<1>2. CASE FinishRecall(k, x)
  <2>1. /\ task[k].pc = "final" /\ k \in AnyHook
        /\ Stops(k) \/ \E todo, yes, no : Sets(k, todo, yes, no)
    BY <1>0, <1>2, FinishRecallStep
  <2>2. Only(k) /\ task'[k].pc \notin {"told", "snap"}
    BY <2>1 DEF Sets, Stops
  <2> QED BY <2>1, <2>2, HookSilent
<1>3. CASE RecallHandled(k, x) \/ RecallSucceeds(k, x) \/ RecallFails(k, x) \/ NoteRecall(k, x)
  <2>1. Picks(k, x)
    BY <1>3 DEF RecallHandled, RecallSucceeds, RecallFails, NoteRecall, RecallOpen
  <2>2. x[1] \in DOMAIN row
    BY <2>1, ItemsBacked
  <2>3. task[k].pc = "recall" /\ k \in AnyHook
    BY <1>0, <2>1, PicksItem
  <2>4. \E todo, yes, no : Sets(k, todo, yes, no)
    BY <1>0, <1>3, <2>2, RecallHandledStep, RecallSucceedsStep, RecallFailsStep, NoteRecallStep DEF Outcome
  <2>5. Only(k) /\ task'[k].pc \notin {"told", "snap"}
    BY <2>3, <2>4 DEF Sets
  <2> QED BY <2>3, <2>5, HookSilent
<1> QED BY <1>1, <1>2, <1>3

-----------------------------------------------------------------------------
(* Every step keeps Alerts and Snaps.                                      *)

Told == Alerts /\ Snaps
Frame == UNCHANGED <<last, shown, snaps>> /\ LostSame /\ aside \subseteq aside'

LEMMA ToldHush == ASSUME Base, Told, Frame, Hush PROVE Told'
<1>1. Alerts'
  BY AlertsHush DEF Told, Frame, Base, TypedWorld
<1>2. Snaps'
  BY SnapsHush DEF Told, Frame
<1> QED BY <1>1, <1>2 DEF Told

LEMMA ToldSilent == ASSUME Base, Told, Frame, NEW k \in DOMAIN task, Silent(k) PROVE Told'
BY ToldHush, SilentHush

(* The tasks that announce run one at a time.                              *)
LEMMA OneAlert ==
    ASSUME Tidy, NEW j \in DOMAIN task, NEW k \in DOMAIN task, task[j].pc # "idle", task[k].pc # "idle",
           j[1] = "alert", k[1] = "alert"
    PROVE  j = k
<1>1. ~task[j].sys /\ ~task[k].sys
  BY TidyTask, KeyKinds DEF Fits
<1> QED BY <1>1 DEF Tidy, Lane

LEMMA PostAlertTold == ASSUME Base, Told, NEW k \in DOMAIN task, PostAlert(k) PROVE Told'
<1>0. Tidy /\ shown \in Seq(States) /\ Alerts /\ Snaps
  BY DEF Base, TypedWorld, Told
<1>1. /\ k[1] = "alert" /\ task[k].pc = "alert"
      /\ \/ Jumps(k, "told", Len(shown) + 1) /\ UNCHANGED lost
         \/ Stops(k) /\ lost' = lost \cup {<<"alert", Len(shown) + 1>>}
  BY <1>0, PostAlertStep
<1>2. shown' = Append(shown, k[3]) /\ UNCHANGED <<last, snaps, aside>>
  BY DEF PostAlert, mapping
<1>3. k[3] \in States
  BY <1>0, <1>1, KeyKinds DEF Tidy, TypedTasks
<1>4. PICK n \in Nat : n = Len(shown)
  BY <1>0
<1>5. Len(shown') = n + 1 /\ shown'[n + 1] = k[3] /\ \A m \in 1..n : shown'[m] = shown[m]
  BY <1>0, <1>2, <1>3, <1>4
<1>6. \A j \in DOMAIN task : j # k => task[j].pc # "told" /\ ~(j[1] = "alert" /\ task[j].pc \in Telling)
  <2>1. ASSUME NEW j \in DOMAIN task, task[j].pc = "told" \/ (j[1] = "alert" /\ task[j].pc \in Telling)
        PROVE  j = k
    <3>1. j[1] = "alert" /\ task[j].pc # "idle"
      BY <1>0, <2>1, FitsAs DEF Telling, Shared
    <3> QED BY <1>0, <1>1, <3>1, OneAlert
  <2> QED BY <2>1
<1>7. last = Before(n + 1) /\ Due(k[3])
  BY <1>0, <1>1, <1>4, <1>6 DEF Alerts, Telling
<1>8. \A m \in Nat : <<"alert", m>> \in lost' => <<"alert", m>> \in lost \/ m = n + 1
  BY <1>1, <1>4
<1>9. \A m \in 1..n : <<"alert", m>> \in lost' <=> <<"alert", m>> \in lost
  BY <1>1, <1>4
<1>10. \A m \in Nat : m \in 1..(n + 1) => KnownBefore(m)' = KnownBefore(m)
  BY <1>9 DEF KnownBefore
<1>11. \A m \in 1..(n + 1) : SameBefore(m)
  BY <1>5, <1>10 DEF SameBefore
<1>12. \A m \in 1..(n + 1) : Before(m)' = Before(m)
  BY <1>11, BeforeSame
<1>13. AlertsAlternate'
  <2>1. \A m \in 1..n : Right(m)
    BY <1>0, <1>4, AlternateIs DEF Alerts
  <2>2. \A m \in 1..n : Right(m)'
    BY <1>5, <1>11, <2>1, RightSame
  <2>3. Right(n + 1)'
    <3>1. PICK v : v = n + 1
      OBVIOUS
    <3>2. Before(v)' = Before(v) /\ last = Before(v) /\ shown'[v] = k[3]
      BY <1>5, <1>7, <1>12, <3>1
    <3>3. Right(v)'
      BY <1>7, <3>2 DEF Right, Due
    <3> QED BY <3>1, <3>3
  <2>4. AlertsAlternate' <=> \A m \in 1..Len(shown)' : Right(m)'
    BY DEF AlertsAlternate, Right, Before, KnownBefore
  <2>5. \A m \in 1..(n + 1) : m \in 1..n \/ m = n + 1
    OBVIOUS
  <2> QED BY <1>5, <2>2, <2>3, <2>4, <2>5
<1>14. \A m : <<"alert", m>> \in lost' => m \in 1..Len(shown')
  <2>1. \A m : <<"alert", m>> \in lost => m \in 1..n
    BY <1>0, <1>4 DEF Alerts
  <2> QED BY <1>1, <1>4, <1>5, <2>1
<1>15. CASE Jumps(k, "told", Len(shown) + 1) /\ UNCHANGED lost
  <2>1. Only(k) /\ task'[k].pc = "told" /\ task'[k].c = n + 1
    BY <1>4, <1>15 DEF Jumps
  <2>2. \A j \in DOMAIN task' : j = k \/ (j \in DOMAIN task /\ task'[j] = task[j]) \/ task'[j].pc = "idle"
    BY <2>1 DEF Only
  <2>3. \A j \in DOMAIN task' : task'[j].pc = "told" => j = k
    BY <1>6, <2>2
  <2>4. \A j \in DOMAIN task' : ~(j[1] = "alert" /\ task'[j].pc \in Telling)
    BY <1>6, <2>1, <2>2 DEF Telling, Shared
  <2>5. k \in DOMAIN task'
    BY <2>1 DEF Only
  <2>6. <<"alert", n + 1>> \notin lost'
    BY <1>0, <1>4, <1>15 DEF Alerts
  <2>7. last' = Before(Len(shown))'
    <3>1. PICK v : v = n + 1
      OBVIOUS
    <3>2. Before(v)' = last /\ Len(shown') = v
      BY <1>5, <1>7, <1>12, <3>1
    <3> QED BY <1>2, <3>2
  <2>8. Alerts'
    BY <1>5, <1>13, <1>14, <2>1, <2>3, <2>4, <2>5, <2>6, <2>7 DEF Alerts
  <2>9. Snaps'
    <3>1. \A j \in DOMAIN task' : task'[j].pc = "snap" => j \in DOMAIN task /\ task'[j] = task[j]
      BY <2>1, <2>2
    <3>2. SnapshotOnce'
      BY <1>0, <1>2 DEF Snaps, SnapshotOnce, DeletedAside
    <3> QED BY <1>0, <1>2, <3>1, <3>2 DEF Snaps, DeletedAside
  <2> QED BY <2>8, <2>9 DEF Told
<1>16. CASE Stops(k) /\ lost' = lost \cup {<<"alert", Len(shown) + 1>>}
  <2>1. Only(k) /\ task'[k].pc \in {"idle", "retry"}
    BY <1>16 DEF Stops
  <2>2. \A j \in DOMAIN task' : j = k \/ (j \in DOMAIN task /\ task'[j] = task[j]) \/ task'[j].pc = "idle"
    BY <2>1 DEF Only
  <2>3. \A j \in DOMAIN task' : task'[j].pc # "told"
    BY <1>6, <2>1, <2>2
  <2>4. \A j \in DOMAIN task' : ~(j[1] = "alert" /\ task'[j].pc \in Telling)
    BY <1>6, <2>1, <2>2 DEF Telling, Shared
  <2>5. last' = Before(Len(shown) + 1)'
    <3>1. PICK v, w : v = n + 1 /\ w = n + 2
      OBVIOUS
    <3>2. <<"alert", v>> \in lost'
      BY <1>4, <1>16, <3>1
    <3>3. KnownBefore(w)' = KnownBefore(v)'
      BY <3>1, <3>2 DEF KnownBefore
    <3>4. Before(w)' = Before(v)'
      BY <3>3 DEF Before
    <3>5. Before(v)' = last /\ Len(shown') + 1 = w
      BY <1>5, <1>7, <1>12, <3>1
    <3> QED BY <1>2, <3>4, <3>5
  <2>8. Alerts'
    BY <1>13, <1>14, <2>3, <2>4, <2>5 DEF Alerts
  <2>9. Snaps'
    <3>1. \A j \in DOMAIN task' : task'[j].pc = "snap" => j \in DOMAIN task /\ task'[j] = task[j]
      BY <2>1, <2>2
    <3>2. SnapshotOnce'
      BY <1>0, <1>2 DEF Snaps, SnapshotOnce, DeletedAside
    <3> QED BY <1>0, <1>2, <3>1, <3>2 DEF Snaps, DeletedAside
  <2> QED BY <2>8, <2>9 DEF Told
<1> QED BY <1>1, <1>15, <1>16

LEMMA RecordAlertTold == ASSUME Base, Told, NEW k \in DOMAIN task, RecordAlert(k) PROVE Told'
<1>0. Tidy /\ shown \in Seq(States) /\ Alerts /\ Snaps
  BY DEF Base, TypedWorld, Told
<1>1. Stops(k) /\ task[k].pc = "told" /\ last' = k[3] /\ UNCHANGED <<shown, snaps, aside, lost>>
  BY <1>0, EndMetaStep DEF RecordAlert, remote, history
<1>2. k[1] = "alert"
  BY <1>0, <1>1, FitsAs
<1>3. Only(k) /\ task'[k].pc \in {"idle", "retry"}
  BY <1>1 DEF Stops
<1>4. \A j \in DOMAIN task : j # k => task[j].pc # "told" /\ ~(j[1] = "alert" /\ task[j].pc \in Telling)
  <2>1. ASSUME NEW j \in DOMAIN task, task[j].pc = "told" \/ (j[1] = "alert" /\ task[j].pc \in Telling)
        PROVE  j = k
    <3>1. j[1] = "alert" /\ task[j].pc # "idle"
      BY <1>0, <2>1, FitsAs DEF Telling, Shared
    <3> QED BY <1>0, <1>1, <1>2, <3>1, OneAlert
  <2> QED BY <2>1
<1>5. \A j \in DOMAIN task' : j = k \/ (j \in DOMAIN task /\ task'[j] = task[j]) \/ task'[j].pc = "idle"
  BY <1>3 DEF Only
<1>6. \A j \in DOMAIN task' : task'[j].pc # "told" /\ ~(j[1] = "alert" /\ task'[j].pc \in Telling)
  BY <1>3, <1>4, <1>5 DEF Telling, Shared
<1>7. PICK n \in Nat : n = Len(shown)
  BY <1>0
<1>8. n > 0 /\ shown[n] = k[3] /\ <<"alert", n>> \notin lost
  BY <1>0, <1>1, <1>7 DEF Alerts
<1>9. last' = Before(Len(shown) + 1)'
  <2>1. PICK v : v = n + 1
    OBVIOUS
  <2>2. PICK S : S = KnownBefore(v)'
    OBVIOUS
  <2>3. S \in SUBSET (1..n) /\ n \in S
    BY <1>1, <1>8, <2>1, <2>2 DEF KnownBefore
  <2>4. Top(S) = n
    BY <2>3, TopIs
  <2>5. Before(v)' = shown'[Top(S)]
    BY <2>2, <2>3 DEF Before, Top
  <2>6. v = Len(shown') + 1
    BY <1>1, <1>7, <2>1
  <2> QED BY <1>1, <1>8, <2>4, <2>5, <2>6
<1>10. AlertsAlternate'
  <2>1. \A m : KnownBefore(m)' = KnownBefore(m)
    BY <1>1 DEF KnownBefore
  <2>2. \A m \in 1..n : Right(m)
    BY <1>0, <1>7, AlternateIs DEF Alerts
  <2>3. \A m \in 1..n : Right(m)'
    BY <1>1, <2>1, <2>2, RightSame DEF SameBefore
  <2>4. AlertsAlternate' <=> \A m \in 1..Len(shown)' : Right(m)'
    BY DEF AlertsAlternate, Right, Before, KnownBefore
  <2> QED BY <1>1, <1>7, <2>3, <2>4
<1>11. Alerts'
  BY <1>0, <1>1, <1>6, <1>9, <1>10 DEF Alerts
<1>12. Snaps'
  <2>1. \A j \in DOMAIN task' : task'[j].pc = "snap" => j \in DOMAIN task /\ task'[j] = task[j]
    BY <1>3, <1>5
  <2>2. SnapshotOnce'
    BY <1>0, <1>1 DEF Snaps, SnapshotOnce, DeletedAside
  <2> QED BY <1>0, <1>1, <2>1, <2>2 DEF Snaps, DeletedAside
<1> QED BY <1>11, <1>12 DEF Told

LEMMA CrashTold == ASSUME Base, Told, WorkerCrashes PROVE Told'
<1>0. Tidy /\ shown \in Seq(States) /\ Alerts /\ Snaps
  BY DEF Base, TypedWorld, Told
<1>1. UNCHANGED <<last, shown, snaps, aside>> /\ \A j \in DOMAIN task' : task'[j].pc = "idle"
  BY <1>0, CrashStep DEF WorkerCrashes, remote, mapping, Halts
<1>2. /\ \A x : x \in lost => x \in lost'
      /\ \A x \in lost' : x \in lost \/ \E j \in DOMAIN task : task[j].pc \in {"map", "told"} /\ x = <<j[1], task[j].c>>
      /\ \A j \in DOMAIN task : task[j].pc = "told" => <<j[1], task[j].c>> \in lost'
  BY DEF WorkerCrashes, Running
<1>3. PICK n \in Nat : n = Len(shown)
  BY <1>0
<1>4. ASSUME NEW m, <<"alert", m>> \in lost', <<"alert", m>> \notin lost
      PROVE  m = n /\ n > 0 /\ \E j \in DOMAIN task : task[j].pc = "told"
  <2>1. PICK j \in DOMAIN task : task[j].pc \in {"map", "told"} /\ <<"alert", m>> = <<j[1], task[j].c>>
    BY <1>2, <1>4
  <2>2. j[1] = "alert" /\ task[j].c = m
    BY <2>1
  <2>3. task[j].pc # "map"
    BY <1>0, <2>2, TidyTask, KeyKinds DEF Fits, Creation
  <2> QED BY <1>0, <1>3, <2>1, <2>2, <2>3 DEF Alerts
<1>5. \A m \in 1..n : KnownBefore(m)' = KnownBefore(m)
  BY <1>2, <1>4 DEF KnownBefore
<1>6. AlertsAlternate'
  <2>2. \A m \in 1..n : Right(m)
    BY <1>0, <1>3, AlternateIs DEF Alerts
  <2>3. \A m \in 1..n : Right(m)'
    BY <1>1, <1>5, <2>2, RightSame DEF SameBefore
  <2>4. AlertsAlternate' <=> \A m \in 1..Len(shown)' : Right(m)'
    BY DEF AlertsAlternate, Right, Before, KnownBefore
  <2> QED BY <1>1, <1>3, <2>3, <2>4
<1>7. last' = Before(Len(shown) + 1)'
  <2>1. PICK v : v = n + 1
    OBVIOUS
  <2>2. v = Len(shown') + 1 /\ v \in Nat \ {0}
    BY <1>1, <1>3, <2>1
  <2>3. CASE \E j \in DOMAIN task : task[j].pc = "told"
    <3>1. PICK j \in DOMAIN task : task[j].pc = "told"
      BY <2>3
    <3>2. j[1] = "alert" /\ task[j].c = n /\ n > 0 /\ last = Before(n)
      BY <1>0, <1>3, <3>1, FitsAs DEF Alerts
    <3>3. <<"alert", n>> \in lost'
      BY <1>2, <3>1, <3>2
    <3>4. KnownBefore(v)' = KnownBefore(n)'
      BY <2>1, <3>3 DEF KnownBefore
    <3>5. Before(v)' = Before(n)'
      BY <3>4 DEF Before
    <3>6. SameBefore(n)
      BY <1>1, <1>5, <3>2 DEF SameBefore
    <3>7. Before(n)' = Before(n)
      BY <3>2, <3>6, BeforeSame
    <3> QED BY <1>1, <2>2, <3>2, <3>5, <3>7
  <2>4. CASE ~ \E j \in DOMAIN task : task[j].pc = "told"
    <3>1. last = Before(v)
      BY <1>0, <1>3, <2>1, <2>4 DEF Alerts
    <3>2. SameBefore(v)
      BY <1>1, <1>2, <1>4, <2>4 DEF SameBefore, KnownBefore
    <3>3. Before(v)' = Before(v)
      BY <2>2, <3>2, BeforeSame
    <3> QED BY <1>1, <2>2, <3>1, <3>3
  <2> QED BY <2>3, <2>4
<1>8. \A m : <<"alert", m>> \in lost' => m \in 1..Len(shown')
  <2>1. \A m : <<"alert", m>> \in lost => m \in 1..n
    BY <1>0, <1>3 DEF Alerts
  <2> QED BY <1>1, <1>3, <1>4, <2>1
<1>9. Alerts'
  BY <1>1, <1>6, <1>7, <1>8 DEF Alerts, Telling, Shared
<1>10. Snaps'
  <2>2. SnapshotOnce'
    BY <1>0, <1>1 DEF Snaps, SnapshotOnce, DeletedAside
  <2> QED BY <1>1, <2>2 DEF Snaps
<1> QED BY <1>9, <1>10 DEF Told

(* The tasks that announce stay as they are beside task k.                 *)
LEMMA SnapAlerts ==
    ASSUME Base, Told, NEW k \in DOMAIN task, LookForSnapshot(k) \/ CreateSnapshot(k)
    PROVE  Alerts'
<1>0. Tidy /\ shown \in Seq(States) /\ Alerts
  BY DEF Base, TypedWorld, Told
<1>1. UNCHANGED <<last, shown, lost>>
  BY DEF LookForSnapshot, CreateSnapshot, Goes, remote, mapping, history
<1>2. task[k].pc \in {"look", "snap"} /\ Only(k) /\ task'[k].pc \in {"idle", "retry", "final", "snap"}
  BY <1>0, SnapshotStep DEF Steps, Stops
<1>3. \A j \in DOMAIN task' : j = k \/ (j \in DOMAIN task /\ task'[j] = task[j]) \/ task'[j].pc = "idle"
  BY <1>2 DEF Only
<1>4. DOMAIN task \subseteq DOMAIN task' /\ \A j \in DOMAIN task : j # k => task'[j] = task[j]
  BY <1>2 DEF Only
<1>5. k \in LocalKeys \/ k \in AnyHook
  BY <1>0, <1>2, TidyTask, HookGoes DEF Fits
<1>6. k[1] # "alert"
  BY <1>5, KeyKinds
<1>7. PICK n \in Nat : n = Len(shown)
  BY <1>0
<1>8. \A m : KnownBefore(m)' = KnownBefore(m)
  BY <1>1 DEF KnownBefore
<1>9. \A m : m \in Nat \ {0} => Before(m)' = Before(m)
  BY <1>1, <1>8, BeforeSame DEF SameBefore
<1>10. AlertsAlternate'
  <2>2. \A m \in 1..n : Right(m)
    BY <1>0, <1>7, AlternateIs DEF Alerts
  <2>3. \A m \in 1..n : Right(m)'
    BY <1>1, <1>8, <2>2, RightSame DEF SameBefore
  <2>4. AlertsAlternate' <=> \A m \in 1..Len(shown)' : Right(m)'
    BY DEF AlertsAlternate, Right, Before, KnownBefore
  <2> QED BY <1>1, <1>7, <2>3, <2>4
<1>11. ASSUME NEW j \in DOMAIN task', task'[j].pc = "told"
       PROVE  /\ task'[j].c = Len(shown') /\ task'[j].c > 0 /\ shown'[task'[j].c] = j[3]
              /\ <<"alert", task'[j].c>> \notin lost' /\ last' = Before(Len(shown))'
  <2>1. j \in DOMAIN task /\ task'[j] = task[j]
    BY <1>2, <1>3, <1>11
  <2>2. /\ task[j].c = n /\ task[j].c > 0 /\ shown[task[j].c] = j[3]
        /\ <<"alert", task[j].c>> \notin lost /\ last = Before(n)
    BY <1>0, <1>7, <1>11, <2>1 DEF Alerts
  <2>3. Before(n)' = Before(n) /\ n = Len(shown')
    BY <1>1, <1>7, <1>9, <2>2
  <2> QED BY <1>1, <2>1, <2>2, <2>3
<1>12. (\A j \in DOMAIN task' : task'[j].pc # "told") => last' = Before(Len(shown) + 1)'
  <2>1. SUFFICES ASSUME \A j \in DOMAIN task' : task'[j].pc # "told" PROVE last' = Before(Len(shown) + 1)'
    OBVIOUS
  <2>2. \A j \in DOMAIN task : task[j].pc # "told"
    BY <1>2, <1>4, <2>1
  <2>3. PICK v : v = n + 1
    OBVIOUS
  <2>4. last = Before(v) /\ v = Len(shown') + 1
    BY <1>0, <1>1, <1>7, <2>2, <2>3 DEF Alerts
  <2>5. Before(v)' = Before(v)
    BY <1>9, <2>3
  <2> QED BY <1>1, <2>4, <2>5
<1>13. \A j \in DOMAIN task' : j[1] = "alert" /\ task'[j].pc \in Telling => Due(j[3])'
  <2>1. "idle" \notin Telling
    BY DEF Telling, Shared
  <2> QED BY <1>0, <1>1, <1>3, <1>6, <2>1 DEF Alerts, Due
<1> QED BY <1>0, <1>1, <1>10, <1>11, <1>12, <1>13 DEF Alerts

LEMMA SnapshotTold ==
    ASSUME Base, Told, NEW k \in DOMAIN task, LookForSnapshot(k) \/ CreateSnapshot(k)
    PROVE  Told'
<1>0. Tidy /\ Tidy' /\ snaps \in [Ids -> Nat] /\ Snaps
  BY SnapshotStep DEF Base, TypedWorld, Told
<1>1. UNCHANGED aside
  BY DEF LookForSnapshot, CreateSnapshot, Goes, history
<1>2. task[k].pc \in {"look", "snap"} /\ Only(k) /\ task'[k].pc \in {"idle", "retry", "final", "snap"}
  BY <1>0, SnapshotStep DEF Steps, Stops
<1>3. \A j \in DOMAIN task' : j = k \/ (j \in DOMAIN task /\ task'[j] = task[j]) \/ task'[j].pc = "idle"
  BY <1>2 DEF Only
<1>4. \A i : DeletedAside(i)' <=> DeletedAside(i)
  BY <1>1 DEF DeletedAside
<1>5. CASE LookForSnapshot(k)
  <2>1. UNCHANGED snaps
    BY <1>5 DEF LookForSnapshot, Goes, remote
  <2>2. \/ task'[k].pc = "final"
        \/ task'[k].pc = "snap" /\ task'[k].c = task[k].c /\ ~(snaps[task[k].c] > 0)
    <3>1. task[k].pc = "look" /\ task' = At(k, IF snaps[task[k].c] > 0 THEN "final" ELSE "snap")
      BY <1>5 DEF LookForSnapshot, Goes
    <3>2. task[k] \in Tasks
      BY <1>0, TidyTask
    <3> QED BY <3>1, <3>2 DEF At, Tasks
  <2>3. ASSUME NEW j \in DOMAIN task', task'[j].pc = "snap", ~task'[j].sys, task'[j].c \in Ids
        PROVE  snaps'[task'[j].c] = 0 \/ DeletedAside(task[j].c)'
    <3>1. CASE j = k
      <4>1. task'[k].c = task[k].c /\ ~(snaps[task[k].c] > 0) /\ snaps[task[k].c] \in Nat
        BY <1>0, <2>2, <2>3, <3>1
      <4> QED BY <2>1, <3>1, <4>1
    <3>2. CASE j # k
      <4>1. j \in DOMAIN task /\ task'[j] = task[j]
        BY <1>3, <2>3, <3>2
      <4>2. PICK i : i = task[j].c
        OBVIOUS
      <4>3. snaps[i] = 0 \/ DeletedAside(i)
        BY <1>0, <2>3, <4>1, <4>2 DEF Snaps
      <4>4. snaps'[i] = 0 \/ DeletedAside(i)'
        BY <1>4, <2>1, <4>3
      <4> QED BY <4>1, <4>2, <4>4
    <3> QED BY <3>1, <3>2
  <2>4. SnapshotOnce'
    BY <1>0, <1>4, <2>1 DEF Snaps, SnapshotOnce
  <2>5. Snaps'
    BY <2>3, <2>4 DEF Snaps
  <2> QED BY <2>5, SnapAlerts DEF Told
<1>6. CASE CreateSnapshot(k)
  <2>1. PICK c : c = task[k].c
    OBVIOUS
  <2>2. task[k].pc = "snap" /\ snaps' = [snaps EXCEPT ![c] = @ + 1]
    BY <1>6, <2>1 DEF CreateSnapshot
  <2>3. task'[k].pc # "snap"
    BY <1>0, <1>6, <2>2, SnapshotStep DEF Steps, Stops
  <2>4. k \in LocalKeys \/ Deletion(k, c)
    BY <1>0, <2>1, <2>2, TidyTask DEF Fits
  <2>5. task[k].sys => DeletedAside(c)
    <3>1. ASSUME task[k].sys PROVE k \in aside /\ k \notin LocalKeys
      BY <1>0, <3>1, TidyTask, KeyKinds DEF Tidy, Asides, Fits
    <3> QED BY <2>4, <3>1 DEF Deletion, DeletedAside
  <2>6. c \in Ids => snaps[c] = 0 \/ DeletedAside(c)
    BY <1>0, <2>1, <2>2, <2>5 DEF Snaps
  <2>7. ASSUME NEW i \in Ids PROVE snaps'[i] <= 1 \/ DeletedAside(i)'
    <3>1. CASE i = c
      <4>1. snaps'[c] = snaps[c] + 1
        BY <1>0, <2>2, <3>1
      <4> QED BY <1>4, <2>6, <3>1, <4>1
    <3>2. CASE i # c
      <4>1. snaps'[i] = snaps[i]
        BY <1>0, <2>2, <3>2
      <4> QED BY <1>0, <1>4, <4>1 DEF Snaps, SnapshotOnce
    <3> QED BY <3>1, <3>2
  <2>8. ASSUME NEW j \in DOMAIN task', task'[j].pc = "snap", ~task'[j].sys, task'[j].c \in Ids
        PROVE  snaps'[task'[j].c] = 0 \/ DeletedAside(task[j].c)'
    <3>1. j \in DOMAIN task /\ task'[j] = task[j] /\ j # k
      BY <1>3, <2>3, <2>8
    <3>2. PICK i : i = task[j].c
      OBVIOUS
    <3>3. snaps[i] = 0 \/ DeletedAside(i)
      BY <1>0, <2>8, <3>1, <3>2 DEF Snaps
    <3>4. CASE i # c
      <4>1. snaps'[i] = snaps[i]
        BY <1>0, <2>2, <2>8, <3>1, <3>2, <3>4
      <4> QED BY <1>4, <3>1, <3>2, <3>3, <4>1
    <3>5. CASE i = c
      <4>1. task[k].sys
        BY <1>0, <2>2, <2>8, <3>1 DEF Tidy, Lane
      <4> QED BY <1>4, <2>5, <3>1, <3>2, <3>5, <4>1
    <3> QED BY <3>4, <3>5
  <2>9. Snaps'
    BY <2>7, <2>8 DEF Snaps, SnapshotOnce
  <2> QED BY <2>9, SnapAlerts DEF Told
<1> QED BY <1>5, <1>6

LEMMA WorkTold == ASSUME Base, Told, NEW k \in DOMAIN task, Work(k) PROVE Told'
<1>1. CASE PostAlert(k) \/ RecordAlert(k) \/ LookForSnapshot(k) \/ CreateSnapshot(k)
  BY <1>1, PostAlertTold, RecordAlertTold, SnapshotTold
<1>2. CASE CreateRetry(k)
  <2>1. Stops(k) /\ task[k].pc # "told"
    BY <1>2, RetryStep DEF CreateRetry, Base
  <2>2. Frame
    BY <1>2 DEF CreateRetry, Frame, LostSame, remote, mapping, history
  <2> QED BY <2>1, <2>2, StopsSilent, ToldSilent
<1>3. CASE FindInbox(k) \/ NewInbox(k) \/ FindConv(k) \/ NewConv(k) \/ MapConv(k) \/ ResolveOld(k)
  <2>1. Frame
    BY <1>3 DEF FindInbox, NewInbox, FindConv, NewConv, MapConv, ResolveOld, Goes, Frame, LostSame, remote, mapping, history
  <2> QED BY <1>3, <2>1, InboxHush, ToldSilent
<1>4. CASE EndMeta(k) \/ TakeMeta(k) \/ TakeStatus(k) \/ TakeAlert(k) \/ FindPlace(k) \/ NewPlace(k) \/ RecordPlace(k)
  <2>1. Frame
    BY <1>4 DEF EndMeta, TakeMeta, TakeStatus, TakeAlert, FindPlace, NewPlace, RecordPlace, Goes, Frame, LostSame,
       remote, mapping, history
  <2> QED BY <1>4, <2>1, MoveHush, ToldSilent
<1>5. CASE TakeLocal(k) \/ PostMessage(k) \/ RecordMirror(k) \/ RecordRecalled(k)
  <2>1. Frame
    BY <1>5 DEF TakeLocal, PostMessage, RecordMirror, RecordRecalled, Frame, LostSame, remote, mapping, history
  <2> QED BY <1>5, <2>1, LocalHush, ToldSilent
<1>6. CASE TakeIgnored(k) \/ TakeResolved(k) \/ TakeOver(k) \/ TakeCreated(k) \/ SendPiece(k) \/ PieceAnswered(k)
           \/ TakeDeleted(k) \/ RecallsDone(k)
  <2>1. Frame
    BY <1>6 DEF TakeIgnored, TakeResolved, TakeOver, TakeCreated, SendPiece, PieceAnswered, TakeDeleted, RecallsDone,
       Quiet, Frame, LostSame, remote, mapping, history
  <2> QED BY <1>6, <2>1, HookHush, ToldSilent
<1>7. ASSUME NEW x, \/ x \in task[k].todo /\ RecordPiece(k, x)
                    \/ FinishRecall(k, x)
                    \/ RecallHandled(k, x) \/ RecallSucceeds(k, x) \/ RecallFails(k, x) \/ NoteRecall(k, x)
      PROVE  Told'
  <2>1. Frame
    BY <1>7 DEF RecordPiece, FinishRecall, RecallHandled, RecallSucceeds, RecallFails, NoteRecall, Quiet, Frame, LostSame,
       remote, mapping, history
  <2> QED BY <1>7, <2>1, PartsHush, ToldSilent
<1> QED BY <1>1, <1>2, <1>3, <1>4, <1>5, <1>6, <1>7 DEF Work

LEMMA OutsideTold ==
    ASSUME Base, Told, World \/ Accepting \/ Runtime \/ Faulty PROVE Told'
<1>0. Tidy /\ TypedRows /\ TypedWorld /\ DOMAIN hook \subseteq sent /\ sent \subseteq AnyEvent
  BY DEF Base, TypedHooks, TypedWorld
<1>1. CASE (\E j \in Locals : Received(j) \/ Begins(j)) \/ (\E pk \in DOMAIN row : Refused(pk) \/ Recalled(pk) \/ Completes(pk))
  <2>1. Adds
    BY <1>0, <1>1, ReceivedStep, RefusedStep, RecalledStep, CompletesStep
  <2>2. Frame
    BY <1>1 DEF Received, Begins, Refused, Recalled, Completes, Quiet, Frame, LostSame, remote, mapping, history
  <2> QED BY <2>1, <2>2, AddsHush, ToldHush
<1>2. CASE \/ \E type \in Types : AgentWrites(type)
           \/ \E i \in Ids : AgentDeletes(i)
           \/ \E v \in Convs : AgentResolves(v)
           \/ Switch \/ \E d \in sent : RecordWebhook(d)
           \/ \E d \in DOMAIN hook : AcceptFails(d)
  <2>1. UNCHANGED task /\ Frame
    BY <1>2 DEF AgentWrites, AgentDeletes, AgentResolves, Switch, RecordWebhook, AcceptFails, Quiet, Frame, LostSame,
       remote, mapping, history
  <2>2. Adds
    BY <1>0, <2>1, StaysTidy DEF Frame
  <2> QED BY <2>1, <2>2, AddsHush, ToldHush
<1>3. CASE Backfill \/ \E s \in States, b \in 0..MaxMoves : StateChanges(s, b)
  <2>1. Adds
    BY <1>0, <1>3, BackfillStep, StateChangesStep
  <2>2. Frame
    BY <1>3 DEF Backfill, StateChanges, Quiet, Frame, LostSame, remote, mapping, history
  <2> QED BY <2>1, <2>2, AddsHush, ToldHush
<1>4. CASE \E d \in DOMAIN hook : CreateHookTask(d)
  <2>1. Adds
    BY <1>0, <1>4, CreateHookTaskStep
  <2>2. Frame
    BY <1>4 DEF CreateHookTask, Frame, LostSame, remote, mapping
  <2> QED BY <2>1, <2>2, AddsHush, ToldHush
<1>5. CASE WorkerCrashes
  BY <1>5, CrashTold
<1>6. CASE \E k \in DOMAIN task : RequestFails(k) \/ PieceTimesOut(k)
  <2>1. PICK k \in DOMAIN task : RequestFails(k) \/ PieceTimesOut(k)
    BY <1>6
  <2>2. Stops(k) /\ task[k].pc # "told"
    BY <1>0, <2>1, FailsStep DEF RequestFails, PieceTimesOut
  <2>3. Frame
    BY <2>1 DEF RequestFails, PieceTimesOut, Frame, LostSame, remote, mapping
  <2> QED BY <2>2, <2>3, StopsSilent, ToldSilent
<1> QED BY <1>1, <1>2, <1>3, <1>4, <1>5, <1>6 DEF World, Accepting, Runtime, Faulty

LEMMA ToldNext == ASSUME Base, Told, [Next]_vars PROVE Told'
<1>1. CASE UNCHANGED vars
  <2>1. UNCHANGED task /\ Frame
    BY <1>1 DEF vars, remote, mapping, control, history, Frame, LostSame
  <2>2. Adds
    BY <2>1, StaysTidy DEF Frame, Base
  <2> QED BY <2>1, <2>2, AddsHush, ToldHush
<1>2. CASE Worker
  BY <1>2, WorkTold DEF Worker
<1> QED BY <1>1, <1>2, OutsideTold DEF Next

LEMMA ToldInit == ASSUME Init PROVE Told
<1>1. /\ shown = <<>> /\ last = None /\ lost = {} /\ task = Nothing /\ snaps = [i \in Ids |-> 0]
  BY DEF Init
<1>2. DOMAIN task = {} /\ Len(shown) = 0
  BY <1>1 DEF Nothing
<1>3. Before(Len(shown) + 1) = None
  BY <1>2 DEF Before, KnownBefore
<1>4. AlertsAlternate
  BY <1>2 DEF AlertsAlternate
<1> QED BY <1>1, <1>2, <1>3, <1>4 DEF Told, Alerts, Snaps, SnapshotOnce

(* What is written for the agents is written once: a message gets one      *)
(* private snapshot of its recall, unless a webhook about its deletion ran *)
(* beside the account's tasks, and the alerts about the account alternate. *)
THEOREM NotesAreMadeOnce == Spec => []NotedOnce
<1>1. Init => Base /\ Told
  BY BaseInit, ToldInit
<1>2. Base /\ Told /\ [Next]_vars => (Base /\ Told)'
  BY BaseNext, ToldNext
<1>3. Base /\ Told => NotedOnce
  BY DEF Told, Alerts, Snaps, NotedOnce
<1> QED BY <1>1, <1>2, <1>3, PTL DEF Spec

-----------------------------------------------------------------------------
(* One inbox, and one conversation in it.                                  *)

PlaceAt(k) ==
    /\ task[k].pc = "newinbox" => inboxes = 0
    /\ task[k].pc \in {"conv", "newconv", "mapconv", "moved", "post"} => bind = 1
    /\ task[k].pc = "newconv" => \A v \in 1..Len(rconv) : rconv[v] # bind
    /\ task[k].pc = "mapconv" => task[k].c \in 1..Len(rconv) /\ rconv[task[k].c] = bind
    /\ task[k].pc \in {"moved", "post"} => Managed
PlacesAre ==
    /\ inboxes <= 1 /\ bind \in {0, inboxes} /\ cmap <= Len(rconv)
    /\ OneInboxOneConversation
LEMMA PlacesIs == Places <=> PlacesAre /\ \A k \in DOMAIN task : PlaceAt(k)
BY DEF Places, PlacesAre, PlaceAt
LEMMA PlacesNext == PlacesAre' /\ (\A k \in DOMAIN task' : PlaceAt(k)') => Places'
BY DEF Places, PlacesAre, PlaceAt

LEMMA PlaceElse == ASSUME NEW k, task'[k].pc \notin Posting \/ task'[k].pc = "inbox" PROVE PlaceAt(k)'
BY DEF PlaceAt, Posting, Shared

(* No task goes on to a place; a task may begin.                           *)
Calm == \A j \in DOMAIN task' : task'[j].pc \in Posting => task'[j].pc = "inbox" \/ (j \in DOMAIN task /\ task'[j] = task[j])
PlaceSame == UNCHANGED <<inboxes, bind, cmap, rconv>>
LEMMA PlacesCalm == ASSUME Places, PlaceSame, Calm PROVE Places'
<1>1. PlacesAre'
  BY PlacesIs DEF PlacesAre, PlaceSame, OneInboxOneConversation
<1>2. ASSUME NEW k \in DOMAIN task' PROVE PlaceAt(k)'
  <2>1. CASE task'[k].pc \notin Posting \/ task'[k].pc = "inbox"
    BY <2>1, PlaceElse
  <2>2. CASE k \in DOMAIN task /\ task'[k] = task[k]
    <3>1. PlaceAt(k)
      BY <2>2, PlacesIs
    <3> QED BY <2>2, <3>1 DEF PlaceAt, PlaceSame, Managed
  <2> QED BY <2>1, <2>2 DEF Calm
<1> QED BY <1>1, <1>2, PlacesNext

(* The tasks that look for a place, and post, run one at a time.           *)
LEMMA OnePosting ==
    ASSUME Tidy, NEW j \in DOMAIN task, NEW k \in DOMAIN task, task[j].pc \in Posting, task[k].pc \in Posting
    PROVE  j = k
<1>1. ~task[j].sys /\ ~task[k].sys /\ task[j].pc # "idle" /\ task[k].pc # "idle"
  BY TidyTask, KeyKinds DEF Fits, Posting, Shared
<1> QED BY <1>1 DEF Tidy, Lane

LEMMA PlacesOnly ==
    ASSUME Tidy, NEW k \in DOMAIN task, Only(k), task[k].pc \in Posting, PlacesAre', PlaceAt(k)'
    PROVE  Places'
<1>1. ASSUME NEW j \in DOMAIN task', j # k PROVE PlaceAt(j)'
  <2>1. CASE j \in DOMAIN task
    <3>1. task'[j] = task[j] /\ task[j].pc \notin Posting
      BY <1>1, <2>1, OnePosting DEF Only
    <3> QED BY <3>1, PlaceElse
  <2>2. CASE j \notin DOMAIN task
    <3>1. task'[j].pc = "idle"
      BY <1>1, <2>2 DEF Only
    <3> QED BY <3>1, PlaceElse DEF Posting, Shared
  <2> QED BY <2>1, <2>2
<1> QED BY <1>1, PlacesNext

LEMMA FindInboxPlaces == ASSUME Base, Places, NEW k \in DOMAIN task, FindInbox(k) PROVE Places'
<1>0. Tidy /\ inboxes \in Nat /\ bind \in Nat /\ cmap \in Nat /\ rconv \in Seq(Nat) /\ PlacesAre
  BY PlacesIs DEF Base, TypedWorld
<1>1. task[k].pc = "inbox" /\ UNCHANGED <<inboxes, cmap, rconv>>
  BY DEF FindInbox, Goes, remote
<1>2. CASE inboxes > 0
  <2>1. bind' = 1 /\ Steps(k, "conv")
    BY <1>0, <1>2, FindInboxStep DEF FindInbox
  <2>2. PlacesAre'
    BY <1>0, <1>1, <1>2, <2>1 DEF PlacesAre, OneInboxOneConversation
  <2>3. PlaceAt(k)'
    BY <2>1 DEF PlaceAt, Steps
  <2> QED BY <1>0, <1>1, <2>1, <2>2, <2>3, PlacesOnly DEF Steps, Posting, Shared
<1>3. CASE ~(inboxes > 0)
  <2>1. UNCHANGED bind /\ Steps(k, "newinbox")
    BY <1>0, <1>3, FindInboxStep DEF FindInbox
  <2>2. PlacesAre'
    BY <1>0, <1>1, <2>1 DEF PlacesAre, OneInboxOneConversation
  <2>3. PlaceAt(k)'
    BY <1>0, <1>1, <1>3, <2>1 DEF PlaceAt, Steps
  <2> QED BY <1>0, <1>1, <2>1, <2>2, <2>3, PlacesOnly DEF Steps, Posting, Shared
<1> QED BY <1>2, <1>3

LEMMA NewInboxPlaces == ASSUME Base, Places, NEW k \in DOMAIN task, NewInbox(k) PROVE Places'
<1>0. Tidy /\ inboxes \in Nat /\ bind \in Nat /\ cmap \in Nat /\ rconv \in Seq(Nat) /\ PlacesAre /\ PlaceAt(k)
  BY PlacesIs DEF Base, TypedWorld
<1>1. task[k].pc = "newinbox" /\ UNCHANGED <<cmap, rconv>> /\ inboxes' = inboxes + 1
  BY DEF NewInbox
<1>2. inboxes = 0 /\ bind = 0 /\ inboxes' = 1
  BY <1>0, <1>1 DEF PlaceAt, PlacesAre
<1>3. (Steps(k, "conv") /\ bind' = inboxes') \/ (Stops(k) /\ UNCHANGED bind)
  BY <1>0, NewInboxStep
<1>4. PlacesAre'
  BY <1>0, <1>1, <1>2, <1>3 DEF PlacesAre, OneInboxOneConversation
<1>5. PlaceAt(k)' /\ Only(k)
  BY <1>2, <1>3 DEF PlaceAt, Steps, Stops
<1> QED BY <1>0, <1>1, <1>4, <1>5, PlacesOnly DEF Posting, Shared

LEMMA FindConvPlaces == ASSUME Base, Places, NEW k \in DOMAIN task, FindConv(k) PROVE Places'
<1>0. Tidy /\ inboxes \in Nat /\ bind \in Nat /\ cmap \in Nat /\ rconv \in Seq(Nat) /\ PlacesAre /\ PlaceAt(k)
  BY PlacesIs DEF Base, TypedWorld
<1>1. task[k].pc = "conv" /\ PlaceSame
  BY DEF FindConv, Goes, remote, mapping, PlaceSame
<1>2. bind = 1
  BY <1>0, <1>1 DEF PlaceAt
<1>3. PlacesAre'
  BY <1>0, <1>1 DEF PlacesAre, OneInboxOneConversation, PlaceSame
<1>4. \/ Steps(k, After(k)) /\ (Managed \/ ~NeedsConv(k))
      \/ Steps(k, "newconv") /\ \A v \in 1..Len(rconv) : rconv[v] # bind
      \/ \E v \in 1..Len(rconv) : rconv[v] = bind /\ Jumps(k, "mapconv", v)
  BY <1>0, FindConvStep
<1>5. CASE Steps(k, After(k)) /\ (Managed \/ ~NeedsConv(k))
  <2>1. After(k) \in {"post", "place", "end"} /\ (After(k) = "post" => k \in LocalKeys)
    BY <1>0, AfterStage
  <2>2. After(k) = "post" => Managed
    BY <1>5, <2>1 DEF NeedsConv
  <2>3. PlaceAt(k)' /\ Only(k)
    BY <1>1, <1>2, <1>5, <2>1, <2>2 DEF PlaceAt, Steps, PlaceSame, Managed
  <2> QED BY <1>0, <1>1, <1>3, <2>3, PlacesOnly DEF Posting, Shared
<1>6. CASE Steps(k, "newconv") /\ \A v \in 1..Len(rconv) : rconv[v] # bind
  <2>3. PlaceAt(k)' /\ Only(k)
    BY <1>1, <1>2, <1>6 DEF PlaceAt, Steps, PlaceSame
  <2> QED BY <1>0, <1>1, <1>3, <2>3, PlacesOnly DEF Posting, Shared
<1>7. CASE \E v \in 1..Len(rconv) : rconv[v] = bind /\ Jumps(k, "mapconv", v)
  <2>3. PlaceAt(k)' /\ Only(k)
    BY <1>1, <1>2, <1>7 DEF PlaceAt, Jumps, PlaceSame
  <2> QED BY <1>0, <1>1, <1>3, <2>3, PlacesOnly DEF Posting, Shared
<1> QED BY <1>4, <1>5, <1>6, <1>7

LEMMA NewConvPlaces == ASSUME Base, Places, NEW k \in DOMAIN task, NewConv(k) PROVE Places'
<1>0. Tidy /\ inboxes \in Nat /\ bind \in Nat /\ cmap \in Nat /\ rconv \in Seq(Nat) /\ PlacesAre /\ PlaceAt(k)
  BY PlacesIs DEF Base, TypedWorld
<1>1. task[k].pc = "newconv" /\ UNCHANGED <<inboxes, bind, cmap>> /\ rconv' = Append(rconv, bind)
  BY DEF NewConv, mapping
<1>2. bind = 1 /\ \A v \in 1..Len(rconv) : rconv[v] # bind
  BY <1>0, <1>1 DEF PlaceAt
<1>3. PICK n \in Nat : n = Len(rconv)
  BY <1>0
<1>4. Len(rconv') = n + 1 /\ rconv'[n + 1] = 1 /\ \A v \in 1..n : rconv'[v] = rconv[v]
  BY <1>0, <1>1, <1>2, <1>3
<1>5. PlacesAre'
  <2>1. \A v, w \in 1..n : rconv[v] = rconv[w] /\ rconv[v] # 0 => v = w
    BY <1>0, <1>3 DEF PlacesAre, OneInboxOneConversation
  <2>2. \A v \in 1..(n + 1) : v \in 1..n \/ v = n + 1
    OBVIOUS
  <2>3. ASSUME NEW v \in 1..(n + 1), NEW w \in 1..(n + 1), rconv'[v] = rconv'[w], rconv'[v] # 0 PROVE v = w
    BY <1>2, <1>3, <1>4, <2>1, <2>2, <2>3
  <2> QED BY <1>0, <1>1, <1>3, <1>4, <2>3 DEF PlacesAre, OneInboxOneConversation
<1>6. Stops(k) \/ Jumps(k, "mapconv", n + 1)
  BY <1>0, <1>3, NewConvStep
<1>7. PlaceAt(k)' /\ Only(k)
  BY <1>1, <1>2, <1>4, <1>6 DEF PlaceAt, Stops, Jumps
<1> QED BY <1>0, <1>1, <1>5, <1>7, PlacesOnly DEF Posting, Shared

LEMMA MapConvPlaces == ASSUME Base, Places, NEW k \in DOMAIN task, MapConv(k) PROVE Places' /\ (Managed => UNCHANGED cmap)
<1>0. Tidy /\ inboxes \in Nat /\ bind \in Nat /\ cmap \in Nat /\ rconv \in Seq(Nat) /\ PlacesAre /\ PlaceAt(k)
  BY PlacesIs DEF Base, TypedWorld
<1>1. task[k].pc = "mapconv" /\ UNCHANGED <<inboxes, bind, rconv>> /\ cmap' = task[k].c
  BY DEF MapConv, remote
<1>2. bind = 1 /\ task[k].c \in 1..Len(rconv) /\ rconv[task[k].c] = bind
  BY <1>0, <1>1 DEF PlaceAt
<1>3. Jumps(k, "moved", cmap)
  BY <1>0, MapConvStep
<1>4. PlacesAre'
  BY <1>0, <1>1, <1>2 DEF PlacesAre, OneInboxOneConversation
<1>5. PlaceAt(k)' /\ Only(k)
  BY <1>1, <1>2, <1>3 DEF PlaceAt, Jumps, Managed
<1>6. Managed => UNCHANGED cmap
  BY <1>0, <1>1, <1>2 DEF Managed, PlacesAre, OneInboxOneConversation
<1> QED BY <1>0, <1>1, <1>4, <1>5, <1>6, PlacesOnly DEF Posting, Shared

LEMMA ResolveOldPlaces == ASSUME Base, Places, NEW k \in DOMAIN task, ResolveOld(k) PROVE Places'
<1>0. Tidy /\ inboxes \in Nat /\ bind \in Nat /\ cmap \in Nat /\ rconv \in Seq(Nat) /\ PlacesAre /\ PlaceAt(k)
  BY PlacesIs DEF Base, TypedWorld
<1>1. task[k].pc = "moved" /\ PlaceSame
  BY DEF ResolveOld, mapping, PlaceSame
<1>2. bind = 1 /\ Managed
  BY <1>0, <1>1 DEF PlaceAt
<1>3. PlacesAre'
  BY <1>0, <1>1 DEF PlacesAre, OneInboxOneConversation, PlaceSame
<1>4. Steps(k, After(k)) /\ After(k) \in {"post", "place", "end"}
  BY <1>0, ResolveOldStep, AfterStage
<1>5. PlaceAt(k)' /\ Only(k)
  BY <1>1, <1>2, <1>4 DEF PlaceAt, Steps, PlaceSame, Managed
<1> QED BY <1>0, <1>1, <1>3, <1>5, PlacesOnly DEF Posting, Shared

-----------------------------------------------------------------------------
(* What the steps of a task mean for the tasks of local messages.          *)

MoveStep(k) == \/ EndMeta(k) \/ TakeMeta(k) \/ TakeStatus(k) \/ TakeAlert(k)
               \/ FindPlace(k) \/ NewPlace(k) \/ RecordPlace(k) \/ PostAlert(k) \/ RecordAlert(k)
HookStep(k) == \/ TakeIgnored(k) \/ TakeResolved(k) \/ TakeOver(k) \/ TakeCreated(k) \/ SendPiece(k) \/ PieceAnswered(k)
               \/ TakeDeleted(k) \/ RecallsDone(k)
PartStep(k, x) == \/ x \in task[k].todo /\ RecordPiece(k, x)
                  \/ x \in task[k].yes \cup task[k].no /\ FinishRecall(k, x)
                  \/ RecallHandled(k, x) \/ RecallSucceeds(k, x) \/ RecallFails(k, x) \/ NoteRecall(k, x)
InboxStep(k) == FindInbox(k) \/ NewInbox(k) \/ FindConv(k) \/ NewConv(k) \/ MapConv(k) \/ ResolveOld(k)
LocalStep(k) == TakeLocal(k) \/ PostMessage(k) \/ RecordMirror(k) \/ RecordRecalled(k)
SnapStep(k) == LookForSnapshot(k) \/ CreateSnapshot(k)

LEMMA WorkKinds ==
    ASSUME NEW k, Work(k)
    PROVE  \/ CreateRetry(k) \/ MoveStep(k) \/ HookStep(k) \/ InboxStep(k) \/ LocalStep(k) \/ SnapStep(k)
           \/ \E x : PartStep(k, x)
BY DEF Work, MoveStep, HookStep, PartStep, InboxStep, LocalStep, SnapStep

LEMMA HookWork == ASSUME Base, NEW k \in DOMAIN task, HookStep(k) PROVE Only(k) /\ k \in AnyHook /\ Tidy'
<1>0. Tidy /\ TypedRows
  BY DEF Base
<1>1. CASE TakeIgnored(k) \/ TakeResolved(k) \/ TakeOver(k)
  <2>1. Stops(k) /\ Tidy'
    BY <1>0, <1>1, HookTakenStep
  <2>2. k \in HookKeys \/ task[k].pc = "takeover"
    BY <1>1 DEF TakeIgnored, TakeResolved, TakeOver, Takes
  <2>3. k \in AnyHook
    BY <1>0, <2>2, TidyTask, HookGoes, KeyKinds DEF Fits
  <2> QED BY <2>1, <2>3 DEF Stops
<1>2. CASE TakeCreated(k)
  BY <1>0, <1>2, TakeCreatedStep, KeyKinds DEF Stops, Sends
<1>3. CASE SendPiece(k) \/ PieceAnswered(k)
  <2>1. /\ task[k].pc \in {"send", "wait"} /\ Tidy'
        /\ \/ Steps(k, "wait") \/ \E pk, ok : Gets(k, pk, ok)
    BY <1>0, <1>3, SendPieceStep, PieceAnsweredStep
  <2>2. k \in AnyHook
    BY <1>0, <2>1, TidyTask, HookGoes DEF Fits
  <2> QED BY <2>1, <2>2 DEF Steps, Gets
<1>4. CASE TakeDeleted(k)
  BY <1>0, <1>4, TakeDeletedStep, KeyKinds DEF Stops, Reads
<1>5. CASE RecallsDone(k)
  BY <1>0, <1>5, RecallsDoneStep DEF Stops, Steps
<1> QED BY <1>1, <1>2, <1>3, <1>4, <1>5 DEF HookStep

LEMMA PartWork ==
    ASSUME Base, NEW k \in DOMAIN task, NEW x, PartStep(k, x) PROVE Only(k) /\ k \in AnyHook /\ Tidy'
<1>0. Tidy /\ TypedRows
  BY DEF Base
<1>1. CASE x \in task[k].todo /\ RecordPiece(k, x)
  BY <1>0, <1>1, RecordPieceStep DEF Sets, Stops, Steps
<1>2. CASE FinishRecall(k, x)
  BY <1>0, <1>2, FinishRecallStep DEF Sets, Stops
<1>3. CASE RecallHandled(k, x) \/ RecallSucceeds(k, x) \/ RecallFails(k, x) \/ NoteRecall(k, x)
  <2>1. Picks(k, x)
    BY <1>3 DEF RecallHandled, RecallSucceeds, RecallFails, NoteRecall, RecallOpen
  <2>2. x[1] \in DOMAIN row
    BY <2>1, ItemsBacked
  <2>3. k \in AnyHook
    BY <1>0, <2>1, PicksItem
  <2>4. Tidy' /\ \E todo, yes, no : Sets(k, todo, yes, no)
    BY <1>0, <1>3, <2>2, RecallHandledStep, RecallSucceedsStep, RecallFailsStep, NoteRecallStep DEF Outcome
  <2> QED BY <2>3, <2>4 DEF Sets
<1> QED BY <1>1, <1>2, <1>3 DEF PartStep

(* The tasks of local messages that post or record a copy are the same.    *)
LocalsKept ==
    /\ \A j \in DOMAIN task' : j \in LocalKeys =>
         /\ task'[j].pc \in Posting => j \in DOMAIN task /\ task[j].pc \in Posting
         /\ task'[j].pc = "map" => j \in DOMAIN task /\ task[j].pc = "map" /\ task'[j].c = task[j].c
    /\ \A j \in DOMAIN task : j \in LocalKeys /\ task[j].pc = "map" =>
         j \in DOMAIN task' /\ task'[j].pc = "map" /\ task'[j].c = task[j].c

LEMMA IdlePcs == "idle" \notin Posting /\ "retry" \notin Posting /\ "map" \notin Posting
BY DEF Posting, Shared

LEMMA OnlyKept ==
    ASSUME NEW k \in DOMAIN task, Only(k),
           \/ k \notin LocalKeys
           \/ /\ task[k].pc # "map" /\ task'[k].pc # "map"
              /\ task'[k].pc \in Posting => task[k].pc \in Posting
    PROVE  LocalsKept
<1>1. \A j \in DOMAIN task' : j = k \/ (j \in DOMAIN task /\ task'[j] = task[j]) \/ task'[j].pc = "idle"
  BY DEF Only
<1>2. DOMAIN task \subseteq DOMAIN task' /\ \A j \in DOMAIN task : j # k => task'[j] = task[j]
  BY DEF Only
<1> QED BY <1>1, <1>2, IdlePcs DEF LocalsKept

LEMMA AddsKept == ASSUME Adds PROVE LocalsKept /\ Calm
<1>1. \A j \in DOMAIN task' : (j \in DOMAIN task /\ task'[j] = task[j]) \/ task'[j].pc = "idle"
  BY DEF Adds
<1>2. \A j \in DOMAIN task : j \in DOMAIN task' /\ task'[j] = task[j]
  BY DEF Adds
<1> QED BY <1>1, <1>2, IdlePcs DEF LocalsKept, Calm

LEMMA OnlyCalm ==
    ASSUME NEW k \in DOMAIN task, Only(k), task'[k].pc \notin Posting \/ task'[k].pc = "inbox" PROVE Calm
<1>1. \A j \in DOMAIN task' : j = k \/ (j \in DOMAIN task /\ task'[j] = task[j]) \/ task'[j].pc = "idle"
  BY DEF Only
<1> QED BY <1>1, IdlePcs DEF Calm

LEMMA HookKept == ASSUME NEW k \in DOMAIN task, Only(k), k \in AnyHook, Tidy' PROVE LocalsKept /\ Calm
<1>1. k \notin LocalKeys /\ k \in DOMAIN task'
  BY KeyKinds DEF Only
<1>2. task'[k].pc \notin Posting
  BY <1>1 DEF Tidy, TypedTasks, Fits, Posting
<1> QED BY <1>1, <1>2, OnlyKept, OnlyCalm

LEMMA StopsKept ==
    ASSUME NEW k \in DOMAIN task, Stops(k), task[k].pc # "map" \/ k \notin LocalKeys PROVE LocalsKept /\ Calm
<1>1. Only(k) /\ task'[k].pc \notin Posting /\ task'[k].pc # "map"
  BY IdlePcs DEF Stops
<1> QED BY <1>1, OnlyKept, OnlyCalm

LEMMA MoveKept == ASSUME Base, NEW k \in DOMAIN task, MoveStep(k) PROVE LocalsKept /\ Calm
<1>0. Tidy /\ shown \in Seq(States)
  BY DEF Base, TypedWorld
<1>1. CASE EndMeta(k)
  BY <1>0, <1>1, EndMetaStep, StopsKept DEF EndMeta
<1>2. CASE RecordAlert(k)
  BY <1>0, <1>2, EndMetaStep, StopsKept DEF RecordAlert
<1>3. CASE TakeMeta(k) \/ TakeStatus(k) \/ TakeAlert(k) \/ FindPlace(k) \/ NewPlace(k) \/ RecordPlace(k) \/ PostAlert(k)
  <2>1. k[1] \in {"meta", "status", "alert"}
    BY <1>0, <1>3, TakeMetaStep, TakeAccountStep, FitsAs DEF FindPlace, NewPlace, RecordPlace, PostAlert
  <2>2. k \notin LocalKeys
    BY <2>1, KeyKinds
  <2>3. Only(k) /\ task'[k].pc \in {"idle", "retry", "end", "inbox", "newplace", "setplace", "alert", "told"}
    <3>1. CASE TakeMeta(k)
      BY <1>0, <3>1, TakeMetaStep DEF Jumps
    <3>2. CASE TakeStatus(k) \/ TakeAlert(k)
      BY <1>0, <3>2, TakeAccountStep DEF Steps
    <3>3. CASE FindPlace(k) \/ NewPlace(k) \/ RecordPlace(k)
      BY <1>0, <3>3, PlaceStep DEF Steps, Stops
    <3>4. CASE PostAlert(k)
      BY <1>0, <3>4, PostAlertStep DEF Jumps, Stops
    <3> QED BY <1>3, <3>1, <3>2, <3>3, <3>4
  <2>4. task'[k].pc \notin Posting \/ task'[k].pc = "inbox"
    BY <2>3 DEF Posting, Shared
  <2> QED BY <2>2, <2>3, <2>4, OnlyKept, OnlyCalm
<1> QED BY <1>1, <1>2, <1>3 DEF MoveStep

LEMMA SnapKept == ASSUME Base, NEW k \in DOMAIN task, SnapStep(k) PROVE LocalsKept /\ Calm
<1>1. task[k].pc \in {"look", "snap"} /\ Only(k) /\ task'[k].pc \in {"idle", "retry", "final", "snap"}
  BY SnapshotStep DEF SnapStep, Base, Steps, Stops
<1>2. task[k].pc # "map" /\ task'[k].pc # "map" /\ task'[k].pc \notin Posting
  BY <1>1 DEF Posting, Shared
<1> QED BY <1>1, <1>2, OnlyKept, OnlyCalm

LEMMA InboxKept == ASSUME Base, NEW k \in DOMAIN task, InboxStep(k) PROVE LocalsKept
<1>0. Tidy /\ rconv \in Seq(Nat) /\ bind \in Nat /\ cmap \in Nat
  BY DEF Base, TypedWorld
<1>1. task[k].pc \in Shared /\ task[k].pc \in Posting /\ task[k].pc # "map"
  BY DEF InboxStep, FindInbox, NewInbox, FindConv, NewConv, MapConv, ResolveOld, Shared, Posting
<1>2. PICK pc : pc # "map" /\ (Stops(k) \/ Steps(k, pc) \/ \E c : Jumps(k, pc, c))
  <2>1. CASE FindInbox(k)
    BY <1>0, <2>1, FindInboxStep
  <2>2. CASE NewInbox(k)
    BY <1>0, <2>2, NewInboxStep
  <2>3. CASE FindConv(k)
    BY <1>0, <2>3, FindConvStep, AfterStage
  <2>4. CASE NewConv(k)
    <3>1. PICK c : c = Len(rconv) + 1
      OBVIOUS
    <3>2. Stops(k) \/ Jumps(k, "mapconv", c)
      BY <1>0, <2>4, <3>1, NewConvStep
    <3> QED BY <3>2
  <2>5. CASE MapConv(k)
    BY <1>0, <2>5, MapConvStep
  <2>6. CASE ResolveOld(k)
    BY <1>0, <2>6, ResolveOldStep, AfterStage
  <2> QED BY <2>1, <2>2, <2>3, <2>4, <2>5, <2>6 DEF InboxStep
<1>3. Only(k) /\ task'[k].pc # "map"
  BY <1>2 DEF Stops, Steps, Jumps
<1> QED BY <1>1, <1>3, OnlyKept

LEMMA LocalCalm == ASSUME Base, NEW k \in DOMAIN task, LocalStep(k) PROVE Calm
<1>0. Tidy /\ TypedRows /\ TypedWorld
  BY DEF Base
<1>1. CASE TakeLocal(k)
  <2>1. /\ \/ Stops(k)
           \/ /\ LocalGoes(k[2]) \in {"look", "inbox"}
              /\ Jumps(k, LocalGoes(k[2]), MapOf(k[2]).c)
    BY <1>0, <1>1, TakeLocalStep
  <2>2. Only(k) /\ task'[k].pc \in {"idle", "retry", "look", "inbox"}
    BY <2>1 DEF Stops, Jumps
  <2> QED BY <2>2, OnlyCalm DEF Posting, Shared
<1>2. CASE PostMessage(k)
  <2>1. Only(k) /\ task'[k].pc \in {"idle", "retry", "map"}
    BY <1>0, <1>2, PostMessageStep DEF Stops, Jumps
  <2> QED BY <2>1, OnlyCalm DEF Posting, Shared
<1>3. CASE RecordMirror(k) \/ RecordRecalled(k)
  <2>1. Only(k) /\ task'[k].pc \in {"idle", "retry"}
    BY <1>0, <1>3, EndMetaStep DEF Stops
  <2> QED BY <2>1, OnlyCalm DEF Posting, Shared
<1> QED BY <1>1, <1>2, <1>3 DEF LocalStep

(* The steps outside the worker, and those that fail.                      *)
LEMMA OutsideAdds ==
    ASSUME Base, World \/ Accepting \/ Runtime \/ \E d \in DOMAIN hook : AcceptFails(d) PROVE Adds
<1>0. Tidy /\ TypedRows /\ TypedWorld /\ DOMAIN hook \subseteq sent /\ sent \subseteq AnyEvent
  BY DEF Base, TypedHooks, TypedWorld
<1>1. CASE (\E j \in Locals : Received(j) \/ Begins(j)) \/ (\E pk \in DOMAIN row : Refused(pk) \/ Recalled(pk) \/ Completes(pk))
  BY <1>0, <1>1, ReceivedStep, RefusedStep, RecalledStep, CompletesStep
<1>2. CASE \/ \E type \in Types : AgentWrites(type)
           \/ \E i \in Ids : AgentDeletes(i)
           \/ \E v \in Convs : AgentResolves(v)
           \/ Switch \/ \E d \in sent : RecordWebhook(d)
           \/ \E d \in DOMAIN hook : AcceptFails(d)
  <2>1. UNCHANGED <<task, aside>>
    BY <1>2 DEF AgentWrites, AgentDeletes, AgentResolves, Switch, RecordWebhook, AcceptFails, Quiet, history
  <2> QED BY <1>0, <2>1, StaysTidy
<1>3. CASE Backfill \/ \E s \in States, b \in 0..MaxMoves : StateChanges(s, b)
  BY <1>0, <1>3, BackfillStep, StateChangesStep
<1>4. CASE \E d \in DOMAIN hook : CreateHookTask(d)
  BY <1>0, <1>4, CreateHookTaskStep
<1> QED BY <1>1, <1>2, <1>3, <1>4 DEF World, Accepting, Runtime

FailStep(k) == CreateRetry(k) \/ RequestFails(k) \/ PieceTimesOut(k)
LEMMA FailStops == ASSUME Base, NEW k \in DOMAIN task, FailStep(k) PROVE Stops(k) /\ task[k].pc # "map"
BY RetryStep, FailsStep DEF FailStep, CreateRetry, RequestFails, PieceTimesOut, Base

LEMMA NextKinds ==
    ASSUME Next
    PROVE  \/ World \/ Accepting \/ Runtime \/ \E d \in DOMAIN hook : AcceptFails(d)
           \/ WorkerCrashes
           \/ \E k \in DOMAIN task : \/ FailStep(k) \/ MoveStep(k) \/ HookStep(k) \/ InboxStep(k) \/ LocalStep(k)
                                     \/ SnapStep(k) \/ \E x : PartStep(k, x)
BY WorkKinds DEF Next, Faulty, Worker, FailStep

LEMMA CrashCalm == ASSUME Base, WorkerCrashes PROVE Calm
BY CrashStep, IdlePcs DEF Base, Halts, Calm

LEMMA OutsidePlaces ==
    ASSUME World \/ Accepting \/ Runtime \/ WorkerCrashes \/ \E d \in DOMAIN hook : AcceptFails(d) PROVE PlaceSame
<1>1. CASE World
  BY <1>1 DEF World, Received, Begins, Refused, Recalled, AgentWrites, AgentDeletes, AgentResolves, Switch, Backfill,
     StateChanges, Quiet, PlaceSame, remote, mapping
<1>2. CASE Accepting
  BY <1>2 DEF Accepting, RecordWebhook, CreateHookTask, PlaceSame, remote, mapping
<1>3. CASE Runtime \/ WorkerCrashes \/ \E d \in DOMAIN hook : AcceptFails(d)
  BY <1>3 DEF Runtime, Completes, WorkerCrashes, AcceptFails, Quiet, PlaceSame, remote, mapping
<1> QED BY <1>1, <1>2, <1>3

LEMMA TaskPlaces ==
    ASSUME NEW k, \/ FailStep(k) \/ MoveStep(k) \/ HookStep(k) \/ LocalStep(k) \/ SnapStep(k)
                  \/ \E x : PartStep(k, x)
    PROVE  PlaceSame
<1>1. CASE FailStep(k)
  BY <1>1 DEF FailStep, CreateRetry, RequestFails, PieceTimesOut, PlaceSame, remote, mapping
<1>2. CASE MoveStep(k)
  BY <1>2 DEF MoveStep, EndMeta, TakeMeta, TakeStatus, TakeAlert, FindPlace, NewPlace, RecordPlace, PostAlert, RecordAlert,
     Goes, PlaceSame, remote, mapping
<1>3. CASE HookStep(k)
  BY <1>3 DEF HookStep, TakeIgnored, TakeResolved, TakeOver, TakeCreated, SendPiece, PieceAnswered, TakeDeleted, RecallsDone,
     Quiet, PlaceSame, remote, mapping
<1>4. CASE LocalStep(k) \/ SnapStep(k)
  BY <1>4 DEF LocalStep, SnapStep, TakeLocal, PostMessage, RecordMirror, RecordRecalled, LookForSnapshot, CreateSnapshot,
     Goes, PlaceSame, remote, mapping
<1>5. CASE \E x : PartStep(k, x)
  BY <1>5 DEF PartStep, RecordPiece, FinishRecall, RecallHandled, RecallSucceeds, RecallFails, NoteRecall,
     Quiet, PlaceSame, remote, mapping
<1> QED BY <1>1, <1>2, <1>3, <1>4, <1>5

LEMMA TaskCalm ==
    ASSUME Base, NEW k \in DOMAIN task,
           \/ FailStep(k) \/ MoveStep(k) \/ HookStep(k) \/ LocalStep(k) \/ SnapStep(k)
           \/ \E x : PartStep(k, x)
    PROVE  Calm
<1>1. CASE FailStep(k)
  BY <1>1, FailStops, StopsKept
<1>2. CASE HookStep(k) \/ \E x : PartStep(k, x)
  BY <1>2, HookWork, PartWork, HookKept
<1> QED BY <1>1, <1>2, MoveKept, LocalCalm, SnapKept

LEMMA PlacesStay == ASSUME Base, Places, [Next]_vars PROVE Places'
<1>1. CASE UNCHANGED vars
  <2>1. UNCHANGED <<task, aside>> /\ PlaceSame
    BY <1>1 DEF vars, remote, mapping, history, PlaceSame
  <2>2. Adds
    BY <2>1, StaysTidy DEF Base
  <2> QED BY <2>1, <2>2, AddsKept, PlacesCalm
<1>2. CASE World \/ Accepting \/ Runtime \/ \E d \in DOMAIN hook : AcceptFails(d)
  BY <1>2, OutsideAdds, AddsKept, OutsidePlaces, PlacesCalm
<1>3. CASE WorkerCrashes
  BY <1>3, CrashCalm, OutsidePlaces, PlacesCalm
<1>4. CASE \E k \in DOMAIN task : InboxStep(k)
  BY <1>4, FindInboxPlaces, NewInboxPlaces, FindConvPlaces, NewConvPlaces, MapConvPlaces, ResolveOldPlaces DEF InboxStep
<1>5. CASE \E k \in DOMAIN task : \/ FailStep(k) \/ MoveStep(k) \/ HookStep(k) \/ LocalStep(k) \/ SnapStep(k)
                                  \/ \E x : PartStep(k, x)
  BY <1>5, TaskCalm, TaskPlaces, PlacesCalm
<1> QED BY <1>1, <1>2, <1>3, <1>4, <1>5, NextKinds

LEMMA PlacesInit == ASSUME Init PROVE Places
<1>1. /\ inboxes \in {0, 1} /\ rconv \in {<<1>>, <<0>>, <<>>} /\ bind = inboxes /\ cmap = Len(rconv)
      /\ task = Nothing
  BY DEF Init
<1>2. DOMAIN task = {}
  BY <1>1 DEF Nothing
<1>3. Len(<<1>>) = 1 /\ Len(<<0>>) = 1 /\ Len(<<>>) = 0
  OBVIOUS
<1>4. Len(rconv) \in {0, 1}
  BY <1>1, <1>3
<1>5. \A v, w \in 1..Len(rconv) : v = w
  <2>1. PICK n \in {0, 1} : n = Len(rconv)
    BY <1>4
  <2>2. \A v, w \in 1..n : v = w
    OBVIOUS
  <2> QED BY <2>1, <2>2
<1> QED BY <1>1, <1>2, <1>4, <1>5 DEF Places, OneInboxOneConversation

-----------------------------------------------------------------------------
(* What the task of a deletion works on stays mapped.                      *)

ChosenIn(t) == \A pk \in PksOf(t) : pk \in DOMAIN map /\ (pk[1] = "l" => map[pk].c = t.c)
Chosen == \A k \in DOMAIN task : k \in AnyHook /\ task[k].pc \in Recalling => ChosenIn(task[k])
(* The map keeps what it says of this system's messages.                   *)
MapCalm == \A pk \in DOMAIN map : pk \in DOMAIN map' /\ (pk[1] = "l" => map'[pk].c = map[pk].c)
MapNew == \A pk \in DOMAIN map' \ DOMAIN map : pk[1] = "c"

LEMMA MapSameCalm == ASSUME UNCHANGED map PROVE MapCalm /\ MapNew
BY DEF MapCalm, MapNew

LEMMA MapWithCalm ==
    ASSUME TypedRows, NEW pk, NEW m, map' = With(map, pk, m),
           \/ pk \in DOMAIN map /\ (pk[1] = "l" => m.c = map[pk].c)
           \/ pk[1] = "c"
    PROVE  MapCalm /\ MapNew
<1>1. /\ DOMAIN map' = DOMAIN map \cup {pk} /\ map'[pk] = m
      /\ \A q \in DOMAIN map : q # pk => map'[q] = map[q]
  BY DEF With
<1> QED BY <1>1 DEF MapCalm, MapNew

LEMMA PartMap ==
    ASSUME Base, Chosen, NEW k \in DOMAIN task, NEW x, PartStep(k, x) PROVE MapCalm /\ MapNew
<1>0. Tidy /\ TypedRows
  BY DEF Base
<1>1. CASE x \in task[k].todo /\ RecordPiece(k, x)
  <2>1. x \in Pieces(task[k].c)
    BY <1>0, <1>1, RecordPieceStep
  <2>2. x[1] = "c"
    BY <2>1 DEF Pieces
  <2>3. \E m : map' = With(map, x, m)
    BY <1>1 DEF RecordPiece
  <2> QED BY <1>0, <2>2, <2>3, MapWithCalm
<1>2. CASE x \in task[k].yes \cup task[k].no /\ FinishRecall(k, x)
  <2>1. task[k].pc = "final" /\ k \in AnyHook
    BY <1>0, <1>2, FinishRecallStep
  <2>2. x \in DOMAIN map /\ (x[1] = "l" => map[x].c = task[k].c)
    BY <1>2, <2>1 DEF Chosen, Recalling, ChosenIn, PksOf
  <2>3. PICK m : m = Map(task[k].c, IF x \in task[k].yes THEN "recalled" ELSE "recall_failed")
    OBVIOUS
  <2>4. map' = With(map, x, m) /\ m.c = task[k].c
    BY <1>2, <2>3 DEF FinishRecall, Map
  <2> QED BY <1>0, <2>2, <2>4, MapWithCalm
<1>3. CASE RecallHandled(k, x) \/ RecallSucceeds(k, x) \/ RecallFails(k, x)
  BY <1>3, MapSameCalm DEF RecallHandled, RecallSucceeds, RecallFails, Quiet, mapping
<1>4. CASE NoteRecall(k, x)
  <2>1. task[k].pc = "recall" /\ k \in AnyHook /\ x \in task[k].todo
    BY <1>0, <1>4, NoteRecallStep, PicksItem
  <2>2. x[1] \in DOMAIN map /\ (x[1][1] = "l" => map[x[1]].c = task[k].c)
    BY <2>1 DEF Chosen, Recalling, ChosenIn, PksOf
  <2>3. PICK m : m = Map(task[k].c, IF x[1] \in task[k].yes THEN "recall_snapshot_pending"
                                    ELSE "recall_failed_snapshot_pending")
    OBVIOUS
  <2>4. map' = [map EXCEPT ![x[1]] = m] /\ m.c = task[k].c
    BY <1>4, <2>3 DEF NoteRecall, Map
  <2>5. DOMAIN map' = DOMAIN map /\ \A q \in DOMAIN map : map'[q] = IF q = x[1] THEN m ELSE map[q]
    BY <1>0, <2>4 DEF TypedRows
  <2> QED BY <2>2, <2>4, <2>5 DEF MapCalm, MapNew
<1> QED BY <1>1, <1>2, <1>3, <1>4 DEF PartStep

LEMMA HookMap == ASSUME Base, NEW k \in DOMAIN task, HookStep(k) PROVE MapCalm /\ MapNew
<1>1. CASE TakeDeleted(k)
  <2>1. \/ UNCHANGED map
        \/ map' = [pk \in DOMAIN map |-> IF pk \in MapsOf(k[2][2]) /\ on = "on"
                                         THEN Map(k[2][2], "remote_deleted") ELSE map[pk]]
    BY <1>1, TakeDeletedStep DEF Base
  <2>2. CASE map' = [pk \in DOMAIN map |-> IF pk \in MapsOf(k[2][2]) /\ on = "on"
                                         THEN Map(k[2][2], "remote_deleted") ELSE map[pk]]
    <3>1. DOMAIN map' = DOMAIN map
      BY <2>2
    <3>2. \A pk \in DOMAIN map : map'[pk].c = map[pk].c
      BY <2>2 DEF Map, MapsOf
    <3> QED BY <3>1, <3>2 DEF MapCalm, MapNew
  <2> QED BY <2>1, <2>2, MapSameCalm
<1>2. CASE TakeIgnored(k) \/ TakeResolved(k) \/ TakeOver(k) \/ TakeCreated(k) \/ SendPiece(k) \/ PieceAnswered(k)
           \/ RecallsDone(k)
  BY <1>2, MapSameCalm DEF TakeIgnored, TakeResolved, TakeOver, TakeCreated, SendPiece, PieceAnswered, RecallsDone,
     Quiet, mapping
<1> QED BY <1>1, <1>2 DEF HookStep

LEMMA LocalMap == ASSUME Base, NEW k \in DOMAIN task, TakeLocal(k) \/ PostMessage(k) \/ RecordRecalled(k) PROVE MapCalm /\ MapNew
<1>1. CASE RecordRecalled(k)
  <2>0. map \in [DOMAIN map -> Maps]
    BY DEF Base, TypedRows
  <2>1. map' = [map EXCEPT ![k[2]].st = "recalled"]
    BY <1>1 DEF RecordRecalled
  <2>2. DOMAIN map' = DOMAIN map /\ \A q \in DOMAIN map : map'[q].c = map[q].c
    BY <2>0, <2>1 DEF Maps
  <2> QED BY <2>2 DEF MapCalm, MapNew
<1>2. CASE TakeLocal(k) \/ PostMessage(k)
  BY <1>2, MapSameCalm DEF TakeLocal, PostMessage, mapping
<1> QED BY <1>1, <1>2

(* The task of a deletion works on what it worked on.                      *)
Narrows(k) ==
    task[k].pc \in Recalling /\ task'[k].c = task[k].c /\ PksOf(task'[k]) \subseteq PksOf(task[k])
(* It reads what it works on.                                              *)
Begun(k) == task[k].pc = "idle" /\ TakeDeleted(k) /\ Reads(k, k[2][2]) /\ UNCHANGED map /\ cw[k[2][2]].out

LEMMA ChosenOnly ==
    ASSUME Chosen, MapCalm, NEW k \in DOMAIN task, Only(k),
           k \in AnyHook /\ task'[k].pc \in Recalling =>
              Narrows(k) \/ ChosenIn(task[k])'
    PROVE  Chosen'
<1>1. ASSUME NEW j \in DOMAIN task', j \in AnyHook, task'[j].pc \in Recalling PROVE ChosenIn(task[j])'
  <2>1. j \in DOMAIN task
    BY <1>1 DEF Only, Recalling
  <2>2. CASE /\ task[j].pc \in Recalling /\ task'[j].c = task[j].c
             /\ PksOf(task'[j]) \subseteq PksOf(task[j])
    <3>1. ChosenIn(task[j])
      BY <1>1, <2>1, <2>2 DEF Chosen
    <3>2. \A pk \in PksOf(task'[j]) : pk \in DOMAIN map' /\ (pk[1] = "l" => map'[pk].c = task'[j].c)
      BY <2>2, <3>1 DEF ChosenIn, MapCalm
    <3>3. PksOf(task[j])' = PksOf(task'[j])
      BY DEF PksOf
    <3> QED BY <3>2, <3>3 DEF ChosenIn
  <2>3. CASE j # k
    BY <1>1, <2>1, <2>2, <2>3 DEF Only
  <2> QED BY <1>1, <2>2, <2>3 DEF Narrows
<1> QED BY <1>1 DEF Chosen

LEMMA ChosenAdds == ASSUME Chosen, MapCalm, Adds PROVE Chosen'
<1>1. ASSUME NEW j \in DOMAIN task', j \in AnyHook, task'[j].pc \in Recalling PROVE ChosenIn(task[j])'
  <2>1. j \in DOMAIN task /\ task'[j] = task[j]
    BY <1>1 DEF Adds, Recalling
  <2>2. ChosenIn(task[j])
    BY <1>1, <2>1 DEF Chosen
  <2> QED BY <2>1, <2>2 DEF ChosenIn, MapCalm, PksOf
<1> QED BY <1>1 DEF Chosen

LEMMA HookNarrows ==
    ASSUME Base, NEW k \in DOMAIN task, HookStep(k) PROVE task'[k].pc \notin Recalling \/ Narrows(k) \/ Begun(k)
<1>0. Tidy /\ TypedRows
  BY DEF Base
<1>1. CASE TakeIgnored(k) \/ TakeResolved(k) \/ TakeOver(k)
  BY <1>0, <1>1, HookTakenStep DEF Stops, Recalling
<1>2. CASE TakeCreated(k)
  BY <1>0, <1>2, TakeCreatedStep DEF Stops, Sends, Recalling
<1>3. CASE SendPiece(k) \/ PieceAnswered(k)
  <2>1. Steps(k, "wait") \/ \E pk, ok : Gets(k, pk, ok)
    BY <1>0, <1>3, SendPieceStep, PieceAnsweredStep
  <2> QED BY <2>1 DEF Steps, Gets, Recalling
<1>4. CASE TakeDeleted(k)
  <2>1. task[k].pc = "idle"
    BY <1>4, ReadyIdle DEF TakeDeleted, Takes
  <2> QED BY <1>0, <1>4, <2>1, TakeDeletedStep DEF Stops, Recalling, Begun
<1>5. CASE RecallsDone(k)
  <2>1. task[k].pc = "recall" /\ (Stops(k) \/ Steps(k, "look"))
    BY <1>0, <1>5, RecallsDoneStep
  <2> QED BY <2>1 DEF Stops, Steps, Like, PksOf, Recalling, Narrows
<1> QED BY <1>1, <1>2, <1>3, <1>4, <1>5 DEF HookStep

LEMMA ChosenHook == ASSUME Base, Chosen, NEW k \in DOMAIN task, HookStep(k) PROVE Chosen'
<1>0. MapCalm /\ Only(k)
  BY HookMap, HookWork DEF Base
<1>1. CASE Begun(k)
  <2>1. PICK i : i = k[2][2]
    OBVIOUS
  <2>2. /\ task'[k].c = i /\ task'[k].todo = {<<pk, map[pk].st>> : pk \in MapsOf(i)}
        /\ task'[k].yes = {} /\ task'[k].no = {} /\ UNCHANGED map
    BY <1>1, <2>1 DEF Reads, Begun
  <2>3. \A pk \in PksOf(task'[k]) : pk \in MapsOf(i)
    BY <2>2 DEF PksOf
  <2>4. PksOf(task[k])' = PksOf(task'[k])
    BY DEF PksOf
  <2>5. ChosenIn(task[k])'
    BY <2>2, <2>3, <2>4 DEF ChosenIn, MapsOf
  <2> QED BY <1>0, <2>5, ChosenOnly
<1>2. CASE task'[k].pc \notin Recalling \/ Narrows(k)
  BY <1>0, <1>2, ChosenOnly
<1> QED BY <1>1, <1>2, HookNarrows

LEMMA PartNarrows ==
    ASSUME Base, NEW k \in DOMAIN task, NEW x, PartStep(k, x) PROVE task'[k].pc \notin Recalling \/ Narrows(k)
<1>0. Tidy /\ TypedRows
  BY DEF Base
<1>1. CASE x \in task[k].todo /\ RecordPiece(k, x)
  BY <1>0, <1>1, RecordPieceStep DEF Sets, Stops, Steps, Recalling
<1>2. CASE x \in task[k].yes \cup task[k].no /\ FinishRecall(k, x)
  <2>1. task[k].pc = "final" /\ (Stops(k) \/ Sets(k, task[k].todo, task[k].yes \ {x}, task[k].no \ {x}))
    BY <1>0, <1>2, FinishRecallStep
  <2> QED BY <2>1 DEF Stops, Sets, PksOf, Recalling, Narrows
<1>3. CASE RecallHandled(k, x) \/ RecallSucceeds(k, x) \/ RecallFails(k, x) \/ NoteRecall(k, x)
  <2>1. Picks(k, x)
    BY <1>3 DEF RecallHandled, RecallSucceeds, RecallFails, NoteRecall, RecallOpen
  <2>2. x[1] \in DOMAIN row
    BY <2>1, ItemsBacked
  <2>3. task[k].pc = "recall" /\ x \in task[k].todo
    BY <1>0, <2>1, PicksItem
  <2>4. x[1] \in PksOf(task[k])
    BY <2>3 DEF PksOf
  <2>5. \E todo, yes, no : /\ Sets(k, todo, yes, no)
                           /\ todo \subseteq task[k].todo \cup {<<x[1], "note">>}
                           /\ yes \subseteq task[k].yes \cup {x[1]} /\ no \subseteq task[k].no \cup {x[1]}
    <3>1. CASE RecallHandled(k, x)
      <4>1. PICK yes \in SUBSET Pks, no \in SUBSET Pks :
                 /\ Sets(k, task[k].todo \ {x}, yes, no)
                 /\ \/ yes = task[k].yes /\ no = task[k].no
                    \/ x[2] = "recall_snapshot_pending" /\ yes = task[k].yes \cup {x[1]} /\ no = task[k].no
                    \/ /\ x[2] = "recall_failed_snapshot_pending"
                       /\ yes = task[k].yes /\ no = task[k].no \cup {x[1]}
        BY <1>0, <3>1, RecallHandledStep
      <4> QED BY <4>1
    <3>2. CASE RecallSucceeds(k, x) \/ RecallFails(k, x)
      <4>1. PICK ok \in BOOLEAN : Outcome(k, x, ok)
        BY <1>0, <2>2, <3>2, RecallSucceedsStep, RecallFailsStep
      <4>2. PICK yes, no : /\ yes = (IF ok THEN task[k].yes \cup {x[1]} ELSE task[k].yes)
                           /\ no = (IF ok THEN task[k].no ELSE task[k].no \cup {x[1]})
        OBVIOUS
      <4>3. Sets(k, (task[k].todo \ {x}) \cup {<<x[1], "note">>}, yes, no)
        BY <4>1, <4>2 DEF Outcome
      <4> QED BY <4>2, <4>3
    <3>3. CASE NoteRecall(k, x)
      BY <1>0, <3>3, NoteRecallStep
    <3> QED BY <1>3, <3>1, <3>2, <3>3
  <2>6. \A pk \in PksOf(task'[k]) : pk \in PksOf(task[k])
    BY <2>4, <2>5 DEF Sets, PksOf
  <2>7. task[k].pc \in Recalling /\ task'[k].c = task[k].c
    BY <2>3, <2>5 DEF Sets, Recalling
  <2> QED BY <2>6, <2>7 DEF Narrows
<1> QED BY <1>1, <1>2, <1>3 DEF PartStep

LEMMA ChosenPart == ASSUME Base, Chosen, NEW k \in DOMAIN task, NEW x, PartStep(k, x) PROVE Chosen'
BY PartMap, PartWork, PartNarrows, ChosenOnly

LEMMA SnapNarrows ==
    ASSUME Base, NEW k \in DOMAIN task, SnapStep(k) PROVE Only(k) /\ (task'[k].pc \notin Recalling \/ Narrows(k))
<1>1. task[k].pc \in {"look", "snap"} /\ (Stops(k) \/ Steps(k, "final") \/ Steps(k, "snap"))
  BY SnapshotStep DEF SnapStep, Base
<1> QED BY <1>1 DEF Stops, Steps, Like, PksOf, Recalling, Narrows

LEMMA ChosenSnap == ASSUME Base, Chosen, NEW k \in DOMAIN task, SnapStep(k) PROVE Chosen'
<1>1. MapCalm
  BY MapSameCalm DEF SnapStep, LookForSnapshot, CreateSnapshot, mapping
<1> QED BY <1>1, SnapNarrows, ChosenOnly

LEMMA ChosenStops ==
    ASSUME Base, Chosen, MapCalm, NEW k \in DOMAIN task, Only(k), k \notin AnyHook \/ task'[k].pc \in {"idle", "retry"}
    PROVE  Chosen'
BY ChosenOnly DEF Recalling

LEMMA ChosenHalts == ASSUME Halts PROVE Chosen'
BY DEF Halts, Chosen, Recalling

-----------------------------------------------------------------------------
(* One copy of a message in Chatwoot that is known to have arrived.        *)

Mapped(i) == cw[i].pk \in DOMAIN map /\ (cw[i].pk[1] = "l" => map[cw[i].pk].c = i)
Copies ==
    /\ \A x : <<"local", x>> \in lost => x \in 1..Len(cw)
    /\ \A i : Live(i) => Mapped(i) \/ Recording(i)
    /\ \A k \in DOMAIN task : k \in LocalKeys /\ task[k].pc \in Posting =>
         /\ \A i : Live(i) => cw[i].pk # k[2]
         /\ k[2][1] = "l" => k[2] \notin DOMAIN map
    /\ \A k \in DOMAIN task : k \in LocalKeys /\ task[k].pc = "map" =>
         /\ Live(task[k].c) /\ cw[task[k].c].pk = k[2]
         /\ k[2][1] = "l" => k[2] \notin DOMAIN map
    /\ \A i, j : Live(i) /\ Live(j) /\ cw[i].pk = cw[j].pk => i = j

(* Chatwoot gets no copy, and no answer is lost.                           *)
CwKept ==
    /\ Len(cw) <= Len(cw') /\ \A i \in 1..Len(cw) : cw'[i].by = cw[i].by /\ cw'[i].pk = cw[i].pk /\ cw'[i].conv = cw[i].conv
    /\ \A i \in 1..Len(cw') : i \in 1..Len(cw) \/ cw'[i].by = "agent"
LostKept == \A x : <<"local", x>> \in lost' <=> <<"local", x>> \in lost

LEMMA LiveKept ==
    ASSUME CwKept, LostKept, Len(cw) \in Nat, Len(cw') \in Nat, NEW i
    PROVE  (Live(i)' <=> Live(i)) /\ (Mirror(i)' <=> Mirror(i)) /\ (Mirror(i) => cw'[i].pk = cw[i].pk)
<1>1. PICK n \in Nat, m \in Nat : n = Len(cw) /\ m = Len(cw')
  OBVIOUS
<1>2. n <= m /\ \A j \in 1..n : j \in 1..m /\ cw'[j].by = cw[j].by /\ cw'[j].pk = cw[j].pk
  BY <1>1 DEF CwKept
<1>3. \A j \in 1..m : j \in 1..n \/ cw'[j].by = "agent"
  BY <1>1 DEF CwKept
<1>4. Mirror(i)' <=> i \in 1..m /\ cw'[i].by = "mirror"
  BY <1>1 DEF Mirror
<1>5. Mirror(i) <=> i \in 1..n /\ cw[i].by = "mirror"
  BY <1>1 DEF Mirror
<1>6. (Mirror(i)' <=> Mirror(i)) /\ (Mirror(i) => cw'[i].pk = cw[i].pk)
  BY <1>2, <1>3, <1>4, <1>5
<1> QED BY <1>6 DEF LostKept, Live

LEMMA CopiesCalm ==
    ASSUME Copies, CwKept, LostKept, Len(cw) \in Nat, Len(cw') \in Nat, MapCalm, MapNew, LocalsKept
    PROVE  Copies'
<1>1. \A i : (Live(i)' <=> Live(i)) /\ (Live(i) => cw'[i].pk = cw[i].pk)
  BY LiveKept DEF Live
<1>2. \A x : <<"local", x>> \in lost' => x \in 1..Len(cw')
  BY DEF Copies, LostKept, CwKept
<1>3. \A i : Recording(i) => Recording(i)'
  BY DEF Recording, LocalsKept
<1>4. \A i : Live(i) /\ Mapped(i) => Mapped(i)'
  BY <1>1 DEF Mapped, MapCalm
<1>5. \A i : Live(i)' => Mapped(i)' \/ Recording(i)'
  BY <1>1, <1>3, <1>4 DEF Copies
<1>6. \A pk : pk[1] = "l" /\ pk \notin DOMAIN map => pk \notin DOMAIN map'
  BY DEF MapNew
<1>7. ASSUME NEW k \in DOMAIN task', k \in LocalKeys, task'[k].pc \in Posting
      PROVE  (\A i : Live(i)' => cw'[i].pk # k[2]) /\ (k[2][1] = "l" => k[2] \notin DOMAIN map')
  <2>1. k \in DOMAIN task /\ task[k].pc \in Posting
    BY <1>7 DEF LocalsKept
  <2>2. (\A i : Live(i) => cw[i].pk # k[2]) /\ (k[2][1] = "l" => k[2] \notin DOMAIN map)
    BY <1>7, <2>1 DEF Copies
  <2> QED BY <1>1, <1>6, <2>2
<1>8. ASSUME NEW k \in DOMAIN task', k \in LocalKeys, task'[k].pc = "map"
      PROVE  Live(task[k].c)' /\ cw'[task'[k].c].pk = k[2] /\ (k[2][1] = "l" => k[2] \notin DOMAIN map')
  <2>1. PICK c : c = task[k].c
    OBVIOUS
  <2>2. k \in DOMAIN task /\ task[k].pc = "map" /\ task'[k].c = c
    BY <1>8, <2>1 DEF LocalsKept
  <2>3. Live(c) /\ cw[c].pk = k[2] /\ (k[2][1] = "l" => k[2] \notin DOMAIN map)
    BY <1>8, <2>1, <2>2 DEF Copies
  <2>4. Live(c)' /\ cw'[c].pk = k[2]
    BY <1>1, <2>3
  <2> QED BY <1>6, <2>2, <2>3, <2>4
<1>9. \A i, j : Live(i)' /\ Live(j)' /\ cw'[i].pk = cw'[j].pk => i = j
  BY <1>1 DEF Copies
<1> QED BY <1>2, <1>5, <1>7, <1>8, <1>9 DEF Copies

(* A local task at work: no other is.                                      *)
LEMMA OneLocal ==
    ASSUME Tidy, NEW j \in DOMAIN task, NEW k \in DOMAIN task, j \in LocalKeys, k \in LocalKeys,
           task[j].pc # "idle", task[k].pc # "idle" \/ Ready(k)
    PROVE  j = k
<1>1. ~task[j].sys /\ ~task[k].sys
  BY TidyTask, KeyKinds DEF Fits
<1> QED BY <1>1 DEF Tidy, Lane, Ready, LaneFree, Running

LEMMA TakeLocalCopies == ASSUME Base, Copies, NEW k \in DOMAIN task, TakeLocal(k) PROVE Copies'
<1>0. Tidy /\ TypedRows /\ Len(cw) \in Nat
  BY DEF Base, TypedWorld
<1>1. UNCHANGED <<cw, lost, map>>
  BY DEF TakeLocal, remote, history, mapping
<1>2. CwKept /\ LostKept /\ MapCalm /\ MapNew
  BY <1>0, <1>1, MapSameCalm DEF CwKept, LostKept
<1>3. /\ k \in LocalKeys /\ Ready(k)
      /\ \/ Stops(k)
         \/ /\ LocalGoes(k[2]) \in {"look", "inbox"}
            /\ Jumps(k, LocalGoes(k[2]), MapOf(k[2]).c)
  BY <1>0, TakeLocalStep
<1>4. task[k].pc = "idle"
  BY <1>3, ReadyIdle
<1>5. CASE Stops(k)
  BY <1>0, <1>1, <1>2, <1>4, <1>5, StopsKept, CopiesCalm
<1>6. CASE Jumps(k, "look", MapOf(k[2]).c)
  <2>1. Only(k) /\ task'[k].pc = "look"
    BY <1>6 DEF Jumps
  <2>2. LocalsKept
    BY <1>4, <2>1, OnlyKept DEF Posting, Shared
  <2> QED BY <1>0, <1>1, <1>2, <2>2, CopiesCalm
<1>7. CASE LocalGoes(k[2]) = "inbox" /\ Jumps(k, LocalGoes(k[2]), MapOf(k[2]).c)
  <2>1. Only(k) /\ task'[k].pc = "inbox" /\ k[2] \notin DOMAIN map
    BY <1>7 DEF Jumps, LocalGoes
  <2>2. \A j \in DOMAIN task : j \in LocalKeys => task[j].pc = "idle"
    BY <1>0, <1>3, <1>4, OneLocal
  <2>3. \A j \in DOMAIN task' : j # k /\ j \in LocalKeys => task'[j].pc = "idle"
    BY <2>1, <2>2 DEF Only
  <2>4. \A i : ~Recording(i)
    BY <2>2 DEF Recording
  <2>5. \A i : Live(i) => cw[i].pk # k[2]
    BY <2>1, <2>4 DEF Copies, Mapped
  <2>6. \A i : (Live(i)' <=> Live(i)) /\ (Mapped(i)' <=> Mapped(i))
    BY <1>1 DEF Live, Mirror, Mapped
  <2>7. "idle" \notin Posting
    BY IdlePcs
  <2> QED BY <1>1, <2>1, <2>3, <2>4, <2>5, <2>6, <2>7 DEF Copies, Posting, Shared
<1> QED BY <1>3, <1>5, <1>6, <1>7

LEMMA PostMessageCopies == ASSUME Base, Copies, NEW k \in DOMAIN task, PostMessage(k) PROVE Copies'
<1>0. Tidy /\ TypedWorld /\ cw \in Seq(Messages)
  BY DEF Base, TypedWorld
<1>1. UNCHANGED map /\ cw' = Append(cw, Cw("mirror", k[2], row[k[2]].dir = "out", "text", cmap))
  BY DEF PostMessage, mapping
<1>2. PICK n \in Nat : n = Len(cw)
  BY <1>0
<1>3. PICK v : v = n + 1
  OBVIOUS
<1>4. /\ k \in LocalKeys /\ task[k].pc = "post"
      /\ \/ Jumps(k, "map", v) /\ UNCHANGED lost
         \/ Stops(k) /\ lost' = lost \cup {<<"local", v>>}
  BY <1>0, <1>2, <1>3, PostMessageStep
<1>5. /\ Len(cw') = v /\ \A i \in 1..n : cw'[i] = cw[i]
      /\ cw'[v].by = "mirror" /\ cw'[v].pk = k[2]
  BY <1>0, <1>1, <1>2, <1>3 DEF Cw
<1>6. \A i \in 1..v : i \in 1..n \/ i = v
  BY <1>3
<1>7. (\A i : Live(i) => cw[i].pk # k[2]) /\ (k[2][1] = "l" => k[2] \notin DOMAIN map)
  BY <1>4 DEF Copies, Posting
<1>8. \A j \in DOMAIN task : j \in LocalKeys /\ j # k => task[j].pc = "idle"
  BY <1>0, <1>4, OneLocal
<1>9. <<"local", v>> \notin lost
  BY <1>2, <1>3 DEF Copies
<1>10. \A i : Live(i) => i \in 1..n
  BY <1>2 DEF Live, Mirror
<1>19. \A i : Mirror(i)' <=> Mirror(i) \/ i = v
  <2>1. \A i : Mirror(i)' <=> i \in 1..v /\ cw'[i].by = "mirror"
    BY <1>5 DEF Mirror
  <2>2. \A i : Mirror(i) <=> i \in 1..n /\ cw[i].by = "mirror"
    BY <1>2 DEF Mirror
  <2>3. v \in 1..v /\ \A i \in 1..n : i \in 1..v
    BY <1>3
  <2> QED BY <1>5, <1>6, <2>1, <2>2, <2>3
<1>11. \A i : ~Recording(i)
  BY <1>4, <1>8 DEF Recording
<1>12. Only(k)
  BY <1>4 DEF Jumps, Stops
<1>13. \A j \in DOMAIN task' : j # k /\ j \in LocalKeys => task'[j].pc = "idle"
  BY <1>8, <1>12 DEF Only
<1>14. k \in DOMAIN task'
  BY <1>12 DEF Only
<1>15. \A x : <<"local", x>> \in lost' => x \in 1..Len(cw')
  <2>1. \A x : <<"local", x>> \in lost => x \in 1..n
    BY <1>2 DEF Copies
  <2> QED BY <1>3, <1>4, <1>5, <2>1
<1>16. \A i \in 1..n : Live(i) => Mapped(i)'
  BY <1>1, <1>5, <1>10, <1>11 DEF Copies, Mapped
<1>17. CASE Jumps(k, "map", v) /\ UNCHANGED lost
  <2>1. task'[k].pc = "map" /\ task'[k].c = v
    BY <1>17 DEF Jumps
  <2>2. \A i : Live(i)' <=> (Live(i) \/ i = v)
    BY <1>9, <1>17, <1>19 DEF Live
  <2>3. Recording(v)'
    BY <1>4, <1>14, <2>1 DEF Recording
  <2>4. \A i : Live(i)' => Mapped(i)' \/ Recording(i)'
    BY <1>10, <1>16, <2>2, <2>3
  <2>5. \A i : Live(i) => i # v /\ cw'[i].pk = cw[i].pk
    BY <1>3, <1>5, <1>10
  <2>6. \A i, j : Live(i)' /\ Live(j)' /\ cw'[i].pk = cw'[j].pk => i = j
    BY <1>5, <1>7, <2>2, <2>5 DEF Copies
  <2>7. \A j \in DOMAIN task' : j \in LocalKeys => task'[j].pc \notin Posting
    BY <1>13, <2>1, IdlePcs
  <2>8. ASSUME NEW j \in DOMAIN task', j \in LocalKeys, task'[j].pc = "map"
        PROVE  Live(task[j].c)' /\ cw'[task'[j].c].pk = j[2] /\ (j[2][1] = "l" => j[2] \notin DOMAIN map')
    <3>1. j = k
      BY <1>13, <2>8
    <3>2. Live(v)'
      BY <2>2
    <3> QED BY <1>1, <1>5, <1>7, <2>1, <3>1, <3>2
  <2> QED BY <1>15, <2>4, <2>6, <2>7, <2>8 DEF Copies
<1>18. CASE Stops(k) /\ lost' = lost \cup {<<"local", v>>}
  <2>1. \A i : Live(i)' <=> Live(i)
    <3>1. \A i : Live(i) => i # v
      BY <1>3, <1>10
    <3>2. \A i : <<"local", i>> \in lost' <=> <<"local", i>> \in lost \/ i = v
      BY <1>18
    <3> QED BY <1>19, <3>1, <3>2 DEF Live
  <2>2. \A i : Live(i)' => Mapped(i)'
    BY <1>10, <1>16, <2>1
  <2>3. \A i : Live(i) => cw'[i].pk = cw[i].pk
    BY <1>3, <1>5, <1>10
  <2>4. \A i, j : Live(i)' /\ Live(j)' /\ cw'[i].pk = cw'[j].pk => i = j
    BY <2>1, <2>3 DEF Copies
  <2>5. \A j \in DOMAIN task' : j \in LocalKeys => task'[j].pc \notin Posting /\ task'[j].pc # "map"
    BY <1>13, <1>18, IdlePcs DEF Stops
  <2> QED BY <1>15, <2>2, <2>4, <2>5 DEF Copies
<1> QED BY <1>4, <1>17, <1>18

LEMMA RecordMirrorCopies ==
    ASSUME Base, Copies, NEW k \in DOMAIN task, RecordMirror(k) PROVE Copies' /\ MapCalm
<1>0. Tidy /\ TypedRows
  BY DEF Base
<1>1. /\ k \in LocalKeys /\ task[k].pc = "map" /\ UNCHANGED <<cw, lost>>
      /\ map' = With(map, k[2], Map(task[k].c, "synced"))
  BY DEF RecordMirror, remote, history
<1>2. PICK c, m : c = task[k].c /\ m = Map(task[k].c, "synced")
  OBVIOUS
<1>3. m.c = c /\ map' = With(map, k[2], m)
  BY <1>1, <1>2 DEF Map
<1>4. DOMAIN map' = DOMAIN map \cup {k[2]} /\ map'[k[2]] = m /\ \A q \in DOMAIN map : q # k[2] => map'[q] = map[q]
  BY <1>3 DEF With
<1>5. Live(c) /\ cw[c].pk = k[2] /\ (k[2][1] = "l" => k[2] \notin DOMAIN map)
  BY <1>1, <1>2 DEF Copies
<1>6. MapCalm
  BY <1>4, <1>5 DEF MapCalm
<1>7. Stops(k)
  BY <1>0, EndMetaStep
<1>8. \A j \in DOMAIN task : j \in LocalKeys /\ j # k => task[j].pc = "idle"
  BY <1>0, <1>1, OneLocal
<1>9. \A j \in DOMAIN task' : j \in LocalKeys => task'[j].pc \notin Posting /\ task'[j].pc # "map"
  BY <1>7, <1>8, IdlePcs DEF Stops, Only
<1>10. \A i : Live(i)' <=> Live(i)
  BY <1>1 DEF Live, Mirror
<1>11. \A i : Recording(i) => i = c
  BY <1>2, <1>8 DEF Recording
<1>12. \A i : Live(i) => Mapped(i)'
  <2>1. ASSUME NEW i, Live(i), Mapped(i), i # c PROVE Mapped(i)'
    <3>1. cw[i].pk # k[2]
      BY <1>5, <2>1 DEF Copies
    <3> QED BY <1>1, <1>4, <2>1, <3>1 DEF Mapped
  <2>2. Mapped(c)'
    BY <1>1, <1>3, <1>4, <1>5 DEF Mapped
  <2> QED BY <1>11, <2>1, <2>2 DEF Copies
<1>13. \A i, j : Live(i)' /\ Live(j)' /\ cw'[i].pk = cw'[j].pk => i = j
  BY <1>1, <1>10 DEF Copies
<1>14. \A x : <<"local", x>> \in lost' => x \in 1..Len(cw')
  BY <1>1 DEF Copies
<1> QED BY <1>6, <1>9, <1>10, <1>12, <1>13, <1>14 DEF Copies

LEMMA CrashCopies == ASSUME Base, Copies, WorkerCrashes PROVE Copies'
<1>0. Tidy
  BY DEF Base
<1>1. UNCHANGED <<cw, map>> /\ \A j \in DOMAIN task' : task'[j].pc = "idle"
  BY <1>0, CrashStep DEF WorkerCrashes, remote, mapping, Halts
<1>2. /\ \A x : x \in lost => x \in lost'
      /\ \A x \in lost' : x \in lost \/ \E j \in DOMAIN task : task[j].pc \in {"map", "told"} /\ x = <<j[1], task[j].c>>
      /\ \A j \in DOMAIN task : task[j].pc = "map" => <<j[1], task[j].c>> \in lost'
  BY DEF WorkerCrashes, Running
<1>3. \A i : Live(i)' => Live(i)
  BY <1>1, <1>2 DEF Live, Mirror
<1>4. ASSUME NEW i, Live(i)' PROVE ~Recording(i)
  <2>1. SUFFICES ASSUME NEW j \in DOMAIN task, j \in LocalKeys, task[j].pc = "map", task[j].c = i PROVE FALSE
    BY DEF Recording
  <2>2. <<j[1], i>> \in lost' /\ j[1] = "local"
    BY <1>2, <2>1, KeyKinds
  <2> QED BY <1>4, <2>2 DEF Live
<1>5. \A i : Live(i)' => Mapped(i)'
  BY <1>1, <1>3, <1>4 DEF Copies, Mapped
<1>6. ASSUME NEW x, <<"local", x>> \in lost' PROVE x \in 1..Len(cw')
  <2>1. CASE <<"local", x>> \in lost
    BY <1>1, <2>1 DEF Copies
  <2>2. CASE <<"local", x>> \notin lost
    <3>1. PICK j \in DOMAIN task : task[j].pc \in {"map", "told"} /\ <<"local", x>> = <<j[1], task[j].c>>
      BY <1>2, <1>6, <2>2
    <3>2. j[1] = "local" /\ task[j].c = x
      BY <3>1
    <3>3. j \in LocalKeys /\ task[j].pc = "map"
      BY <1>0, <3>1, <3>2, FitsAs, KeyKinds DEF Tidy, TypedTasks
    <3>4. Live(x)
      BY <3>2, <3>3 DEF Copies
    <3> QED BY <1>1, <3>4 DEF Live, Mirror
  <2> QED BY <2>1, <2>2
<1>7. \A i, j : Live(i)' /\ Live(j)' /\ cw'[i].pk = cw'[j].pk => i = j
  BY <1>1, <1>3 DEF Copies
<1>8. \A j \in DOMAIN task' : task'[j].pc \notin Posting /\ task'[j].pc # "map"
  BY <1>1, IdlePcs
<1> QED BY <1>5, <1>6, <1>7, <1>8 DEF Copies

LEMMA CwLen == ASSUME TypedWorld PROVE Len(cw) \in Nat /\ cw \in Seq(Messages)
BY DEF TypedWorld
LEMMA CwSame == ASSUME Len(cw) \in Nat, UNCHANGED <<cw, lost>> PROVE CwKept /\ LostKept
BY DEF CwKept, LostKept

LEMMA AgentWritesCw == ASSUME TypedWorld, NEW type \in Types, AgentWrites(type) PROVE CwKept
<1>1. PICK n \in Nat : n = Len(cw)
  BY CwLen
<1>2. PICK v \in Nat : cw' = Append(cw, Cw("agent", <<>>, TRUE, type, v))
  <2>1. Len(rconv) \in Nat
    BY DEF TypedWorld
  <2>2. \A v \in 1..Len(rconv) : v \in Nat
    BY <2>1
  <2> QED BY <2>2 DEF AgentWrites
<1>3. PICK m : m = Cw("agent", <<>>, TRUE, type, v)
  OBVIOUS
<1>4. m.by = "agent" /\ m \in Messages
  BY <1>3 DEF Cw, Messages
<1>5. Len(cw') = n + 1 /\ cw'[n + 1] = m /\ \A i \in 1..n : cw'[i] = cw[i]
  <2>1. cw' = Append(cw, m)
    BY <1>2, <1>3
  <2>2. cw \in Seq(Messages)
    BY CwLen
  <2> QED BY <1>1, <1>4, <2>1, <2>2
<1>6. \A i \in 1..(n + 1) : i \in 1..n \/ i = n + 1
  OBVIOUS
<1>7. Len(cw) <= Len(cw')
  BY <1>1, <1>5
<1> QED BY <1>1, <1>4, <1>5, <1>6, <1>7 DEF CwKept

LEMMA AgentDeletesCw == ASSUME TypedWorld, NEW i \in Ids, AgentDeletes(i) PROVE CwKept
<1>1. PICK n \in Nat : n = Len(cw)
  BY CwLen
<1>2. cw' = [cw EXCEPT ![i].deleted = TRUE] /\ cw \in Seq(Messages) /\ i \in 1..n
  BY <1>1, CwLen DEF AgentDeletes
<1>3. \A j \in 1..n : cw[j] \in Messages
  BY <1>1, <1>2
<1>4. cw' = [cw EXCEPT ![i] = [cw[i] EXCEPT !.deleted = TRUE]]
  BY <1>2
<1>5. PICK m : m = [cw[i] EXCEPT !.deleted = TRUE]
  OBVIOUS
<1>6. m.by = cw[i].by /\ m.pk = cw[i].pk /\ m.conv = cw[i].conv
  BY <1>2, <1>3, <1>5 DEF Messages
<1>7. Len(cw') = n /\ \A j \in 1..n : cw'[j] = IF j = i THEN m ELSE cw[j]
  BY <1>1, <1>2, <1>4, <1>5
<1>8. \A j \in 1..n : cw'[j].by = cw[j].by /\ cw'[j].pk = cw[j].pk /\ cw'[j].conv = cw[j].conv
  BY <1>6, <1>7
<1> QED BY <1>1, <1>7, <1>8 DEF CwKept

LEMMA OutsideCw ==
    ASSUME TypedWorld, World \/ Accepting \/ Runtime \/ \E d \in DOMAIN hook : AcceptFails(d)
    PROVE  CwKept /\ LostKept /\ UNCHANGED map
<1>1. CASE \E type \in Types : AgentWrites(type)
  BY <1>1, AgentWritesCw DEF AgentWrites, mapping, history, LostKept
<1>2. CASE \E i \in Ids : AgentDeletes(i)
  BY <1>2, AgentDeletesCw DEF AgentDeletes, mapping, history, LostKept
<1>3. CASE \/ \E j \in Locals : Received(j) \/ Begins(j)
           \/ \E pk \in DOMAIN row : Refused(pk) \/ Recalled(pk)
           \/ \E v \in Convs : AgentResolves(v)
           \/ Switch \/ Backfill
           \/ \E s \in States, b \in 0..MaxMoves : StateChanges(s, b)
  <2>1. UNCHANGED <<cw, lost, map>>
    BY <1>3 DEF Received, Begins, Refused, Recalled, AgentResolves, Switch, Backfill, StateChanges, Quiet, remote, mapping, history
  <2> QED BY <2>1, CwLen, CwSame
<1>4. CASE Accepting \/ Runtime \/ \E d \in DOMAIN hook : AcceptFails(d)
  <2>1. UNCHANGED <<cw, lost, map>>
    BY <1>4 DEF Accepting, RecordWebhook, CreateHookTask, Runtime, Completes, AcceptFails, Quiet, remote, mapping, history
  <2> QED BY <2>1, CwLen, CwSame
<1> QED BY <1>1, <1>2, <1>3, <1>4 DEF World

LEMMA TaskCw ==
    ASSUME TypedWorld, NEW k,
           \/ FailStep(k) \/ MoveStep(k) \/ HookStep(k) \/ InboxStep(k) \/ SnapStep(k)
           \/ TakeLocal(k) \/ RecordMirror(k) \/ RecordRecalled(k) \/ \E x : PartStep(k, x)
    PROVE  CwKept /\ LostKept
<1>1. CASE \/ FailStep(k) \/ HookStep(k) \/ InboxStep(k) \/ SnapStep(k)
           \/ TakeLocal(k) \/ RecordMirror(k) \/ RecordRecalled(k)
  <2>1. UNCHANGED <<cw, lost>>
    BY <1>1 DEF FailStep, CreateRetry, RequestFails, PieceTimesOut, HookStep, TakeIgnored, TakeResolved, TakeOver, TakeCreated,
       SendPiece, PieceAnswered, TakeDeleted, RecallsDone, InboxStep, FindInbox, NewInbox, FindConv, NewConv, MapConv,
       ResolveOld, SnapStep, LookForSnapshot, CreateSnapshot, TakeLocal, RecordMirror, RecordRecalled,
       Goes, Quiet, remote, history
  <2> QED BY <2>1, CwLen, CwSame
<1>2. CASE MoveStep(k)
  <2>1. UNCHANGED cw
    BY <1>2 DEF MoveStep, EndMeta, TakeMeta, TakeStatus, TakeAlert, FindPlace, NewPlace, RecordPlace, PostAlert, RecordAlert,
       Goes, remote
  <2>2. CwKept
    BY <2>1, CwLen DEF CwKept
  <2>3. LostKept
    BY <1>2 DEF MoveStep, EndMeta, TakeMeta, TakeStatus, TakeAlert, FindPlace, NewPlace, RecordPlace, PostAlert, RecordAlert,
       Goes, history, LostKept
  <2> QED BY <2>2, <2>3
<1>3. CASE \E x : PartStep(k, x)
  <2>1. UNCHANGED <<cw, lost>>
    BY <1>3 DEF PartStep, RecordPiece, FinishRecall, RecallHandled, RecallSucceeds, RecallFails, NoteRecall,
       Quiet, remote, history
  <2> QED BY <2>1, CwLen, CwSame
<1> QED BY <1>1, <1>2, <1>3

LEMMA QuietMap ==
    ASSUME NEW k, FailStep(k) \/ MoveStep(k) \/ InboxStep(k) \/ SnapStep(k) PROVE UNCHANGED map
BY DEF FailStep, CreateRetry, RequestFails, PieceTimesOut, MoveStep, EndMeta, TakeMeta, TakeStatus, TakeAlert, FindPlace,
   NewPlace, RecordPlace, PostAlert, RecordAlert, InboxStep, FindInbox, NewInbox, FindConv, NewConv, MapConv,
   ResolveOld, SnapStep, LookForSnapshot, CreateSnapshot, Goes, Quiet, mapping

(* Where the copies are.                                                   *)
Sited == \A i : Mirror(i) => bind = 1 /\ Managed /\ cw[i].conv = cmap /\ cw[i].pk \in Pks
LEMMA SitedCalm ==
    ASSUME Sited, CwKept, Len(cw) \in Nat, Len(cw') \in Nat, PlaceSame PROVE Sited'
<1>1. PICK n \in Nat, m \in Nat : n = Len(cw) /\ m = Len(cw')
  OBVIOUS
<1>2. ASSUME NEW i, Mirror(i)' PROVE Mirror(i) /\ cw'[i].pk = cw[i].pk /\ cw'[i].conv = cw[i].conv
  <2>1. i \in 1..m /\ cw'[i].by = "mirror"
    BY <1>1, <1>2 DEF Mirror
  <2>2. i \in 1..n
    BY <1>1, <2>1 DEF CwKept
  <2>3. cw'[i].by = cw[i].by /\ cw'[i].pk = cw[i].pk /\ cw'[i].conv = cw[i].conv
    BY <1>1, <2>2 DEF CwKept
  <2> QED BY <1>1, <2>1, <2>2, <2>3 DEF Mirror
<1> QED BY <1>2 DEF Sited, PlaceSame, Managed

LEMMA SitedInbox == ASSUME Base, Places, Sited, NEW k \in DOMAIN task, InboxStep(k) PROVE Sited'
<1>0. Tidy /\ TypedWorld /\ bind \in Nat /\ cmap \in Nat /\ rconv \in Seq(Nat) /\ inboxes \in Nat /\ PlacesAre /\ PlaceAt(k)
  BY PlacesIs DEF Base, TypedWorld
<1>1. UNCHANGED cw
  BY DEF InboxStep, FindInbox, NewInbox, FindConv, NewConv, MapConv, ResolveOld, Goes, remote
<1>2. \A i : Mirror(i)' <=> Mirror(i)
  BY <1>1 DEF Mirror
<1>3. CASE \A i : ~Mirror(i)
  BY <1>2, <1>3 DEF Sited
<1>4. CASE \E i : Mirror(i)
  <2>1. bind = 1 /\ Managed
    BY <1>4 DEF Sited
  <2>2. bind' = bind
    <3>1. CASE FindInbox(k)
      BY <2>1, <3>1 DEF FindInbox
    <3>2. CASE NewInbox(k)
      BY <1>0, <2>1, <3>2 DEF NewInbox, PlaceAt, PlacesAre
    <3>3. CASE FindConv(k) \/ NewConv(k) \/ MapConv(k) \/ ResolveOld(k)
      BY <3>3 DEF FindConv, NewConv, MapConv, ResolveOld, mapping
    <3> QED BY <3>1, <3>2, <3>3 DEF InboxStep
  <2>3. cmap' = cmap
    <3>1. CASE MapConv(k)
      BY <2>1, <3>1, MapConvPlaces
    <3>2. CASE FindInbox(k) \/ NewInbox(k) \/ FindConv(k) \/ NewConv(k) \/ ResolveOld(k)
      BY <3>2 DEF FindInbox, NewInbox, FindConv, NewConv, ResolveOld, mapping
    <3> QED BY <3>1, <3>2 DEF InboxStep
  <2>4. cmap \in 1..Len(rconv) /\ rconv'[cmap] = rconv[cmap]
    <3>1. cmap \in 1..Len(rconv)
      BY <1>0, <2>1 DEF Managed, PlacesAre
    <3>2. rconv' = rconv \/ rconv' = Append(rconv, bind)
      BY DEF InboxStep, FindInbox, NewInbox, FindConv, NewConv, MapConv, ResolveOld, Goes, remote
    <3> QED BY <1>0, <3>1, <3>2
  <2>5. Managed'
    BY <2>1, <2>2, <2>3, <2>4 DEF Managed
  <2> QED BY <1>1, <1>2, <2>1, <2>2, <2>3, <2>5 DEF Sited
<1> QED BY <1>3, <1>4

LEMMA SitedPost == ASSUME Base, Places, Sited, NEW k \in DOMAIN task, PostMessage(k) PROVE Sited'
<1>0. Tidy /\ TypedWorld /\ cw \in Seq(Messages) /\ PlaceAt(k)
  BY PlacesIs DEF Base, TypedWorld
<1>1. UNCHANGED <<bind, cmap, rconv>> /\ cw' = Append(cw, Cw("mirror", k[2], row[k[2]].dir = "out", "text", cmap))
  BY DEF PostMessage, mapping
<1>2. PICK n \in Nat : n = Len(cw)
  BY <1>0
<1>3. k \in LocalKeys /\ task[k].pc = "post"
  BY <1>0, PostMessageStep
<1>4. k[2] \in Pks /\ bind = 1 /\ Managed
  BY <1>0, <1>3, KeyKinds DEF PlaceAt
<1>5. /\ Len(cw') = n + 1 /\ \A i \in 1..n : cw'[i] = cw[i]
      /\ cw'[n + 1].conv = cmap /\ cw'[n + 1].pk = k[2]
  BY <1>0, <1>1, <1>2 DEF Cw
<1>6. ASSUME NEW i, Mirror(i)' PROVE cw'[i].conv = cmap /\ cw'[i].pk \in Pks
  <2>1. i \in 1..n \/ i = n + 1
    BY <1>5, <1>6 DEF Mirror
  <2>2. CASE i \in 1..n
    <3>1. Mirror(i)
      BY <1>2, <1>5, <1>6, <2>2 DEF Mirror
    <3> QED BY <1>5, <2>2, <3>1 DEF Sited
  <2> QED BY <1>4, <1>5, <2>1, <2>2
<1>7. Managed'
  BY <1>1, <1>4 DEF Managed
<1> QED BY <1>1, <1>4, <1>6, <1>7 DEF Sited

-----------------------------------------------------------------------------
(* Every step keeps the copies.                                            *)

Copying == Places /\ Chosen /\ Copies /\ Sited

LEMMA CopyingCalm ==
    ASSUME Base, Base', Copying, Chosen', CwKept, LostKept, MapCalm, MapNew, LocalsKept, PlaceSame PROVE Copies' /\ Sited'
<1>1. Len(cw) \in Nat /\ Len(cw') \in Nat
  BY DEF Base, TypedWorld
<1> QED BY <1>1, CopiesCalm, SitedCalm DEF Copying

LEMMA FailCopying == ASSUME Base, Base', Copying, NEW k \in DOMAIN task, FailStep(k) PROVE Chosen' /\ Copies' /\ Sited'
<1>1. Stops(k) /\ task[k].pc # "map"
  BY FailStops
<1>2. MapCalm /\ MapNew /\ CwKept /\ LostKept /\ PlaceSame /\ LocalsKept
  BY <1>1, QuietMap, MapSameCalm, TaskCw, TaskPlaces, StopsKept DEF Base
<1>3. Chosen'
  BY <1>1, <1>2, ChosenStops DEF Stops, Copying
<1> QED BY <1>2, <1>3, CopyingCalm

LEMMA MoveCopying == ASSUME Base, Base', Copying, NEW k \in DOMAIN task, MoveStep(k) PROVE Chosen' /\ Copies' /\ Sited'
<1>1. MapCalm /\ MapNew /\ CwKept /\ LostKept /\ PlaceSame /\ LocalsKept
  BY QuietMap, MapSameCalm, TaskCw, TaskPlaces, MoveKept DEF Base
<1>2. Tidy /\ shown \in Seq(States)
  BY DEF Base, TypedWorld
<1>3. Only(k) /\ task'[k].pc \notin Recalling
  <2>1. CASE EndMeta(k) \/ RecordAlert(k)
    BY <1>2, <2>1, EndMetaStep DEF Stops, Recalling
  <2>2. CASE TakeMeta(k)
    BY <1>2, <2>2, TakeMetaStep DEF Jumps, Recalling
  <2>3. CASE TakeStatus(k) \/ TakeAlert(k)
    BY <1>2, <2>3, TakeAccountStep DEF Steps, Recalling
  <2>4. CASE FindPlace(k) \/ NewPlace(k) \/ RecordPlace(k)
    BY <1>2, <2>4, PlaceStep DEF Steps, Stops, Recalling
  <2>5. CASE PostAlert(k)
    BY <1>2, <2>5, PostAlertStep DEF Jumps, Stops, Recalling
  <2> QED BY <2>1, <2>2, <2>3, <2>4, <2>5 DEF MoveStep
<1>4. Chosen'
  BY <1>1, <1>3, ChosenOnly DEF Copying
<1> QED BY <1>1, <1>4, CopyingCalm

LEMMA InboxOnly == ASSUME Base, NEW k \in DOMAIN task, InboxStep(k) PROVE Only(k) /\ k \notin AnyHook
<1>0. Tidy /\ rconv \in Seq(Nat) /\ bind \in Nat /\ cmap \in Nat
  BY DEF Base, TypedWorld
<1>1. task[k].pc \in Shared
  BY DEF InboxStep, FindInbox, NewInbox, FindConv, NewConv, MapConv, ResolveOld, Shared
<1>2. Only(k)
  <2>1. CASE FindInbox(k)
    BY <1>0, <2>1, FindInboxStep DEF Steps
  <2>2. CASE NewInbox(k)
    BY <1>0, <2>2, NewInboxStep DEF Steps, Stops
  <2>3. CASE FindConv(k)
    BY <1>0, <2>3, FindConvStep DEF Steps, Jumps
  <2>4. CASE NewConv(k)
    BY <1>0, <2>4, NewConvStep DEF Jumps, Stops
  <2>5. CASE MapConv(k)
    BY <1>0, <2>5, MapConvStep DEF Jumps
  <2>6. CASE ResolveOld(k)
    BY <1>0, <2>6, ResolveOldStep DEF Steps
  <2> QED BY <2>1, <2>2, <2>3, <2>4, <2>5, <2>6 DEF InboxStep
<1> QED BY <1>0, <1>1, <1>2, FitsAs

LEMMA InboxCopying == ASSUME Base, Base', Copying, NEW k \in DOMAIN task, InboxStep(k) PROVE Chosen' /\ Copies' /\ Sited'
<1>1. MapCalm /\ MapNew /\ CwKept /\ LostKept /\ LocalsKept
  BY QuietMap, MapSameCalm, TaskCw, InboxKept DEF Base
<1>2. Chosen'
  BY <1>1, InboxOnly, ChosenStops DEF Copying
<1>3. Len(cw) \in Nat /\ Len(cw') \in Nat
  BY DEF Base, TypedWorld
<1> QED BY <1>1, <1>2, <1>3, CopiesCalm, SitedInbox DEF Copying

LEMMA HookCopying ==
    ASSUME Base, Base', Copying, NEW k \in DOMAIN task, HookStep(k) \/ SnapStep(k) \/ \E x : PartStep(k, x)
    PROVE  Chosen' /\ Copies' /\ Sited'
<1>1. CwKept /\ LostKept /\ PlaceSame
  BY TaskCw, TaskPlaces DEF Base
<1>2. LocalsKept
  BY HookWork, PartWork, HookKept, SnapKept
<1>3. MapCalm /\ MapNew
  BY HookMap, PartMap, QuietMap, MapSameCalm DEF Copying
<1>4. Chosen'
  BY ChosenHook, ChosenSnap, ChosenPart DEF Copying
<1> QED BY <1>1, <1>2, <1>3, <1>4, CopyingCalm

LEMMA LocalCopying ==
    ASSUME Base, Base', Copying, NEW k \in DOMAIN task, LocalStep(k) PROVE Chosen' /\ Copies' /\ Sited'
<1>0. Tidy /\ TypedRows /\ TypedWorld /\ Len(cw) \in Nat /\ Len(cw') \in Nat
  BY DEF Base, TypedWorld
<1>1. CASE TakeLocal(k)
  <2>1. MapCalm /\ CwKept /\ PlaceSame
    BY <1>0, <1>1, LocalMap, TaskCw, TaskPlaces DEF LocalStep
  <2>2. k \notin AnyHook /\ Only(k)
    BY <1>0, <1>1, TakeLocalStep, KeyKinds DEF Stops, Jumps
  <2>3. Chosen' /\ Sited'
    BY <1>0, <2>1, <2>2, ChosenStops, SitedCalm DEF Copying
  <2> QED BY <1>1, <2>3, TakeLocalCopies DEF Copying
<1>2. CASE PostMessage(k)
  <2>1. MapCalm
    BY <1>2, LocalMap
  <2>2. k \notin AnyHook /\ Only(k)
    BY <1>0, <1>2, PostMessageStep, KeyKinds DEF Stops, Jumps
  <2>3. Chosen'
    BY <2>1, <2>2, ChosenStops DEF Copying
  <2> QED BY <1>2, <2>3, PostMessageCopies, SitedPost DEF Copying
<1>3. CASE RecordMirror(k)
  <2>1. CwKept /\ PlaceSame
    BY <1>0, <1>3, TaskCw, TaskPlaces DEF LocalStep
  <2>2. Stops(k) /\ MapCalm /\ Copies'
    BY <1>0, <1>3, EndMetaStep, RecordMirrorCopies DEF Copying
  <2>3. Chosen'
    BY <2>2, ChosenStops DEF Stops, Copying
  <2> QED BY <1>0, <2>1, <2>2, <2>3, SitedCalm DEF Copying
<1>4. CASE RecordRecalled(k)
  <2>1. CwKept /\ LostKept /\ PlaceSame /\ MapCalm /\ MapNew
    BY <1>0, <1>4, LocalMap, TaskCw, TaskPlaces DEF LocalStep
  <2>2. Stops(k) /\ task[k].pc # "map"
    BY <1>0, <1>4, EndMetaStep DEF RecordRecalled
  <2>3. LocalsKept
    BY <2>2, StopsKept
  <2>4. Chosen'
    BY <2>1, <2>2, ChosenStops DEF Stops, Copying
  <2> QED BY <2>1, <2>3, <2>4, CopyingCalm
<1> QED BY <1>1, <1>2, <1>3, <1>4 DEF LocalStep

LEMMA AddsCopying ==
    ASSUME Base, Base', Copying, Adds, CwKept, LostKept, UNCHANGED map, PlaceSame PROVE Chosen' /\ Copies' /\ Sited'
BY AddsKept, MapSameCalm, ChosenAdds, CopyingCalm DEF Copying

LEMMA CopyingNext == ASSUME Base, Copying, [Next]_vars PROVE Copying'
<1>0. Base' /\ Places'
  BY BaseNext, PlacesStay DEF Copying
<1>1. CASE UNCHANGED vars
  <2>1. UNCHANGED <<task, aside, cw, lost, map>> /\ PlaceSame
    BY <1>1 DEF vars, remote, mapping, history, PlaceSame
  <2>2. Adds /\ CwKept /\ LostKept
    BY <2>1, StaysTidy, CwLen, CwSame DEF Base
  <2> QED BY <1>0, <2>1, <2>2, AddsCopying DEF Copying
<1>2. CASE World \/ Accepting \/ Runtime \/ \E d \in DOMAIN hook : AcceptFails(d)
  <2>1. Adds /\ CwKept /\ LostKept /\ UNCHANGED map /\ PlaceSame
    BY <1>2, OutsideAdds, OutsideCw, OutsidePlaces DEF Base
  <2> QED BY <1>0, <2>1, AddsCopying DEF Copying
<1>3. CASE WorkerCrashes
  <2>1. Chosen' /\ Copies'
    BY <1>3, CrashCopies, CrashStep, ChosenHalts DEF Copying, Base
  <2>2. UNCHANGED cw /\ PlaceSame
    BY <1>3 DEF WorkerCrashes, remote, mapping, PlaceSame
  <2>3. Len(cw) \in Nat /\ CwKept
    BY <2>2, CwLen DEF CwKept, Base
  <2>4. Sited'
    BY <2>2, <2>3, SitedCalm DEF Copying
  <2> QED BY <1>0, <2>1, <2>4 DEF Copying
<1>4. CASE \E k \in DOMAIN task : \/ FailStep(k) \/ MoveStep(k) \/ HookStep(k) \/ InboxStep(k) \/ LocalStep(k)
                                  \/ SnapStep(k) \/ \E x : PartStep(k, x)
  <2>1. Chosen' /\ Copies' /\ Sited'
    BY <1>0, <1>4, FailCopying, MoveCopying, HookCopying, InboxCopying, LocalCopying
  <2> QED BY <1>0, <2>1 DEF Copying
<1> QED BY <1>1, <1>2, <1>3, <1>4, NextKinds

LEMMA CopyingInit == ASSUME Init PROVE Copying
<1>1. task = Nothing /\ cw = <<>> /\ lost = {}
  BY DEF Init
<1>2. DOMAIN task = {} /\ Len(cw) = 0
  BY <1>1 DEF Nothing
<1>3. \A i : ~Mirror(i)
  BY <1>2 DEF Mirror
<1>4. Chosen
  BY <1>2 DEF Chosen
<1>5. Copies
  BY <1>1, <1>2, <1>3 DEF Copies, Live
<1>6. Sited
  BY <1>3 DEF Sited
<1> QED BY <1>4, <1>5, <1>6, PlacesInit DEF Copying

-----------------------------------------------------------------------------
(* How the local messages change.                                          *)

RowGoes(r, s) ==
    /\ s.dir = r.dir /\ (r.recalled => s.recalled) /\ (s.st = r.st \/ (r.st = "sending" /\ s.st \in {"sent", "failed"}))
    /\ s.plat = r.plat \/ (r.st = "sending" /\ s.st = "sent" /\ s.plat = r.plat + 1)
RowsGo ==
    /\ \A q \in DOMAIN row : q \in DOMAIN row' /\ RowGoes(row[q], row'[q])
    /\ \A q \in DOMAIN row' \ DOMAIN row : row'[q].plat = 0 /\ row'[q].recalls = 0 /\ ~row'[q].recalled
(* No new row is one of an agent's message.                                *)
OnlyOwn == \A q \in DOMAIN row' \ DOMAIN row : q[1] = "l"

LEMMA RowSame == ASSUME UNCHANGED row PROVE RowsGo /\ OnlyOwn
BY DEF RowsGo, OnlyOwn, RowGoes

LEMMA RowNew ==
    ASSUME NEW pk, pk \notin DOMAIN row, NEW r, row' = With(row, pk, r), r.plat = 0, r.recalls = 0, ~r.recalled
    PROVE  RowsGo /\ (pk[1] = "l" => OnlyOwn)
<1>1. DOMAIN row' = DOMAIN row \cup {pk} /\ row'[pk] = r /\ \A q \in DOMAIN row : row'[q] = row[q]
  BY DEF With
<1> QED BY <1>1 DEF RowsGo, OnlyOwn, RowGoes

LEMMA RowChanged ==
    ASSUME NEW pk \in DOMAIN row, NEW r, row' = With(row, pk, r), RowGoes(row[pk], r)
    PROVE  RowsGo /\ OnlyOwn
<1>1. DOMAIN row' = DOMAIN row /\ row'[pk] = r /\ \A q \in DOMAIN row : q # pk => row'[q] = row[q]
  BY DEF With
<1> QED BY <1>1 DEF RowsGo, OnlyOwn, RowGoes

LEMMA OutsideRows ==
    ASSUME Base, World \/ Accepting \/ Runtime \/ WorkerCrashes \/ \E d \in DOMAIN hook : AcceptFails(d)
    PROVE  RowsGo /\ OnlyOwn
<1>0. Tidy /\ TypedRows
  BY DEF Base
<1>1. ASSUME NEW j \in Locals, Received(j) \/ Begins(j) PROVE RowsGo /\ OnlyOwn
  <2>1. PICK pk : pk = <<"l", j, "text">>
    OBVIOUS
  <2>2. pk \notin DOMAIN row /\ pk[1] = "l"
    BY <1>1, <2>1 DEF Received, Begins
  <2>3. PICK r : row' = With(row, pk, r) /\ r.plat = 0 /\ r.recalls = 0 /\ ~r.recalled
    BY <1>1, <2>1 DEF Received, Begins, Write, Row
  <2> QED BY <2>2, <2>3, RowNew
<1>2. ASSUME NEW pk \in DOMAIN row, Completes(pk) \/ Refused(pk) \/ Recalled(pk) PROVE RowsGo /\ OnlyOwn
  <2>1. PICK r : row' = With(row, pk, r) /\ RowGoes(row[pk], r)
    <3>1. CASE Completes(pk)
      BY <1>0, <3>1, CompletesStep DEF RowGoes
    <3>2. CASE Refused(pk)
      BY <1>0, <3>2, RefusedStep DEF RowGoes
    <3>3. CASE Recalled(pk)
      BY <1>0, <3>3, RecalledStep DEF RowGoes
    <3> QED BY <1>2, <3>1, <3>2, <3>3
  <2> QED BY <2>1, RowChanged
<1>3. CASE \/ \E type \in Types : AgentWrites(type)
           \/ \E i \in Ids : AgentDeletes(i)
           \/ \E v \in Convs : AgentResolves(v)
           \/ Switch \/ Backfill
           \/ \E s \in States, b \in 0..MaxMoves : StateChanges(s, b)
           \/ Accepting \/ WorkerCrashes \/ \E d \in DOMAIN hook : AcceptFails(d)
  <2>1. UNCHANGED row
    BY <1>3 DEF AgentWrites, AgentDeletes, AgentResolves, Switch, Backfill, StateChanges, Accepting, RecordWebhook,
       CreateHookTask, WorkerCrashes, AcceptFails
  <2> QED BY <2>1, RowSame
<1> QED BY <1>1, <1>2, <1>3 DEF World, Runtime

LEMMA QuietRows ==
    ASSUME NEW k, FailStep(k) \/ MoveStep(k) \/ InboxStep(k) \/ SnapStep(k) \/ LocalStep(k) PROVE UNCHANGED row
BY DEF FailStep, CreateRetry, RequestFails, PieceTimesOut, MoveStep, EndMeta, TakeMeta, TakeStatus, TakeAlert, FindPlace,
   NewPlace, RecordPlace, PostAlert, RecordAlert, InboxStep, FindInbox, NewInbox, FindConv, NewConv, MapConv,
   ResolveOld, SnapStep, LookForSnapshot, CreateSnapshot, Goes, LocalStep, TakeLocal, PostMessage, RecordMirror, RecordRecalled

LEMMA HookRows ==
    ASSUME Base, NEW k \in DOMAIN task, HookStep(k)
    PROVE  RowsGo /\ (SendPiece(k) \/ OnlyOwn)
<1>0. Tidy
  BY DEF Base
<1>1. CASE SendPiece(k)
  <2>1. PICK pk : pk = Piece(k)
    OBVIOUS
  <2>2. UNCHANGED row \/ (pk \notin DOMAIN row /\ row' = With(row, pk, Row("out", "sending")))
    BY <1>0, <1>1, <2>1, SendPieceStep
  <2>3. PICK r : r = Row("out", "sending")
    OBVIOUS
  <2>4. r.plat = 0 /\ r.recalls = 0 /\ ~r.recalled
    BY <2>3 DEF Row
  <2> QED BY <1>1, <2>2, <2>3, <2>4, RowNew, RowSame
<1>2. CASE TakeIgnored(k) \/ TakeResolved(k) \/ TakeOver(k) \/ TakeCreated(k) \/ PieceAnswered(k) \/ TakeDeleted(k) \/ RecallsDone(k)
  <2>1. UNCHANGED row
    BY <1>2 DEF TakeIgnored, TakeResolved, TakeOver, TakeCreated, PieceAnswered, TakeDeleted, RecallsDone
  <2> QED BY <2>1, RowSame
<1> QED BY <1>1, <1>2 DEF HookStep

LEMMA PartRows ==
    ASSUME Base, NEW k \in DOMAIN task, NEW x, PartStep(k, x) PROVE RowsGo /\ OnlyOwn
<1>0. Tidy /\ TypedRows
  BY DEF Base
<1>1. CASE RecordPiece(k, x) \/ FinishRecall(k, x) \/ RecallHandled(k, x) \/ NoteRecall(k, x)
  <2>1. UNCHANGED row
    BY <1>1 DEF RecordPiece, FinishRecall, RecallHandled, NoteRecall
  <2> QED BY <2>1, RowSame
<1>2. CASE RecallSucceeds(k, x) \/ RecallFails(k, x)
  <2>1. Picks(k, x)
    BY <1>2 DEF RecallSucceeds, RecallFails, RecallOpen
  <2>2. x[1] \in DOMAIN row
    BY <2>1, ItemsBacked
  <2>3. PICK pk : pk = x[1]
    OBVIOUS
  <2>4. row[pk] \in Rows
    BY <1>0, <2>2, <2>3 DEF TypedRows
  <2>5. UNCHANGED row \/ \E rec \in BOOLEAN : /\ row[pk].recalled => rec
            /\ row' = With(row, pk, [row[pk] EXCEPT !.recalled = rec, !.recalls = @ + 1])
    BY <1>0, <1>2, <2>2, <2>3, RecallSucceedsStep, RecallFailsStep
  <2>6. CASE UNCHANGED row
    BY <2>6, RowSame
  <2>7. ASSUME NEW rec \in BOOLEAN, row[pk].recalled => rec,
               row' = With(row, pk, [row[pk] EXCEPT !.recalled = rec, !.recalls = @ + 1])
        PROVE  RowsGo /\ OnlyOwn
    <3>1. PICK r : r = [row[pk] EXCEPT !.recalled = rec, !.recalls = @ + 1]
      OBVIOUS
    <3>2. row' = With(row, pk, r) /\ RowGoes(row[pk], r)
      BY <2>4, <2>7, <3>1 DEF RowGoes, Rows
    <3> QED BY <2>2, <2>3, <3>2, RowChanged
  <2> QED BY <2>5, <2>6, <2>7
<1> QED BY <1>1, <1>2 DEF PartStep

LEMMA NextRows == ASSUME Base, [Next]_vars PROVE RowsGo
<1>1. CASE UNCHANGED vars
  BY <1>1, RowSame DEF vars
<1> QED BY <1>1, NextKinds, OutsideRows, QuietRows, RowSame, HookRows, PartRows

(* A message goes to the platform at most once.                            *)
LEMMA PlatsNext == ASSUME Base, Plats, [Next]_vars PROVE Plats'
<1>1. RowsGo /\ row \in [DOMAIN row -> Rows]
  BY NextRows DEF Base, TypedRows
<1>2. ASSUME NEW q \in DOMAIN row' PROVE row'[q].plat <= 1 /\ (row'[q].st = "sending" => row'[q].plat = 0)
  <2>1. CASE q \in DOMAIN row
    <3>1. RowGoes(row[q], row'[q]) /\ row[q].plat \in Nat
      BY <1>1, <2>1 DEF RowsGo, Rows
    <3> QED BY <2>1, <3>1 DEF RowGoes, Plats
  <2>2. CASE q \notin DOMAIN row
    BY <1>1, <2>2 DEF RowsGo
  <2> QED BY <2>1, <2>2
<1> QED BY <1>2 DEF Plats

-----------------------------------------------------------------------------
(* What is known about a message stays known.                              *)

Grows ==
    /\ hit \subseteq hit' /\ aside \subseteq aside' /\ (\A x : <<"local", x>> \in lost => <<"local", x>> \in lost')
    /\ DOMAIN map \subseteq DOMAIN map'

LEMMA OutsideHistory ==
    ASSUME World \/ Accepting \/ Runtime \/ WorkerCrashes \/ \E d \in DOMAIN hook : AcceptFails(d)
    PROVE  hit \subseteq hit' /\ aside \subseteq aside' /\ lost \subseteq lost' /\ UNCHANGED map
<1>1. CASE World
  BY <1>1 DEF World, Received, Begins, Refused, Recalled, AgentWrites, AgentDeletes, AgentResolves, Switch, Backfill,
     StateChanges, Quiet, mapping, history
<1>2. CASE Accepting
  BY <1>2 DEF Accepting, RecordWebhook, CreateHookTask, mapping, history
<1>3. CASE Runtime \/ WorkerCrashes \/ \E d \in DOMAIN hook : AcceptFails(d)
  BY <1>3 DEF Runtime, Completes, WorkerCrashes, AcceptFails, Quiet, mapping, history
<1> QED BY <1>1, <1>2, <1>3

LEMMA TaskHistory ==
    ASSUME NEW k, \/ FailStep(k) \/ MoveStep(k) \/ HookStep(k) \/ InboxStep(k) \/ LocalStep(k) \/ SnapStep(k)
                  \/ \E x : PartStep(k, x)
    PROVE  hit \subseteq hit' /\ UNCHANGED aside /\ lost \subseteq lost'
<1>1. CASE FailStep(k)
  BY <1>1 DEF FailStep, CreateRetry, RequestFails, PieceTimesOut, history
<1>2. CASE MoveStep(k)
  BY <1>2 DEF MoveStep, EndMeta, TakeMeta, TakeStatus, TakeAlert, FindPlace, NewPlace, RecordPlace, PostAlert, RecordAlert,
     Goes, history
<1>3. CASE HookStep(k)
  BY <1>3 DEF HookStep, TakeIgnored, TakeResolved, TakeOver, TakeCreated, SendPiece, PieceAnswered, TakeDeleted, RecallsDone,
     Quiet, history
<1>4. CASE LocalStep(k) \/ SnapStep(k) \/ InboxStep(k)
  BY <1>4 DEF LocalStep, SnapStep, InboxStep, TakeLocal, PostMessage, RecordMirror, RecordRecalled, LookForSnapshot,
     CreateSnapshot, FindInbox, NewInbox, FindConv, NewConv, MapConv, ResolveOld, Goes, history
<1>5. CASE \E x : PartStep(k, x)
  BY <1>5 DEF PartStep, RecordPiece, FinishRecall, RecallHandled, RecallSucceeds, RecallFails, NoteRecall, Quiet, history
<1> QED BY <1>1, <1>2, <1>3, <1>4, <1>5

LEMMA NextGrows == ASSUME Base, Copying, [Next]_vars PROVE Grows
<1>1. CASE UNCHANGED vars
  BY <1>1 DEF vars, mapping, history, Grows
<1>2. CASE World \/ Accepting \/ Runtime \/ WorkerCrashes \/ \E d \in DOMAIN hook : AcceptFails(d)
  BY <1>2, OutsideHistory DEF Grows
<1>3. CASE \E k \in DOMAIN task : \/ FailStep(k) \/ MoveStep(k) \/ HookStep(k) \/ InboxStep(k) \/ LocalStep(k)
                                  \/ SnapStep(k) \/ \E x : PartStep(k, x)
  <2>1. PICK k \in DOMAIN task : \/ FailStep(k) \/ MoveStep(k) \/ HookStep(k) \/ InboxStep(k) \/ LocalStep(k)
                                 \/ SnapStep(k) \/ \E x : PartStep(k, x)
    BY <1>3
  <2>2. hit \subseteq hit' /\ aside \subseteq aside' /\ lost \subseteq lost'
    BY <2>1, TaskHistory
  <2>3. MapCalm
    BY <2>1, QuietMap, MapSameCalm, HookMap, PartMap, LocalMap, RecordMirrorCopies DEF Copying, LocalStep
  <2> QED BY <2>2, <2>3 DEF Grows, MapCalm
<1> QED BY <1>1, <1>2, <1>3, NextKinds

LEMMA DisturbedStays == ASSUME Grows PROVE \A pk : Disturbed(pk) => Disturbed(pk)'
BY DEF Grows, Disturbed

LEMMA CreationKnown ==
    ASSUME Base, NEW k \in DOMAIN task, NEW i, Creation(k, i)
    PROVE  i \in 1..Len(cw) /\ i \in Ids /\ k \in AnyHook /\ k \in HookKeys
<1>1. k \in AnyHook /\ k[2] = <<"created", i>>
  <2>1. k[1] = "hook" /\ k[2] = <<"created", i>>
    BY DEF Creation
  <2>2. k \in LocalKeys \cup MoveKeys \cup AnyHook
    BY DEF Base, Tidy, TypedTasks
  <2> QED BY <2>1, <2>2, KeyKinds
<1>2. k[2] \in sent
  BY <1>1 DEF Base, TypedHooks
<1>3. k[2][1] # "resolved" /\ k[2][2] = i
  BY <1>1
<1>4. i \in 1..Len(cw)
  BY <1>2, <1>3 DEF Base, TypedWorld
<1>5. i \in Ids
  BY <1>1, <1>3, KeyKinds, EventKinds
<1>6. k \in HookKeys
  BY <1>1, <1>5 DEF Creation, HookKeys, Events
<1> QED BY <1>1, <1>4, <1>5, <1>6

LEMMA MirrorKept ==
    ASSUME CwKept, Len(cw) \in Nat, Len(cw') \in Nat, NEW i
    PROVE  (Mirror(i)' <=> Mirror(i)) /\ (Mirror(i) => cw'[i].pk = cw[i].pk)
<1>1. PICK n \in Nat, m \in Nat : n = Len(cw) /\ m = Len(cw')
  OBVIOUS
<1>2. n <= m /\ \A j \in 1..n : j \in 1..m /\ cw'[j].by = cw[j].by /\ cw'[j].pk = cw[j].pk
  BY <1>1 DEF CwKept
<1>3. \A j \in 1..m : j \in 1..n \/ cw'[j].by = "agent"
  BY <1>1 DEF CwKept
<1>4. Mirror(i)' <=> i \in 1..m /\ cw'[i].by = "mirror"
  BY <1>1 DEF Mirror
<1>5. Mirror(i) <=> i \in 1..n /\ cw[i].by = "mirror"
  BY <1>1 DEF Mirror
<1> QED BY <1>2, <1>3, <1>4, <1>5

-----------------------------------------------------------------------------
(* An agent's message on its way to the buyer.                             *)

CarriedBy(t, pk) == \/ t.pc \in {"send", "wait"} /\ pk \in t.todo \cup t.yes \cup t.no
                    \/ t.pc = "map" /\ pk \in t.todo
Carried(pk) == \E k \in DOMAIN task : Creation(k, pk[2]) /\ CarriedBy(task[k], pk)
(* A piece that has a row is mapped, or its webhook's task is about to.    *)
Pending == \A pk \in DOMAIN row \ DOMAIN map : pk[1] = "c" => Disturbed(pk) \/ Carried(pk)
(* A piece is posted back, if at all, after a fault.                       *)
Unposted == \A k \in DOMAIN task : k \in LocalKeys /\ task[k].pc \in Posting /\ k[2][1] = "c" => Disturbed(k[2])
CopiesDisturbed == \A i : Mirror(i) /\ cw[i].pk[1] = "c" => Disturbed(cw[i].pk)
(* The webhook of a copy runs with the account's tasks.                    *)
NotAside == \A i : /\ Mirror(i) => <<"hook", <<"created", i>>>> \notin aside
                   /\ <<"hook", <<"created", i>>>> \in aside => i \in 1..Len(cw)
Unknown(i) == <<"local", i>> \in lost \/ Disturbed(cw[i].pk)
(* A copy is taken for an agent's message only if its answer was lost.     *)
Unsent == \A k \in DOMAIN task : \A i :
            Mirror(i) /\ Creation(k, i) /\ task[k].pc \in {"send", "wait"} => Unknown(i)
Settled == \A pk \in DOMAIN row : pk[1] = "c" => /\ pk[2] \in 1..Len(cw)
                                                 /\ Mirror(pk[2]) => Unknown(pk[2])
Forwards == Pending /\ Unposted /\ CopiesDisturbed /\ NotAside /\ Unsent /\ Settled

CarryKept == \A pk : pk[1] = "c" /\ Carried(pk) => Carried(pk)' \/ pk \in DOMAIN map' \/ Disturbed(pk)'
PostsKept == \A j \in DOMAIN task' : j \in LocalKeys /\ task'[j].pc \in Posting => j \in DOMAIN task /\ task[j].pc \in Posting
SendsKept == \A j \in DOMAIN task' : j \in AnyHook /\ task'[j].pc \in {"send", "wait"} =>
                j \in DOMAIN task /\ task[j].pc \in {"send", "wait"}

LEMMA PendingCalm == ASSUME Grows, OnlyOwn, RowsGo, Pending, CarryKept PROVE Pending'
<1>1. \A pk : Disturbed(pk) => Disturbed(pk)'
  BY DisturbedStays
<1>2. ASSUME NEW pk \in DOMAIN row' \ DOMAIN map', pk[1] = "c" PROVE Disturbed(pk)' \/ Carried(pk)'
  <2>1. pk \in DOMAIN row \ DOMAIN map
    BY <1>2 DEF OnlyOwn, Grows
  <2> QED BY <1>1, <1>2, <2>1 DEF Pending, CarryKept
<1> QED BY <1>2 DEF Pending

LEMMA UnpostedCalm == ASSUME Grows, Unposted, PostsKept PROVE Unposted'
BY DisturbedStays DEF Unposted, PostsKept

LEMMA UnknownStays == ASSUME Grows, NEW i, cw'[i].pk = cw[i].pk, Unknown(i) PROVE Unknown(i)'
<1>1. PICK pk : pk = cw[i].pk
  OBVIOUS
<1>2. Disturbed(pk) => Disturbed(pk)'
  BY DisturbedStays
<1> QED BY <1>1, <1>2 DEF Unknown, Grows, Disturbed

LEMMA CopiesDisturbedCalm ==
    ASSUME Grows, CopiesDisturbed, CwKept, Len(cw) \in Nat, Len(cw') \in Nat PROVE CopiesDisturbed'
<1>1. ASSUME NEW i, Mirror(i)', cw'[i].pk[1] = "c" PROVE Disturbed(cw[i].pk)'
  <2>1. Mirror(i) /\ cw'[i].pk = cw[i].pk
    BY <1>1, MirrorKept
  <2>2. PICK pk : pk = cw[i].pk
    OBVIOUS
  <2>3. Disturbed(pk)
    BY <1>1, <2>1, <2>2 DEF CopiesDisturbed
  <2>4. Disturbed(pk)'
    BY <2>3, DisturbedStays
  <2> QED BY <2>1, <2>2, <2>4 DEF Disturbed
<1> QED BY <1>1 DEF CopiesDisturbed

LEMMA UnsentCalm ==
    ASSUME Grows, Unsent, CwKept, Len(cw) \in Nat, Len(cw') \in Nat, SendsKept, Base' PROVE Unsent'
<1>1. ASSUME NEW k \in DOMAIN task', NEW i, Mirror(i)', Creation(k, i), task'[k].pc \in {"send", "wait"} PROVE Unknown(i)'
  <2>0. k \in AnyHook
    <3>1. k \in LocalKeys \cup MoveKeys \cup AnyHook /\ k[1] = "hook"
      BY <1>1 DEF Base, Tidy, TypedTasks, Creation
    <3> QED BY <3>1, KeyKinds
  <2>1. Mirror(i) /\ cw'[i].pk = cw[i].pk
    BY <1>1, MirrorKept
  <2>2. k \in DOMAIN task /\ task[k].pc \in {"send", "wait"}
    BY <1>1, <2>0 DEF SendsKept
  <2>3. Unknown(i)
    BY <1>1, <2>1, <2>2 DEF Unsent
  <2> QED BY <2>1, <2>3, UnknownStays
<1> QED BY <1>1 DEF Unsent, Creation

LEMMA SettledCalm ==
    ASSUME Grows, Settled, CwKept, Len(cw) \in Nat, Len(cw') \in Nat, OnlyOwn, RowsGo PROVE Settled'
<1>1. Len(cw) <= Len(cw')
  BY DEF CwKept
<1>2. ASSUME NEW pk \in DOMAIN row', pk[1] = "c" PROVE pk[2] \in 1..Len(cw') /\ (Mirror(pk[2])' => Unknown(pk[2])')
  <2>1. pk \in DOMAIN row
    BY <1>2 DEF OnlyOwn
  <2>2. PICK i : i = pk[2]
    OBVIOUS
  <2>3. i \in 1..Len(cw) /\ (Mirror(i) => Unknown(i))
    BY <1>2, <2>1, <2>2 DEF Settled
  <2>4. Mirror(i)' => Unknown(i)'
    BY <2>3, MirrorKept, UnknownStays
  <2>5. Mirror(pk[2])' => Unknown(pk[2])'
    BY <2>2, <2>4 DEF Mirror, Unknown, Disturbed
  <2> QED BY <1>1, <2>2, <2>3, <2>5
<1> QED BY <1>2 DEF Settled

LEMMA NotAsideCalm ==
    ASSUME NotAside, CwKept, Len(cw) \in Nat, Len(cw') \in Nat, UNCHANGED aside PROVE NotAside'
<1>1. Len(cw) <= Len(cw')
  BY DEF CwKept
<1>2. \A i : i \in 1..Len(cw) => i \in 1..Len(cw')
  BY <1>1
<1> QED BY <1>2, MirrorKept DEF NotAside

LEMMA CarryAdds == ASSUME Adds PROVE CarryKept /\ PostsKept /\ SendsKept
<1>1. \A j \in DOMAIN task' : (j \in DOMAIN task /\ task'[j] = task[j]) \/ task'[j].pc = "idle"
  BY DEF Adds
<1>2. \A j \in DOMAIN task : j \in DOMAIN task' /\ task'[j] = task[j]
  BY DEF Adds
<1>3. \A pk : Carried(pk) => Carried(pk)'
  BY <1>2 DEF Carried, CarriedBy
<1> QED BY <1>1, <1>3, IdlePcs DEF CarryKept, PostsKept, SendsKept

LEMMA CarryOnly ==
    ASSUME NEW k \in DOMAIN task, Only(k),
           \A pk : pk[1] = "c" /\ Creation(k, pk[2]) /\ CarriedBy(task[k], pk) =>
              CarriedBy(task[k], pk)' \/ pk \in DOMAIN map' \/ k \in hit'
    PROVE  CarryKept
<1>1. ASSUME NEW pk, pk[1] = "c", Carried(pk) PROVE Carried(pk)' \/ pk \in DOMAIN map' \/ Disturbed(pk)'
  <2>1. PICK j \in DOMAIN task : Creation(j, pk[2]) /\ CarriedBy(task[j], pk)
    BY <1>1 DEF Carried
  <2>2. j \in DOMAIN task'
    BY DEF Only
  <2>3. CASE CarriedBy(task[j], pk)'
    BY <2>1, <2>2, <2>3 DEF Carried
  <2>4. CASE j # k
    <3>1. task'[j] = task[j]
      BY <2>4 DEF Only
    <3>2. CarriedBy(task[j], pk)'
      BY <2>1, <3>1 DEF CarriedBy
    <3> QED BY <2>3, <3>2
  <2>5. CASE j = k /\ k \in hit'
    BY <1>1, <2>1, <2>5 DEF Disturbed, Creation
  <2> QED BY <1>1, <2>1, <2>3, <2>4, <2>5
<1> QED BY <1>1 DEF CarryKept

LEMMA CarryNot ==
    ASSUME NEW k \in DOMAIN task, Only(k), k \notin AnyHook \/ task[k].pc \notin {"send", "wait", "map"}, Base
    PROVE  CarryKept
<1>1. ASSUME NEW pk, Creation(k, pk[2]), CarriedBy(task[k], pk) PROVE FALSE
  BY <1>1, CreationKnown DEF CarriedBy
<1> QED BY <1>1, CarryOnly

LEMMA GetsCarry ==
    ASSUME Base, NEW k \in DOMAIN task, NEW pk, NEW ok, Gets(k, pk, ok), task[k].pc \in {"send", "wait"} PROVE CarryKept
<1>1. PICK t, u : t = task[k] /\ u = task'[k]
  OBVIOUS
<1>2. /\ u.yes = (IF ok THEN t.yes \cup {pk} ELSE t.yes) /\ u.no = (IF ok THEN t.no ELSE t.no \cup {pk})
      /\ \/ u.pc = "send" /\ u.todo = t.todo \ {pk}
         \/ u.pc = "map" /\ t.todo \ {pk} = {} /\ u.todo = u.yes \cup u.no
  BY <1>1 DEF Gets
<1>3. \A q : q \in t.todo \cup t.yes \cup t.no => CarriedBy(u, q)
  BY <1>2 DEF CarriedBy
<1>4. \A q : CarriedBy(t, q) => CarriedBy(u, q)
  BY <1>1, <1>3 DEF CarriedBy
<1>5. \A q : CarriedBy(task[k], q) => CarriedBy(task[k], q)'
  BY <1>1, <1>4 DEF CarriedBy
<1> QED BY <1>5, CarryOnly DEF Gets

LEMMA StepsCarry ==
    ASSUME NEW k \in DOMAIN task, Steps(k, "wait"), task[k].pc \in {"send", "wait"} PROVE CarryKept
<1>1. \A q : CarriedBy(task[k], q) => CarriedBy(task[k], q)'
  BY DEF CarriedBy, Steps, Like
<1> QED BY <1>1, CarryOnly DEF Steps

LEMMA RecordPieceCarry ==
    ASSUME Base, NEW k \in DOMAIN task, NEW x \in task[k].todo, RecordPiece(k, x) PROVE CarryKept
<1>1. /\ task[k].pc = "map"
      /\ \/ Sets(k, task[k].todo \ {x}, task[k].yes, task[k].no)
         \/ Stops(k) /\ task[k].todo = {x}
         \/ Steps(k, "takeover") /\ task[k].todo = {x}
  BY RecordPieceStep DEF Base
<1>2. x \in DOMAIN map'
  BY DEF RecordPiece, With
<1>3. ASSUME NEW q, CarriedBy(task[k], q) PROVE CarriedBy(task[k], q)' \/ q \in DOMAIN map'
  BY <1>1, <1>2, <1>3 DEF CarriedBy, Sets
<1>4. Only(k)
  BY <1>1 DEF Sets, Stops, Steps
<1> QED BY <1>3, <1>4, CarryOnly

LEMMA FailCarry == ASSUME Base, NEW k \in DOMAIN task, FailStep(k) PROVE CarryKept
<1>1. Stops(k) /\ task[k].pc # "map"
  BY FailStops
<1>2. Only(k)
  BY <1>1 DEF Stops
<1>3. CASE CreateRetry(k)
  BY <1>2, <1>3, CarryNot DEF CreateRetry
<1>4. CASE RequestFails(k) \/ PieceTimesOut(k)
  <2>1. \A i : Creation(k, i) => k \in hit'
    BY <1>4, CreationKnown DEF RequestFails, PieceTimesOut
  <2> QED BY <1>2, <2>1, CarryOnly
<1> QED BY <1>3, <1>4 DEF FailStep

LEMMA ReadyNot == ASSUME Base, NEW k \in DOMAIN task, Ready(k), Only(k) PROVE CarryKept
BY CarryNot DEF Ready, Running

LEMMA MoveNot == ASSUME NEW k, MoveStep(k) PROVE Ready(k) \/ task[k].pc \in {"end", "told", "place", "newplace", "setplace", "alert"}
BY DEF MoveStep, EndMeta, TakeMeta, TakeStatus, TakeAlert, FindPlace, NewPlace, RecordPlace, PostAlert, RecordAlert

LEMMA MoveOnly == ASSUME Base, NEW k \in DOMAIN task, MoveStep(k) PROVE Only(k) /\ task'[k].pc \notin {"send", "wait"} \cup Recalling
<1>2. Tidy /\ shown \in Seq(States)
  BY DEF Base, TypedWorld
<1>3. CASE EndMeta(k) \/ RecordAlert(k)
  BY <1>2, <1>3, EndMetaStep DEF Stops, Recalling
<1>4. CASE TakeMeta(k)
  BY <1>2, <1>4, TakeMetaStep DEF Jumps, Recalling
<1>5. CASE TakeStatus(k) \/ TakeAlert(k)
  BY <1>2, <1>5, TakeAccountStep DEF Steps, Recalling
<1>6. CASE FindPlace(k) \/ NewPlace(k) \/ RecordPlace(k)
  BY <1>2, <1>6, PlaceStep DEF Steps, Stops, Recalling
<1>7. CASE PostAlert(k)
  BY <1>2, <1>7, PostAlertStep DEF Jumps, Stops, Recalling
<1> QED BY <1>3, <1>4, <1>5, <1>6, <1>7 DEF MoveStep

LEMMA LocalOnly == ASSUME Base, NEW k \in DOMAIN task, LocalStep(k)
    PROVE  Only(k) /\ k \in LocalKeys /\ k \notin AnyHook /\ (task[k].pc = "idle" \/ task'[k].pc \notin Posting)
<1>0. Tidy /\ TypedRows /\ TypedWorld
  BY DEF Base
<1>1. k \in LocalKeys
  <2>1. CASE PostMessage(k)
    BY <1>0, <2>1, PostMessageStep
  <2>2. CASE TakeLocal(k) \/ RecordMirror(k) \/ RecordRecalled(k)
    BY <2>2 DEF TakeLocal, RecordMirror, RecordRecalled
  <2> QED BY <2>1, <2>2 DEF LocalStep
<1>2. Only(k) /\ (task[k].pc = "idle" \/ task'[k].pc \notin Posting)
  <2>1. CASE TakeLocal(k)
    <3>1. Ready(k) /\ (Stops(k) \/ Jumps(k, LocalGoes(k[2]), MapOf(k[2]).c))
      BY <1>0, <2>1, TakeLocalStep
    <3> QED BY <3>1, ReadyIdle DEF Stops, Jumps
  <2>2. CASE PostMessage(k)
    <3>1. Only(k) /\ task'[k].pc \in {"map", "idle", "retry"}
      BY <1>0, <2>2, PostMessageStep DEF Stops, Jumps
    <3> QED BY <3>1, IdlePcs
  <2>3. CASE RecordMirror(k) \/ RecordRecalled(k)
    <3>1. Stops(k)
      BY <1>0, <2>3, EndMetaStep
    <3> QED BY <3>1, IdlePcs DEF Stops
  <2> QED BY <2>1, <2>2, <2>3 DEF LocalStep
<1> QED BY <1>1, <1>2, KeyKinds

LEMMA SnapOnly == ASSUME Base, NEW k \in DOMAIN task, SnapStep(k)
    PROVE  Only(k) /\ task[k].pc \in {"look", "snap"} /\ task'[k].pc \in {"idle", "retry", "snap", "final"}
BY SnapshotStep DEF SnapStep, Base, Steps, Stops

LEMMA HookCarry == ASSUME Base, NEW k \in DOMAIN task, HookStep(k) PROVE CarryKept
<1>0. Tidy /\ Only(k)
  BY HookWork DEF Base
<1>1. CASE TakeIgnored(k) \/ TakeResolved(k) \/ TakeCreated(k) \/ TakeDeleted(k)
  BY <1>0, <1>1, ReadyNot DEF TakeIgnored, TakeResolved, TakeCreated, TakeDeleted, Takes
<1>2. CASE TakeOver(k) \/ RecallsDone(k)
  BY <1>0, <1>2, CarryNot DEF TakeOver, RecallsDone
<1>3. CASE SendPiece(k) \/ PieceAnswered(k)
  <2>1. task[k].pc \in {"send", "wait"} /\ (Steps(k, "wait") \/ \E pk, ok : Gets(k, pk, ok))
    BY <1>0, <1>3, SendPieceStep, PieceAnsweredStep
  <2> QED BY <2>1, StepsCarry, GetsCarry
<1> QED BY <1>1, <1>2, <1>3 DEF HookStep

LEMMA PartCarry == ASSUME Base, NEW k \in DOMAIN task, NEW x, PartStep(k, x) PROVE CarryKept
<1>1. Only(k) /\ Tidy
  BY PartWork DEF Base
<1>2. CASE x \in task[k].todo /\ RecordPiece(k, x)
  BY <1>2, RecordPieceCarry
<1>3. CASE FinishRecall(k, x) \/ RecallHandled(k, x) \/ RecallSucceeds(k, x) \/ RecallFails(k, x) \/ NoteRecall(k, x)
  <2>1. task[k].pc \in {"final", "recall"}
    BY <1>3 DEF FinishRecall, RecallHandled, RecallSucceeds, RecallFails, NoteRecall, RecallOpen, Picks
  <2> QED BY <1>1, <2>1, CarryNot
<1> QED BY <1>2, <1>3 DEF PartStep

LEMMA TaskCarry ==
    ASSUME Base, NEW k \in DOMAIN task,
           \/ FailStep(k) \/ MoveStep(k) \/ HookStep(k) \/ InboxStep(k) \/ LocalStep(k) \/ SnapStep(k)
           \/ \E x : PartStep(k, x)
    PROVE  CarryKept
<1>1. CASE MoveStep(k)
  BY <1>1, MoveNot, MoveOnly, ReadyNot, CarryNot
<1>2. CASE InboxStep(k) \/ LocalStep(k)
  BY <1>2, InboxOnly, LocalOnly, CarryNot
<1>3. CASE SnapStep(k)
  BY <1>3, SnapOnly, CarryNot
<1> QED BY <1>1, <1>2, <1>3, FailCarry, HookCarry, PartCarry

LEMMA CrashCarry == ASSUME Base, WorkerCrashes PROVE CarryKept /\ PostsKept /\ SendsKept
<1>1. Halts
  BY CrashStep DEF Base
<1>2. ASSUME NEW pk, pk[1] = "c", Carried(pk) PROVE Disturbed(pk)'
  <2>1. PICK j \in DOMAIN task : Creation(j, pk[2]) /\ CarriedBy(task[j], pk)
    BY <1>2 DEF Carried
  <2>2. Running(j)
    BY <2>1 DEF CarriedBy, Running
  <2> QED BY <1>1, <1>2, <2>1, <2>2 DEF Halts, Disturbed, Creation
<1> QED BY <1>1, <1>2, IdlePcs DEF CarryKept, PostsKept, SendsKept, Halts

LEMMA PostsOnly ==
    ASSUME NEW k \in DOMAIN task, Only(k), k \notin LocalKeys \/ task'[k].pc \notin Posting \/ task[k].pc \in Posting
    PROVE  PostsKept
<1>1. \A j \in DOMAIN task' : j = k \/ (j \in DOMAIN task /\ task'[j] = task[j]) \/ task'[j].pc = "idle"
  BY DEF Only
<1> QED BY <1>1, IdlePcs DEF PostsKept

LEMMA SendsOnly ==
    ASSUME NEW k \in DOMAIN task, Only(k),
           k \notin AnyHook \/ task'[k].pc \notin {"send", "wait"} \/ task[k].pc \in {"send", "wait"}
    PROVE  SendsKept
<1>1. \A j \in DOMAIN task' : j = k \/ (j \in DOMAIN task /\ task'[j] = task[j]) \/ task'[j].pc = "idle"
  BY DEF Only
<1> QED BY <1>1 DEF SendsKept

LEMMA TaskPosts ==
    ASSUME Base, NEW k \in DOMAIN task,
           \/ FailStep(k) \/ MoveStep(k) \/ HookStep(k) \/ InboxStep(k) \/ SnapStep(k) \/ PostMessage(k)
           \/ RecordMirror(k) \/ RecordRecalled(k) \/ \E x : PartStep(k, x)
    PROVE  PostsKept
<1>1. CASE FailStep(k) \/ MoveStep(k) \/ HookStep(k) \/ InboxStep(k) \/ SnapStep(k) \/ \E x : PartStep(k, x)
  <2>1. LocalsKept
    BY <1>1, FailStops, StopsKept, MoveKept, HookWork, PartWork, HookKept, InboxKept, SnapKept
  <2> QED BY <2>1 DEF LocalsKept, PostsKept
<1>2. CASE PostMessage(k) \/ RecordMirror(k) \/ RecordRecalled(k)
  <2>1. task[k].pc # "idle"
    BY <1>2 DEF PostMessage, RecordMirror, RecordRecalled
  <2> QED BY <1>2, <2>1, LocalOnly, PostsOnly DEF LocalStep
<1> QED BY <1>1, <1>2

LEMMA PartPcs == ASSUME Base, NEW k \in DOMAIN task, NEW x, PartStep(k, x) PROVE task'[k].pc \notin {"send", "wait"}
<1>0. Tidy /\ TypedRows
  BY DEF Base
<1>1. CASE x \in task[k].todo /\ RecordPiece(k, x)
  BY <1>0, <1>1, RecordPieceStep DEF Sets, Stops, Steps
<1>2. CASE FinishRecall(k, x)
  BY <1>0, <1>2, FinishRecallStep DEF Sets, Stops
<1>3. CASE RecallHandled(k, x) \/ RecallSucceeds(k, x) \/ RecallFails(k, x) \/ NoteRecall(k, x)
  <2>1. Picks(k, x) /\ task[k].pc = "recall"
    BY <1>3 DEF RecallHandled, RecallSucceeds, RecallFails, NoteRecall, RecallOpen, Picks
  <2>2. x[1] \in DOMAIN row
    BY <2>1, ItemsBacked
  <2>4. \E todo, yes, no : Sets(k, todo, yes, no)
    BY <1>0, <1>3, <2>2, RecallHandledStep, RecallSucceedsStep, RecallFailsStep, NoteRecallStep DEF Outcome
  <2> QED BY <2>1, <2>4 DEF Sets
<1> QED BY <1>1, <1>2, <1>3 DEF PartStep

LEMMA HookPcs ==
    ASSUME Base, NEW k \in DOMAIN task, HookStep(k)
    PROVE  TakeCreated(k) \/ task'[k].pc \notin {"send", "wait"} \/ task[k].pc \in {"send", "wait"}
<1>0. Tidy /\ TypedRows
  BY DEF Base
<1>1. CASE TakeIgnored(k) \/ TakeResolved(k) \/ TakeOver(k)
  BY <1>0, <1>1, HookTakenStep DEF Stops
<1>2. CASE SendPiece(k) \/ PieceAnswered(k)
  BY <1>2 DEF SendPiece, PieceAnswered
<1>3. CASE TakeDeleted(k)
  BY <1>0, <1>3, TakeDeletedStep DEF Stops, Reads
<1>4. CASE RecallsDone(k)
  BY <1>0, <1>4, RecallsDoneStep DEF Stops, Steps
<1> QED BY <1>1, <1>2, <1>3, <1>4 DEF HookStep

LEMMA TaskSends ==
    ASSUME Base, NEW k \in DOMAIN task,
           \/ FailStep(k) \/ MoveStep(k) \/ (HookStep(k) /\ ~TakeCreated(k)) \/ InboxStep(k) \/ LocalStep(k) \/ SnapStep(k)
           \/ \E x : PartStep(k, x)
    PROVE  SendsKept
<1>1. CASE FailStep(k)
  BY <1>1, FailStops, SendsOnly DEF Stops
<1>2. CASE MoveStep(k)
  BY <1>2, MoveOnly, SendsOnly
<1>3. CASE HookStep(k) /\ ~TakeCreated(k)
  BY <1>3, HookWork, HookPcs, SendsOnly
<1>4. CASE InboxStep(k) \/ LocalStep(k)
  BY <1>4, InboxOnly, LocalOnly, SendsOnly
<1>5. CASE SnapStep(k)
  BY <1>5, SnapOnly, SendsOnly
<1>6. CASE \E x : PartStep(k, x)
  BY <1>6, PartWork, PartPcs, SendsOnly
<1> QED BY <1>1, <1>2, <1>3, <1>4, <1>5, <1>6

-----------------------------------------------------------------------------
(* The steps that begin to send a message.                                 *)

LEMMA TakeLocalForwards ==
    ASSUME Base, Copying, Forwards, Grows, NEW k \in DOMAIN task, TakeLocal(k) PROVE Unposted'
<1>0. Tidy /\ TypedRows
  BY DEF Base
<1>1. /\ k \in LocalKeys /\ Ready(k)
      /\ \/ Stops(k)
         \/ /\ LocalGoes(k[2]) \in {"look", "inbox"}
            /\ Jumps(k, LocalGoes(k[2]), MapOf(k[2]).c)
  BY <1>0, TakeLocalStep
<1>2. Only(k) /\ (task'[k].pc \in Posting => k[2] \notin DOMAIN map)
  BY <1>1, IdlePcs DEF Stops, Jumps, LocalGoes, Posting, Shared
<1>3. CASE task'[k].pc \notin Posting \/ k[2][1] # "c"
  <2>1. \A j \in DOMAIN task' : j = k \/ (j \in DOMAIN task /\ task'[j] = task[j]) \/ task'[j].pc = "idle"
    BY <1>2 DEF Only
  <2>2. \A j \in DOMAIN task : task[j].pc \in Posting /\ j \in LocalKeys /\ j[2][1] = "c" => Disturbed(j[2])
    BY DEF Forwards, Unposted
  <2>3. ASSUME NEW j \in DOMAIN task', j \in LocalKeys, task'[j].pc \in Posting, j[2][1] = "c" PROVE Disturbed(j[2])'
    <3>1. Disturbed(j[2])
      BY <1>3, <2>1, <2>2, <2>3, IdlePcs
    <3> QED BY <3>1, DisturbedStays
  <2> QED BY <2>3 DEF Unposted
<1>4. CASE task'[k].pc \in Posting /\ k[2][1] = "c"
  <2>1. PICK pk : pk = k[2]
    OBVIOUS
  <2>2. pk \in DOMAIN row \ DOMAIN map /\ pk[1] = "c"
    BY <1>1, <1>2, <1>4, <2>1 DEF Base, Backed
  <2>3. Disturbed(pk) \/ Carried(pk)
    BY <2>2 DEF Forwards, Pending
  <2>4. ~task[k].sys
    BY <1>0, <1>1, TidyTask, KeyKinds DEF Fits
  <2>5. \A j \in DOMAIN task : task[j].pc # "idle" => task[j].sys
    BY <1>1, <2>4 DEF Ready, LaneFree, Running
  <2>6. ASSUME Carried(pk) PROVE Disturbed(pk)
    <3>1. PICK j \in DOMAIN task : Creation(j, pk[2]) /\ CarriedBy(task[j], pk)
      BY <2>6 DEF Carried
    <3>2. task[j].sys
      BY <2>5, <3>1 DEF CarriedBy
    <3>3. j \in aside
      BY <1>0, <3>2 DEF Tidy, Asides
    <3> QED BY <2>2, <3>1, <3>3 DEF Disturbed, Creation
  <2>7. Disturbed(pk)'
    BY <2>3, <2>6, DisturbedStays
  <2>8. \A j \in DOMAIN task' : j = k \/ (j \in DOMAIN task /\ task'[j] = task[j]) \/ task'[j].pc = "idle"
    BY <1>2 DEF Only
  <2>9. ASSUME NEW j \in DOMAIN task', j \in LocalKeys, task'[j].pc \in Posting, j[2][1] = "c" PROVE Disturbed(j[2])'
    <3>1. CASE j = k
      BY <2>1, <2>7, <3>1 DEF Disturbed
    <3>2. CASE j # k
      <4>1. Disturbed(j[2])
        BY <2>8, <2>9, <3>2, IdlePcs DEF Forwards, Unposted
      <4> QED BY <4>1, DisturbedStays
    <3> QED BY <3>1, <3>2
  <2> QED BY <2>9 DEF Unposted
<1> QED BY <1>3, <1>4

(* A task beside the account's tasks is known to be.                       *)
LEMMA TakeCreatedForwards ==
    ASSUME Base, Copying, Forwards, Grows, Base', NEW k \in DOMAIN task, TakeCreated(k) PROVE Unsent'
<1>0. Tidy /\ Tidy'
  BY DEF Base
<1>1. /\ k \in HookKeys /\ Ready(k) /\ k[2][1] = "created"
      /\ \/ Stops(k)
         \/ Sends(k, k[2][2]) /\ ~Skipped(k[2][2])
  BY <1>0, TakeCreatedStep
<1>2. PICK c : c = k[2][2]
  OBVIOUS
<1>3. Only(k) /\ (task'[k].pc \in {"send", "wait"} => Creation(k, c) /\ ~Skipped(c))
  BY <1>1, <1>2 DEF Stops, Sends
<1>4. UNCHANGED <<cw, lost, map>> /\ CwKept /\ Len(cw) \in Nat /\ Len(cw') \in Nat
  BY CwLen DEF TakeCreated, remote, history, CwKept, Base
<1>5. ASSUME Mirror(c), Creation(k, c), ~Skipped(c) PROVE Unknown(c)
  <2>1. SUFFICES ASSUME Live(c), ~Disturbed(cw[c].pk) PROVE FALSE
    BY <1>5 DEF Unknown, Live
  <2>2. cw[c].pk \in Pks
    BY <1>5 DEF Copying, Sited
  <2>3. cw[c].pk[1] = "l"
    <3>1. cw[c].pk[1] \in {"l", "c"}
      BY <2>2 DEF Pks
    <3> QED BY <1>5, <2>1, <3>1 DEF Forwards, CopiesDisturbed
  <2>4. MapsOf(c) = {}
    BY <1>5 DEF Skipped
  <2>5. ~Mapped(c)
    BY <2>3, <2>4 DEF Mapped, MapsOf
  <2>6. PICK j \in DOMAIN task : j \in LocalKeys /\ task[j].pc = "map"
    BY <2>1, <2>5 DEF Copying, Copies, Recording
  <2>7. ~task[j].sys
    BY <1>0, <2>6, TidyTask, KeyKinds DEF Fits
  <2>8. task[k].sys
    BY <1>1, <2>6, <2>7 DEF Ready, LaneFree, Running
  <2>9. k \in aside
    BY <1>0, <2>8 DEF Tidy, Asides
  <2> QED BY <1>5, <2>9 DEF Forwards, NotAside, Creation
<1>6. ASSUME NEW j \in DOMAIN task', NEW i, Mirror(i)', Creation(j, i), task'[j].pc \in {"send", "wait"} PROVE Unknown(i)'
  <2>1. Mirror(i) /\ cw'[i].pk = cw[i].pk
    BY <1>4, <1>6, MirrorKept
  <2>2. Unknown(i)
    <3>1. CASE j = k
      <4>1. i = c
        BY <1>3, <1>6, <3>1 DEF Creation
      <4> QED BY <1>3, <1>5, <1>6, <2>1, <3>1, <4>1
    <3>2. CASE j # k
      <4>1. (j \in DOMAIN task /\ task'[j] = task[j]) \/ task'[j].pc = "idle"
        BY <1>3, <3>2 DEF Only
      <4> QED BY <1>6, <2>1, <4>1 DEF Forwards, Unsent
    <3> QED BY <3>1, <3>2
  <2> QED BY <2>1, <2>2, UnknownStays
<1> QED BY <1>6 DEF Unsent, Creation

LEMMA SendPieceForwards ==
    ASSUME Base, Copying, Forwards, Grows, NEW k \in DOMAIN task, SendPiece(k) PROVE Pending' /\ Settled'
<1>0. Tidy /\ UNCHANGED <<cw, map>> /\ Len(cw) \in Nat /\ Len(cw') \in Nat
  BY CwLen DEF Base, SendPiece, Quiet, remote, mapping
<1>1. CwKept
  BY <1>0 DEF CwKept
<1>2. RowsGo /\ CarryKept
  BY HookRows, HookCarry DEF HookStep
<1>3. CASE UNCHANGED row
  BY <1>0, <1>1, <1>2, <1>3, RowSame, PendingCalm, SettledCalm DEF Forwards
<1>4. CASE ~UNCHANGED row
  <2>1. PICK pk : pk = Piece(k)
    OBVIOUS
  <2>2. PICK c : c = task[k].c
    OBVIOUS
  <2>3. /\ task[k].pc = "send" /\ pk \in task[k].todo /\ pk \in Pieces(c) /\ Steps(k, "wait")
        /\ row' = With(row, pk, Row("out", "sending"))
    BY <1>0, <1>4, <2>1, <2>2, SendPieceStep
  <2>4. Creation(k, c) /\ c \in 1..Len(cw)
    <3>1. Creation(k, c)
      BY <1>0, <2>2, <2>3, TidyTask DEF Fits
    <3> QED BY <3>1, CreationKnown
  <2>5. pk[1] = "c" /\ pk[2] = c
    BY <2>3 DEF Pieces
  <2>6. DOMAIN row' = DOMAIN row \cup {pk}
    BY <2>3 DEF With
  <2>7. Carried(pk)'
    <3>1. k \in DOMAIN task' /\ task'[k].pc = "wait" /\ pk \in task'[k].todo
      BY <2>3 DEF Steps, Only, Like
    <3>2. CarriedBy(task[k], pk)'
      BY <3>1 DEF CarriedBy
    <3> QED BY <2>4, <2>5, <3>1, <3>2 DEF Carried
  <2>8. ASSUME NEW q \in DOMAIN row' \ DOMAIN map', q[1] = "c" PROVE Disturbed(q)' \/ Carried(q)'
    <3>1. CASE q = pk
      BY <2>7, <3>1
    <3>2. CASE q # pk
      <4>1. q \in DOMAIN row \ DOMAIN map
        BY <1>0, <2>6, <2>8, <3>2
      <4>2. Disturbed(q) \/ Carried(q)
        BY <2>8, <4>1 DEF Forwards, Pending
      <4>3. Carried(q) => Carried(q)' \/ Disturbed(q)'
        BY <1>2, <2>8 DEF CarryKept
      <4> QED BY <4>2, <4>3, DisturbedStays
    <3> QED BY <3>1, <3>2
  <2>9. ASSUME NEW q \in DOMAIN row', q[1] = "c" PROVE q[2] \in 1..Len(cw') /\ (Mirror(q[2])' => Unknown(q[2])')
    <3>1. PICK i : i = q[2]
      OBVIOUS
    <3>2. i \in 1..Len(cw) /\ (Mirror(i) => Unknown(i))
      <4>1. CASE q = pk
        BY <2>3, <2>4, <2>5, <3>1, <4>1 DEF Forwards, Unsent
      <4>2. CASE q # pk
        BY <2>6, <2>9, <3>1, <4>2 DEF Forwards, Settled
      <4> QED BY <4>1, <4>2
    <3>3. Mirror(i)' => Unknown(i)'
      BY <1>0, <1>1, <3>2, MirrorKept, UnknownStays
    <3>4. Mirror(q[2])' => Unknown(q[2])'
      BY <3>1, <3>3 DEF Mirror, Unknown, Disturbed
    <3> QED BY <1>0, <3>1, <3>2, <3>4
  <2> QED BY <2>8, <2>9 DEF Pending, Settled
<1> QED BY <1>3, <1>4

(* The new copy.                                                           *)
LEMMA PostMessageForwards ==
    ASSUME Base, Copying, Forwards, Grows, Base', NEW k \in DOMAIN task, PostMessage(k)
    PROVE  CopiesDisturbed' /\ NotAside' /\ Unsent' /\ Settled'
<1>0. Tidy /\ TypedWorld /\ cw \in Seq(Messages)
  BY DEF Base, TypedWorld
<1>1. UNCHANGED <<aside, row, map>> /\ cw' = Append(cw, Cw("mirror", k[2], row[k[2]].dir = "out", "text", cmap))
  BY DEF PostMessage, mapping
<1>2. PICK n \in Nat : n = Len(cw)
  BY <1>0
<1>3. PICK v : v = n + 1
  OBVIOUS
<1>4. k \in LocalKeys /\ k \notin AnyHook /\ task[k].pc = "post" /\ Only(k)
  BY <1>0, PostMessageStep, KeyKinds DEF Jumps, Stops
<1>5. Len(cw') = v /\ (\A i \in 1..n : cw'[i] = cw[i]) /\ cw'[v].by = "mirror" /\ cw'[v].pk = k[2]
  BY <1>0, <1>1, <1>2, <1>3 DEF Cw
<1>6. \A i \in 1..v : i \in 1..n \/ i = v
  BY <1>3
<1>7. (\A i \in 1..n : i \in 1..v) /\ v \notin 1..n
  BY <1>2, <1>3
<1>8. ASSUME NEW i, Mirror(i)', i # v PROVE Mirror(i) /\ cw'[i].pk = cw[i].pk
  <2>1. i \in 1..v /\ cw'[i].by = "mirror"
    BY <1>5, <1>8 DEF Mirror
  <2>2. i \in 1..n
    BY <1>6, <1>8, <2>1
  <2> QED BY <1>2, <1>5, <2>1, <2>2 DEF Mirror
<1>9. k[2][1] = "c" => Disturbed(k[2])
  BY <1>4 DEF Forwards, Unposted, Posting
<1>10. ASSUME NEW i, Mirror(i)', cw'[i].pk[1] = "c" PROVE Disturbed(cw[i].pk)'
  <2>1. PICK pk : pk = cw'[i].pk
    OBVIOUS
  <2>2. Disturbed(pk)
    <3>1. CASE i = v
      BY <1>5, <1>9, <1>10, <2>1, <3>1
    <3>2. CASE i # v
      BY <1>8, <1>10, <2>1, <3>2 DEF Forwards, CopiesDisturbed
    <3> QED BY <3>1, <3>2
  <2>3. Disturbed(pk)'
    BY <2>2, DisturbedStays
  <2> QED BY <2>1, <2>3 DEF Disturbed
<1>11. NotAside'
  <2>1. \A i : <<"hook", <<"created", i>>>> \in aside => i \in 1..n
    BY <1>2 DEF Forwards, NotAside
  <2>2. ASSUME NEW i, Mirror(i)' PROVE <<"hook", <<"created", i>>>> \notin aside
    BY <1>7, <1>8, <2>1, <2>2 DEF Forwards, NotAside
  <2> QED BY <1>1, <1>5, <1>7, <2>1, <2>2 DEF NotAside
<1>12. ASSUME NEW j \in DOMAIN task', NEW i, Mirror(i)', Creation(j, i), task'[j].pc \in {"send", "wait"} PROVE Unknown(i)'
  <2>1. j \in DOMAIN task /\ task'[j] = task[j]
    <3>1. j # k
      <4>1. j[1] = "hook" /\ k[1] = "local"
        BY <1>4, <1>12, KeyKinds DEF Creation
      <4> QED BY <4>1
    <3> QED BY <1>4, <1>12, <3>1 DEF Only
  <2>2. i \in 1..n
    BY <1>2, <1>12, <2>1, CreationKnown
  <2>3. Mirror(i) /\ cw'[i].pk = cw[i].pk
    BY <1>7, <1>8, <1>12, <2>2
  <2> QED BY <1>12, <2>1, <2>3, UnknownStays DEF Forwards, Unsent
<1>13. ASSUME NEW q \in DOMAIN row', q[1] = "c" PROVE q[2] \in 1..Len(cw') /\ (Mirror(q[2])' => Unknown(q[2])')
  <2>1. PICK i : i = q[2]
    OBVIOUS
  <2>2. i \in 1..n /\ (Mirror(i) => Unknown(i))
    BY <1>1, <1>2, <1>13, <2>1 DEF Forwards, Settled
  <2>3. Mirror(i)' => Unknown(i)'
    BY <1>7, <1>8, <2>2, UnknownStays
  <2>4. Mirror(q[2])' => Unknown(q[2])'
    BY <2>1, <2>3 DEF Mirror, Unknown, Disturbed
  <2> QED BY <1>5, <1>7, <2>1, <2>2, <2>4
<1> QED BY <1>10, <1>11, <1>12, <1>13 DEF CopiesDisturbed, Unsent, Settled, Creation

LEMMA OutsideAside ==
    ASSUME Base, Copying, Forwards, World \/ Accepting \/ Runtime \/ \E d \in DOMAIN hook : AcceptFails(d)
    PROVE  NotAside'
<1>0. CwKept /\ Len(cw) \in Nat /\ Len(cw') \in Nat
  <2>2. CwKept
    BY OutsideCw DEF Base
  <2>3. Len(cw') \in Nat
    <3>1. Base'
      BY BaseNext DEF Next, Faulty
    <3> QED BY <3>1 DEF Base, TypedWorld
  <2> QED BY <2>2, <2>3, CwLen DEF Base
<1>1. CASE UNCHANGED aside
  BY <1>0, <1>1, NotAsideCalm DEF Forwards
<1>2. CASE \E d \in DOMAIN hook : CreateHookTask(d)
  <2>1. PICK d \in DOMAIN hook : CreateHookTask(d)
    BY <1>2
  <2>2. UNCHANGED cw /\ (aside' = aside \/ (ConvOf(d) # cmap /\ aside' = aside \cup {<<"hook", d>>}))
    BY <2>1 DEF CreateHookTask, remote
  <2>3. ASSUME NEW i, <<"hook", <<"created", i>>>> \in aside', <<"hook", <<"created", i>>>> \notin aside
        PROVE  i \in 1..Len(cw) /\ ~Mirror(i)
    <3>1. d = <<"created", i>> /\ ConvOf(d) # cmap
      BY <2>2, <2>3
    <3>2. cw[i].conv # cmap
      BY <3>1 DEF ConvOf
    <3>3. d \in sent /\ d[1] # "resolved" /\ d[2] = i
      BY <2>1, <3>1 DEF Base, TypedHooks
    <3> QED BY <3>2, <3>3 DEF Base, TypedWorld, Copying, Sited
  <2>4. ASSUME NEW i PROVE /\ Mirror(i)' => <<"hook", <<"created", i>>>> \notin aside'
                           /\ <<"hook", <<"created", i>>>> \in aside' => i \in 1..Len(cw')
    <3>1. Mirror(i)' <=> Mirror(i)
      BY <2>2 DEF Mirror
    <3> QED BY <2>2, <2>3, <3>1 DEF Forwards, NotAside
  <2> QED BY <2>4 DEF NotAside
<1>3. UNCHANGED aside \/ \E d \in DOMAIN hook : CreateHookTask(d)
  BY DEF World, Received, Begins, Refused, Recalled, AgentWrites, AgentDeletes, AgentResolves, Switch, Backfill,
     StateChanges, Accepting, RecordWebhook, Runtime, Completes, AcceptFails, Quiet, history
<1> QED BY <1>1, <1>2, <1>3

LEMMA ForwardsCalm ==
    ASSUME Base', Forwards, Grows, RowsGo, OnlyOwn, CarryKept, PostsKept, SendsKept, CwKept, NotAside',
           Len(cw) \in Nat, Len(cw') \in Nat
    PROVE  Forwards'
BY PendingCalm, UnpostedCalm, CopiesDisturbedCalm, UnsentCalm, SettledCalm DEF Forwards

LEMMA ForwardsNext == ASSUME Base, Copying, Forwards, [Next]_vars PROVE Forwards'
<1>0. Base' /\ Grows /\ RowsGo /\ Len(cw) \in Nat /\ Len(cw') \in Nat
  BY BaseNext, NextGrows, NextRows DEF Base, TypedWorld
<1>1. CASE UNCHANGED vars
  <2>1. UNCHANGED <<task, aside, cw, lost, row>>
    BY <1>1 DEF vars, remote, history
  <2>2. Adds /\ CwKept /\ OnlyOwn
    BY <1>0, <2>1, StaysTidy, CwSame, RowSame DEF Base
  <2>3. CarryKept /\ PostsKept /\ SendsKept /\ NotAside'
    BY <1>0, <2>1, <2>2, CarryAdds, NotAsideCalm DEF Forwards
  <2> QED BY <1>0, <2>2, <2>3, ForwardsCalm
<1>2. CASE World \/ Accepting \/ Runtime \/ \E d \in DOMAIN hook : AcceptFails(d)
  <2>1. Adds /\ CwKept /\ OnlyOwn /\ NotAside'
    BY <1>2, OutsideAdds, OutsideCw, OutsideRows, OutsideAside DEF Base
  <2>2. CarryKept /\ PostsKept /\ SendsKept
    BY <2>1, CarryAdds
  <2> QED BY <1>0, <2>1, <2>2, ForwardsCalm
<1>3. CASE WorkerCrashes
  <2>1. UNCHANGED <<cw, aside>>
    BY <1>3 DEF WorkerCrashes, remote
  <2>2. CwKept /\ CarryKept /\ PostsKept /\ SendsKept /\ OnlyOwn
    BY <1>0, <1>3, <2>1, CrashCarry, OutsideRows DEF CwKept
  <2>3. NotAside'
    BY <1>0, <2>1, <2>2, NotAsideCalm DEF Forwards
  <2> QED BY <1>0, <2>2, <2>3, ForwardsCalm
<1>4. ASSUME NEW k \in DOMAIN task,
             \/ FailStep(k) \/ MoveStep(k) \/ HookStep(k) \/ InboxStep(k) \/ LocalStep(k)
             \/ SnapStep(k) \/ \E x : PartStep(k, x)
      PROVE  Forwards'
  <2>1. CarryKept /\ UNCHANGED aside
    BY <1>4, TaskCarry, TaskHistory
  <2>2. OnlyOwn \/ SendPiece(k)
    BY <1>4, QuietRows, RowSame, HookRows, PartRows
  <2>3. CwKept \/ PostMessage(k)
    BY <1>4, TaskCw DEF LocalStep, Base
  <2>4. PostsKept \/ TakeLocal(k)
    BY <1>4, TaskPosts DEF LocalStep
  <2>5. SendsKept \/ TakeCreated(k)
    BY <1>4, TaskSends
  <2>6. CASE PostMessage(k)
    <3>1. OnlyOwn /\ PostsKept
      BY <2>6, QuietRows, RowSame, TaskPosts DEF LocalStep
    <3>2. Pending' /\ Unposted'
      BY <1>0, <2>1, <3>1, PendingCalm, UnpostedCalm DEF Forwards
    <3> QED BY <1>0, <2>6, <3>2, PostMessageForwards DEF Forwards
  <2>7. CASE SendPiece(k)
    <3>1. CwKept
      BY <2>7, TaskCw DEF HookStep, Base
    <3>2. PostsKept /\ SendsKept
      <4>1. HookStep(k) /\ ~TakeCreated(k)
        BY <2>7 DEF HookStep, SendPiece, TakeCreated, Takes, Ready, Running
      <4> QED BY <4>1, TaskPosts, TaskSends
    <3>3. Unposted' /\ CopiesDisturbed' /\ Unsent' /\ NotAside'
      BY <1>0, <2>1, <3>1, <3>2, UnpostedCalm, CopiesDisturbedCalm, UnsentCalm, NotAsideCalm DEF Forwards
    <3> QED BY <1>0, <2>7, <3>3, SendPieceForwards DEF Forwards
  <2>8. CASE TakeLocal(k)
    <3>1. CwKept /\ OnlyOwn /\ SendsKept
      BY <2>8, TaskCw, QuietRows, RowSame, TaskSends DEF LocalStep, Base
    <3>2. Pending' /\ CopiesDisturbed' /\ Unsent' /\ Settled' /\ NotAside'
      BY <1>0, <2>1, <3>1, PendingCalm, CopiesDisturbedCalm, UnsentCalm, SettledCalm, NotAsideCalm DEF Forwards
    <3> QED BY <1>0, <2>8, <3>2, TakeLocalForwards DEF Forwards
  <2>9. CASE TakeCreated(k)
    <3>1. CwKept /\ PostsKept /\ OnlyOwn
      <4>1. UNCHANGED row
        BY <2>9 DEF TakeCreated
      <4> QED BY <2>9, <4>1, TaskCw, TaskPosts, RowSame DEF HookStep, Base
    <3>2. Pending' /\ CopiesDisturbed' /\ Unposted' /\ Settled' /\ NotAside'
      BY <1>0, <2>1, <3>1, PendingCalm, CopiesDisturbedCalm, UnpostedCalm, SettledCalm, NotAsideCalm DEF Forwards
    <3> QED BY <1>0, <2>9, <3>2, TakeCreatedForwards DEF Forwards
  <2>10. CASE CwKept /\ OnlyOwn /\ PostsKept /\ SendsKept
    BY <1>0, <2>1, <2>10, NotAsideCalm, ForwardsCalm DEF Forwards
  <2> QED BY <2>2, <2>3, <2>4, <2>5, <2>6, <2>7, <2>8, <2>9, <2>10
<1> QED BY <1>1, <1>2, <1>3, <1>4, NextKinds

LEMMA ForwardsInit == ASSUME Init PROVE Forwards /\ Plats
<1>1. DOMAIN task = {} /\ Len(cw) = 0 /\ DOMAIN row = {} /\ aside = {}
  BY DEF Init, Nothing
<1>2. \A i : ~Mirror(i)
  BY <1>1 DEF Mirror
<1> QED BY <1>1, <1>2 DEF Forwards, Pending, Unposted, CopiesDisturbed, NotAside, Unsent, Settled, Plats

(* What the invariants say of the copies.                                  *)
CopyInv == Base /\ Copying /\ Forwards /\ Plats

LEMMA CopyFollows == ASSUME CopyInv PROVE CopiedOnce
<1>0. Base /\ Copying /\ Forwards /\ Plats /\ row \in [DOMAIN row -> Rows] /\ Len(cw) \in Nat
  BY DEF CopyInv, Base, TypedRows, TypedWorld
<1>1. \A pk, i : i \in MirrorsOf(pk) <=> Mirror(i) /\ cw[i].pk = pk
  BY DEF MirrorsOf, Mirror
<1>2. ForwardedOnce
  <2>1. ASSUME NEW pk \in DOMAIN row, NEW i \in MirrorsOf(pk), NEW p \in {"text", "image"}, <<"c", i, p>> \in DOMAIN row
        PROVE  <<"local", i>> \in lost \/ Disturbed(pk)
    <3>1. PICK q : q = <<"c", i, p>>
      OBVIOUS
    <3>2. q \in DOMAIN row /\ q[1] = "c" /\ q[2] = i
      BY <2>1, <3>1
    <3>3. Mirror(i) /\ cw[i].pk = pk
      BY <1>1, <2>1
    <3>4. Unknown(i)
      BY <1>0, <3>2, <3>3 DEF Forwards, Settled
    <3> QED BY <3>3, <3>4 DEF Unknown
  <2> QED BY <1>0, <2>1 DEF ForwardedOnce, Plats
<1>3. MirroredOnce
  <2>1. ASSUME NEW pk \in DOMAIN row
        PROVE  Cardinality({i \in MirrorsOf(pk) : <<"local", i>> \notin lost}) <= 1
    <3>1. PICK S : S = {i \in MirrorsOf(pk) : <<"local", i>> \notin lost}
      OBVIOUS
    <3>2. \A i \in S : Live(i) /\ cw[i].pk = pk
      BY <1>1, <3>1 DEF Live
    <3>3. \A i, j \in S : i = j
      BY <1>0, <3>2 DEF Copying, Copies
    <3>4. CASE S = {}
      <4>1. Cardinality(S) = 0
        BY <3>4, FS_EmptySet
      <4> QED BY <3>1, <4>1
    <3>5. CASE S # {}
      <4>1. PICK i : S = {i}
        BY <3>3, <3>5
      <4>2. Cardinality(S) = 1
        BY <4>1, FS_Singleton
      <4> QED BY <3>1, <4>2
    <3> QED BY <3>4, <3>5
  <2>2. ASSUME NEW pk \in DOMAIN row, pk[1] = "c", MirrorsOf(pk) # {} PROVE Disturbed(pk)
    <3>1. PICK i : Mirror(i) /\ cw[i].pk = pk
      BY <1>1, <2>2
    <3> QED BY <1>0, <2>2, <3>1 DEF Forwards, CopiesDisturbed
  <2> QED BY <2>1, <2>2 DEF MirroredOnce
<1> QED BY <1>0, <1>2, <1>3 DEF CopiedOnce, Copying, Places

(* A message goes to the buyer once, is copied to Chatwoot once, and what  *)
(* was copied does not come back, unless the answer that named the copy    *)
(* was lost or the webhook met a fault: in every run of the tasks and      *)
(* webhooks of a conversation (chatwoot.py).                               *)
THEOREM MessagesAreCopiedOnce == Spec => []CopiedOnce
<1>1. Init => CopyInv
  BY BaseInit, CopyingInit, ForwardsInit DEF CopyInv
<1>2. CopyInv /\ [Next]_vars => CopyInv'
  BY BaseNext, CopyingNext, ForwardsNext, PlatsNext DEF CopyInv
<1>3. CopyInv => CopiedOnce
  BY CopyFollows
<1> QED BY <1>1, <1>2, <1>3, PTL DEF Spec

-----------------------------------------------------------------------------
(* What the map says of a recall is true.                                  *)

Said(pk) == pk \in DOMAIN row /\ row[pk].recalled
TruthAt(k, t) ==
    /\ k \in AnyHook /\ t.pc \in Recalling => \A pk \in t.yes : Said(pk)
    /\ t.pc = "recall" => \A item \in t.todo : item[2] = "recall_snapshot_pending" => Said(item[1])
    /\ k \in LocalKeys /\ t.pc \in Recalling => Said(k[2])
TruthMap == \A pk \in DOMAIN map : map[pk].st \in {"recall_snapshot_pending", "recalled"} => Said(pk)
Truthful == TruthMap /\ \A k \in DOMAIN task : TruthAt(k, task[k])

LEMMA SaidStays == ASSUME RowsGo PROVE \A pk : Said(pk) => Said(pk)'
BY DEF RowsGo, RowGoes, Said

LEMMA TruthStays == ASSUME RowsGo, NEW k, NEW t, TruthAt(k, t), NEW u, u = t PROVE TruthAt(k, u)'
BY SaidStays DEF TruthAt

LEMMA TruthOnly ==
    ASSUME RowsGo, NEW k \in DOMAIN task, Only(k), \A j \in DOMAIN task : TruthAt(j, task[j]),
           task'[k].pc \notin Recalling \/ TruthAt(k, task[k])'
    PROVE  \A j \in DOMAIN task' : TruthAt(j, task[j])'
<1>1. ASSUME NEW j \in DOMAIN task' PROVE TruthAt(j, task[j])'
  <2>1. \A pk : Said(pk) => Said(pk)'
    BY SaidStays
  <2>2. CASE task'[j].pc \notin Recalling
    BY <2>2 DEF TruthAt, Recalling
  <2>3. CASE j # k /\ task'[j].pc \in Recalling
    <3>1. j \in DOMAIN task /\ task'[j] = task[j]
      BY <2>3 DEF Only, Recalling
    <3>2. TruthAt(j, task[j])
      BY <3>1
    <3> QED BY <2>1, <3>1, <3>2 DEF TruthAt
  <2> QED BY <2>2, <2>3
<1> QED BY <1>1

LEMMA TruthSame == ASSUME RowsGo, UNCHANGED map, TypedRows, TruthMap PROVE TruthMap'
BY SaidStays DEF TruthMap

LEMMA TruthWith ==
    ASSUME RowsGo, TruthMap, NEW pk, NEW m, map' = With(map, pk, m),
           m.st \in {"recall_snapshot_pending", "recalled"} => Said(pk)'
    PROVE  TruthMap'
<1>1. /\ DOMAIN map' = DOMAIN map \cup {pk} /\ map'[pk] = m
      /\ \A q \in DOMAIN map : q # pk => map'[q] = map[q]
  BY DEF With
<1> QED BY <1>1, SaidStays DEF TruthMap

LEMMA InboxPcs == ASSUME Base, NEW k \in DOMAIN task, InboxStep(k) PROVE task'[k].pc \notin Recalling
<1>0. Tidy /\ rconv \in Seq(Nat) /\ bind \in Nat /\ cmap \in Nat
  BY DEF Base, TypedWorld
<1>1. CASE FindInbox(k)
  BY <1>0, <1>1, FindInboxStep DEF Steps, Recalling
<1>2. CASE NewInbox(k)
  BY <1>0, <1>2, NewInboxStep DEF Steps, Stops, Recalling
<1>3. CASE FindConv(k)
  BY <1>0, <1>3, FindConvStep, AfterStage DEF Steps, Jumps, Recalling
<1>4. CASE NewConv(k)
  BY <1>0, <1>4, NewConvStep DEF Jumps, Stops, Recalling
<1>5. CASE MapConv(k)
  BY <1>0, <1>5, MapConvStep DEF Jumps, Recalling
<1>6. CASE ResolveOld(k)
  BY <1>0, <1>6, ResolveOldStep, AfterStage DEF Steps, Recalling
<1> QED BY <1>1, <1>2, <1>3, <1>4, <1>5, <1>6 DEF InboxStep

(* Only these steps bring a task to a stage of a recall.                   *)
LEMMA NotRecalling ==
    ASSUME Base, NEW k \in DOMAIN task,
           \/ FailStep(k) \/ MoveStep(k) \/ InboxStep(k) \/ PostMessage(k) \/ RecordMirror(k) \/ RecordRecalled(k)
           \/ TakeIgnored(k) \/ TakeResolved(k) \/ TakeOver(k) \/ TakeCreated(k) \/ SendPiece(k) \/ PieceAnswered(k)
           \/ \E x \in task[k].todo : RecordPiece(k, x)
    PROVE  Only(k) /\ task'[k].pc \notin Recalling
<1>0. Tidy /\ TypedRows /\ TypedWorld
  BY DEF Base
<1>1. CASE FailStep(k)
  BY <1>1, FailStops DEF Stops, Recalling
<1>2. CASE MoveStep(k) \/ InboxStep(k)
  BY <1>2, MoveOnly, InboxOnly, InboxPcs
<1>3. CASE PostMessage(k)
  BY <1>0, <1>3, PostMessageStep DEF Stops, Jumps, Recalling
<1>4. CASE RecordMirror(k) \/ RecordRecalled(k)
  BY <1>0, <1>4, EndMetaStep DEF Stops, Recalling
<1>5. CASE TakeIgnored(k) \/ TakeResolved(k) \/ TakeOver(k)
  BY <1>0, <1>5, HookTakenStep DEF Stops, Recalling
<1>6. CASE TakeCreated(k)
  BY <1>0, <1>6, TakeCreatedStep DEF Stops, Sends, Recalling
<1>7. CASE SendPiece(k) \/ PieceAnswered(k)
  <2>1. Steps(k, "wait") \/ \E pk, ok : Gets(k, pk, ok)
    BY <1>0, <1>7, SendPieceStep, PieceAnsweredStep
  <2> QED BY <2>1 DEF Steps, Gets, Recalling
<1>8. CASE \E x \in task[k].todo : RecordPiece(k, x)
  BY <1>0, <1>8, RecordPieceStep DEF Sets, Stops, Steps, Recalling
<1> QED BY <1>1, <1>2, <1>3, <1>4, <1>5, <1>6, <1>7, <1>8

TruthTasks == \A k \in DOMAIN task : TruthAt(k, task[k])
LEMMA TruthNot ==
    ASSUME RowsGo, NEW k \in DOMAIN task, Only(k), Truthful, task'[k].pc \notin Recalling PROVE TruthTasks'
BY TruthOnly DEF Truthful, TruthTasks

LEMMA TruthLike ==
    ASSUME RowsGo, NEW k \in DOMAIN task, Only(k), Truthful, task[k].pc \in Recalling,
           task'[k].yes \subseteq task[k].yes, task'[k].pc = "recall" => task[k].pc = "recall" /\ task'[k].todo \subseteq task[k].todo
    PROVE  TruthTasks'
<1>1. TruthAt(k, task[k])
  BY DEF Truthful
<1>2. TruthAt(k, task[k])'
  BY <1>1, SaidStays DEF TruthAt
<1> QED BY <1>2, TruthOnly DEF Truthful, TruthTasks

LEMMA TakeLocalTruth == ASSUME Base, Truthful, NEW k \in DOMAIN task, TakeLocal(k) PROVE Truthful'
<1>0. Tidy /\ TypedRows /\ UNCHANGED <<row, map>> /\ RowsGo
  BY RowSame DEF Base, TakeLocal, mapping
<1>1. /\ k \in LocalKeys
      /\ \/ Stops(k)
         \/ /\ LocalGoes(k[2]) \in {"look", "inbox"}
            /\ Jumps(k, LocalGoes(k[2]), MapOf(k[2]).c)
  BY <1>0, TakeLocalStep
<1>2. Only(k)
  BY <1>1 DEF Stops, Jumps
<1>3. task'[k].pc \notin Recalling \/ TruthAt(k, task[k])'
  <2>1. CASE task'[k].pc \in Recalling
    <3>1. task'[k].pc = "look" /\ row[k[2]].recalled
      BY <1>1, <2>1 DEF Stops, Jumps, Recalling, LocalGoes
    <3>2. k[2] \in DOMAIN row /\ k \notin AnyHook
      BY <1>1, KeyKinds DEF Base, Backed
    <3> QED BY <1>0, <3>1, <3>2 DEF TruthAt, Said
  <2> QED BY <2>1
<1> QED BY <1>0, <1>2, <1>3, TruthOnly, TruthSame DEF Truthful

LEMMA RecordsTruth ==
    ASSUME Base, Truthful, NEW k \in DOMAIN task,
           RecordMirror(k) \/ RecordRecalled(k) \/ \E x \in task[k].todo : RecordPiece(k, x)
    PROVE  Truthful'
<1>0. Tidy /\ TypedRows
  BY DEF Base
<1>1. UNCHANGED row /\ RowsGo
  BY RowSame DEF RecordMirror, RecordRecalled, RecordPiece
<1>2. TruthTasks'
  BY <1>1, NotRecalling, TruthNot
<1>3. TruthMap'
  <2>1. CASE RecordMirror(k)
    <3>1. PICK m : m = Map(task[k].c, "synced")
      OBVIOUS
    <3>2. map' = With(map, k[2], m) /\ m.st = "synced"
      BY <2>1, <3>1 DEF RecordMirror, Map
    <3> QED BY <1>1, <3>2, TruthWith DEF Truthful
  <2>2. CASE \E x \in task[k].todo : RecordPiece(k, x)
    <3>1. PICK x : RecordPiece(k, x)
      BY <2>2
    <3>2. PICK m : m = Map(task[k].c, IF x \in task[k].yes THEN "synced" ELSE "failed")
      OBVIOUS
    <3>3. map' = With(map, x, m) /\ m.st \in {"synced", "failed"}
      BY <3>1, <3>2 DEF RecordPiece, Map
    <3> QED BY <1>1, <3>3, TruthWith DEF Truthful
  <2>3. CASE RecordRecalled(k)
    <3>0. map \in [DOMAIN map -> Maps] /\ map' = [map EXCEPT ![k[2]].st = "recalled"]
      BY <1>0, <2>3 DEF TypedRows, RecordRecalled
    <3>1. DOMAIN map' = DOMAIN map /\ \A q \in DOMAIN map : q # k[2] => map'[q].st = map[q].st
      BY <3>0 DEF Maps
    <3>2. Said(k[2])
      BY <2>3 DEF RecordRecalled, Truthful, TruthAt, Recalling
    <3> QED BY <1>1, <3>1, <3>2, SaidStays DEF Truthful, TruthMap
  <2> QED BY <2>1, <2>2, <2>3
<1> QED BY <1>2, <1>3 DEF Truthful, TruthTasks

LEMMA TakeDeletedTruth == ASSUME Base, Truthful, NEW k \in DOMAIN task, TakeDeleted(k) PROVE Truthful'
<1>0. Tidy /\ TypedRows /\ UNCHANGED row /\ RowsGo
  BY RowSame DEF Base, TakeDeleted
<1>1. PICK i : i = k[2][2]
  OBVIOUS
<1>2. \/ Reads(k, i) /\ UNCHANGED map
      \/ /\ Stops(k)
         /\ map' = [pk \in DOMAIN map |-> IF pk \in MapsOf(i) /\ on = "on" THEN Map(i, "remote_deleted") ELSE map[pk]]
  BY <1>0, <1>1, TakeDeletedStep
<1>3. CASE Reads(k, i) /\ UNCHANGED map
  <2>1. /\ Only(k) /\ task'[k].pc = "recall" /\ task'[k].todo = {<<pk, map[pk].st>> : pk \in MapsOf(i)}
        /\ task'[k].yes = {}
    BY <1>3 DEF Reads
  <2>2. \A item \in task'[k].todo : item[2] = "recall_snapshot_pending" => Said(item[1])
    BY <2>1 DEF Truthful, TruthMap, MapsOf
  <2>3. k \notin LocalKeys
    BY <1>0, TakeDeletedStep, KeyKinds
  <2>4. TruthAt(k, task[k])'
    BY <1>0, <2>1, <2>2, <2>3 DEF TruthAt, Said
  <2> QED BY <1>0, <1>3, <2>1, <2>4, TruthOnly, TruthSame DEF Truthful
<1>4. CASE /\ Stops(k)
           /\ map' = [pk \in DOMAIN map |-> IF pk \in MapsOf(i) /\ on = "on" THEN Map(i, "remote_deleted") ELSE map[pk]]
  <2>1. TruthMap'
    <3>1. DOMAIN map' = DOMAIN map /\ \A pk \in DOMAIN map : map'[pk] = map[pk] \/ map'[pk].st = "remote_deleted"
      BY <1>4 DEF Map
    <3> QED BY <1>0, <3>1, SaidStays DEF Truthful, TruthMap
  <2>2. Only(k) /\ task'[k].pc \notin Recalling
    BY <1>4 DEF Stops, Recalling
  <2> QED BY <1>0, <2>1, <2>2, TruthNot DEF Truthful, TruthTasks
<1> QED BY <1>2, <1>3, <1>4

LEMMA DeletionTruth ==
    ASSUME Base, Truthful, NEW k \in DOMAIN task, NEW x,
           \/ x \in task[k].yes \cup task[k].no /\ FinishRecall(k, x)
           \/ RecallHandled(k, x) \/ NoteRecall(k, x)
    PROVE  Truthful'
<1>0. Tidy /\ TypedRows /\ UNCHANGED row /\ RowsGo /\ map \in [DOMAIN map -> Maps]
  BY RowSame DEF Base, FinishRecall, RecallHandled, NoteRecall, TypedRows
<1>1. CASE x \in task[k].yes \cup task[k].no /\ FinishRecall(k, x)
  <2>1. task[k].pc = "final" /\ k \in AnyHook
        /\ (Stops(k) \/ Sets(k, task[k].todo, task[k].yes \ {x}, task[k].no \ {x}))
    BY <1>0, <1>1, FinishRecallStep
  <2>2. TruthTasks'
    <3>1. CASE Stops(k)
      <4>1. Only(k) /\ task'[k].pc \notin Recalling
        BY <3>1 DEF Stops, Recalling
      <4> QED BY <1>0, <4>1, TruthNot
    <3>2. CASE Sets(k, task[k].todo, task[k].yes \ {x}, task[k].no \ {x})
      <4>1. Only(k) /\ task'[k].yes \subseteq task[k].yes /\ task[k].pc \in Recalling /\ task'[k].pc # "recall"
        BY <2>1, <3>2 DEF Sets, Recalling
      <4> QED BY <1>0, <4>1, TruthLike
    <3> QED BY <2>1, <3>1, <3>2
  <2>3. x \in task[k].yes => Said(x)
    BY <2>1 DEF Truthful, TruthAt, Recalling
  <2>4. PICK m : m = Map(task[k].c, IF x \in task[k].yes THEN "recalled" ELSE "recall_failed")
    OBVIOUS
  <2>5. map' = With(map, x, m) /\ (m.st = "recalled" => x \in task[k].yes) /\ m.st \in {"recalled", "recall_failed"}
    BY <1>1, <2>4 DEF FinishRecall, Map
  <2>6. m.st \in {"recall_snapshot_pending", "recalled"} => Said(x)'
    BY <1>0, <2>3, <2>5, SaidStays
  <2> QED BY <1>0, <2>2, <2>5, <2>6, TruthWith DEF Truthful, TruthTasks
<1>2. CASE RecallHandled(k, x)
  <2>1. PICK yes \in SUBSET Pks, no \in SUBSET Pks :
             /\ Sets(k, task[k].todo \ {x}, yes, no) /\ Picks(k, x)
             /\ \/ yes = task[k].yes
                \/ x[2] = "recall_snapshot_pending" /\ yes = task[k].yes \cup {x[1]}
    BY <1>0, <1>2, RecallHandledStep
  <2>2. task[k].pc = "recall" /\ x \in task[k].todo /\ k \in AnyHook /\ k \notin LocalKeys
    BY <1>0, <2>1, PicksItem, KeyKinds
  <2>3. \A pk \in yes : Said(pk)
    BY <2>1, <2>2 DEF Truthful, TruthAt, Recalling
  <2>4. \A item \in task[k].todo : item[2] = "recall_snapshot_pending" => Said(item[1])
    BY <2>2 DEF Truthful, TruthAt
  <2>5. /\ Only(k) /\ task'[k].pc = "recall" /\ task'[k].yes = yes /\ task'[k].todo \subseteq task[k].todo
    BY <2>1, <2>2 DEF Sets
  <2>6. TruthAt(k, task[k])'
    BY <1>0, <2>2, <2>3, <2>4, <2>5, SaidStays DEF TruthAt
  <2>7. UNCHANGED map
    BY <1>2 DEF RecallHandled, Quiet, mapping
  <2> QED BY <1>0, <2>5, <2>6, <2>7, TruthOnly, TruthSame DEF Truthful
<1>3. CASE NoteRecall(k, x)
  <2>1. Picks(k, x) /\ Sets(k, task[k].todo \ {x}, task[k].yes, task[k].no)
    BY <1>0, <1>3, NoteRecallStep
  <2>2. task[k].pc = "recall" /\ k \in AnyHook
    BY <1>0, <2>1, PicksItem
  <2>3. Only(k) /\ task'[k].yes \subseteq task[k].yes /\ task[k].pc \in Recalling /\ task'[k].todo \subseteq task[k].todo
    BY <2>1, <2>2 DEF Sets, Recalling
  <2>4. TruthTasks'
    BY <1>0, <2>2, <2>3, TruthLike
  <2>5. PICK m : m = Map(task[k].c, IF x[1] \in task[k].yes THEN "recall_snapshot_pending"
                                    ELSE "recall_failed_snapshot_pending")
    OBVIOUS
  <2>6. map' = [map EXCEPT ![x[1]] = m] /\ (m.st \in {"recall_snapshot_pending", "recalled"} => x[1] \in task[k].yes)
    BY <1>3, <2>5 DEF NoteRecall, Map
  <2>7. DOMAIN map' = DOMAIN map /\ \A q \in DOMAIN map : map'[q] = IF q = x[1] THEN m ELSE map[q]
    BY <1>0, <2>6
  <2>8. x[1] \in task[k].yes => Said(x[1])
    BY <2>2 DEF Truthful, TruthAt, Recalling
  <2>9. TruthMap'
    BY <1>0, <2>6, <2>7, <2>8, SaidStays DEF Truthful, TruthMap
  <2> QED BY <2>4, <2>9 DEF Truthful, TruthTasks
<1> QED BY <1>1, <1>2, <1>3

LEMMA CommandTruth ==
    ASSUME Base, Truthful, NEW k \in DOMAIN task, NEW x, RecallSucceeds(k, x) \/ RecallFails(k, x) PROVE Truthful'
<1>0. Tidy /\ TypedRows /\ UNCHANGED map /\ RowsGo
  <2>1. PartStep(k, x)
    BY DEF PartStep
  <2> QED BY <2>1, PartRows DEF Base, RecallSucceeds, RecallFails, Quiet, mapping
<1>1. Picks(k, x)
  BY DEF RecallSucceeds, RecallFails, RecallOpen
<1>2. x[1] \in DOMAIN row /\ task[k].pc = "recall" /\ k \in AnyHook /\ k \notin LocalKeys
  BY <1>0, <1>1, ItemsBacked, PicksItem, KeyKinds
<1>3. PICK ok \in BOOLEAN : Outcome(k, x, ok) /\ (ok => RecallSucceeds(k, x))
  BY <1>0, <1>2, RecallSucceedsStep, RecallFailsStep
<1>4. ok => Said(x[1])'
  <2>1. SUFFICES ASSUME RecallSucceeds(k, x) PROVE Said(x[1])'
    BY <1>3
  <2>2. PICK pk, r : pk = x[1] /\ r = [row[pk] EXCEPT !.recalled = TRUE, !.recalls = @ + 1]
    OBVIOUS
  <2>3. row[pk] \in Rows /\ row' = With(row, pk, r)
    BY <1>0, <1>2, <2>1, <2>2, RecallSucceedsStep DEF TypedRows
  <2>4. r.recalled
    BY <2>2, <2>3 DEF Rows
  <2> QED BY <2>2, <2>3, <2>4 DEF Said, With
<1>5. PICK yes : yes = (IF ok THEN task[k].yes \cup {x[1]} ELSE task[k].yes)
  OBVIOUS
<1>6. /\ Only(k) /\ task'[k].pc = "recall" /\ task'[k].yes = yes
      /\ task'[k].todo = (task[k].todo \ {x}) \cup {<<x[1], "note">>}
  BY <1>2, <1>3, <1>5 DEF Outcome, Sets
<1>7. (\A pk \in task[k].yes : Said(pk)) /\ \A item \in task[k].todo : item[2] = "recall_snapshot_pending" => Said(item[1])
  BY <1>2 DEF Truthful, TruthAt, Recalling
<1>8. \A pk \in yes : Said(pk)'
  BY <1>0, <1>4, <1>5, <1>7, SaidStays
<1>9. \A item \in task'[k].todo : item[2] = "recall_snapshot_pending" => Said(item[1])'
  BY <1>0, <1>6, <1>7, SaidStays
<1>10. TruthAt(k, task[k])'
  BY <1>2, <1>6, <1>8, <1>9 DEF TruthAt
<1> QED BY <1>0, <1>6, <1>10, TruthOnly, TruthSame DEF Truthful

LEMMA TruthfulNext == ASSUME Base, Truthful, [Next]_vars PROVE Truthful'
<1>0. RowsGo /\ TypedRows
  BY NextRows DEF Base
<1>1. ASSUME UNCHANGED map, Adds PROVE Truthful'
  <2>1. \A j \in DOMAIN task' : (j \in DOMAIN task /\ task'[j] = task[j]) \/ task'[j].pc = "idle"
    BY <1>1 DEF Adds
  <2>2. ASSUME NEW j \in DOMAIN task' PROVE TruthAt(j, task[j])'
    <3>1. CASE j \in DOMAIN task /\ task'[j] = task[j]
      <4>1. TruthAt(j, task[j])
        BY <3>1 DEF Truthful
      <4> QED BY <1>0, <3>1, <4>1, SaidStays DEF TruthAt
    <3>2. CASE task'[j].pc = "idle"
      BY <3>2 DEF TruthAt, Recalling
    <3> QED BY <2>1, <3>1, <3>2
  <2> QED BY <1>0, <1>1, <2>2, TruthSame DEF Truthful
<1>2. CASE UNCHANGED vars
  <2>1. UNCHANGED <<task, aside, map>>
    BY <1>2 DEF vars, mapping, history
  <2> QED BY <1>1, <2>1, StaysTidy DEF Base
<1>3. CASE World \/ Accepting \/ Runtime \/ \E d \in DOMAIN hook : AcceptFails(d)
  BY <1>1, <1>3, OutsideAdds, OutsideHistory
<1>4. CASE WorkerCrashes
  <2>1. Halts /\ UNCHANGED map
    BY <1>4, CrashStep, OutsideHistory DEF Base
  <2>2. \A j \in DOMAIN task' : TruthAt(j, task[j])'
    BY <2>1 DEF Halts, TruthAt, Recalling
  <2> QED BY <1>0, <2>1, <2>2, TruthSame DEF Truthful
<1>5. ASSUME NEW k \in DOMAIN task,
             \/ FailStep(k) \/ MoveStep(k) \/ HookStep(k) \/ InboxStep(k) \/ LocalStep(k)
             \/ SnapStep(k) \/ \E x : PartStep(k, x)
      PROVE  Truthful'
  <2>1. CASE \/ FailStep(k) \/ MoveStep(k) \/ InboxStep(k) \/ PostMessage(k)
             \/ TakeIgnored(k) \/ TakeResolved(k) \/ TakeOver(k) \/ TakeCreated(k) \/ SendPiece(k) \/ PieceAnswered(k)
    <3>1. UNCHANGED map
      BY <2>1, QuietMap DEF PostMessage, TakeIgnored, TakeResolved, TakeOver, TakeCreated, SendPiece, PieceAnswered,
         Quiet, mapping
    <3>2. TruthTasks'
      BY <1>0, <2>1, NotRecalling, TruthNot
    <3> QED BY <1>0, <3>1, <3>2, TruthSame DEF Truthful, TruthTasks
  <2>2. CASE SnapStep(k) \/ RecallsDone(k)
    <3>1. UNCHANGED map
      BY <2>2, QuietMap DEF RecallsDone, mapping
    <3>2. task[k].pc \in Recalling /\ (Stops(k) \/ \E pc \in {"look", "snap", "final"} : Steps(k, pc))
      BY <2>2, SnapshotStep, RecallsDoneStep DEF SnapStep, Base, Recalling
    <3>3. TruthTasks'
      <4>1. CASE Stops(k)
        <5>1. Only(k) /\ task'[k].pc \notin Recalling
          BY <4>1 DEF Stops, Recalling
        <5> QED BY <1>0, <5>1, TruthNot
      <4>2. ASSUME NEW pc \in {"look", "snap", "final"}, Steps(k, pc) PROVE TruthTasks'
        <5>1. Only(k) /\ task'[k].yes \subseteq task[k].yes /\ task'[k].pc # "recall"
          BY <4>2 DEF Steps, Like
        <5> QED BY <1>0, <3>2, <5>1, TruthLike
      <4> QED BY <3>2, <4>1, <4>2
    <3> QED BY <1>0, <3>1, <3>3, TruthSame DEF Truthful, TruthTasks
  <2>3. CASE TakeLocal(k) \/ RecordMirror(k) \/ RecordRecalled(k)
    BY <2>3, TakeLocalTruth, RecordsTruth
  <2>4. CASE TakeDeleted(k)
    BY <2>4, TakeDeletedTruth
  <2>5. CASE \E x : PartStep(k, x)
    BY <2>5, RecordsTruth, DeletionTruth, CommandTruth DEF PartStep
  <2> QED BY <1>5, <2>1, <2>2, <2>3, <2>4, <2>5 DEF HookStep, LocalStep
<1> QED BY <1>2, <1>3, <1>4, <1>5, NextKinds

LEMMA TruthfulInit == ASSUME Init PROVE Truthful
<1>1. DOMAIN task = {} /\ DOMAIN map = {}
  BY DEF Init, Nothing
<1> QED BY <1>1 DEF Truthful, TruthMap

-----------------------------------------------------------------------------
(* Commands to recall.  Where a mapped message belongs, and what a task    *)
(* about a deletion recalls.                                               *)

Out(i) == i \in 1..Len(cw) /\ cw[i].out
OutKept == \A i : Out(i) => Out(i)'
Homes == \A pk \in DOMAIN map : pk[1] = "c" => map[pk].c = pk[2] \/ Disturbed(pk)
AimedAt(t) == Out(t.c) /\ \A pk \in PksOf(t) : pk[1] = "c" => t.c = pk[2] \/ Disturbed(pk)
Aims == \A k \in DOMAIN task : k \in AnyHook /\ task[k].pc \in Recalling => AimedAt(task[k])
Fresh == \A pk : pk[1] = "c" /\ Carried(pk) => Disturbed(pk) \/ pk \notin DOMAIN map
Aimed == Homes /\ Aims /\ Fresh

LEMMA DeletionKnown ==
    ASSUME Base, NEW k \in DOMAIN task, NEW i, Deletion(k, i)
    PROVE  /\ i \in 1..Len(cw) /\ i \in Ids /\ k \in AnyHook /\ k \in HookKeys
           /\ k[2][1] \in {"deleted", "again"}
<1>1. k \in AnyHook /\ k[2] \in {<<"deleted", i>>, <<"again", i>>}
  <2>1. k[1] = "hook" /\ k[2] \in {<<"deleted", i>>, <<"again", i>>}
    BY DEF Deletion
  <2>2. k \in LocalKeys \cup MoveKeys \cup AnyHook
    BY DEF Base, Tidy, TypedTasks
  <2> QED BY <2>1, <2>2, KeyKinds
<1>2. k[2] \in sent
  BY <1>1 DEF Base, TypedHooks
<1>3. k[2][1] \in {"deleted", "again"} /\ k[2][2] = i
  BY <1>1
<1>4. i \in 1..Len(cw)
  BY <1>2, <1>3 DEF Base, TypedWorld
<1>5. i \in Ids
  BY <1>1, <1>3, KeyKinds, EventKinds
<1>6. k \in HookKeys
  BY <1>1, <1>5 DEF Deletion, HookKeys, Events
<1> QED BY <1>1, <1>3, <1>4, <1>5, <1>6

LEMMA OutSame == ASSUME UNCHANGED cw PROVE OutKept
BY DEF OutKept, Out


LEMMA OutDeletes ==
    ASSUME cw \in Seq(Messages), NEW i, cw' = [cw EXCEPT ![i].deleted = TRUE] PROVE OutKept
<1>1. PICK n \in Nat : n = Len(cw)
  OBVIOUS
<1>2. cw \in [1..n -> Messages]
  BY <1>1
<1>3. cw' = [cw EXCEPT ![i] = [cw[i] EXCEPT !.deleted = TRUE]]
  OBVIOUS
<1>4. DOMAIN cw' = 1..n /\ \A j \in 1..n : cw'[j].out = cw[j].out
  BY <1>2, <1>3 DEF Messages
<1>5. cw' \in Seq(Messages) /\ Len(cw') = n
  <2>1. ASSUME NEW j \in 1..n PROVE cw'[j] \in Messages
    <3>1. cw[j] \in Messages
      BY <1>2
    <3>2. [cw[j] EXCEPT !.deleted = TRUE] \in Messages
      BY <3>1 DEF Messages
    <3>3. cw'[j] = cw[j] \/ cw'[j] = [cw[j] EXCEPT !.deleted = TRUE]
      BY <1>2, <1>3
    <3> QED BY <3>1, <3>2, <3>3
  <2>2. cw' \in [1..n -> Messages]
    BY <1>2, <1>3, <2>1
  <2> QED BY <1>4, <2>2
<1> QED BY <1>1, <1>4, <1>5 DEF OutKept, Out

LEMMA NextOut == ASSUME Base, Base', [Next]_vars PROVE OutKept
<1>0. cw \in Seq(Messages) /\ cw' \in Seq(Messages)
  BY DEF Base, TypedWorld
<1>1. ASSUME NEW m, cw' = Append(cw, m) PROVE OutKept
  <2>1. PICK n \in Nat : n = Len(cw)
    BY <1>0
  <2>2. cw' = Append(cw, m) /\ Len(cw') = n + 1 /\ \A i \in 1..n : cw'[i] = cw[i]
    BY <1>0, <1>1, <2>1
  <2> QED BY <2>1, <2>2 DEF OutKept, Out
<1>2. CASE UNCHANGED vars
  BY <1>2, OutSame DEF vars, remote
<1>3. CASE \E type \in Types : AgentWrites(type)
  BY <1>1, <1>3 DEF AgentWrites
<1>4. CASE \E i \in Ids : AgentDeletes(i)
  BY <1>0, <1>4, OutDeletes DEF AgentDeletes
<1>5. CASE World \/ Accepting \/ Runtime \/ WorkerCrashes \/ \E d \in DOMAIN hook : AcceptFails(d)
  <2>1. CASE World
    BY <2>1, <1>3, <1>4, OutSame DEF World, Received, Begins, Refused, Recalled, AgentResolves, Switch, Backfill,
       StateChanges, Quiet, remote
  <2>2. CASE Accepting \/ Runtime \/ WorkerCrashes \/ \E d \in DOMAIN hook : AcceptFails(d)
    BY <2>2, OutSame DEF Accepting, RecordWebhook, CreateHookTask, Runtime, Completes, WorkerCrashes, AcceptFails,
       Quiet, remote
  <2> QED BY <1>5, <2>1, <2>2
<1>6. ASSUME NEW k \in DOMAIN task,
             \/ FailStep(k) \/ MoveStep(k) \/ HookStep(k) \/ InboxStep(k) \/ LocalStep(k)
             \/ SnapStep(k) \/ \E x : PartStep(k, x)
      PROVE  OutKept
  <2>1. CASE FailStep(k) \/ MoveStep(k)
    BY <2>1, OutSame DEF FailStep, CreateRetry, RequestFails, PieceTimesOut, MoveStep, EndMeta, TakeMeta, TakeStatus,
       TakeAlert, FindPlace, NewPlace, RecordPlace, PostAlert, RecordAlert, Goes, remote
  <2>2. CASE HookStep(k) \/ SnapStep(k)
    BY <2>2, OutSame DEF HookStep, TakeIgnored, TakeResolved, TakeOver, TakeCreated, SendPiece, PieceAnswered,
       TakeDeleted, RecallsDone, SnapStep, LookForSnapshot, CreateSnapshot, Goes, Quiet, remote
  <2>3. CASE InboxStep(k)
    BY <2>3, OutSame DEF InboxStep, FindInbox, NewInbox, FindConv, NewConv, MapConv, ResolveOld, Goes, remote
  <2>4. CASE PostMessage(k)
    BY <2>4, <1>1 DEF PostMessage
  <2>5. CASE TakeLocal(k) \/ RecordMirror(k) \/ RecordRecalled(k)
    BY <2>5, OutSame DEF TakeLocal, RecordMirror, RecordRecalled, remote
  <2>6. CASE \E x : PartStep(k, x)
    BY <2>6, OutSame DEF PartStep, RecordPiece, FinishRecall, RecallHandled, RecallSucceeds, RecallFails, NoteRecall,
       Quiet, remote
  <2> QED BY <1>6, <2>1, <2>2, <2>3, <2>4, <2>5, <2>6 DEF LocalStep
<1> QED BY <1>2, <1>5, <1>6, NextKinds

LEMMA TaskOnly ==
    ASSUME Base, NEW k \in DOMAIN task,
           \/ FailStep(k) \/ MoveStep(k) \/ HookStep(k) \/ InboxStep(k) \/ LocalStep(k)
           \/ SnapStep(k) \/ \E x : PartStep(k, x)
    PROVE  Only(k)
<1>1. CASE FailStep(k) \/ MoveStep(k)
  BY <1>1, FailStops, MoveOnly DEF Stops
<1>2. CASE HookStep(k) \/ \E x : PartStep(k, x)
  BY <1>2, HookWork, PartWork
<1>3. CASE InboxStep(k) \/ LocalStep(k) \/ SnapStep(k)
  BY <1>3, InboxOnly, LocalOnly, SnapOnly
<1> QED BY <1>1, <1>2, <1>3

LEMMA AimedStays ==
    ASSUME Grows, OutKept, NEW t, AimedAt(t), NEW u, u.c = t.c, PksOf(u) \subseteq PksOf(t) PROVE AimedAt(u)'
<1>1. Out(u.c)'
  BY DEF AimedAt, OutKept
<1>2. \A pk : Disturbed(pk) => Disturbed(pk)'
  BY DisturbedStays
<1> QED BY <1>1, <1>2 DEF AimedAt, PksOf

LEMMA AimsOnly ==
    ASSUME Grows, OutKept, Aims, NEW k \in DOMAIN task, Only(k),
           k \in AnyHook /\ task'[k].pc \in Recalling => Narrows(k) \/ AimedAt(task[k])'
    PROVE  Aims'
<1>1. SUFFICES ASSUME NEW j \in DOMAIN task', j \in AnyHook, task'[j].pc \in Recalling PROVE AimedAt(task[j])'
  BY DEF Aims
<1>2. j \in DOMAIN task
  BY <1>1, KeyKinds DEF Only
<1>3. CASE j # k
  <2>1. task'[j] = task[j]
    BY <1>2, <1>3 DEF Only
  <2>2. AimedAt(task[j])
    BY <1>1, <1>2, <2>1 DEF Aims
  <2>3. PICK u : u = task[j] /\ u = task'[j]
    BY <2>1
  <2>4. AimedAt(u)'
    BY <2>2, <2>3, AimedStays
  <2> QED BY <2>3, <2>4 DEF AimedAt
<1>4. CASE j = k /\ Narrows(k)
  <2>1. AimedAt(task[k])
    BY <1>1, <1>2, <1>4 DEF Aims, Narrows
  <2>2. PICK u : u = task'[k]
    OBVIOUS
  <2>3. AimedAt(u)'
    BY <1>4, <2>1, <2>2, AimedStays DEF Narrows
  <2> QED BY <1>4, <2>2, <2>3 DEF AimedAt
<1> QED BY <1>1, <1>3, <1>4

LEMMA AimsAdds == ASSUME Grows, OutKept, Aims, Adds PROVE Aims'
<1>1. SUFFICES ASSUME NEW j \in DOMAIN task', j \in AnyHook, task'[j].pc \in Recalling PROVE AimedAt(task[j])'
  BY DEF Aims
<1>2. j \in DOMAIN task /\ task'[j] = task[j]
  BY <1>1 DEF Adds, Recalling
<1>3. AimedAt(task[j])
  BY <1>1, <1>2 DEF Aims
<1>4. PICK u : u = task[j] /\ u = task'[j]
  BY <1>2
<1>5. AimedAt(u)'
  BY <1>3, <1>4, AimedStays
<1> QED BY <1>4, <1>5 DEF AimedAt

LEMMA AimsBegun ==
    ASSUME Base, Homes, NEW k \in DOMAIN task, Begun(k), UNCHANGED cw, Grows PROVE AimedAt(task[k])'
<1>1. PICK i : i = k[2][2]
  OBVIOUS
<1>2. /\ Reads(k, i) /\ cw[i].out
  BY <1>1 DEF Begun
<1>3. i \in 1..Len(cw)
  BY <1>2, DeletionKnown DEF Reads
<1>4. PksOf(task'[k]) = MapsOf(i) /\ task'[k].c = i
  <2>1. PICK t : t = task'[k]
    OBVIOUS
  <2>2. t.yes = {} /\ t.no = {} /\ t.todo = {<<pk, map[pk].st>> : pk \in MapsOf(i)} /\ t.c = i
    BY <1>2, <2>1 DEF Reads
  <2>3. \A pk \in MapsOf(i) : <<pk, map[pk].st>>[1] = pk
    OBVIOUS
  <2>4. {item[1] : item \in t.todo} = MapsOf(i)
    <3>1. \A item \in t.todo : item[1] \in MapsOf(i)
      BY <2>2, <2>3
    <3>2. ASSUME NEW pk \in MapsOf(i) PROVE \E item \in t.todo : item[1] = pk
      <4>1. <<pk, map[pk].st>> \in t.todo
        BY <2>2
      <4> QED BY <2>3, <4>1
    <3> QED BY <3>1, <3>2
  <2> QED BY <2>1, <2>2, <2>4 DEF PksOf
<1>5. Out(i)'
  BY <1>2, <1>3 DEF Out
<1>6. \A pk \in MapsOf(i) : pk[1] = "c" => i = pk[2] \/ Disturbed(pk)'
  BY DisturbedStays DEF Homes, MapsOf
<1>7. PksOf(task[k])' = MapsOf(i)
  BY <1>4 DEF PksOf
<1> QED BY <1>4, <1>5, <1>6, <1>7 DEF AimedAt

LEMMA AimsNext == ASSUME Base, Base', Copying, Aimed, [Next]_vars PROVE Aims'
<1>0. Grows /\ OutKept /\ Aims /\ Homes
  BY NextGrows, NextOut DEF Aimed
<1>1. CASE UNCHANGED vars
  <2>1. UNCHANGED <<task, aside>>
    BY <1>1 DEF vars, history
  <2> QED BY <1>0, <2>1, StaysTidy, AimsAdds DEF Base
<1>2. CASE World \/ Accepting \/ Runtime \/ \E d \in DOMAIN hook : AcceptFails(d)
  BY <1>0, <1>2, OutsideAdds, AimsAdds
<1>3. CASE WorkerCrashes
  <2>1. Halts
    BY <1>3, CrashStep DEF Base
  <2> QED BY <2>1 DEF Halts, Aims, Recalling
<1>4. ASSUME NEW k \in DOMAIN task,
             \/ FailStep(k) \/ MoveStep(k) \/ HookStep(k) \/ InboxStep(k) \/ LocalStep(k)
             \/ SnapStep(k) \/ \E x : PartStep(k, x)
      PROVE  Aims'
  <2>1. Only(k)
    BY <1>4, TaskOnly
  <2>2. k \in AnyHook /\ task'[k].pc \in Recalling => Narrows(k) \/ AimedAt(task[k])'
    <3>1. CASE FailStep(k) \/ MoveStep(k) \/ InboxStep(k) \/ LocalStep(k)
      BY <3>1, FailStops, MoveOnly, InboxOnly, LocalOnly DEF Stops, Recalling
    <3>2. CASE HookStep(k)
      <4>1. Begun(k) => UNCHANGED cw
        BY DEF Begun, TakeDeleted, remote
      <4> QED BY <1>0, <3>2, <4>1, HookNarrows, AimsBegun
    <3>3. CASE SnapStep(k) \/ \E x : PartStep(k, x)
      BY <3>3, SnapNarrows, PartNarrows
    <3> QED BY <1>4, <3>1, <3>2, <3>3
  <2> QED BY <1>0, <2>1, <2>2, AimsOnly
<1> QED BY <1>1, <1>2, <1>3, <1>4, NextKinds

HomeKept == \A pk \in DOMAIN map' : pk[1] = "c" =>
               \/ pk \in DOMAIN map /\ map'[pk].c = map[pk].c
               \/ map'[pk].c = pk[2] \/ Disturbed(pk)'

LEMMA HomesCalm == ASSUME Grows, Homes, HomeKept PROVE Homes'
BY DisturbedStays DEF Homes, HomeKept

LEMMA HomeSame == ASSUME UNCHANGED map PROVE HomeKept
BY DEF HomeKept

LEMMA HomeWith ==
    ASSUME NEW pk, NEW m, map' = With(map, pk, m), pk[1] = "c" => m.c = pk[2] \/ Disturbed(pk)'
    PROVE  HomeKept
BY DEF HomeKept, With

LEMMA MirrorDisturbed ==
    ASSUME Base, Copying, Forwards, NEW k \in DOMAIN task, RecordMirror(k)
    PROVE  k[2][1] = "c" => Disturbed(k[2])
<1>1. k \in LocalKeys /\ task[k].pc = "map"
  BY DEF RecordMirror
<1>2. PICK i : i = task[k].c
  OBVIOUS
<1>3. Live(i) /\ cw[i].pk = k[2]
  BY <1>1, <1>2 DEF Copying, Copies
<1>4. Mirror(i)
  BY <1>3 DEF Live
<1> QED BY <1>3, <1>4 DEF Forwards, CopiesDisturbed

LEMMA LocalHome ==
    ASSUME Base, Copying, Forwards, Grows, NEW k \in DOMAIN task, LocalStep(k) PROVE HomeKept
<1>1. CASE TakeLocal(k) \/ PostMessage(k)
  BY <1>1, HomeSame DEF TakeLocal, PostMessage, mapping
<1>2. CASE RecordMirror(k)
  <2>1. PICK m : m = Map(task[k].c, "synced")
    OBVIOUS
  <2>2. map' = With(map, k[2], m)
    BY <1>2, <2>1 DEF RecordMirror
  <2> QED BY <1>2, <2>2, MirrorDisturbed, DisturbedStays, HomeWith
<1>3. CASE RecordRecalled(k)
  <2>1. map \in [DOMAIN map -> Maps] /\ map' = [map EXCEPT ![k[2]].st = "recalled"]
    BY <1>3 DEF Base, TypedRows, RecordRecalled
  <2>2. DOMAIN map' = DOMAIN map /\ \A pk \in DOMAIN map : map'[pk].c = map[pk].c
    BY <2>1 DEF Maps
  <2> QED BY <2>2 DEF HomeKept
<1> QED BY <1>1, <1>2, <1>3 DEF LocalStep

LEMMA HookHome == ASSUME Base, NEW k \in DOMAIN task, HookStep(k) PROVE HomeKept
<1>1. CASE TakeDeleted(k)
  <2>1. PICK i : i = k[2][2]
    OBVIOUS
  <2>2. UNCHANGED map \/ map' = [pk \in DOMAIN map |-> IF pk \in MapsOf(i) /\ on = "on"
                                                       THEN Map(i, "remote_deleted") ELSE map[pk]]
    BY <1>1, <2>1, TakeDeletedStep DEF Base
  <2>3. \A pk \in MapsOf(i) : map[pk].c = i /\ Map(i, "remote_deleted").c = i
    BY DEF MapsOf, Map
  <2> QED BY <2>2, <2>3 DEF HomeKept
<1>2. CASE \/ TakeIgnored(k) \/ TakeResolved(k) \/ TakeOver(k) \/ TakeCreated(k) \/ SendPiece(k) \/ PieceAnswered(k)
           \/ RecallsDone(k)
  BY <1>2, HomeSame DEF TakeIgnored, TakeResolved, TakeOver, TakeCreated, SendPiece, PieceAnswered, RecallsDone,
     Quiet, mapping
<1> QED BY <1>1, <1>2 DEF HookStep

LEMMA AimsHold ==
    ASSUME Aims, NEW k \in DOMAIN task, k \in AnyHook, task[k].pc \in Recalling
    PROVE  Out(task[k].c) /\ \A pk \in PksOf(task[k]) : pk[1] = "c" => task[k].c = pk[2] \/ Disturbed(pk)
BY DEF Aims, AimedAt

LEMMA PicksOf ==
    ASSUME Base, NEW k \in DOMAIN task, NEW item, Picks(k, item)
    PROVE  k \in AnyHook /\ task[k].pc \in Recalling /\ item[1] \in PksOf(task[k])
BY PicksItem DEF Base, Recalling, PksOf

LEMMA PartHome ==
    ASSUME Base, Aims, Grows, NEW k \in DOMAIN task, NEW x, PartStep(k, x) PROVE HomeKept
<1>0. Tidy
  BY DEF Base
<1>1. CASE x \in task[k].todo /\ RecordPiece(k, x)
  <2>1. PICK m : m = Map(task[k].c, IF x \in task[k].yes THEN "synced" ELSE "failed")
    OBVIOUS
  <2>2. map' = With(map, x, m) /\ m.c = task[k].c
    BY <1>1, <2>1 DEF RecordPiece, Map
  <2>3. x[2] = task[k].c
    BY <1>0, <1>1, RecordPieceStep DEF Pieces
  <2> QED BY <2>2, <2>3, HomeWith
<1>2. CASE x \in task[k].yes \cup task[k].no /\ FinishRecall(k, x)
  <2>1. PICK m : m = Map(task[k].c, IF x \in task[k].yes THEN "recalled" ELSE "recall_failed")
    OBVIOUS
  <2>2. map' = With(map, x, m) /\ m.c = task[k].c
    BY <1>2, <2>1 DEF FinishRecall, Map
  <2>3. k \in AnyHook /\ task[k].pc \in Recalling /\ x \in PksOf(task[k])
    BY <1>0, <1>2, FinishRecallStep DEF Recalling, PksOf
  <2> QED BY <2>2, <2>3, AimsHold, DisturbedStays, HomeWith
<1>3. CASE NoteRecall(k, x)
  <2>1. PICK m : m = Map(task[k].c, IF x[1] \in task[k].yes THEN "recall_snapshot_pending"
                                    ELSE "recall_failed_snapshot_pending")
    OBVIOUS
  <2>2. map' = [map EXCEPT ![x[1]] = m] /\ m.c = task[k].c
    BY <1>3, <2>1 DEF NoteRecall, Map
  <2>3. k \in AnyHook /\ task[k].pc \in Recalling /\ x[1] \in PksOf(task[k])
    BY <1>3, PicksOf DEF NoteRecall
  <2>4. x[1][1] = "c" => m.c = x[1][2] \/ Disturbed(x[1])'
    BY <2>2, <2>3, AimsHold, DisturbedStays
  <2> QED BY <2>2, <2>4 DEF HomeKept
<1>4. CASE RecallHandled(k, x) \/ RecallSucceeds(k, x) \/ RecallFails(k, x)
  BY <1>4, HomeSame DEF RecallHandled, RecallSucceeds, RecallFails, Quiet, mapping
<1> QED BY <1>1, <1>2, <1>3, <1>4 DEF PartStep

LEMMA HomesNext == ASSUME Base, Copying, Forwards, Aimed, [Next]_vars PROVE Homes'
<1>0. Grows /\ Homes /\ Aims
  BY NextGrows DEF Aimed
<1>1. CASE UNCHANGED vars
  BY <1>0, <1>1, HomeSame, HomesCalm DEF vars, mapping
<1>2. CASE World \/ Accepting \/ Runtime \/ WorkerCrashes \/ \E d \in DOMAIN hook : AcceptFails(d)
  BY <1>0, <1>2, OutsideHistory, HomeSame, HomesCalm
<1>3. ASSUME NEW k \in DOMAIN task,
             \/ FailStep(k) \/ MoveStep(k) \/ HookStep(k) \/ InboxStep(k) \/ LocalStep(k)
             \/ SnapStep(k) \/ \E x : PartStep(k, x)
      PROVE  HomeKept
  BY <1>0, <1>3, QuietMap, HomeSame, HookHome, LocalHome, PartHome
<1> QED BY <1>0, <1>1, <1>2, <1>3, HomesCalm, NextKinds

CarryBack == \A pk : pk[1] = "c" /\ Carried(pk)' => Carried(pk)
MapFresh == \A pk \in DOMAIN map' \ DOMAIN map : pk[1] = "c" => Disturbed(pk)' \/ ~Carried(pk)'

LEMMA FreshCalm == ASSUME Grows, Fresh, CarryBack, MapFresh PROVE Fresh'
BY DisturbedStays DEF Fresh, CarryBack, MapFresh

LEMMA BackOnly ==
    ASSUME NEW k \in DOMAIN task, Only(k),
           \A pk : Creation(k, pk[2]) /\ CarriedBy(task[k], pk)' => CarriedBy(task[k], pk)
    PROVE  CarryBack
<1>1. SUFFICES ASSUME NEW pk, NEW j \in DOMAIN task', Creation(j, pk[2]), CarriedBy(task[j], pk)'
               PROVE  Carried(pk)
  BY DEF CarryBack, Carried, Creation
<1>2. j \in DOMAIN task
  <2>1. j[1] = "hook"
    BY <1>1 DEF Creation
  <2> QED BY <1>1, <2>1, KeyKinds DEF Only
<1>3. CarriedBy(task[j], pk)
  <2>1. CASE j = k
    BY <1>1, <2>1
  <2>2. CASE j # k
    <3>1. task'[j] = task[j]
      BY <1>2, <2>2 DEF Only
    <3> QED BY <1>1, <3>1 DEF CarriedBy
  <2> QED BY <2>1, <2>2
<1> QED BY <1>1, <1>2, <1>3 DEF Carried

LEMMA BackNot ==
    ASSUME Base, NEW k \in DOMAIN task, Only(k), k \notin AnyHook \/ task'[k].pc \notin {"send", "wait", "map"}
    PROVE  CarryBack
<1>1. \A i : Creation(k, i) => k \in AnyHook
  BY CreationKnown
<1>2. task'[k].pc \notin {"send", "wait", "map"} => \A pk : ~CarriedBy(task[k], pk)'
  BY DEF CarriedBy
<1> QED BY <1>1, <1>2, BackOnly

LEMMA BackAdds == ASSUME Adds PROVE CarryBack
<1>1. SUFFICES ASSUME NEW pk, NEW j \in DOMAIN task', Creation(j, pk[2]), CarriedBy(task[j], pk)'
               PROVE  Carried(pk)
  BY DEF CarryBack, Carried, Creation
<1>2. task'[j].pc # "idle"
  BY <1>1 DEF CarriedBy
<1>3. j \in DOMAIN task /\ task'[j] = task[j]
  BY <1>1, <1>2 DEF Adds
<1>4. CarriedBy(task[j], pk)
  BY <1>1, <1>3 DEF CarriedBy
<1> QED BY <1>1, <1>3, <1>4 DEF Carried

LEMMA BackGets ==
    ASSUME NEW k \in DOMAIN task, NEW pk \in task[k].todo, NEW ok, Gets(k, pk, ok), task[k].pc \in {"send", "wait"}
    PROVE  CarryBack
<1>1. PICK t, u : t = task[k] /\ u = task'[k]
  OBVIOUS
<1>2. /\ u.yes = (IF ok THEN t.yes \cup {pk} ELSE t.yes) /\ u.no = (IF ok THEN t.no ELSE t.no \cup {pk})
      /\ u.todo = t.todo \ {pk} \/ u.todo = u.yes \cup u.no
  BY <1>1 DEF Gets
<1>3. \A q : q \in u.todo \cup u.yes \cup u.no => q \in t.todo \cup t.yes \cup t.no
  BY <1>1, <1>2
<1>4. \A q : CarriedBy(u, q) => CarriedBy(t, q)
  BY <1>1, <1>3 DEF CarriedBy
<1>5. \A q : CarriedBy(task[k], q)' => CarriedBy(task[k], q)
  BY <1>1, <1>4 DEF CarriedBy
<1> QED BY <1>5, BackOnly DEF Gets

LEMMA BackSends == ASSUME Base, NEW k \in DOMAIN task, SendPiece(k) \/ PieceAnswered(k) PROVE CarryBack
<1>0. Tidy
  BY DEF Base
<1>1. CASE SendPiece(k)
  <2>1. CASE Steps(k, "wait")
    <3>1. \A q : CarriedBy(task[k], q)' => CarriedBy(task[k], q)
      BY <1>0, <1>1, <2>1, SendPieceStep DEF CarriedBy, Steps, Like
    <3> QED BY <2>1, <3>1, BackOnly DEF Steps
  <2>2. CASE Gets(k, Piece(k), row[Piece(k)].st = "sent")
    BY <1>0, <1>1, <2>2, SendPieceStep, BackGets
  <2> QED BY <1>0, <1>1, <2>1, <2>2, SendPieceStep
<1>2. CASE PieceAnswered(k)
  BY <1>0, <1>2, PieceAnsweredStep, BackGets
<1> QED BY <1>1, <1>2

LEMMA TakeCreatedFresh ==
    ASSUME Base, Grows, Aimed, NEW k \in DOMAIN task, TakeCreated(k) PROVE Fresh'
<1>0. Tidy /\ UNCHANGED map /\ Homes /\ Fresh
  BY DEF Base, TakeCreated, Aimed
<1>1. PICK i : i = k[2][2]
  OBVIOUS
<1>2. Stops(k) \/ (Sends(k, i) /\ ~Skipped(i))
  BY <1>0, <1>1, TakeCreatedStep
<1>3. CASE Stops(k)
  BY <1>0, <1>3, BackNot, FreshCalm DEF Stops, MapFresh
<1>4. CASE Sends(k, i) /\ ~Skipped(i)
  <2>1. \A pk : pk \in DOMAIN map /\ pk[1] = "c" /\ pk[2] = i => Disturbed(pk)'
    BY <1>0, <1>4, DisturbedStays DEF Skipped, MapsOf, Homes
  <2>2. SUFFICES ASSUME NEW pk, pk[1] = "c", NEW j \in DOMAIN task', Creation(j, pk[2]), CarriedBy(task[j], pk)',
                        pk \in DOMAIN map
                 PROVE  Disturbed(pk)'
    BY <1>0 DEF Fresh, Carried, Creation
  <2>3. CASE j = k
    <3>1. k = <<"hook", <<"created", i>>>> /\ k = <<"hook", <<"created", pk[2]>>>>
      BY <1>4, <2>2, <2>3 DEF Sends, Creation
    <3>2. pk[2] = i
      BY <3>1
    <3> QED BY <2>1, <2>2, <3>2
  <2>4. CASE j # k
    <3>1. j[1] = "hook"
      BY <2>2 DEF Creation
    <3>2. j \in DOMAIN task /\ task'[j] = task[j]
      BY <1>4, <2>2, <2>4, <3>1, KeyKinds DEF Sends, Only
    <3>3. CarriedBy(task[j], pk)
      BY <2>2, <3>2 DEF CarriedBy
    <3> QED BY <1>0, <2>2, <3>2, <3>3, DisturbedStays DEF Fresh, Carried
  <2> QED BY <2>3, <2>4
<1> QED BY <1>2, <1>3, <1>4

LEMMA MovePcs == ASSUME Base, NEW k \in DOMAIN task, MoveStep(k) PROVE task'[k].pc # "map"
<1>2. Tidy /\ shown \in Seq(States)
  BY DEF Base, TypedWorld
<1>3. CASE EndMeta(k) \/ RecordAlert(k)
  BY <1>2, <1>3, EndMetaStep DEF Stops
<1>4. CASE TakeMeta(k)
  BY <1>2, <1>4, TakeMetaStep DEF Jumps
<1>5. CASE TakeStatus(k) \/ TakeAlert(k)
  BY <1>2, <1>5, TakeAccountStep DEF Steps
<1>6. CASE FindPlace(k) \/ NewPlace(k) \/ RecordPlace(k)
  BY <1>2, <1>6, PlaceStep DEF Steps, Stops
<1>7. CASE PostAlert(k)
  BY <1>2, <1>7, PostAlertStep DEF Jumps, Stops
<1> QED BY <1>3, <1>4, <1>5, <1>6, <1>7 DEF MoveStep

LEMMA RecordPieceFresh ==
    ASSUME Base, Grows, Fresh, NEW k \in DOMAIN task, NEW x \in task[k].todo, RecordPiece(k, x) PROVE Fresh'
<1>1. /\ task[k].pc = "map" /\ Creation(k, task[k].c) /\ x \in Pieces(task[k].c)
      /\ \/ Sets(k, task[k].todo \ {x}, task[k].yes, task[k].no)
         \/ Stops(k)
         \/ Steps(k, "takeover")
  BY RecordPieceStep DEF Base
<1>2. Only(k)
  BY <1>1 DEF Sets, Stops, Steps
<1>3. ASSUME NEW q, CarriedBy(task[k], q)' PROVE CarriedBy(task[k], q) /\ q # x
  <2>1. Sets(k, task[k].todo \ {x}, task[k].yes, task[k].no)
    BY <1>1, <1>3 DEF CarriedBy, Stops, Steps
  <2>2. task'[k].pc = "map" /\ task'[k].todo = task[k].todo \ {x}
    BY <1>1, <2>1 DEF Sets
  <2> QED BY <1>1, <1>3, <2>2 DEF CarriedBy
<1>4. CarryBack
  BY <1>2, <1>3, BackOnly
<1>5. ~Carried(x)'
  <2>1. SUFFICES ASSUME NEW j \in DOMAIN task', Creation(j, x[2]), CarriedBy(task[j], x)' PROVE FALSE
    BY DEF Carried, Creation
  <2>2. x[2] = task[k].c
    BY <1>1 DEF Pieces
  <2>3. j = k
    BY <1>1, <2>1, <2>2 DEF Creation
  <2> QED BY <1>3, <2>1, <2>3
<1>6. MapFresh
  <2>1. DOMAIN map' = DOMAIN map \cup {x}
    BY DEF RecordPiece, With
  <2> QED BY <1>5, <2>1 DEF MapFresh
<1> QED BY <1>4, <1>6, FreshCalm

LEMMA MapSameFresh == ASSUME DOMAIN map' = DOMAIN map PROVE MapFresh
BY DEF MapFresh

LEMMA LocalFresh ==
    ASSUME Base, Copying, Forwards, Grows, Fresh, NEW k \in DOMAIN task, LocalStep(k) PROVE Fresh'
<1>1. CarryBack
  BY LocalOnly, BackNot
<1>2. CASE TakeLocal(k) \/ PostMessage(k)
  BY <1>1, <1>2, MapSameFresh, FreshCalm DEF TakeLocal, PostMessage, mapping
<1>3. CASE RecordMirror(k)
  <2>1. DOMAIN map' = DOMAIN map \cup {k[2]}
    BY <1>3 DEF RecordMirror, With
  <2> QED BY <1>1, <1>3, <2>1, MirrorDisturbed, DisturbedStays, FreshCalm DEF MapFresh
<1>4. CASE RecordRecalled(k)
  <2>1. DOMAIN map' = DOMAIN map
    BY <1>4 DEF RecordRecalled
  <2> QED BY <1>1, <2>1, MapSameFresh, FreshCalm
<1> QED BY <1>2, <1>3, <1>4 DEF LocalStep

LEMMA HookFresh ==
    ASSUME Base, Grows, Aimed, NEW k \in DOMAIN task, HookStep(k) PROVE Fresh'
<1>0. Tidy /\ TypedRows /\ Fresh
  BY DEF Base, Aimed
<1>1. CASE TakeCreated(k)
  BY <1>1, TakeCreatedFresh
<1>2. CASE SendPiece(k) \/ PieceAnswered(k)
  <2>1. UNCHANGED map
    BY <1>2 DEF SendPiece, PieceAnswered, Quiet, mapping
  <2> QED BY <1>0, <1>2, <2>1, BackSends, MapSameFresh, FreshCalm
<1>3. CASE TakeIgnored(k) \/ TakeResolved(k) \/ TakeOver(k) \/ RecallsDone(k)
  <2>1. UNCHANGED map
    BY <1>3 DEF TakeIgnored, TakeResolved, TakeOver, RecallsDone, mapping
  <2>2. Only(k) /\ task'[k].pc \notin {"send", "wait", "map"}
    BY <1>0, <1>3, HookTakenStep, RecallsDoneStep DEF Stops, Steps
  <2> QED BY <1>0, <2>1, <2>2, BackNot, MapSameFresh, FreshCalm
<1>4. CASE TakeDeleted(k)
  <2>1. DOMAIN map' = DOMAIN map
    BY <1>0, <1>4, TakeDeletedStep
  <2>2. Only(k) /\ task'[k].pc \notin {"send", "wait", "map"}
    BY <1>0, <1>4, TakeDeletedStep DEF Stops, Reads
  <2> QED BY <1>0, <2>1, <2>2, BackNot, MapSameFresh, FreshCalm
<1> QED BY <1>1, <1>2, <1>3, <1>4 DEF HookStep

LEMMA RecallPcs ==
    ASSUME Base, NEW k \in DOMAIN task, NEW x,
           \/ x \in task[k].yes \cup task[k].no /\ FinishRecall(k, x)
           \/ RecallHandled(k, x) \/ RecallSucceeds(k, x) \/ RecallFails(k, x) \/ NoteRecall(k, x)
    PROVE  Only(k) /\ task'[k].pc \in {"idle", "retry", "recall", "final"}
<1>0. Tidy /\ TypedRows
  BY DEF Base
<1>1. CASE x \in task[k].yes \cup task[k].no /\ FinishRecall(k, x)
  BY <1>0, <1>1, FinishRecallStep DEF Stops, Sets
<1>2. CASE RecallHandled(k, x) \/ NoteRecall(k, x)
  <2>1. Picks(k, x) /\ \E todo, yes, no : Sets(k, todo, yes, no)
    BY <1>0, <1>2, RecallHandledStep, NoteRecallStep
  <2> QED BY <2>1 DEF Sets, Picks
<1>3. CASE RecallSucceeds(k, x) \/ RecallFails(k, x)
  <2>1. Picks(k, x)
    BY <1>3 DEF RecallSucceeds, RecallFails, RecallOpen
  <2>2. \E todo, yes, no : Sets(k, todo, yes, no)
    BY <1>0, <1>3, <2>1, ItemsBacked, RecallSucceedsStep, RecallFailsStep DEF Outcome
  <2> QED BY <2>1, <2>2 DEF Sets, Picks
<1> QED BY <1>1, <1>2, <1>3

LEMMA PartFresh ==
    ASSUME Base, Copying, Grows, Aimed, NEW k \in DOMAIN task, NEW x, PartStep(k, x) PROVE Fresh'
<1>1. CASE x \in task[k].todo /\ RecordPiece(k, x)
  BY <1>1, RecordPieceFresh DEF Aimed
<1>2. CASE \/ x \in task[k].yes \cup task[k].no /\ FinishRecall(k, x)
           \/ RecallHandled(k, x) \/ RecallSucceeds(k, x) \/ RecallFails(k, x) \/ NoteRecall(k, x)
  <2>1. Only(k) /\ task'[k].pc \notin {"send", "wait", "map"}
    BY <1>2, RecallPcs
  <2>2. DOMAIN map' = DOMAIN map
    <3>1. CASE x \in task[k].yes \cup task[k].no /\ FinishRecall(k, x)
      <4>1. k \in AnyHook /\ task[k].pc \in Recalling /\ x \in PksOf(task[k])
        BY <3>1, FinishRecallStep DEF Base, Recalling, PksOf
      <4>2. x \in DOMAIN map
        BY <4>1 DEF Copying, Chosen, ChosenIn
      <4>3. DOMAIN map' = DOMAIN map \cup {x}
        BY <3>1 DEF FinishRecall, With
      <4> QED BY <4>2, <4>3
    <3>2. CASE RecallHandled(k, x) \/ RecallSucceeds(k, x) \/ RecallFails(k, x)
      BY <3>2 DEF RecallHandled, RecallSucceeds, RecallFails, Quiet, mapping
    <3>3. CASE NoteRecall(k, x)
      BY <3>3 DEF NoteRecall
    <3> QED BY <1>2, <3>1, <3>2, <3>3
  <2> QED BY <2>1, <2>2, BackNot, MapSameFresh, FreshCalm DEF Aimed
<1> QED BY <1>1, <1>2 DEF PartStep

LEMMA FreshNext == ASSUME Base, Copying, Forwards, Aimed, [Next]_vars PROVE Fresh'
<1>0. Grows /\ Fresh
  BY NextGrows DEF Aimed
<1>1. CASE UNCHANGED vars
  <2>1. UNCHANGED <<task, aside, map>>
    BY <1>1 DEF vars, mapping, history
  <2> QED BY <1>0, <2>1, StaysTidy, BackAdds, MapSameFresh, FreshCalm DEF Base
<1>2. CASE World \/ Accepting \/ Runtime \/ \E d \in DOMAIN hook : AcceptFails(d)
  BY <1>0, <1>2, OutsideAdds, OutsideHistory, BackAdds, MapSameFresh, FreshCalm
<1>3. CASE WorkerCrashes
  <2>1. Halts /\ UNCHANGED map
    BY <1>3, CrashStep, OutsideHistory DEF Base
  <2>2. CarryBack
    BY <2>1 DEF Halts, CarryBack, Carried, CarriedBy
  <2> QED BY <1>0, <2>1, <2>2, MapSameFresh, FreshCalm
<1>4. ASSUME NEW k \in DOMAIN task,
             \/ FailStep(k) \/ MoveStep(k) \/ HookStep(k) \/ InboxStep(k) \/ LocalStep(k)
             \/ SnapStep(k) \/ \E x : PartStep(k, x)
      PROVE  Fresh'
  <2>1. CASE FailStep(k) \/ MoveStep(k) \/ InboxStep(k) \/ SnapStep(k)
    <3>1. UNCHANGED map
      BY <2>1, QuietMap
    <3>2. Only(k) /\ (k \notin AnyHook \/ task'[k].pc \notin {"send", "wait", "map"})
      <4>1. CASE FailStep(k)
        BY <4>1, FailStops DEF Stops
      <4>2. CASE InboxStep(k)
        BY <4>2, InboxOnly
      <4>3. CASE SnapStep(k)
        BY <4>3, SnapOnly
      <4>4. CASE MoveStep(k)
        BY <4>4, MoveOnly, MovePcs
      <4> QED BY <2>1, <4>1, <4>2, <4>3, <4>4
    <3> QED BY <1>0, <3>1, <3>2, BackNot, MapSameFresh, FreshCalm
  <2>2. CASE HookStep(k)
    BY <1>0, <2>2, HookFresh
  <2>3. CASE LocalStep(k)
    BY <1>0, <2>3, LocalFresh
  <2>4. CASE \E x : PartStep(k, x)
    BY <1>0, <2>4, PartFresh
  <2> QED BY <1>4, <2>1, <2>2, <2>3, <2>4
<1> QED BY <1>1, <1>2, <1>3, <1>4, NextKinds

LEMMA AimedNext == ASSUME Base, Base', Copying, Forwards, Aimed, [Next]_vars PROVE Aimed'
BY AimsNext, HomesNext, FreshNext DEF Aimed

LEMMA AimedInit == ASSUME Init PROVE Aimed
<1>1. DOMAIN task = {} /\ DOMAIN map = {}
  BY DEF Init, Nothing
<1> QED BY <1>1 DEF Aimed, Homes, Aims, Fresh, Carried

(* The commands that were given are recorded in the map, or about to be.   *)
Troubled == \E k \in (hit \cup aside) \cap HookKeys : k[2][1] \in {"deleted", "again"}
Handled == {"recalled", "recall_failed", "recall_snapshot_pending", "recall_failed_snapshot_pending"}
Asking(k) == k \in DOMAIN task /\ k \in AnyHook /\ task[k].pc = "recall"
Noting(pk) == \E k : Asking(k) /\ <<pk, "note">> \in task[k].todo
Kept(pk) == pk \in DOMAIN map /\ map[pk].st \in Handled /\ Out(map[pk].c)
Noted(pk) == pk \in DOMAIN map /\ Out(map[pk].c) /\ (map[pk].st \in Handled \/ Noting(pk))
Counted == \A pk \in DOMAIN row : Disturbed(pk) \/ (row[pk].recalls > 0 => row[pk].recalls = 1 /\ Noted(pk))
OpenStates == {"synced", "failed", "remote_deleted"}
AsksOnce(t) ==
    /\ \A x, y \in t.todo : x[1] = y[1] => x = y
    /\ \A x \in t.todo : x[2] \in OpenStates => Disturbed(x[1]) \/ row[x[1]].recalls = 0
Asks == \A k : Asking(k) => AsksOnce(task[k])
Counting == Troubled \/ (Counted /\ Asks)

LEMMA TroubledStays == ASSUME Grows, Troubled PROVE Troubled'
BY DEF Grows, Troubled

(* While no webhook about a deletion is troubled, one task asks at a time. *)
LEMMA OneAsks ==
    ASSUME Base, ~Troubled, NEW j, Asking(j), NEW k \in DOMAIN task, NEW i, Deletion(k, i),
           task[k].pc # "idle" \/ Ready(k)
    PROVE  j = k /\ task[k].pc # "idle"
<1>0. Tidy
  BY DEF Base
<1>1. j \in DOMAIN task /\ task[j].pc = "recall"
  BY DEF Asking
<1>2. Deletion(j, task[j].c)
  BY <1>0, <1>1, TidyTask DEF Fits
<1>3. j \in HookKeys /\ j[2][1] \in {"deleted", "again"} /\ k \in HookKeys /\ k[2][1] \in {"deleted", "again"}
  BY <1>1, <1>2, DeletionKnown
<1>4. ~task[j].sys /\ ~task[k].sys
  BY <1>0, <1>1, <1>3 DEF Tidy, Asides, Troubled
<1>5. ~Ready(k)
  BY <1>0, <1>1, <1>4, Taken
<1> QED BY <1>0, <1>1, <1>4, <1>5 DEF Tidy, Lane

MapTold == \A pk \in DOMAIN map :
             /\ pk \in DOMAIN map'
             /\ \/ map'[pk].c = map[pk].c /\ (map'[pk].st = map[pk].st \/ map'[pk].st \in Handled)
                \/ Kept(pk)' \/ Disturbed(pk)' \/ ~Out(map[pk].c)
NotingKept == \A pk : Noting(pk) => Noting(pk)' \/ Kept(pk)'
NotedKept == \A pk : Noted(pk) => Noted(pk)' \/ Disturbed(pk)'

LEMMA NotedCalm == ASSUME OutKept, MapTold, NotingKept PROVE NotedKept
<1>1. SUFFICES ASSUME NEW pk, Noted(pk), ~Disturbed(pk)' PROVE Noted(pk)'
  BY DEF NotedKept
<1>2. Kept(pk)' => Noted(pk)'
  BY DEF Kept, Noted
<1>3. SUFFICES ASSUME ~Kept(pk)' PROVE Noted(pk)'
  BY <1>2
<1>4. pk \in DOMAIN map' /\ map'[pk].c = map[pk].c /\ (map'[pk].st = map[pk].st \/ map'[pk].st \in Handled)
  BY <1>1, <1>3 DEF Noted, MapTold
<1>5. Out(map[pk].c)'
  BY <1>1, <1>4 DEF Noted, OutKept, Out
<1>6. Noting(pk) => Noting(pk)'
  BY <1>3 DEF NotingKept
<1> QED BY <1>1, <1>4, <1>5, <1>6 DEF Noted

LEMMA ToldSame == ASSUME UNCHANGED map PROVE MapTold
BY DEF MapTold

LEMMA ToldWith ==
    ASSUME NEW pk, NEW m, map' = With(map, pk, m),
           pk \in DOMAIN map => Kept(pk)' \/ Disturbed(pk)' \/ ~Out(map[pk].c)
    PROVE  MapTold
BY DEF MapTold, With

LEMMA NotingSame == ASSUME \A j \in DOMAIN task : j \in DOMAIN task' /\ task'[j] = task[j] PROVE NotingKept
BY DEF NotingKept, Noting, Asking

LEMMA NotingOnly ==
    ASSUME NEW k \in DOMAIN task, Only(k),
           ASSUME NEW pk, Asking(k), <<pk, "note">> \in task[k].todo
           PROVE  (Asking(k)' /\ <<pk, "note">> \in task'[k].todo) \/ Kept(pk)'
    PROVE  NotingKept
<1>1. SUFFICES ASSUME NEW pk, NEW j, Asking(j), <<pk, "note">> \in task[j].todo PROVE Noting(pk)' \/ Kept(pk)'
  BY DEF NotingKept, Noting
<1>2. CASE j = k
  BY <1>1, <1>2 DEF Noting
<1>3. CASE j # k
  <2>1. j \in DOMAIN task' /\ task'[j] = task[j]
    BY <1>1, <1>3 DEF Asking, Only
  <2> QED BY <1>1, <2>1 DEF Asking, Noting
<1> QED BY <1>2, <1>3

LEMMA NotingNot ==
    ASSUME NEW k \in DOMAIN task, Only(k), k \notin AnyHook \/ task[k].pc # "recall" \/ task[k].todo = {} PROVE NotingKept
BY NotingOnly DEF Asking

LEMMA LocalTold ==
    ASSUME Base, Copying, Forwards, Grows, NEW k \in DOMAIN task, LocalStep(k) PROVE MapTold
<1>1. CASE TakeLocal(k) \/ PostMessage(k)
  BY <1>1, ToldSame DEF TakeLocal, PostMessage, mapping
<1>2. CASE RecordMirror(k)
  <2>1. PICK m : m = Map(task[k].c, "synced")
    OBVIOUS
  <2>2. map' = With(map, k[2], m) /\ k \in LocalKeys /\ task[k].pc = "map"
    BY <1>2, <2>1 DEF RecordMirror
  <2>3. k[2][1] = "l" => k[2] \notin DOMAIN map
    BY <2>2 DEF Copying, Copies
  <2>4. k[2][1] \in {"l", "c"}
    BY <2>2, KeyKinds DEF Pks
  <2> QED BY <1>2, <2>2, <2>3, <2>4, MirrorDisturbed, DisturbedStays, ToldWith
<1>3. CASE RecordRecalled(k)
  <2>1. map \in [DOMAIN map -> Maps] /\ map' = [map EXCEPT ![k[2]].st = "recalled"]
    BY <1>3 DEF Base, TypedRows, RecordRecalled
  <2>2. /\ DOMAIN map' = DOMAIN map
        /\ \A pk \in DOMAIN map : map'[pk].c = map[pk].c /\ (map'[pk].st = map[pk].st \/ map'[pk].st = "recalled")
    BY <2>1 DEF Maps
  <2> QED BY <2>2 DEF MapTold, Handled
<1> QED BY <1>1, <1>2, <1>3 DEF LocalStep

LEMMA HookTold == ASSUME Base, NEW k \in DOMAIN task, HookStep(k) PROVE MapTold
<1>1. CASE TakeDeleted(k)
  <2>1. PICK i : i = k[2][2]
    OBVIOUS
  <2>2. CASE cw[i].out /\ MapsOf(i) # {}
    BY <1>1, <2>1, <2>2, ToldSame DEF TakeDeleted
  <2>3. CASE ~(cw[i].out /\ MapsOf(i) # {})
    <3>1. map' = [pk \in DOMAIN map |-> IF pk \in MapsOf(i) /\ on = "on" THEN Map(i, "remote_deleted") ELSE map[pk]]
      BY <1>1, <2>1, <2>3 DEF TakeDeleted
    <3>2. ASSUME NEW pk \in MapsOf(i) PROVE ~Out(map[pk].c)
      <4>1. map[pk].c = i
        BY DEF MapsOf
      <4>2. ~cw[i].out
        BY <2>3
      <4> QED BY <4>1, <4>2 DEF Out
    <3> QED BY <3>1, <3>2 DEF MapTold
  <2> QED BY <2>2, <2>3
<1>2. CASE \/ TakeIgnored(k) \/ TakeResolved(k) \/ TakeOver(k) \/ TakeCreated(k) \/ SendPiece(k) \/ PieceAnswered(k)
           \/ RecallsDone(k)
  BY <1>2, ToldSame DEF TakeIgnored, TakeResolved, TakeOver, TakeCreated, SendPiece, PieceAnswered, RecallsDone,
     Quiet, mapping
<1> QED BY <1>1, <1>2 DEF HookStep

LEMMA KeptWith ==
    ASSUME NEW pk, NEW m, map'[pk] = m, pk \in DOMAIN map', m.st \in Handled, Out(m.c), OutKept PROVE Kept(pk)'
BY DEF Kept, OutKept, Out

LEMMA NoteRecallKept ==
    ASSUME Base, Copying, Aimed, OutKept, NEW k \in DOMAIN task, NEW x, NoteRecall(k, x) PROVE Kept(x[1])'
<1>1. PICK m : m = Map(task[k].c, IF x[1] \in task[k].yes THEN "recall_snapshot_pending"
                                  ELSE "recall_failed_snapshot_pending")
  OBVIOUS
<1>2. map' = [map EXCEPT ![x[1]] = m] /\ m.c = task[k].c /\ m.st \in Handled
  BY <1>1 DEF NoteRecall, Map, Handled
<1>3. k \in AnyHook /\ task[k].pc \in Recalling /\ x[1] \in PksOf(task[k])
  BY PicksOf DEF NoteRecall
<1>4. x[1] \in DOMAIN map
  BY <1>3 DEF Copying, Chosen, ChosenIn
<1> QED BY <1>2, <1>3, <1>4, AimsHold, KeptWith DEF Aimed

LEMMA PartTold ==
    ASSUME Base, Copying, Aimed, Grows, OutKept, NEW k \in DOMAIN task, NEW x, PartStep(k, x) PROVE MapTold
<1>0. Tidy /\ Aims /\ Fresh
  BY DEF Base, Aimed
<1>1. CASE x \in task[k].todo /\ RecordPiece(k, x)
  <2>1. PICK m : m = Map(task[k].c, IF x \in task[k].yes THEN "synced" ELSE "failed")
    OBVIOUS
  <2>2. map' = With(map, x, m)
    BY <1>1, <2>1 DEF RecordPiece
  <2>3. x[1] = "c" /\ Carried(x)
    <3>1. task[k].pc = "map" /\ Creation(k, task[k].c) /\ x \in Pieces(task[k].c)
      BY <1>0, <1>1, RecordPieceStep
    <3>2. x[1] = "c" /\ x[2] = task[k].c
      BY <3>1 DEF Pieces
    <3> QED BY <1>1, <3>1, <3>2 DEF Carried, CarriedBy
  <2>4. x \in DOMAIN map => Disturbed(x)'
    BY <1>0, <2>3, DisturbedStays DEF Fresh
  <2> QED BY <2>2, <2>4, ToldWith
<1>2. CASE x \in task[k].yes \cup task[k].no /\ FinishRecall(k, x)
  <2>1. PICK m : m = Map(task[k].c, IF x \in task[k].yes THEN "recalled" ELSE "recall_failed")
    OBVIOUS
  <2>2. map' = With(map, x, m) /\ m.c = task[k].c /\ m.st \in Handled
    BY <1>2, <2>1 DEF FinishRecall, Map, Handled
  <2>3. k \in AnyHook /\ task[k].pc \in Recalling
    BY <1>0, <1>2, FinishRecallStep DEF Recalling
  <2>4. Out(m.c) /\ map'[x] = m /\ x \in DOMAIN map'
    BY <1>0, <2>2, <2>3, AimsHold DEF With
  <2>5. Kept(x)'
    BY <2>2, <2>4, KeptWith
  <2> QED BY <2>2, <2>5, ToldWith
<1>3. CASE NoteRecall(k, x)
  <2>1. DOMAIN map' = DOMAIN map /\ \A pk \in DOMAIN map : pk # x[1] => map'[pk] = map[pk]
    BY <1>3 DEF NoteRecall
  <2> QED BY <1>3, <2>1, NoteRecallKept DEF MapTold
<1>4. CASE RecallHandled(k, x) \/ RecallSucceeds(k, x) \/ RecallFails(k, x)
  BY <1>4, ToldSame DEF RecallHandled, RecallSucceeds, RecallFails, Quiet, mapping
<1> QED BY <1>1, <1>2, <1>3, <1>4 DEF PartStep

LEMMA PartNoting ==
    ASSUME Base, Copying, Aimed, OutKept, NEW k \in DOMAIN task, NEW x, PartStep(k, x) PROVE NotingKept
<1>0. Tidy /\ TypedRows
  BY DEF Base
<1>1. Only(k)
  BY PartWork
<1>2. CASE x \in task[k].todo /\ RecordPiece(k, x)
  BY <1>1, <1>2, NotingNot DEF RecordPiece
<1>3. CASE x \in task[k].yes \cup task[k].no /\ FinishRecall(k, x)
  BY <1>1, <1>3, NotingNot DEF FinishRecall
<1>4. CASE RecallHandled(k, x) \/ RecallSucceeds(k, x) \/ RecallFails(k, x)
  <2>1. Picks(k, x) /\ x[2] # "note"
    BY <1>4 DEF RecallHandled, RecallSucceeds, RecallFails, RecallOpen
  <2>2. task'[k].pc = task[k].pc /\ task[k].todo \ {x} \subseteq task'[k].todo
    <3>1. CASE RecallHandled(k, x)
      <4>1. \E yes, no : Sets(k, task[k].todo \ {x}, yes, no)
        BY <1>0, <3>1, RecallHandledStep
      <4> QED BY <4>1 DEF Sets
    <3>2. CASE RecallSucceeds(k, x) \/ RecallFails(k, x)
      <4>1. \E yes, no : Sets(k, (task[k].todo \ {x}) \cup {<<x[1], "note">>}, yes, no)
        BY <1>0, <2>1, <3>2, ItemsBacked, RecallSucceedsStep, RecallFailsStep DEF Outcome
      <4> QED BY <4>1 DEF Sets
    <3> QED BY <1>4, <3>1, <3>2
  <2>3. \A pk : <<pk, "note">> # x
    BY <2>1
  <2>4. k \in DOMAIN task'
    BY <1>1 DEF Only
  <2> QED BY <1>1, <2>2, <2>3, <2>4, NotingOnly DEF Asking
<1>5. CASE NoteRecall(k, x)
  <2>1. Sets(k, task[k].todo \ {x}, task[k].yes, task[k].no) /\ Picks(k, x)
    BY <1>0, <1>5, NoteRecallStep
  <2>2. task'[k].pc = task[k].pc /\ task'[k].todo = task[k].todo \ {x} /\ k \in DOMAIN task'
    BY <1>1, <2>1 DEF Sets, Only
  <2>3. \A pk : <<pk, "note">> = x => pk = x[1]
    OBVIOUS
  <2> QED BY <1>1, <1>5, <2>2, <2>3, NoteRecallKept, NotingOnly DEF Asking
<1> QED BY <1>2, <1>3, <1>4, <1>5 DEF PartStep

LEMMA HookNoting == ASSUME Base, NEW k \in DOMAIN task, HookStep(k) PROVE NotingKept
<1>1. Only(k)
  BY HookWork
<1>2. task[k].pc # "recall" \/ task[k].todo = {}
  BY ReadyIdle DEF HookStep, TakeIgnored, TakeResolved, TakeOver, TakeCreated, SendPiece, PieceAnswered,
     TakeDeleted, RecallsDone, Takes
<1> QED BY <1>1, <1>2, NotingNot

LEMMA NotedNext ==
    ASSUME Base, Base', Copying, Forwards, Aimed, [Next]_vars, ~Troubled' PROVE NotedKept
<1>0. Grows /\ OutKept
  BY NextGrows, NextOut
<1>1. CASE UNCHANGED vars
  BY <1>0, <1>1, ToldSame, NotingSame, NotedCalm DEF vars, mapping
<1>2. CASE World \/ Accepting \/ Runtime \/ \E d \in DOMAIN hook : AcceptFails(d)
  <2>1. NotingKept
    BY <1>2, OutsideAdds, NotingSame DEF Adds
  <2> QED BY <1>0, <1>2, <2>1, OutsideHistory, ToldSame, NotedCalm
<1>3. CASE WorkerCrashes
  <2>1. Halts /\ UNCHANGED map
    BY <1>3, CrashStep, OutsideHistory DEF Base
  <2>2. ASSUME NEW j, Asking(j) PROVE FALSE
    <3>1. j \in DOMAIN task /\ task[j].pc = "recall" /\ Running(j)
      BY <2>2 DEF Asking, Running
    <3>2. Deletion(j, task[j].c)
      BY <3>1, TidyTask DEF Base, Fits
    <3>3. j \in HookKeys /\ j[2][1] \in {"deleted", "again"} /\ j \in hit'
      BY <2>1, <3>1, <3>2, DeletionKnown DEF Halts
    <3> QED BY <3>3 DEF Troubled
  <2>3. NotingKept
    BY <2>2 DEF NotingKept, Noting
  <2> QED BY <1>0, <2>1, <2>3, ToldSame, NotedCalm
<1>4. ASSUME NEW k \in DOMAIN task,
             \/ FailStep(k) \/ MoveStep(k) \/ HookStep(k) \/ InboxStep(k) \/ LocalStep(k)
             \/ SnapStep(k) \/ \E x : PartStep(k, x)
      PROVE  MapTold /\ NotingKept
  <2>1. CASE FailStep(k) \/ MoveStep(k) \/ SnapStep(k) \/ InboxStep(k)
    <3>1. MapTold
      BY <2>1, QuietMap, ToldSame
    <3>2. CASE FailStep(k)
      <4>1. Only(k) /\ task[k].pc # "recall"
        BY <3>2, FailStops DEF Stops, FailStep, CreateRetry, RequestFails, PieceTimesOut
      <4> QED BY <3>1, <4>1, NotingNot
    <3>3. CASE MoveStep(k)
      <4>1. Only(k) /\ task[k].pc # "recall"
        BY <3>3, MoveOnly, MoveNot, ReadyIdle
      <4> QED BY <3>1, <4>1, NotingNot
    <3>4. CASE SnapStep(k)
      <4>1. Only(k) /\ task[k].pc # "recall"
        BY <3>4, SnapOnly
      <4> QED BY <3>1, <4>1, NotingNot
    <3>5. CASE InboxStep(k)
      BY <3>1, <3>5, InboxOnly, NotingNot
    <3> QED BY <2>1, <3>2, <3>3, <3>4, <3>5
  <2>2. CASE HookStep(k)
    BY <2>2, HookTold, HookNoting
  <2>3. CASE LocalStep(k)
    BY <1>0, <2>3, LocalTold, LocalOnly, NotingNot
  <2>4. CASE \E x : PartStep(k, x)
    BY <1>0, <2>4, PartTold, PartNoting
  <2> QED BY <1>4, <2>1, <2>2, <2>3, <2>4
<1> QED BY <1>0, <1>1, <1>2, <1>3, <1>4, NotedCalm, NextKinds

Commands(k) == \E x : RecallSucceeds(k, x) \/ RecallFails(k, x)
CountKept == \A q \in DOMAIN row : q \in DOMAIN row' /\ row'[q].recalls = row[q].recalls

LEMMA CountSame == ASSUME UNCHANGED row PROVE CountKept
BY DEF CountKept

LEMMA CountWith ==
    ASSUME NEW pk, NEW r, row' = With(row, pk, r), pk \in DOMAIN row => r.recalls = row[pk].recalls PROVE CountKept
BY DEF CountKept, With

LEMMA OutsideCount ==
    ASSUME Base, World \/ Accepting \/ Runtime \/ WorkerCrashes \/ \E d \in DOMAIN hook : AcceptFails(d)
    PROVE  CountKept
<1>0. Tidy /\ TypedRows
  BY DEF Base
<1>1. ASSUME NEW j \in Locals, Received(j) \/ Begins(j) PROVE CountKept
  BY <1>1, CountWith DEF Received, Begins, Write
<1>2. ASSUME NEW pk \in DOMAIN row, Completes(pk) \/ Refused(pk) \/ Recalled(pk) PROVE CountKept
  <2>1. \E r : row' = With(row, pk, r) /\ r.recalls = row[pk].recalls
    BY <1>0, <1>2, CompletesStep, RefusedStep, RecalledStep
  <2> QED BY <2>1, CountWith
<1>3. CASE \/ \E type \in Types : AgentWrites(type)
           \/ \E i \in Ids : AgentDeletes(i)
           \/ \E v \in Convs : AgentResolves(v)
           \/ Switch \/ Backfill
           \/ \E s \in States, b \in 0..MaxMoves : StateChanges(s, b)
           \/ Accepting \/ WorkerCrashes \/ \E d \in DOMAIN hook : AcceptFails(d)
  BY <1>3, CountSame DEF AgentWrites, AgentDeletes, AgentResolves, Switch, Backfill, StateChanges, Accepting,
     RecordWebhook, CreateHookTask, WorkerCrashes, AcceptFails
<1> QED BY <1>1, <1>2, <1>3 DEF World, Runtime

LEMMA TaskCount ==
    ASSUME Base, NEW k \in DOMAIN task, ~Commands(k),
           \/ FailStep(k) \/ MoveStep(k) \/ HookStep(k) \/ InboxStep(k) \/ LocalStep(k)
           \/ SnapStep(k) \/ \E x : PartStep(k, x)
    PROVE  CountKept
<1>1. CASE FailStep(k) \/ MoveStep(k) \/ InboxStep(k) \/ SnapStep(k) \/ LocalStep(k)
  BY <1>1, QuietRows, CountSame
<1>2. CASE SendPiece(k)
  <2>1. PICK pk, r : pk = Piece(k) /\ r = Row("out", "sending")
    OBVIOUS
  <2>2. UNCHANGED row \/ (pk \notin DOMAIN row /\ row' = With(row, pk, r))
    BY <1>2, <2>1, SendPieceStep DEF Base
  <2> QED BY <2>2, CountSame, CountWith
<1>3. CASE TakeIgnored(k) \/ TakeResolved(k) \/ TakeOver(k) \/ TakeCreated(k) \/ PieceAnswered(k) \/ TakeDeleted(k) \/ RecallsDone(k)
  BY <1>3, CountSame DEF TakeIgnored, TakeResolved, TakeOver, TakeCreated, PieceAnswered, TakeDeleted, RecallsDone
<1>4. CASE \E x : PartStep(k, x)
  BY <1>4, CountSame DEF PartStep, Commands, RecordPiece, FinishRecall, RecallHandled, NoteRecall
<1> QED BY <1>1, <1>2, <1>3, <1>4 DEF HookStep

LEMMA CountedCalm == ASSUME Grows, Counted, NotedKept, CountKept, RowsGo PROVE Counted'
<1>1. SUFFICES ASSUME NEW pk \in DOMAIN row', ~Disturbed(pk)', row'[pk].recalls > 0
               PROVE  row'[pk].recalls = 1 /\ Noted(pk)'
  BY DEF Counted
<1>2. pk \in DOMAIN row
  BY <1>1 DEF RowsGo
<1>3. row'[pk].recalls = row[pk].recalls
  BY <1>2 DEF CountKept
<1>4. ~Disturbed(pk)
  BY <1>1, DisturbedStays
<1> QED BY <1>1, <1>2, <1>3, <1>4 DEF Counted, NotedKept

AskKept == \A j : Asking(j)' => Asking(j) /\ task'[j].todo \subseteq task[j].todo

LEMMA AsksStays ==
    ASSUME Grows, CountKept, NEW t, AsksOnce(t), \A x \in t.todo : x[1] \in DOMAIN row,
           NEW u, u.todo \subseteq t.todo
    PROVE  AsksOnce(u)'
<1>1. \A x \in t.todo : x[2] \in OpenStates => Disturbed(x[1])' \/ row'[x[1]].recalls = 0
  BY DisturbedStays DEF AsksOnce, CountKept
<1>2. \A x, y \in t.todo : x[1] = y[1] => x = y
  BY DEF AsksOnce
<1> QED BY <1>1, <1>2 DEF AsksOnce

LEMMA AskingBacked == ASSUME Base, NEW k, Asking(k) PROVE \A x \in task[k].todo : x[1] \in DOMAIN row
BY DEF Asking, Base, Backed

LEMMA AsksCalm == ASSUME Base, Grows, CountKept, Asks, AskKept PROVE Asks'
<1>1. SUFFICES ASSUME NEW j, Asking(j)' PROVE AsksOnce(task[j])'
  BY DEF Asks
<1>2. Asking(j) /\ task'[j].todo \subseteq task[j].todo
  BY <1>1 DEF AskKept
<1>3. AsksOnce(task[j]) /\ \A x \in task[j].todo : x[1] \in DOMAIN row
  BY <1>2, AskingBacked DEF Asks
<1>4. PICK u : u = task'[j]
  OBVIOUS
<1>5. AsksOnce(u)'
  BY <1>2, <1>3, <1>4, AsksStays
<1> QED BY <1>4, <1>5 DEF AsksOnce

LEMMA AskOnly ==
    ASSUME NEW k \in DOMAIN task, Only(k),
           \/ k \notin AnyHook \/ task'[k].pc # "recall"
           \/ task[k].pc = "recall" /\ task'[k].todo \subseteq task[k].todo
    PROVE  AskKept
<1>1. SUFFICES ASSUME NEW j, Asking(j)' PROVE Asking(j) /\ task'[j].todo \subseteq task[j].todo
  BY DEF AskKept
<1>2. j \in DOMAIN task /\ j \in AnyHook /\ task'[j].pc = "recall"
  BY <1>1, KeyKinds DEF Asking, Only
<1> QED BY <1>2 DEF Asking, Only

LEMMA AskAdds == ASSUME Adds PROVE AskKept
BY DEF Adds, AskKept, Asking

LEMMA TaskAsk ==
    ASSUME Base, NEW k \in DOMAIN task, ~Commands(k),
           \/ FailStep(k) \/ MoveStep(k) \/ HookStep(k) \/ InboxStep(k) \/ LocalStep(k)
           \/ SnapStep(k) \/ \E x : PartStep(k, x)
    PROVE  AskKept \/ Begun(k)
<1>0. Tidy /\ TypedRows
  BY DEF Base
<1>1. CASE FailStep(k)
  BY <1>1, FailStops, AskOnly DEF Stops
<1>2. CASE MoveStep(k)
  BY <1>2, MoveOnly, AskOnly DEF Recalling
<1>3. CASE InboxStep(k) \/ LocalStep(k)
  BY <1>3, InboxOnly, LocalOnly, AskOnly
<1>4. CASE SnapStep(k)
  BY <1>4, SnapOnly, AskOnly
<1>5. CASE \/ TakeIgnored(k) \/ TakeResolved(k) \/ TakeOver(k) \/ TakeCreated(k) \/ SendPiece(k) \/ PieceAnswered(k)
           \/ \E x \in task[k].todo : RecordPiece(k, x)
  <2>1. Only(k) /\ task'[k].pc \notin Recalling
    BY <1>5, NotRecalling
  <2> QED BY <2>1, AskOnly DEF Recalling
<1>6. CASE RecallsDone(k)
  BY <1>0, <1>6, RecallsDoneStep, AskOnly DEF Stops, Steps
<1>7. CASE TakeDeleted(k)
  <2>1. CASE Stops(k)
    BY <2>1, AskOnly DEF Stops
  <2>2. CASE Reads(k, k[2][2]) /\ UNCHANGED map /\ cw[k[2][2]].out
    BY <1>7, <2>2, ReadyIdle DEF Begun, TakeDeleted, Takes
  <2> QED BY <1>0, <1>7, <2>1, <2>2, TakeDeletedStep
<1>8. CASE \E x \in task[k].yes \cup task[k].no : FinishRecall(k, x)
  BY <1>0, <1>8, FinishRecallStep, AskOnly DEF Stops, Sets
<1>9. CASE \E x : RecallHandled(k, x) \/ NoteRecall(k, x)
  <2>1. PICK x : RecallHandled(k, x) \/ NoteRecall(k, x)
    BY <1>9
  <2>2. Picks(k, x) /\ \E yes, no : Sets(k, task[k].todo \ {x}, yes, no)
    BY <1>0, <2>1, RecallHandledStep, NoteRecallStep
  <2>3. Only(k) /\ task[k].pc = "recall" /\ task'[k].todo \subseteq task[k].todo
    BY <2>2 DEF Sets, Picks
  <2> QED BY <2>3, AskOnly
<1> QED BY <1>1, <1>2, <1>3, <1>4, <1>5, <1>6, <1>7, <1>8, <1>9 DEF HookStep, PartStep, Commands

(* A task that begins to recall asks for what nobody asked for.            *)
LEMMA BegunAsks ==
    ASSUME Base, Grows, CountKept, Counted, Asks, ~Troubled, NEW k \in DOMAIN task, Begun(k) PROVE Asks'
<1>1. PICK i : i = k[2][2]
  OBVIOUS
<1>2. Reads(k, i) /\ Ready(k)
  BY <1>1 DEF Begun, TakeDeleted, Takes
<1>3. Deletion(k, i) /\ Only(k) /\ task'[k].todo = {<<pk, map[pk].st>> : pk \in MapsOf(i)}
  BY <1>2 DEF Reads
<1>4. \A j : ~Asking(j)
  BY <1>2, <1>3, OneAsks, ReadyIdle
<1>5. ASSUME NEW j, Asking(j)' PROVE j = k
  <2>1. j \in AnyHook /\ j \in DOMAIN task'
    BY <1>5 DEF Asking
  <2>2. j # k => j \in DOMAIN task /\ task'[j] = task[j]
    BY <1>3, <2>1, KeyKinds DEF Only
  <2> QED BY <1>4, <1>5, <2>2 DEF Asking
<1>6. ASSUME NEW pk \in MapsOf(i), map[pk].st \in OpenStates PROVE Disturbed(pk)' \/ row'[pk].recalls = 0
  <2>1. pk \in DOMAIN map /\ pk \in DOMAIN row
    BY <1>6 DEF MapsOf, Base, Backed
  <2>2. map[pk].st \notin Handled
    BY <1>6 DEF OpenStates, Handled
  <2>3. ~Noted(pk)
    BY <1>4, <2>2 DEF Noted, Noting
  <2>4. row[pk].recalls \in Nat
    BY <2>1 DEF Base, TypedRows, Rows
  <2>5. Disturbed(pk) \/ row[pk].recalls = 0
    BY <2>1, <2>3, <2>4 DEF Counted
  <2> QED BY <2>1, <2>5, DisturbedStays DEF CountKept
<1>7. AsksOnce(task[k])'
  <2>1. PICK t : t = task'[k]
    OBVIOUS
  <2>2. t.todo = {<<pk, map[pk].st>> : pk \in MapsOf(i)}
    BY <1>3, <2>1
  <2>3. \A x \in t.todo : x[1] \in MapsOf(i) /\ x = <<x[1], map[x[1]].st>>
    BY <2>2
  <2>4. \A x, y \in t.todo : x[1] = y[1] => x = y
    BY <2>3
  <2>5. \A x \in t.todo : x[2] = map[x[1]].st
    BY <2>3
  <2>6. \A x \in t.todo : x[2] \in OpenStates => Disturbed(x[1])' \/ row'[x[1]].recalls = 0
    BY <1>6, <2>3, <2>5
  <2>7. AsksOnce(t)'
    BY <2>4, <2>6 DEF AsksOnce
  <2> QED BY <2>1, <2>7 DEF AsksOnce
<1> QED BY <1>5, <1>7 DEF Asks

LEMMA CommandEffect ==
    ASSUME Base, NEW k \in DOMAIN task, NEW x, RecallSucceeds(k, x) \/ RecallFails(k, x)
    PROVE  /\ RecallOpen(k, x) /\ Only(k) /\ task'[k].pc = "recall"
           /\ task'[k].todo = (task[k].todo \ {x}) \cup {<<x[1], "note">>}
           /\ \A q \in DOMAIN row : /\ q \in DOMAIN row' /\ (q # x[1] => row'[q] = row[q])
                                    /\ row'[q].recalls \in {row[q].recalls, row[q].recalls + 1}
           /\ UNCHANGED <<map, cw>>
<1>0. Tidy /\ TypedRows /\ UNCHANGED <<map, cw>>
  BY DEF Base, RecallSucceeds, RecallFails, Quiet, mapping, remote
<1>1. RecallOpen(k, x) /\ Picks(k, x)
  BY DEF RecallSucceeds, RecallFails, RecallOpen
<1>2. x[1] \in DOMAIN row
  BY <1>1, ItemsBacked
<1>3. PICK pk : pk = x[1]
  OBVIOUS
<1>4. row[pk] \in Rows
  BY <1>0, <1>2, <1>3 DEF TypedRows
<1>5. \E yes, no : Sets(k, (task[k].todo \ {x}) \cup {<<x[1], "note">>}, yes, no)
  BY <1>0, <1>2, RecallSucceedsStep, RecallFailsStep DEF Outcome
<1>6. UNCHANGED row \/ \E rec \in BOOLEAN : row' = With(row, pk, [row[pk] EXCEPT !.recalled = rec, !.recalls = @ + 1])
  BY <1>0, <1>2, <1>3, RecallSucceedsStep, RecallFailsStep
<1>7. ASSUME NEW rec \in BOOLEAN, row' = With(row, pk, [row[pk] EXCEPT !.recalled = rec, !.recalls = @ + 1])
      PROVE  \A q \in DOMAIN row : /\ q \in DOMAIN row' /\ (q # pk => row'[q] = row[q])
                                   /\ row'[q].recalls \in {row[q].recalls, row[q].recalls + 1}
  <2>1. PICK r : r = [row[pk] EXCEPT !.recalled = rec, !.recalls = @ + 1]
    OBVIOUS
  <2>2. row' = With(row, pk, r) /\ r.recalls = row[pk].recalls + 1
    BY <1>4, <1>7, <2>1 DEF Rows
  <2> QED BY <2>2 DEF With
<1> QED BY <1>0, <1>1, <1>3, <1>5, <1>6, <1>7 DEF Sets, Picks

LEMMA CommandNoted ==
    ASSUME Base, Base', Copying, Aimed, OutKept, NEW k \in DOMAIN task, NEW x, RecallSucceeds(k, x) \/ RecallFails(k, x)
    PROVE  Noted(x[1])' \/ Disturbed(x[1])
<1>1. PICK pk, i : pk = x[1] /\ i = task[k].c
  OBVIOUS
<1>2. Picks(k, x)
  BY DEF RecallSucceeds, RecallFails, RecallOpen
<1>3. k \in AnyHook /\ task[k].pc \in Recalling /\ pk \in PksOf(task[k]) /\ pk \in Pks
  BY <1>1, <1>2, PicksOf, PicksItem DEF Base
<1>4. pk \in DOMAIN map /\ (pk[1] = "l" => map[pk].c = i)
  BY <1>1, <1>3 DEF Copying, Chosen, ChosenIn
<1>5. Out(i) /\ (pk[1] = "c" => i = pk[2] \/ Disturbed(pk))
  BY <1>1, <1>3, AimsHold DEF Aimed
<1>6. pk[1] = "c" => map[pk].c = pk[2] \/ Disturbed(pk)
  BY <1>4 DEF Aimed, Homes
<1>7. pk[1] \in {"l", "c"}
  BY <1>3 DEF Pks
<1>8. map[pk].c = i \/ Disturbed(pk)
  BY <1>4, <1>5, <1>6, <1>7
<1>9. pk \in DOMAIN map' /\ map'[pk].c = map[pk].c /\ Only(k) /\ task'[k].pc = "recall" /\ <<pk, "note">> \in task'[k].todo
  BY <1>1, <1>4, CommandEffect
<1>10. Noting(pk)'
  BY <1>3, <1>9 DEF Noting, Asking, Only
<1>11. map[pk].c = i => Out(map[pk].c)'
  BY <1>5, <1>9 DEF OutKept, Out
<1> QED BY <1>1, <1>8, <1>9, <1>10, <1>11 DEF Noted

LEMMA CommandCounted ==
    ASSUME Base, Base', Copying, Aimed, OutKept, Grows, RowsGo, NotedKept, Counted, Asks,
           NEW k \in DOMAIN task, NEW x, RecallSucceeds(k, x) \/ RecallFails(k, x)
    PROVE  Counted'
<1>1. RecallOpen(k, x) /\ \A q \in DOMAIN row : /\ q # x[1] => row'[q] = row[q]
                                                /\ row'[q].recalls \in {row[q].recalls, row[q].recalls + 1}
  BY CommandEffect
<1>2. x \in task[k].todo /\ x[2] \in OpenStates /\ Asking(k)
  BY <1>1, PicksItem DEF RecallOpen, Picks, OpenStates, Asking, Base
<1>3. Disturbed(x[1]) \/ row[x[1]].recalls = 0
  BY <1>2 DEF Asks, AsksOnce
<1>4. ASSUME NEW pk \in DOMAIN row', ~Disturbed(pk)', row'[pk].recalls > 0
      PROVE  row'[pk].recalls = 1 /\ Noted(pk)'
  <2>1. pk \in DOMAIN row
    BY <1>4 DEF RowsGo
  <2>2. ~Disturbed(pk)
    BY <1>4, DisturbedStays
  <2>3. CASE pk # x[1]
    <3>1. row'[pk] = row[pk]
      BY <1>1, <2>1, <2>3
    <3> QED BY <1>4, <2>1, <2>2, <3>1 DEF Counted, NotedKept
  <2>4. CASE pk = x[1]
    <3>1. row[pk].recalls = 0 /\ row'[pk].recalls = 1
      BY <1>1, <1>3, <1>4, <2>1, <2>2, <2>4
    <3> QED BY <2>2, <2>4, <3>1, CommandNoted
  <2> QED BY <2>3, <2>4
<1> QED BY <1>4 DEF Counted

LEMMA CommandAsks ==
    ASSUME Base, Grows, Asks, ~Troubled, NEW k \in DOMAIN task, NEW x, RecallSucceeds(k, x) \/ RecallFails(k, x)
    PROVE  Asks'
<1>1. /\ RecallOpen(k, x) /\ Only(k) /\ task'[k].todo = (task[k].todo \ {x}) \cup {<<x[1], "note">>}
      /\ \A q \in DOMAIN row : q # x[1] => row'[q] = row[q]
  BY CommandEffect
<1>2. x \in task[k].todo /\ Asking(k) /\ Deletion(k, task[k].c) /\ task[k].pc # "idle"
  BY <1>1, PicksItem DEF RecallOpen, Picks, Asking, Base
<1>3. ASSUME NEW j, Asking(j)' PROVE j = k
  <2>1. j \in AnyHook /\ j \in DOMAIN task'
    BY <1>3 DEF Asking
  <2>2. j # k => j \in DOMAIN task /\ task'[j] = task[j]
    BY <1>1, <2>1, KeyKinds DEF Only
  <2>3. j # k => Asking(j)
    BY <1>3, <2>2 DEF Asking
  <2> QED BY <1>2, <2>3, OneAsks
<1>4. PICK t, u, n : t = task[k] /\ u = task'[k] /\ n = <<x[1], "note">>
  OBVIOUS
<1>5. u.todo = (t.todo \ {x}) \cup {n} /\ x \in t.todo /\ n[1] = x[1] /\ n[2] = "note"
  BY <1>1, <1>2, <1>4
<1>6. AsksOnce(t) /\ \A y \in t.todo : y[1] \in DOMAIN row
  BY <1>2, <1>4, AskingBacked DEF Asks
<1>7. \A y \in t.todo : y # x => y[1] # x[1]
  BY <1>5, <1>6 DEF AsksOnce
<1>8. \A y, z \in u.todo : y[1] = z[1] => y = z
  BY <1>5, <1>6, <1>7 DEF AsksOnce
<1>9. ASSUME NEW y \in u.todo, y[2] \in OpenStates PROVE Disturbed(y[1])' \/ row'[y[1]].recalls = 0
  <2>1. y # n
    BY <1>5, <1>9 DEF OpenStates
  <2>2. y \in t.todo /\ y[1] # x[1]
    BY <1>5, <1>7, <1>9, <2>1
  <2>3. Disturbed(y[1]) \/ row[y[1]].recalls = 0
    BY <1>6, <1>9, <2>2 DEF AsksOnce
  <2>4. row'[y[1]] = row[y[1]]
    BY <1>1, <1>6, <2>2
  <2> QED BY <2>3, <2>4, DisturbedStays
<1>10. AsksOnce(u)'
  BY <1>8, <1>9 DEF AsksOnce
<1>11. AsksOnce(task[k])'
  BY <1>4, <1>10 DEF AsksOnce
<1> QED BY <1>3, <1>11 DEF Asks

LEMMA CountingNext ==
    ASSUME Base, Base', Copying, Forwards, Aimed, Counting, [Next]_vars PROVE Counting'
<1>0. Grows /\ OutKept /\ RowsGo
  BY NextGrows, NextOut, NextRows
<1>1. SUFFICES ASSUME ~Troubled' PROVE Counted' /\ Asks'
  BY DEF Counting
<1>2. ~Troubled /\ Counted /\ Asks /\ NotedKept
  BY <1>0, <1>1, TroubledStays, NotedNext DEF Counting
<1>3. CASE UNCHANGED vars
  <2>1. UNCHANGED <<task, aside, row>>
    BY <1>3 DEF vars, history
  <2> QED BY <1>0, <1>2, <2>1, CountSame, CountedCalm, StaysTidy, AskAdds, AsksCalm DEF Base
<1>4. CASE World \/ Accepting \/ Runtime \/ \E d \in DOMAIN hook : AcceptFails(d)
  BY <1>0, <1>2, <1>4, OutsideCount, CountedCalm, OutsideAdds, AskAdds, AsksCalm
<1>5. CASE WorkerCrashes
  <2>1. AskKept
    BY <1>5, CrashStep DEF Base, Halts, AskKept, Asking
  <2> QED BY <1>0, <1>2, <1>5, <2>1, OutsideCount, CountedCalm, AsksCalm
<1>6. ASSUME NEW k \in DOMAIN task,
             \/ FailStep(k) \/ MoveStep(k) \/ HookStep(k) \/ InboxStep(k) \/ LocalStep(k)
             \/ SnapStep(k) \/ \E x : PartStep(k, x)
      PROVE  Counted' /\ Asks'
  <2>1. CASE Commands(k)
    BY <1>0, <1>2, <2>1, CommandCounted, CommandAsks DEF Commands
  <2>2. CASE ~Commands(k)
    <3>1. CountKept /\ (AskKept \/ Begun(k))
      BY <1>6, <2>2, TaskCount, TaskAsk
    <3> QED BY <1>0, <1>2, <3>1, CountedCalm, AsksCalm, BegunAsks
  <2> QED BY <2>1, <2>2
<1> QED BY <1>3, <1>4, <1>5, <1>6, NextKinds

LEMMA CountingInit == ASSUME Init PROVE Counting
<1>1. DOMAIN row = {} /\ DOMAIN task = {}
  BY DEF Init, Nothing
<1> QED BY <1>1 DEF Counting, Counted, Asks, Asking

RecallInv == CopyInv /\ Truthful /\ Aimed /\ Counting

LEMMA RecallFollows == ASSUME RecallInv PROVE RecallAsTold
<1>1. ASSUME NEW pk \in DOMAIN row
      PROVE  MapOf(pk).st \in {"recall_snapshot_pending", "recalled"} => row[pk].recalled
  <2>1. CASE pk \in DOMAIN map
    BY <2>1 DEF RecallInv, Truthful, TruthMap, Said, MapOf
  <2>2. CASE pk \notin DOMAIN map
    <3>1. MapOf(pk).st = None
      BY <2>2 DEF MapOf, Map
    <3> QED BY <3>1 DEF None
  <2> QED BY <2>1, <2>2
<1>2. ASSUME NEW pk \in DOMAIN row PROVE row[pk].recalls <= 1 \/ Disturbed(pk) \/ Troubled
  <2>1. row[pk].recalls \in Nat
    BY DEF RecallInv, CopyInv, Base, TypedRows, Rows
  <2> QED BY <2>1 DEF RecallInv, Counting, Counted
<1> QED BY <1>1, <1>2 DEF RecallAsTold, Troubled

(* RecallAsTold: a row that says the platform confirmed the recall is      *)
(* right, and one command is given for a row whatever events about the     *)
(* deletion arrive, unless a webhook about a deletion met a fault or ran   *)
(* beside the account's tasks: what was asked is recorded in the map, or a *)
(* task is about to record it and holds the account's lane.                *)
THEOREM RecallsAreAsTold == Spec => []RecallAsTold
<1>1. Init => RecallInv
  BY BaseInit, CopyingInit, ForwardsInit, TruthfulInit, AimedInit, CountingInit DEF RecallInv, CopyInv
<1>2. RecallInv /\ [Next]_vars => RecallInv'
  <2>1. SUFFICES ASSUME RecallInv, [Next]_vars PROVE RecallInv'
    OBVIOUS
  <2>2. Base /\ Copying /\ Forwards /\ Plats /\ Truthful /\ Aimed /\ Counting
    BY <2>1 DEF RecallInv, CopyInv
  <2>3. Base' /\ Copying' /\ Forwards' /\ Plats' /\ Truthful'
    BY <2>1, <2>2, BaseNext, CopyingNext, ForwardsNext, PlatsNext, TruthfulNext
  <2>4. Aimed' /\ Counting'
    BY <2>1, <2>2, <2>3, AimedNext, CountingNext
  <2> QED BY <2>3, <2>4 DEF RecallInv, CopyInv
<1> QED BY <1>1, <1>2, RecallFollows, PTL DEF Spec

-----------------------------------------------------------------------------
(* The conversation is taken over.  A webhook that is done stays done.     *)

Over(k) == k \in DOMAIN task /\ task[k].pc = "idle" /\ task[k].st = "success"
Done == \A d \in DOMAIN hook : hook[d] = "success" => Over(<<"hook", d>>)
SuccessStays == \A d \in DOMAIN hook : hook[d] = "success" => d \in DOMAIN hook' /\ hook'[d] = "success"
Marks(k, s) == k \in AnyHook /\ hook' = [hook EXCEPT ![k[2]] = s] /\ (s = "success" => HookEnds(k, "success"))
HookGoesBy(k) == UNCHANGED hook \/ \E s : Marks(k, s)

LEMMA FailsMarks == ASSUME NEW k, Fails(k) PROVE HookGoesBy(k)
<1>1. CASE k \in HookKeys
  <2>1. Marks(k, "failed")
    BY <1>1, KeyKinds DEF Fails, Marks
  <2> QED BY <2>1 DEF HookGoesBy
<1>2. CASE k \notin HookKeys
  BY <1>2 DEF Fails, HookGoesBy
<1> QED BY <1>1, <1>2

LEMMA EndsMarks == ASSUME NEW k, k \in AnyHook, NEW st, HookEnds(k, st) PROVE HookGoesBy(k)
<1>1. Marks(k, st)
  BY DEF Marks, HookEnds
<1> QED BY <1>1 DEF HookGoesBy

LEMMA DoneOnly ==
    ASSUME Base, Done, NEW k \in DOMAIN task, Only(k), ~Over(k), HookGoesBy(k) PROVE Done' /\ SuccessStays
<1>1. ASSUME NEW d, Over(<<"hook", d>>) PROVE <<"hook", d>> # k /\ Over(<<"hook", d>>)'
  BY <1>1 DEF Over, Only
<1>2. CASE UNCHANGED hook
  BY <1>1, <1>2 DEF Done, SuccessStays
<1>3. ASSUME NEW s, Marks(k, s) PROVE Done' /\ SuccessStays
  <2>1. k = <<"hook", k[2]>> /\ k \in AnyHook /\ DOMAIN hook' = DOMAIN hook
    BY <1>3, KeyKinds DEF Marks
  <2>2. \A d \in DOMAIN hook : d # k[2] => hook'[d] = hook[d]
    BY <1>3 DEF Marks
  <2>3. \A d \in DOMAIN hook : hook[d] = "success" => d # k[2]
    BY <1>1, <2>1 DEF Done
  <2>4. ASSUME k[2] \in DOMAIN hook, hook'[k[2]] = "success" PROVE Over(k)'
    <3>1. HookEnds(k, "success")
      BY <1>3, <2>4 DEF Marks
    <3>2. task' = [task EXCEPT ![k] = Task("success", 0, FALSE, "idle")]
      BY <3>1 DEF HookEnds, Ended
    <3> QED BY <3>2 DEF Over, Task
  <2>5. Done'
    BY <1>1, <2>1, <2>2, <2>4 DEF Done
  <2> QED BY <2>1, <2>2, <2>3, <2>5 DEF SuccessStays
<1> QED BY <1>2, <1>3 DEF HookGoesBy

LEMMA ReadyNotOver == ASSUME NEW k, Ready(k) \/ task[k].pc # "idle" PROVE ~Over(k)
BY DEF Ready, Over

LEMMA LocalHooks ==
    ASSUME Base, NEW k \in DOMAIN task, FailStep(k) \/ MoveStep(k) \/ InboxStep(k) \/ LocalStep(k) \/ SnapStep(k)
    PROVE  HookGoesBy(k) /\ ~Over(k)
<1>1. HookGoesBy(k)
  <2>1. CASE Fails(k)
    BY <2>1, FailsMarks
  <2>2. CASE UNCHANGED hook
    BY <2>2 DEF HookGoesBy
  <2> QED BY <2>1, <2>2 DEF FailStep, CreateRetry, RequestFails, PieceTimesOut, MoveStep, EndMeta, TakeMeta, TakeStatus,
     TakeAlert, FindPlace, NewPlace, RecordPlace, PostAlert, RecordAlert, InboxStep, FindInbox, NewInbox, FindConv, NewConv,
     MapConv, ResolveOld, SnapStep, LookForSnapshot, CreateSnapshot, LocalStep, TakeLocal, PostMessage, RecordMirror,
     RecordRecalled, Goes
<1>2. Ready(k) \/ task[k].pc # "idle"
  BY DEF FailStep, CreateRetry, RequestFails, PieceTimesOut, MoveStep, EndMeta, TakeMeta, TakeStatus, TakeAlert, FindPlace,
     NewPlace, RecordPlace, PostAlert, RecordAlert, InboxStep, FindInbox, NewInbox, FindConv, NewConv, MapConv, ResolveOld,
     SnapStep, LookForSnapshot, CreateSnapshot, LocalStep, TakeLocal, PostMessage, RecordMirror, RecordRecalled
<1> QED BY <1>1, <1>2, ReadyNotOver

LEMMA HookHooks ==
    ASSUME Base, NEW k \in DOMAIN task, HookStep(k) \/ \E x : PartStep(k, x) PROVE HookGoesBy(k) /\ ~Over(k)
<1>0. k \in AnyHook
  BY HookWork, PartWork
<1>1. CASE HookStep(k)
  <2>1. HookGoesBy(k)
    <3>1. CASE Fails(k)
      BY <3>1, FailsMarks
    <3>2. CASE UNCHANGED hook
      BY <3>2 DEF HookGoesBy
    <3>3. CASE \E st : HookEnds(k, st)
      BY <1>0, <3>3, EndsMarks
    <3> QED BY <1>1, <3>1, <3>2, <3>3 DEF HookStep, TakeIgnored, TakeResolved, TakeOver, TakeCreated, SendPiece,
       PieceAnswered, TakeDeleted, RecallsDone, Quiet
  <2>2. Ready(k) \/ task[k].pc # "idle"
    BY <1>1 DEF HookStep, TakeIgnored, TakeResolved, TakeOver, TakeCreated, SendPiece, PieceAnswered, TakeDeleted,
       RecallsDone, Takes
  <2> QED BY <2>1, <2>2, ReadyNotOver
<1>2. CASE \E x : PartStep(k, x)
  <2>1. HookGoesBy(k)
    <3>1. CASE Fails(k)
      BY <3>1, FailsMarks
    <3>2. CASE UNCHANGED hook
      BY <3>2 DEF HookGoesBy
    <3>3. CASE \E st : HookEnds(k, st)
      BY <1>0, <3>3, EndsMarks
    <3> QED BY <1>2, <3>1, <3>2, <3>3 DEF PartStep, RecordPiece, FinishRecall, RecallHandled, RecallSucceeds, RecallFails,
       NoteRecall, Quiet
  <2>2. task[k].pc # "idle"
    BY <1>2 DEF PartStep, RecordPiece, FinishRecall, RecallHandled, RecallSucceeds, RecallFails, RecallOpen, NoteRecall, Picks
  <2> QED BY <2>1, <2>2, ReadyNotOver
<1> QED BY <1>1, <1>2

LEMMA OutsideHooks ==
    ASSUME World \/ Accepting \/ Runtime \/ WorkerCrashes \/ \E d \in DOMAIN hook : AcceptFails(d)
    PROVE  SuccessStays /\ \A d \in DOMAIN hook' : hook'[d] = "success" => d \in DOMAIN hook /\ hook[d] = "success"
<1>1. CASE \E d \in sent : RecordWebhook(d)
  BY <1>1 DEF RecordWebhook, With, SuccessStays
<1>2. CASE \E d \in DOMAIN hook : CreateHookTask(d) \/ AcceptFails(d)
  BY <1>2 DEF CreateHookTask, AcceptFails, SuccessStays
<1>3. CASE World \/ Runtime \/ WorkerCrashes
  <2>1. UNCHANGED hook
    BY <1>3 DEF World, Received, Begins, Refused, Recalled, AgentWrites, AgentDeletes, AgentResolves, Switch, Backfill,
       StateChanges, Runtime, Completes, WorkerCrashes, Quiet
  <2> QED BY <2>1 DEF SuccessStays
<1> QED BY <1>1, <1>2, <1>3 DEF Accepting

LEMMA DoneNext == ASSUME Base, Done, [Next]_vars PROVE Done' /\ SuccessStays
<1>1. CASE UNCHANGED vars
  BY <1>1 DEF vars, Done, Over, SuccessStays
<1>2. CASE World \/ Accepting \/ Runtime \/ \E d \in DOMAIN hook : AcceptFails(d)
  <2>1. \A k : Over(k) => Over(k)'
    BY <1>2, OutsideAdds DEF Adds, Over
  <2> QED BY <1>2, <2>1, OutsideHooks DEF Done
<1>3. CASE WorkerCrashes
  <2>1. \A k : Over(k) => Over(k)'
    BY <1>3, CrashStep DEF Base, Halts, Over, Running
  <2> QED BY <1>3, <2>1, OutsideHooks DEF Done
<1>4. ASSUME NEW k \in DOMAIN task,
             \/ FailStep(k) \/ MoveStep(k) \/ HookStep(k) \/ InboxStep(k) \/ LocalStep(k)
             \/ SnapStep(k) \/ \E x : PartStep(k, x)
      PROVE  Done' /\ SuccessStays
  <2>1. Only(k)
    BY <1>4, TaskOnly
  <2>2. HookGoesBy(k) /\ ~Over(k)
    BY <1>4, LocalHooks, HookHooks
  <2> QED BY <2>1, <2>2, DoneOnly
<1> QED BY <1>1, <1>2, <1>3, <1>4, NextKinds

(* Everything that is mapped belongs to a message in Chatwoot.             *)
MapsBound == \A pk \in DOMAIN map : map[pk].c \in 1..Len(cw)
Sourced == \A pk \in DOMAIN map' : \/ pk \in DOMAIN map /\ map'[pk].c = map[pk].c
                                   \/ map'[pk].c \in 1..Len(cw)

LEMMA BoundCalm ==
    ASSUME MapsBound, Sourced, CwKept, Len(cw) \in Nat, Len(cw') \in Nat PROVE MapsBound'
<1>1. PICK n \in Nat, m \in Nat : n = Len(cw) /\ m = Len(cw')
  OBVIOUS
<1>2. n <= m
  BY <1>1 DEF CwKept
<1>3. \A pk \in DOMAIN map' : map'[pk].c \in 1..n
  BY <1>1 DEF MapsBound, Sourced
<1> QED BY <1>1, <1>2, <1>3 DEF MapsBound

LEMMA SourcedSame == ASSUME UNCHANGED map PROVE Sourced
BY DEF Sourced

LEMMA SourcedWith == ASSUME NEW pk, NEW m, map' = With(map, pk, m), m.c \in 1..Len(cw) PROVE Sourced
BY DEF Sourced, With

LEMMA TaskSource ==
    ASSUME Base, Copying, NEW k \in DOMAIN task, HookStep(k) \/ LocalStep(k) \/ \E x : PartStep(k, x)
    PROVE  Sourced
<1>0. Tidy /\ TypedRows /\ map \in [DOMAIN map -> Maps]
  BY DEF Base, TypedRows
<1>1. CASE RecordMirror(k)
  <2>1. PICK m : m = Map(task[k].c, "synced")
    OBVIOUS
  <2>2. map' = With(map, k[2], m) /\ m.c = task[k].c
    BY <1>1, <2>1 DEF RecordMirror, Map
  <2>3. task[k].c \in 1..Len(cw)
    BY <1>1 DEF RecordMirror, Copying, Copies, Live, Mirror
  <2> QED BY <2>2, <2>3, SourcedWith
<1>2. CASE RecordRecalled(k)
  <2>1. map' = [map EXCEPT ![k[2]].st = "recalled"]
    BY <1>2 DEF RecordRecalled
  <2>2. DOMAIN map' = DOMAIN map /\ \A pk \in DOMAIN map : map'[pk].c = map[pk].c
    BY <1>0, <2>1 DEF Maps
  <2> QED BY <2>2 DEF Sourced
<1>3. CASE TakeDeleted(k)
  <2>1. PICK i : i = k[2][2]
    OBVIOUS
  <2>2. UNCHANGED map \/ map' = [pk \in DOMAIN map |-> IF pk \in MapsOf(i) /\ on = "on"
                                                       THEN Map(i, "remote_deleted") ELSE map[pk]]
    BY <1>0, <1>3, <2>1, TakeDeletedStep
  <2>3. \A pk \in MapsOf(i) : map[pk].c = i /\ Map(i, "remote_deleted").c = i
    BY DEF MapsOf, Map
  <2> QED BY <2>2, <2>3 DEF Sourced
<1>4. CASE \/ TakeLocal(k) \/ PostMessage(k) \/ TakeIgnored(k) \/ TakeResolved(k) \/ TakeOver(k) \/ TakeCreated(k)
           \/ SendPiece(k) \/ PieceAnswered(k) \/ RecallsDone(k)
           \/ \E x : RecallHandled(k, x) \/ RecallSucceeds(k, x) \/ RecallFails(k, x)
  BY <1>4, SourcedSame DEF TakeLocal, PostMessage, TakeIgnored, TakeResolved, TakeOver, TakeCreated, SendPiece,
     PieceAnswered, RecallsDone, RecallHandled, RecallSucceeds, RecallFails, Quiet, mapping
<1>5. CASE \E x \in task[k].todo : RecordPiece(k, x)
  <2>1. PICK x \in task[k].todo : RecordPiece(k, x)
    BY <1>5
  <2>2. PICK m : m = Map(task[k].c, IF x \in task[k].yes THEN "synced" ELSE "failed")
    OBVIOUS
  <2>3. map' = With(map, x, m) /\ m.c = task[k].c
    BY <2>1, <2>2 DEF RecordPiece, Map
  <2>4. task[k].c \in 1..Len(cw)
    BY <1>0, <2>1, RecordPieceStep, CreationKnown
  <2> QED BY <2>3, <2>4, SourcedWith
<1>6. CASE \E x \in task[k].yes \cup task[k].no : FinishRecall(k, x)
  <2>1. PICK x : FinishRecall(k, x)
    BY <1>6
  <2>2. PICK m : m = Map(task[k].c, IF x \in task[k].yes THEN "recalled" ELSE "recall_failed")
    OBVIOUS
  <2>3. map' = With(map, x, m) /\ m.c = task[k].c
    BY <2>1, <2>2 DEF FinishRecall, Map
  <2>4. task[k].c \in 1..Len(cw)
    BY <1>0, <2>1, FinishRecallStep, DeletionKnown
  <2> QED BY <2>3, <2>4, SourcedWith
<1>7. CASE \E x : NoteRecall(k, x)
  <2>1. PICK x : NoteRecall(k, x)
    BY <1>7
  <2>2. PICK m : m = Map(task[k].c, IF x[1] \in task[k].yes THEN "recall_snapshot_pending"
                                    ELSE "recall_failed_snapshot_pending")
    OBVIOUS
  <2>3. map' = [map EXCEPT ![x[1]] = m] /\ m.c = task[k].c
    BY <2>1, <2>2 DEF NoteRecall, Map
  <2>4. task[k].c \in 1..Len(cw)
    BY <1>0, <2>1, PicksItem, DeletionKnown DEF NoteRecall
  <2> QED BY <2>3, <2>4 DEF Sourced
<1> QED BY <1>1, <1>2, <1>3, <1>4, <1>5, <1>6, <1>7 DEF HookStep, LocalStep, PartStep

LEMMA NextCw == ASSUME Base, [Next]_vars PROVE CwKept \/ \E k \in DOMAIN task : PostMessage(k)
<1>1. CASE UNCHANGED vars
  BY <1>1, CwLen, CwSame DEF Base, vars, remote, history
<1>2. CASE WorkerCrashes
  <2>1. UNCHANGED cw
    BY <1>2 DEF WorkerCrashes, remote
  <2> QED BY <2>1, CwLen DEF Base, CwKept
<1> QED BY <1>1, <1>2, NextKinds, OutsideCw, TaskCw DEF Base, LocalStep

LEMMA BoundNext == ASSUME Base, Base', Copying, MapsBound, [Next]_vars PROVE MapsBound'
<1>0. Len(cw) \in Nat /\ Len(cw') \in Nat /\ cw \in Seq(Messages)
  BY CwLen DEF Base
<1>1. Sourced
  <2>1. CASE UNCHANGED vars
    BY <2>1, SourcedSame DEF vars, mapping
  <2> QED BY <2>1, NextKinds, OutsideHistory, QuietMap, SourcedSame, TaskSource
<1>2. CASE CwKept
  BY <1>0, <1>1, <1>2, BoundCalm
<1>3. CASE \E k \in DOMAIN task : PostMessage(k)
  <2>1. \E m : cw' = Append(cw, m)
    BY <1>3 DEF PostMessage
  <2>2. PICK n \in Nat : n = Len(cw)
    BY <1>0
  <2>3. Len(cw') = n + 1
    BY <1>0, <2>1, <2>2
  <2>4. \A pk \in DOMAIN map' : map'[pk].c \in 1..n
    BY <1>1, <2>2 DEF MapsBound, Sourced
  <2> QED BY <2>2, <2>3, <2>4 DEF MapsBound
<1> QED BY <1>2, <1>3, NextCw

(* The pieces of an agent's message, while its webhook is in no doubt: a   *)
(* piece is sent for the first time, and one that failed stays known.      *)
Doubted(i) == <<"hook", <<"created", i>>>> \in hit \cup aside
FailedRow(pk) == pk \in DOMAIN row /\ row[pk].st = "failed"
NewIn(t) ==
    /\ t.pc \in {"send", "wait", "map"} => \A pk \in t.no : FailedRow(pk)
    /\ t.pc = "send" => \A pk \in t.todo : pk \notin DOMAIN row
    /\ t.pc = "wait" => \A pk \in t.todo : pk = PieceOf(t) \/ pk \notin DOMAIN row
    /\ t.pc = "map" => t.no \subseteq t.todo \cup DOMAIN map
Sendings == \A k \in DOMAIN task : \A i : Creation(k, i) => Doubted(i) \/ NewIn(task[k])
RowsNew(i) == \A q \in DOMAIN row' \ DOMAIN row : q \notin Pieces(i)

LEMMA DoubtStays == ASSUME Grows, NEW i PROVE Doubted(i) => Doubted(i)'
BY DEF Grows, Doubted

LEMMA FailedStays == ASSUME RowsGo PROVE \A pk : FailedRow(pk) => FailedRow(pk)'
BY DEF RowsGo, RowGoes, FailedRow

LEMMA OwnNew == ASSUME OnlyOwn, NEW i PROVE RowsNew(i)
BY DEF OnlyOwn, RowsNew, Pieces

LEMMA CreationOf ==
    ASSUME Base, NEW k \in DOMAIN task, NEW i, Creation(k, i)
    PROVE  /\ task[k].pc \in {"send", "wait", "takeover"} => task[k].c = i
           /\ task[k].pc \in {"send", "wait", "map"} =>
                /\ task[k].c = i /\ task[k].todo \subseteq Pieces(i) /\ task[k].no \subseteq Pieces(i)
                /\ task[k].yes \subseteq Pieces(i)
<1>1. Fits(k, task[k])
  BY TidyTask DEF Base
<1>2. k \in AnyHook /\ k \notin LocalKeys
  BY CreationKnown, KeyKinds
<1>3. \A j : Creation(k, j) => j = i
  BY DEF Creation
<1> QED BY <1>1, <1>2, <1>3 DEF Fits

LEMMA NewStays ==
    ASSUME Base, Grows, RowsGo, NEW k \in DOMAIN task, NEW i, Creation(k, i), RowsNew(i), NewIn(task[k])
    PROVE  NewIn(task[k])' \/ task'[k] # task[k]
<1>1. SUFFICES ASSUME task'[k] = task[k] PROVE NewIn(task[k])'
  OBVIOUS
<1>2. PICK t : t = task[k]
  OBVIOUS
<1>3. t.pc \in {"send", "wait"} => \A pk \in t.todo : pk \in DOMAIN row' => pk \in DOMAIN row
  BY <1>2, CreationOf DEF RowsNew
<1>4. DOMAIN map \subseteq DOMAIN map'
  BY DEF Grows
<1>5. NewIn(t)
  BY <1>2
<1>6. NewIn(t)'
  BY <1>3, <1>4, <1>5, FailedStays DEF NewIn
<1> QED BY <1>1, <1>2, <1>6 DEF NewIn, PieceOf

LEMMA SendingsOnly ==
    ASSUME Base, Grows, RowsGo, Sendings, NEW k \in DOMAIN task, Only(k),
           \A i : Creation(k, i) \/ RowsNew(i),
           \A i : Creation(k, i) => Doubted(i)' \/ NewIn(task[k])'
    PROVE  Sendings'
<1>1. SUFFICES ASSUME NEW j \in DOMAIN task', NEW i, Creation(j, i) PROVE Doubted(i)' \/ NewIn(task[j])'
  BY DEF Sendings, Creation
<1>2. CASE j = k
  BY <1>1, <1>2
<1>3. CASE j # k
  <2>1. j[1] = "hook"
    BY <1>1 DEF Creation
  <2>2. j \in DOMAIN task /\ task'[j] = task[j]
    BY <1>1, <1>3, <2>1, KeyKinds DEF Only
  <2>3. ~Creation(k, i)
    BY <1>1, <1>3 DEF Creation
  <2>4. RowsNew(i)
    BY <2>3
  <2>5. Doubted(i) \/ NewIn(task[j])
    BY <1>1, <2>2 DEF Sendings
  <2> QED BY <1>1, <2>2, <2>4, <2>5, DoubtStays, NewStays
<1> QED BY <1>2, <1>3

LEMMA SendingsNot ==
    ASSUME Base, Grows, RowsGo, OnlyOwn, Sendings, NEW k \in DOMAIN task, Only(k),
           k \notin AnyHook \/ task'[k].pc \notin {"send", "wait", "map"}
    PROVE  Sendings'
<1>1. \A i : Creation(k, i) => k \in AnyHook
  BY CreationKnown
<1>2. task'[k].pc \notin {"send", "wait", "map"} => NewIn(task[k])'
  BY DEF NewIn
<1>3. \A i : RowsNew(i)
  BY OwnNew
<1> QED BY <1>1, <1>2, <1>3, SendingsOnly

LEMMA TakeCreatedSendings ==
    ASSUME Base, Grows, Forwards, Aimed, Sendings, NEW k \in DOMAIN task, TakeCreated(k) PROVE Sendings'
<1>0. Tidy /\ UNCHANGED <<row, map>> /\ RowsGo /\ OnlyOwn /\ Homes
  BY RowSame DEF Base, TakeCreated, Aimed
<1>1. PICK i : i = k[2][2]
  OBVIOUS
<1>2. Ready(k) /\ (Stops(k) \/ (Sends(k, i) /\ ~Skipped(i)))
  BY <1>0, <1>1, TakeCreatedStep
<1>3. CASE Stops(k)
  BY <1>0, <1>3, SendingsNot DEF Stops
<1>4. CASE Sends(k, i) /\ ~Skipped(i)
  <2>1. Only(k) /\ Creation(k, i) /\ task'[k].pc = "send" /\ task'[k].todo \subseteq Pieces(i) /\ task'[k].no = {}
    BY <1>4 DEF Sends
  <2>2. ASSUME NEW pk \in Pieces(i), pk \in DOMAIN row PROVE Doubted(i)
    <3>1. pk[1] = "c" /\ pk[2] = i
      BY <2>2 DEF Pieces
    <3>2. Disturbed(pk) => Doubted(i)
      BY <3>1 DEF Disturbed, Doubted
    <3>3. CASE pk \in DOMAIN map
      <4>1. map[pk].c # i
        <5>1. MapsOf(i) = {}
          BY <1>4 DEF Skipped
        <5> QED BY <3>3, <5>1 DEF MapsOf
      <4>2. map[pk].c = pk[2] \/ Disturbed(pk)
        BY <1>0, <3>1, <3>3 DEF Homes
      <4> QED BY <3>1, <3>2, <4>1, <4>2
    <3>4. CASE pk \notin DOMAIN map
      <4>1. Disturbed(pk) \/ Carried(pk)
        BY <2>2, <3>1, <3>4 DEF Forwards, Pending
      <4>2. ~Carried(pk)
        <5>1. \A j : Creation(j, pk[2]) => j = k
          BY <2>1, <3>1 DEF Creation
        <5>2. ~CarriedBy(task[k], pk)
          BY <1>2, ReadyIdle DEF CarriedBy
        <5> QED BY <5>1, <5>2 DEF Carried
      <4> QED BY <3>2, <4>1, <4>2
    <3> QED BY <3>3, <3>4
  <2>3. Doubted(i)' \/ NewIn(task[k])'
    BY <1>0, <2>1, <2>2, DoubtStays DEF NewIn
  <2>4. \A j : Creation(k, j) => j = i
    BY <2>1 DEF Creation
  <2>5. \A j : RowsNew(j)
    BY <1>0, OwnNew
  <2> QED BY <1>0, <2>1, <2>3, <2>4, <2>5, SendingsOnly
<1> QED BY <1>2, <1>3, <1>4

LEMMA GetsSendings ==
    ASSUME Base, Grows, RowsGo, OnlyOwn, Sendings, NEW k \in DOMAIN task, NEW i, Creation(k, i),
           NEW pk, NEW ok, Gets(k, pk, ok), ~ok => FailedRow(pk),
           Doubted(i) \/ (\A q \in task[k].todo : q = pk \/ q \notin DOMAIN row),
           task[k].pc \in {"send", "wait"}
    PROVE  Sendings'
<1>1. Only(k) /\ \A j : RowsNew(j)
  BY OwnNew DEF Gets
<1>2. \A j : Creation(k, j) => j = i
  BY DEF Creation
<1>3. CASE Doubted(i)
  BY <1>1, <1>2, <1>3, DoubtStays, SendingsOnly
<1>4. CASE ~Doubted(i)
  <2>1. \A q \in task[k].no : FailedRow(q)
    BY <1>4 DEF Sendings, NewIn
  <2>2. \A q \in task'[k].no : FailedRow(q)'
    BY <1>4, <2>1, FailedStays DEF Gets
  <2>3. task[k].todo \subseteq Pieces(i)
    BY CreationOf
  <2>4. task'[k].pc = "send" => \A q \in task'[k].todo : q \in task[k].todo /\ q # pk
    BY DEF Gets
  <2>5. task'[k].pc = "send" => \A q \in task'[k].todo : q \notin DOMAIN row'
    BY <1>1, <1>4, <2>3, <2>4 DEF RowsNew
  <2>6. task'[k].pc # "wait" /\ (task'[k].pc = "map" => task'[k].no \subseteq task'[k].todo)
    BY DEF Gets
  <2>7. NewIn(task[k])'
    BY <2>2, <2>5, <2>6 DEF NewIn
  <2> QED BY <1>1, <1>2, <2>7, SendingsOnly
<1> QED BY <1>3, <1>4

LEMMA SendPieceSendings ==
    ASSUME Base, Grows, Sendings, NEW k \in DOMAIN task, SendPiece(k) PROVE Sendings'
<1>0. Tidy /\ UNCHANGED map /\ RowsGo
  BY HookRows DEF Base, SendPiece, Quiet, mapping, HookStep
<1>1. PICK pk : pk = Piece(k)
  OBVIOUS
<1>2. PICK c : c = task[k].c
  OBVIOUS
<1>3. /\ task[k].pc = "send" /\ pk \in task[k].todo /\ pk \in Pieces(c)
      /\ \/ Steps(k, "wait") /\ pk \notin DOMAIN row /\ row' = With(row, pk, Row("out", "sending"))
         \/ Gets(k, pk, row[pk].st = "sent") /\ pk \in DOMAIN row /\ UNCHANGED row
  BY <1>0, <1>1, <1>2, SendPieceStep
<1>4. Creation(k, c)
  BY <1>0, <1>2, <1>3, TidyTask DEF Fits
<1>5. Doubted(c) \/ NewIn(task[k])
  BY <1>4 DEF Sendings
<1>6. CASE Steps(k, "wait") /\ row' = With(row, pk, Row("out", "sending"))
  <2>1. Only(k) /\ task'[k].pc = "wait" /\ task'[k].todo = task[k].todo /\ task'[k].no = task[k].no
    BY <1>6 DEF Steps, Like
  <2>2. DOMAIN row' = DOMAIN row \cup {pk}
    BY <1>6 DEF With
  <2>3. \A j : Creation(k, j) \/ RowsNew(j)
    <3>1. \A j : j # c => pk \notin Pieces(j)
      BY <1>3 DEF Pieces
    <3> QED BY <1>4, <2>2, <3>1 DEF RowsNew
  <2>4. pk = PieceOf(task[k]) /\ PieceOf(task[k])' = PieceOf(task[k])
    BY <1>1, <2>1, PieceIs DEF PieceOf
  <2>5. NewIn(task[k]) => NewIn(task[k])'
    <3>1. ASSUME NewIn(task[k]) PROVE \A q \in task'[k].no : FailedRow(q)'
      BY <1>0, <1>3, <2>1, <3>1, FailedStays DEF NewIn
    <3>2. ASSUME NewIn(task[k]) PROVE \A q \in task'[k].todo : q = pk \/ q \notin DOMAIN row'
      BY <1>3, <2>1, <2>2, <3>2 DEF NewIn
    <3> QED BY <2>1, <2>4, <3>1, <3>2 DEF NewIn
  <2>6. \A j : Creation(k, j) => j = c
    BY <1>4 DEF Creation
  <2> QED BY <1>0, <1>5, <2>1, <2>3, <2>5, <2>6, DoubtStays, SendingsOnly
<1>7. CASE Gets(k, pk, row[pk].st = "sent") /\ pk \in DOMAIN row /\ UNCHANGED row
  <2>1. Doubted(c)
    BY <1>3, <1>5, <1>7 DEF NewIn
  <2>2. Only(k)
    BY <1>7 DEF Gets
  <2>3. \A j : RowsNew(j)
    BY <1>7, RowSame, OwnNew
  <2>4. \A j : Creation(k, j) => j = c
    BY <1>4 DEF Creation
  <2> QED BY <1>0, <2>1, <2>2, <2>3, <2>4, DoubtStays, SendingsOnly
<1> QED BY <1>3, <1>6, <1>7

LEMMA PieceAnsweredSendings ==
    ASSUME Base, Grows, Sendings, NEW k \in DOMAIN task, PieceAnswered(k) PROVE Sendings'
<1>0. Tidy /\ UNCHANGED row
  BY DEF Base, PieceAnswered
<1>1. PICK pk : pk = Piece(k)
  OBVIOUS
<1>2. PICK c : c = task[k].c
  OBVIOUS
<1>3. PICK ok : ok = (row[pk].st = "sent")
  OBVIOUS
<1>4. /\ task[k].pc = "wait" /\ pk \in task[k].todo /\ Gets(k, pk, ok) /\ row[pk].st \in {"sent", "failed"}
  BY <1>0, <1>1, <1>3, PieceAnsweredStep
<1>5. Creation(k, c)
  BY <1>0, <1>2, <1>4, TidyTask DEF Fits
<1>6. Doubted(c) \/ NewIn(task[k])
  BY <1>5 DEF Sendings
<1>7. pk = PieceOf(task[k]) /\ pk \in DOMAIN row
  BY <1>1, <1>4, PieceIs DEF Base, Backed
<1>8. ~ok => FailedRow(pk)
  BY <1>3, <1>4, <1>7 DEF FailedRow
<1>9. Doubted(c) \/ \A q \in task[k].todo : q = pk \/ q \notin DOMAIN row
  BY <1>4, <1>6, <1>7 DEF NewIn
<1> QED BY <1>0, <1>4, <1>5, <1>8, <1>9, RowSame, GetsSendings

LEMMA RecordPieceSendings ==
    ASSUME Base, Grows, Sendings, NEW k \in DOMAIN task, NEW x \in task[k].todo, RecordPiece(k, x) PROVE Sendings'
<1>0. Tidy /\ UNCHANGED row /\ RowsGo /\ OnlyOwn
  BY RowSame DEF Base, RecordPiece
<1>1. PICK c : c = task[k].c
  OBVIOUS
<1>2. /\ task[k].pc = "map" /\ Creation(k, c)
      /\ \/ Sets(k, task[k].todo \ {x}, task[k].yes, task[k].no)
         \/ Stops(k) \/ Steps(k, "takeover")
  BY <1>0, <1>1, RecordPieceStep
<1>3. CASE Stops(k) \/ Steps(k, "takeover")
  BY <1>0, <1>3, SendingsNot DEF Stops, Steps
<1>4. CASE Sets(k, task[k].todo \ {x}, task[k].yes, task[k].no)
  <2>1. /\ Only(k) /\ task'[k].pc = "map" /\ task'[k].todo = task[k].todo \ {x} /\ task'[k].no = task[k].no
    BY <1>2, <1>4 DEF Sets
  <2>2. DOMAIN map' = DOMAIN map \cup {x}
    BY DEF RecordPiece, With
  <2>3. Doubted(c) \/ NewIn(task[k])
    BY <1>2 DEF Sendings
  <2>4. NewIn(task[k]) => NewIn(task[k])'
    <3>1. ASSUME NewIn(task[k]) PROVE \A q \in task'[k].no : FailedRow(q)'
      BY <1>0, <1>2, <2>1, <3>1, FailedStays DEF NewIn
    <3>2. ASSUME NewIn(task[k]) PROVE task'[k].no \subseteq task'[k].todo \cup DOMAIN map'
      BY <1>2, <2>1, <2>2, <3>2 DEF NewIn
    <3> QED BY <2>1, <3>1, <3>2 DEF NewIn
  <2>5. \A j : Creation(k, j) => j = c
    BY <1>2 DEF Creation
  <2>6. \A j : RowsNew(j)
    BY <1>0, OwnNew
  <2> QED BY <1>0, <2>1, <2>3, <2>4, <2>5, <2>6, DoubtStays, SendingsOnly
<1> QED BY <1>2, <1>3, <1>4

LEMMA SendingsAdds == ASSUME Base, Grows, RowsGo, OnlyOwn, Sendings, Adds PROVE Sendings'
<1>1. SUFFICES ASSUME NEW j \in DOMAIN task', NEW i, Creation(j, i) PROVE Doubted(i)' \/ NewIn(task[j])'
  BY DEF Sendings, Creation
<1>2. CASE j \in DOMAIN task
  <2>1. task'[j] = task[j] /\ (Doubted(i) \/ NewIn(task[j]))
    BY <1>1, <1>2 DEF Adds, Sendings
  <2> QED BY <1>1, <1>2, <2>1, OwnNew, DoubtStays, NewStays
<1>3. CASE j \notin DOMAIN task
  <2>1. task'[j].pc = "idle"
    BY <1>1, <1>3 DEF Adds
  <2> QED BY <2>1 DEF NewIn
<1> QED BY <1>2, <1>3

LEMMA SendingsNext == ASSUME Base, Copying, Forwards, Aimed, Sendings, [Next]_vars PROVE Sendings'
<1>0. Grows /\ RowsGo
  BY NextGrows, NextRows
<1>1. CASE UNCHANGED vars
  <2>1. UNCHANGED <<task, aside, row>>
    BY <1>1 DEF vars, history
  <2> QED BY <1>0, <2>1, StaysTidy, RowSame, SendingsAdds DEF Base
<1>2. CASE World \/ Accepting \/ Runtime \/ \E d \in DOMAIN hook : AcceptFails(d)
  BY <1>0, <1>2, OutsideAdds, OutsideRows, SendingsAdds
<1>3. CASE WorkerCrashes
  <2>1. Halts
    BY <1>3, CrashStep DEF Base
  <2> QED BY <2>1 DEF Halts, Sendings, NewIn, Creation
<1>4. ASSUME NEW k \in DOMAIN task, FailStep(k) \/ MoveStep(k) \/ InboxStep(k) \/ LocalStep(k) \/ SnapStep(k)
      PROVE  Sendings'
  <2>1. OnlyOwn
    BY <1>4, QuietRows, RowSame
  <2>2. Only(k) /\ (k \notin AnyHook \/ task'[k].pc \notin {"send", "wait", "map"})
    <3>1. CASE FailStep(k)
      BY <3>1, FailStops DEF Stops
    <3>2. CASE MoveStep(k)
      BY <3>2, MoveOnly, MovePcs
    <3>3. CASE InboxStep(k)
      BY <3>3, InboxOnly
    <3>4. CASE LocalStep(k)
      BY <3>4, LocalOnly
    <3>5. CASE SnapStep(k)
      BY <3>5, SnapOnly
    <3> QED BY <1>4, <3>1, <3>2, <3>3, <3>4, <3>5
  <2> QED BY <1>0, <2>1, <2>2, SendingsNot
<1>5. ASSUME NEW k \in DOMAIN task, HookStep(k) PROVE Sendings'
  <2>0. Tidy /\ TypedRows
    BY DEF Base
  <2>1. CASE TakeCreated(k)
    BY <1>0, <2>1, TakeCreatedSendings
  <2>2. CASE SendPiece(k) \/ PieceAnswered(k)
    BY <1>0, <2>2, SendPieceSendings, PieceAnsweredSendings
  <2>3. CASE TakeIgnored(k) \/ TakeResolved(k) \/ TakeOver(k) \/ TakeDeleted(k) \/ RecallsDone(k)
    <3>1. Only(k) /\ task'[k].pc \notin {"send", "wait", "map"}
      <4>1. CASE TakeIgnored(k) \/ TakeResolved(k) \/ TakeOver(k)
        BY <2>0, <4>1, HookTakenStep DEF Stops
      <4>2. CASE TakeDeleted(k)
        BY <2>0, <4>2, TakeDeletedStep DEF Stops, Reads
      <4>3. CASE RecallsDone(k)
        BY <2>0, <4>3, RecallsDoneStep DEF Stops, Steps
      <4> QED BY <2>3, <4>1, <4>2, <4>3
    <3>2. OnlyOwn
      <4>1. HookStep(k) /\ ~SendPiece(k)
        <5>1. task[k].pc = "send" => ~(TakeIgnored(k) \/ TakeResolved(k) \/ TakeOver(k) \/ TakeDeleted(k) \/ RecallsDone(k))
          BY ReadyIdle DEF TakeIgnored, TakeResolved, TakeOver, TakeDeleted, RecallsDone, Takes
        <5> QED BY <1>5, <2>3, <5>1 DEF SendPiece
      <4> QED BY <4>1, HookRows
    <3> QED BY <1>0, <3>1, <3>2, SendingsNot
  <2> QED BY <1>5, <2>1, <2>2, <2>3 DEF HookStep
<1>6. ASSUME NEW k \in DOMAIN task, NEW x, PartStep(k, x) PROVE Sendings'
  <2>1. CASE x \in task[k].todo /\ RecordPiece(k, x)
    BY <1>0, <2>1, RecordPieceSendings
  <2>2. CASE ~(x \in task[k].todo /\ RecordPiece(k, x))
    <3>1. Only(k) /\ task'[k].pc \in {"idle", "retry", "recall", "final"}
      BY <1>6, <2>2, RecallPcs DEF PartStep
    <3> QED BY <1>0, <1>6, <3>1, PartRows, SendingsNot
  <2> QED BY <2>1, <2>2
<1> QED BY <1>1, <1>2, <1>3, <1>4, <1>5, <1>6, NextKinds

LEMMA SendingsInit == ASSUME Init PROVE Sendings /\ Done /\ MapsBound
<1>1. DOMAIN task = {} /\ DOMAIN hook = {} /\ DOMAIN map = {}
  BY DEF Init, Nothing
<1> QED BY <1>1 DEF Sendings, Done, MapsBound

(* What is mapped for an agent's message, and what is recalled of it, comes *)
(* from its own webhook: the task that sent it takes the conversation over, *)
(* unless a piece of it failed or the webhook is in doubt.                  *)
Blame(i) == \E pk \in DOMAIN map : pk[1] = "c" /\ pk[2] = i /\ FailedRow(pk)
AtMap(i) == \E k \in DOMAIN task : Creation(k, i) /\ task[k].pc \in {"map", "takeover"}
Left == takeover \/ \E v \in Convs : HookIs(<<"resolved", v>>, "success")
Conseq(i) == Doubted(i) \/ Blame(i) \/ AtMap(i) \/ Left
Target(i) == \E k \in DOMAIN task : k \in AnyHook /\ task[k].pc \in Recalling /\ task[k].c = i
Claims == \A i \in 1..Len(cw) : cw[i].by = "agent" /\ (MapsOf(i) # {} \/ Target(i)) => Conseq(i)

LEMMA OutsideTakeover ==
    ASSUME World \/ Accepting \/ Runtime \/ WorkerCrashes \/ \E d \in DOMAIN hook : AcceptFails(d)
    PROVE  UNCHANGED takeover
<1>1. CASE World
  BY <1>1 DEF World, Received, Begins, Refused, Recalled, AgentWrites, AgentDeletes, AgentResolves, Switch, Backfill,
     StateChanges, control
<1>2. CASE Accepting \/ Runtime \/ WorkerCrashes \/ \E d \in DOMAIN hook : AcceptFails(d)
  BY <1>2 DEF Accepting, RecordWebhook, CreateHookTask, Runtime, Completes, WorkerCrashes, AcceptFails, control
<1> QED BY <1>1, <1>2

LEMMA TaskTakeover ==
    ASSUME NEW k, ~TakeOver(k), ~TakeResolved(k),
           \/ FailStep(k) \/ MoveStep(k) \/ HookStep(k) \/ InboxStep(k) \/ LocalStep(k)
           \/ SnapStep(k) \/ \E x : PartStep(k, x)
    PROVE  UNCHANGED takeover
<1>1. CASE FailStep(k) \/ MoveStep(k)
  BY <1>1 DEF FailStep, CreateRetry, RequestFails, PieceTimesOut, MoveStep, EndMeta, TakeMeta, TakeStatus, TakeAlert,
     FindPlace, NewPlace, RecordPlace, PostAlert, RecordAlert, Goes, control
<1>2. CASE HookStep(k)
  BY <1>2 DEF HookStep, TakeIgnored, TakeCreated, SendPiece, PieceAnswered, TakeDeleted, RecallsDone, control
<1>3. CASE LocalStep(k) \/ SnapStep(k) \/ InboxStep(k)
  BY <1>3 DEF LocalStep, SnapStep, InboxStep, TakeLocal, PostMessage, RecordMirror, RecordRecalled, LookForSnapshot,
     CreateSnapshot, FindInbox, NewInbox, FindConv, NewConv, MapConv, ResolveOld, Goes, control
<1>4. CASE \E x : PartStep(k, x)
  BY <1>4 DEF PartStep, RecordPiece, FinishRecall, RecallHandled, RecallSucceeds, RecallFails, NoteRecall, control
<1> QED BY <1>1, <1>2, <1>3, <1>4

LEMMA LeftCalm == ASSUME SuccessStays, UNCHANGED takeover, Left PROVE Left'
BY DEF Left, HookIs, SuccessStays

LEMMA ResolvedLeft == ASSUME Base, NEW k \in DOMAIN task, TakeResolved(k) PROVE Left'
<1>1. k \in HookKeys /\ k[2][1] = "resolved" /\ hook' = [hook EXCEPT ![k[2]] = "success"]
  BY DEF TakeResolved, Takes, HookEnds
<1>2. k \in AnyHook /\ k[2] \in Events
  BY <1>1, KeyKinds DEF HookKeys
<1>3. k[2] \in DOMAIN hook
  BY <1>2 DEF Base, TypedHooks
<1>4. PICK v \in Convs : k[2] = <<"resolved", v>>
  BY <1>1, <1>2 DEF Events
<1>5. HookIs(k[2], "success")'
  BY <1>1, <1>3 DEF HookIs
<1>6. HookIs(<<"resolved", v>>, "success")'
  BY <1>4, <1>5 DEF HookIs
<1> QED BY <1>6 DEF Left

LEMMA LeftNext == ASSUME Base, Done, [Next]_vars, Left PROVE Left'
<1>0. SuccessStays
  BY DoneNext
<1>1. CASE UNCHANGED vars
  <2>1. UNCHANGED takeover
    BY <1>1 DEF vars, control
  <2> QED BY <1>0, <2>1, LeftCalm
<1>2. CASE World \/ Accepting \/ Runtime \/ WorkerCrashes \/ \E d \in DOMAIN hook : AcceptFails(d)
  BY <1>0, <1>2, OutsideTakeover, LeftCalm
<1>3. ASSUME NEW k \in DOMAIN task,
             \/ FailStep(k) \/ MoveStep(k) \/ HookStep(k) \/ InboxStep(k) \/ LocalStep(k)
             \/ SnapStep(k) \/ \E x : PartStep(k, x)
      PROVE  Left'
  <2>1. CASE TakeOver(k)
    <3>1. takeover'
      BY <2>1 DEF TakeOver
    <3> QED BY <3>1 DEF Left
  <2>2. CASE TakeResolved(k)
    BY <2>2, ResolvedLeft
  <2>3. CASE ~TakeOver(k) /\ ~TakeResolved(k)
    BY <1>0, <1>3, <2>3, TaskTakeover, LeftCalm
  <2> QED BY <2>1, <2>2, <2>3
<1> QED BY <1>1, <1>2, <1>3, NextKinds

LEMMA BlameStays == ASSUME Grows, RowsGo, NEW i, Blame(i) PROVE Blame(i)'
BY FailedStays DEF Blame, Grows

(* The task that has sent every piece records them and takes over.         *)
LEMMA AtMapKeeps ==
    ASSUME NEW k \in DOMAIN task, NEW i, Creation(k, i), task[k].pc \in {"map", "takeover"},
           k \in DOMAIN task', task'[k].pc \in {"map", "takeover"}
    PROVE  AtMap(i)'
BY DEF AtMap

LEMMA LastPiece ==
    ASSUME Base, Grows, Sendings, NEW k \in DOMAIN task, NEW i, Creation(k, i),
           NEW x \in task[k].todo, RecordPiece(k, x)
    PROVE  Conseq(i)'
<1>0. Tidy /\ UNCHANGED row
  BY DEF Base, RecordPiece
<1>1. PICK c : c = task[k].c
  OBVIOUS
<1>2. /\ task[k].pc = "map" /\ Creation(k, c)
      /\ \/ Sets(k, task[k].todo \ {x}, task[k].yes, task[k].no)
         \/ Stops(k) /\ task[k].todo = {x} /\ task[k].no # {}
         \/ Steps(k, "takeover")
  BY <1>0, <1>1, RecordPieceStep
<1>3. CASE Sets(k, task[k].todo \ {x}, task[k].yes, task[k].no) \/ Steps(k, "takeover")
  <2>1. k \in DOMAIN task' /\ task'[k].pc \in {"map", "takeover"}
    BY <1>2, <1>3 DEF Sets, Steps, Only
  <2> QED BY <1>2, <2>1, AtMapKeeps DEF Conseq
<1>4. CASE task[k].todo = {x} /\ task[k].no # {}
  <2>1. Doubted(i) \/ NewIn(task[k])
    BY DEF Sendings
  <2>2. CASE Doubted(i)
    BY <2>2, DoubtStays DEF Conseq
  <2>3. CASE NewIn(task[k])
    <3>1. PICK q : q \in task[k].no
      BY <1>4
    <3>2. FailedRow(q) /\ q \in {x} \cup DOMAIN map
      BY <1>2, <1>4, <2>3, <3>1 DEF NewIn
    <3>3. DOMAIN map' = DOMAIN map \cup {x}
      BY DEF RecordPiece, With
    <3>4. q[1] = "c" /\ q[2] = i
      BY <1>2, <3>1, CreationOf DEF Pieces
    <3>5. FailedRow(q)' /\ q \in DOMAIN map'
      BY <1>0, <3>2, <3>3 DEF FailedRow
    <3>6. Blame(i)'
      BY <3>4, <3>5 DEF Blame
    <3> QED BY <3>6 DEF Conseq
  <2> QED BY <2>1, <2>2, <2>3
<1> QED BY <1>2, <1>3, <1>4

LEMMA AtMapStep ==
    ASSUME Base, Grows, Sendings, NEW k \in DOMAIN task, NEW i, Creation(k, i), task[k].pc \in {"map", "takeover"},
           \/ FailStep(k) \/ MoveStep(k) \/ HookStep(k) \/ InboxStep(k) \/ LocalStep(k)
           \/ SnapStep(k) \/ \E x : PartStep(k, x)
    PROVE  Conseq(i)'
<1>0. k \in AnyHook /\ k \notin LocalKeys /\ task[k].pc # "idle" /\ ~Ready(k)
  BY CreationKnown, KeyKinds, ReadyIdle
<1>1. ~FailStep(k)
  BY DEF FailStep, CreateRetry, RequestFails, PieceTimesOut
<1>2. ~MoveStep(k) /\ ~InboxStep(k) /\ ~LocalStep(k) /\ ~SnapStep(k)
  BY <1>0, MoveNot, InboxOnly, LocalOnly, SnapOnly
<1>3. CASE TakeOver(k)
  <2>1. takeover'
    BY <1>3 DEF TakeOver
  <2> QED BY <2>1 DEF Left, Conseq
<1>4. HookStep(k) => TakeOver(k)
  BY <1>0 DEF HookStep, TakeIgnored, TakeResolved, TakeCreated, SendPiece, PieceAnswered, TakeDeleted, RecallsDone, Takes
<1>5. ASSUME NEW x, PartStep(k, x) PROVE x \in task[k].todo /\ RecordPiece(k, x)
  BY <1>5 DEF PartStep, FinishRecall, RecallHandled, RecallSucceeds, RecallFails, RecallOpen, NoteRecall, Picks
<1> QED BY <1>1, <1>2, <1>3, <1>4, <1>5, LastPiece

LEMMA ConseqNext ==
    ASSUME Base, Copying, Done, Sendings, [Next]_vars, NEW i, Conseq(i) PROVE Conseq(i)'
<1>0. Grows /\ RowsGo
  BY NextGrows, NextRows
<1>1. CASE Doubted(i)
  BY <1>0, <1>1, DoubtStays DEF Conseq
<1>2. CASE Blame(i)
  BY <1>0, <1>2, BlameStays DEF Conseq
<1>3. CASE Left
  BY <1>3, LeftNext DEF Conseq
<1>4. CASE AtMap(i)
  <2>1. PICK k \in DOMAIN task : Creation(k, i) /\ task[k].pc \in {"map", "takeover"}
    BY <1>4 DEF AtMap
  <2>2. CASE k \in DOMAIN task' /\ task'[k] = task[k]
    BY <2>1, <2>2, AtMapKeeps DEF Conseq
  <2>3. CASE WorkerCrashes
    <3>1. Halts
      BY <2>3, CrashStep DEF Base
    <3>2. k \in hit'
      BY <2>1, <3>1 DEF Halts, Running
    <3> QED BY <2>1, <3>2 DEF Conseq, Doubted, Creation
  <2>4. CASE UNCHANGED vars
    BY <2>2, <2>4 DEF vars
  <2>5. CASE World \/ Accepting \/ Runtime \/ \E d \in DOMAIN hook : AcceptFails(d)
    BY <2>2, <2>5, OutsideAdds DEF Adds
  <2>6. ASSUME NEW j \in DOMAIN task,
               \/ FailStep(j) \/ MoveStep(j) \/ HookStep(j) \/ InboxStep(j) \/ LocalStep(j)
               \/ SnapStep(j) \/ \E x : PartStep(j, x)
        PROVE  Conseq(i)'
    <3>1. Only(j)
      BY <2>6, TaskOnly
    <3>2. CASE j = k
      BY <1>0, <2>1, <2>6, <3>2, AtMapStep
    <3>3. CASE j # k
      BY <2>2, <3>1, <3>3 DEF Only
    <3> QED BY <3>2, <3>3
  <2> QED BY <2>3, <2>4, <2>5, <2>6, NextKinds
<1> QED BY <1>1, <1>2, <1>3, <1>4 DEF Conseq

(* Where a row of the map comes from.                                      *)
Source(k) ==
    \/ RecordMirror(k)
    \/ k \in AnyHook /\ task[k].pc \in Recalling
    \/ Creation(k, task[k].c) /\ task[k].pc = "map"
FromTask(k, pk) == map'[pk].c = task[k].c /\ Source(k)
Origins(k) == \A pk \in DOMAIN map' : (pk \in DOMAIN map /\ map'[pk].c = map[pk].c) \/ FromTask(k, pk)

LEMMA OriginSame == ASSUME UNCHANGED map, NEW k PROVE Origins(k)
BY DEF Origins

LEMMA OriginWith ==
    ASSUME NEW k, NEW pk, NEW m, map' = With(map, pk, m), m.c = task[k].c, Source(k) PROVE Origins(k)
BY DEF Origins, With, FromTask

LEMMA TaskOrigins ==
    ASSUME Base, NEW k \in DOMAIN task, HookStep(k) \/ LocalStep(k) \/ \E x : PartStep(k, x)
    PROVE  Origins(k)
<1>0. Tidy /\ TypedRows /\ map \in [DOMAIN map -> Maps]
  BY DEF Base, TypedRows
<1>1. CASE RecordMirror(k)
  <2>1. PICK m : m = Map(task[k].c, "synced")
    OBVIOUS
  <2>2. map' = With(map, k[2], m) /\ m.c = task[k].c
    BY <1>1, <2>1 DEF RecordMirror, Map
  <2>3. Source(k)
    BY <1>1 DEF Source
  <2> QED BY <2>2, <2>3, OriginWith
<1>2. CASE RecordRecalled(k)
  <2>1. map' = [map EXCEPT ![k[2]].st = "recalled"]
    BY <1>2 DEF RecordRecalled
  <2>2. DOMAIN map' = DOMAIN map /\ \A pk \in DOMAIN map : map'[pk].c = map[pk].c
    BY <1>0, <2>1 DEF Maps
  <2> QED BY <2>2 DEF Origins
<1>3. CASE TakeDeleted(k)
  <2>1. PICK i : i = k[2][2]
    OBVIOUS
  <2>2. UNCHANGED map \/ map' = [pk \in DOMAIN map |-> IF pk \in MapsOf(i) /\ on = "on"
                                                       THEN Map(i, "remote_deleted") ELSE map[pk]]
    BY <1>0, <1>3, <2>1, TakeDeletedStep
  <2>3. \A pk \in MapsOf(i) : map[pk].c = i /\ Map(i, "remote_deleted").c = i
    BY DEF MapsOf, Map
  <2> QED BY <2>2, <2>3 DEF Origins
<1>4. CASE \/ TakeLocal(k) \/ PostMessage(k) \/ TakeIgnored(k) \/ TakeResolved(k) \/ TakeOver(k) \/ TakeCreated(k)
           \/ SendPiece(k) \/ PieceAnswered(k) \/ RecallsDone(k)
           \/ \E x : RecallHandled(k, x) \/ RecallSucceeds(k, x) \/ RecallFails(k, x)
  BY <1>4, OriginSame DEF TakeLocal, PostMessage, TakeIgnored, TakeResolved, TakeOver, TakeCreated, SendPiece,
     PieceAnswered, RecallsDone, RecallHandled, RecallSucceeds, RecallFails, Quiet, mapping
<1>5. CASE \E x \in task[k].todo : RecordPiece(k, x)
  <2>1. PICK x \in task[k].todo : RecordPiece(k, x)
    BY <1>5
  <2>2. PICK m : m = Map(task[k].c, IF x \in task[k].yes THEN "synced" ELSE "failed")
    OBVIOUS
  <2>3. map' = With(map, x, m) /\ m.c = task[k].c
    BY <2>1, <2>2 DEF RecordPiece, Map
  <2>4. Source(k)
    BY <1>0, <2>1, RecordPieceStep DEF Source
  <2> QED BY <2>3, <2>4, OriginWith
<1>6. CASE \E x \in task[k].yes \cup task[k].no : FinishRecall(k, x)
  <2>1. PICK x : FinishRecall(k, x) /\ x \in task[k].yes \cup task[k].no
    BY <1>6
  <2>2. PICK m : m = Map(task[k].c, IF x \in task[k].yes THEN "recalled" ELSE "recall_failed")
    OBVIOUS
  <2>3. map' = With(map, x, m) /\ m.c = task[k].c
    BY <2>1, <2>2 DEF FinishRecall, Map
  <2>4. k \in AnyHook /\ task[k].pc = "final"
    BY <2>1, KeyKinds DEF FinishRecall
  <2>5. Source(k)
    BY <2>4 DEF Source, Recalling
  <2> QED BY <2>3, <2>5, OriginWith
<1>7. CASE \E x : NoteRecall(k, x)
  <2>1. PICK x : NoteRecall(k, x)
    BY <1>7
  <2>2. PICK m : m = Map(task[k].c, IF x[1] \in task[k].yes THEN "recall_snapshot_pending"
                                    ELSE "recall_failed_snapshot_pending")
    OBVIOUS
  <2>3. map' = [map EXCEPT ![x[1]] = m] /\ m.c = task[k].c
    BY <2>1, <2>2 DEF NoteRecall, Map
  <2>4. k \in AnyHook /\ task[k].pc \in Recalling
    BY <1>0, <2>1, PicksOf DEF NoteRecall
  <2>5. Source(k)
    BY <2>4 DEF Source
  <2> QED BY <2>3, <2>5 DEF Origins, FromTask
<1> QED BY <1>1, <1>2, <1>3, <1>4, <1>5, <1>6, <1>7 DEF HookStep, LocalStep, PartStep

LEMMA NextOrigins == ASSUME Base, [Next]_vars PROVE UNCHANGED map \/ \E k \in DOMAIN task : Origins(k)
<1>1. CASE UNCHANGED vars
  BY <1>1 DEF vars, mapping
<1> QED BY <1>1, NextKinds, OutsideHistory, QuietMap, TaskOrigins

(* What is recalled was mapped.                                            *)
LEMMA BegunMapped == ASSUME NEW k \in DOMAIN task, Begun(k) PROVE MapsOf(k[2][2]) # {}
<1>1. PICK i : i = k[2][2]
  OBVIOUS
<1>2. TakeDeleted(k) /\ task'[k].pc = "recall"
  BY DEF Begun, Reads
<1>3. ASSUME MapsOf(i) = {} PROVE FALSE
  <2>1. HookEnds(k, "success")
    BY <1>1, <1>2, <1>3 DEF TakeDeleted
  <2>2. task'[k] = Task("success", 0, FALSE, "idle")
    BY <2>1 DEF HookEnds, Ended
  <2> QED BY <1>2, <2>2 DEF Task
<1> QED BY <1>1, <1>3

LEMMA TargetNext ==
    ASSUME Base, [Next]_vars, NEW i, Target(i)' PROVE Target(i) \/ MapsOf(i) # {}
<1>1. PICK j \in DOMAIN task' : j \in AnyHook /\ task'[j].pc \in Recalling /\ task'[j].c = i
  BY DEF Target
<1>2. CASE j \in DOMAIN task /\ task'[j] = task[j]
  BY <1>1, <1>2 DEF Target
<1>3. CASE WorkerCrashes
  <2>1. Halts
    BY <1>3, CrashStep DEF Base
  <2> QED BY <1>1, <2>1 DEF Halts, Recalling
<1>4. CASE UNCHANGED vars
  BY <1>1, <1>2, <1>4 DEF vars
<1>5. CASE World \/ Accepting \/ Runtime \/ \E d \in DOMAIN hook : AcceptFails(d)
  BY <1>1, <1>2, <1>5, OutsideAdds DEF Adds, Recalling
<1>6. ASSUME NEW k \in DOMAIN task,
             \/ FailStep(k) \/ MoveStep(k) \/ HookStep(k) \/ InboxStep(k) \/ LocalStep(k)
             \/ SnapStep(k) \/ \E x : PartStep(k, x)
      PROVE  Target(i) \/ MapsOf(i) # {}
  <2>1. Only(k)
    BY <1>6, TaskOnly
  <2>2. CASE j # k
    BY <1>1, <1>2, <2>1, <2>2 DEF Only, Recalling
  <2>3. CASE j = k
    <3>1. CASE FailStep(k) \/ MoveStep(k) \/ InboxStep(k) \/ LocalStep(k)
      BY <1>1, <2>3, <3>1, FailStops, MoveOnly, InboxOnly, LocalOnly DEF Stops, Recalling
    <3>2. CASE Narrows(k)
      BY <1>1, <2>3, <3>2 DEF Narrows, Target
    <3>3. CASE Begun(k)
      <4>1. k[2][2] = i
        BY <1>1, <2>3, <3>3 DEF Begun, Reads
      <4> QED BY <3>3, <4>1, BegunMapped
    <3> QED BY <1>1, <1>6, <2>3, <3>1, <3>2, <3>3, HookNarrows, SnapNarrows, PartNarrows
  <2> QED BY <2>2, <2>3
<1> QED BY <1>3, <1>4, <1>5, <1>6, NextKinds

LEMMA TargetBound == ASSUME Base, NEW i, Target(i) PROVE i \in 1..Len(cw)
<1>1. PICK k \in DOMAIN task : k \in AnyHook /\ task[k].pc \in Recalling /\ task[k].c = i
  BY DEF Target
<1>2. k \notin LocalKeys /\ Fits(k, task[k])
  BY <1>1, KeyKinds, TidyTask DEF Base
<1>3. Deletion(k, i)
  BY <1>1, <1>2 DEF Fits, Recalling
<1> QED BY <1>3, DeletionKnown

LEMMA ByKept == ASSUME Base, [Next]_vars PROVE \A i \in 1..Len(cw) : cw'[i].by = cw[i].by
<1>1. CASE CwKept
  BY <1>1 DEF CwKept
<1>2. CASE \E k \in DOMAIN task : PostMessage(k)
  <2>1. PICK m : cw' = Append(cw, m)
    BY <1>2 DEF PostMessage
  <2>2. cw \in Seq(Messages)
    BY CwLen DEF Base
  <2> QED BY <2>1, <2>2
<1> QED BY <1>1, <1>2, NextCw

LEMMA ClaimsNext ==
    ASSUME Base, Copying, Done, MapsBound, Sendings, Claims, [Next]_vars PROVE Claims'
<1>1. SUFFICES ASSUME NEW i \in 1..Len(cw'), cw'[i].by = "agent", MapsOf(i)' # {} \/ Target(i)' PROVE Conseq(i)'
  BY DEF Claims
<1>2. CASE MapsOf(i) # {} \/ Target(i)
  <2>1. i \in 1..Len(cw)
    BY <1>2, TargetBound DEF MapsOf, MapsBound
  <2>2. cw[i].by = "agent"
    BY <1>1, <2>1, ByKept
  <2>3. Conseq(i)
    BY <1>2, <2>1, <2>2 DEF Claims
  <2> QED BY <2>3, ConseqNext
<1>3. CASE ~(MapsOf(i) # {} \/ Target(i))
  <2>1. MapsOf(i)' # {}
    BY <1>1, <1>3, TargetNext
  <2>2. PICK pk \in DOMAIN map' : map'[pk].c = i
    BY <2>1 DEF MapsOf
  <2>3. ~(pk \in DOMAIN map /\ map'[pk].c = map[pk].c)
    BY <1>3, <2>2 DEF MapsOf
  <2>4. PICK k \in DOMAIN task : FromTask(k, pk)
    BY <2>2, <2>3, NextOrigins DEF Origins
  <2>5. task[k].c = i
    BY <2>2, <2>4 DEF FromTask
  <2>6. CASE RecordMirror(k)
    <3>1. i \in 1..Len(cw) /\ cw[i].by = "mirror"
      BY <2>5, <2>6 DEF RecordMirror, Copying, Copies, Live, Mirror
    <3>2. cw'[i].by = "mirror"
      BY <3>1, ByKept
    <3> QED BY <1>1, <3>2
  <2>7. CASE k \in AnyHook /\ task[k].pc \in Recalling
    BY <1>3, <2>5, <2>7 DEF Target
  <2>8. CASE Creation(k, task[k].c) /\ task[k].pc = "map"
    <3>1. AtMap(i)
      BY <2>5, <2>8 DEF AtMap
    <3> QED BY <3>1, ConseqNext DEF Conseq
  <2> QED BY <2>4, <2>6, <2>7, <2>8 DEF FromTask, Source
<1> QED BY <1>2, <1>3

LEMMA ClaimsInit == ASSUME Init PROVE Claims
<1>1. DOMAIN task = {} /\ DOMAIN map = {}
  BY DEF Init, Nothing
<1> QED BY <1>1 DEF Claims, MapsOf, Target

TakeOverInv == CopyInv /\ Aimed /\ Done /\ MapsBound /\ Sendings /\ Claims

LEMMA TakeOverFollows == ASSUME TakeOverInv PROVE AgentTakesOver
<1>1. SUFFICES ASSUME NEW i \in 1..Len(cw), cw[i].by = "agent", HookIs(<<"created", i>>, "success"),
                      MapsOf(i) # {}, \A pk \in MapsOf(i) : row[pk].st = "sent",
                      ~Disturbed(<<"c", i, "text">>),
                      \A v \in Convs : ~HookIs(<<"resolved", v>>, "success")
               PROVE  takeover
  BY DEF AgentTakesOver
<1>2. Conseq(i)
  BY <1>1 DEF TakeOverInv, Claims
<1>3. ~Doubted(i)
  BY <1>1 DEF Disturbed, Doubted
<1>4. ~Blame(i)
  <2>1. SUFFICES ASSUME NEW pk \in DOMAIN map, pk[1] = "c", pk[2] = i, FailedRow(pk) PROVE FALSE
    BY DEF Blame
  <2>2. ~Disturbed(pk)
    BY <1>3, <2>1 DEF Disturbed, Doubted
  <2>3. map[pk].c = i
    BY <2>1, <2>2 DEF TakeOverInv, Aimed, Homes
  <2>4. pk \in MapsOf(i)
    BY <2>3 DEF MapsOf
  <2> QED BY <1>1, <2>1, <2>4 DEF FailedRow
<1>5. ~AtMap(i)
  <2>1. Over(<<"hook", <<"created", i>>>>)
    BY <1>1 DEF TakeOverInv, Done, HookIs
  <2> QED BY <2>1 DEF AtMap, Creation, Over
<1> QED BY <1>1, <1>2, <1>3, <1>4, <1>5 DEF Conseq, Left

(* When an agent's message has reached the buyer and its webhook is done   *)
(* without a fault, the conversation belongs to a person until an agent    *)
(* resolves it: what is mapped for the message was sent by the task of its *)
(* webhook, which takes over after the last piece unless one failed, and   *)
(* only a resolution gives the conversation back.                          *)
THEOREM AgentsTakeOver == Spec => []AgentTakesOver
<1>1. Init => TakeOverInv
  BY BaseInit, CopyingInit, ForwardsInit, AimedInit, SendingsInit, ClaimsInit DEF TakeOverInv, CopyInv
<1>2. TakeOverInv /\ [Next]_vars => TakeOverInv'
  BY BaseNext, CopyingNext, ForwardsNext, PlatsNext, AimedNext, DoneNext, BoundNext, SendingsNext, ClaimsNext
     DEF TakeOverInv, CopyInv
<1>3. TakeOverInv => AgentTakesOver
  BY TakeOverFollows
<1> QED BY <1>1, <1>2, <1>3, PTL DEF Spec

=============================================================================
