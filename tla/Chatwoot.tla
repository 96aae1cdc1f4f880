------------------------------ MODULE Chatwoot ------------------------------
(***************************************************************************)
(* One Xianyu conversation and its mirror in Chatwoot: the tasks that copy *)
(* local messages and recalls there, the webhooks that bring an agent's    *)
(* messages, deletions and resolutions back, the tasks that keep the inbox *)
(* and the conversation of the account, and the alerts about its state.    *)
(*                                                                         *)
(* The worker runs the tasks of the account one at a time (the account     *)
(* lane); a webhook whose conversation is not mapped when it is accepted   *)
(* has no account and runs beside them.  A task that fails is created      *)
(* again at most Retries times; a task whose worker dies is not.           *)
(***************************************************************************)
EXTENDS Naturals, Sequences, FiniteSets

CONSTANTS
    Scenarios, \* what happens in a run, and how often
    Locals,    \* messages this system sends or receives itself
    States,    \* states of the account that are announced, "online" among them
    Retries,   \* retries of a failed task (3 in _execute_claimed_task)
    MaxCw,     \* bound: public messages in Chatwoot
    MaxMoves,  \* bound of moves: changes of the account and of the switches, backfills
    MaxFaults  \* bound of faults: lost answers, refusals, timeouts and crashes

Ops   == {"in", "out", "agent", "delete", "recall", "resolve", "switch", "meta", "alert"}
Types == {"text", "both", "audio"}
ASSUME ScenariosAssumption ==
    Scenarios \subseteq [ops : SUBSET Ops, types : SUBSET Types,
                         start : {"fresh", "mapped", "legacy"},
                         moves : 0..MaxMoves, faults : 0..MaxFaults]
ASSUME BoundAssumption ==
    /\ {MaxCw, Retries} \subseteq Nat \ {0} /\ {MaxMoves, MaxFaults} \subseteq Nat
    /\ Locals \subseteq Nat /\ "online" \in States

Ids    == 1..MaxCw
Convs  == 1..3
Pks    == ({"l"} \X Locals \X {"text"}) \cup ({"c"} \X Ids \X {"text", "image"})
Events == ({"created", "deleted", "again"} \X Ids) \cup ({"resolved"} \X Convs)
Revs   == {"received", "sending", "sent", "failed", "recalled"}
HookKeys  == {"hook"} \X Events
LocalKeys == {"local"} \X Pks \X Revs
MoveKeys  == {"meta", "status", "alert"} \X (1..MaxMoves) \X States
Keys      == HookKeys \cup LocalKeys \cup MoveKeys

VARIABLES
    scen,     \* the scenario
    cw,       \* Chatwoot's public messages: Seq of [by, pk, out, type, conv, deleted]
    snaps,    \* [Ids -> private snapshots made of this deleted message]
    sent,     \* webhooks Chatwoot has sent, and sends again
    inboxes,  \* inboxes of the account in Chatwoot
    rconv,    \* Seq: the inbox of each conversation in Chatwoot, 0: another one
    shown,    \* Seq: the alerts in the account's status conversation
    places,   \* status conversations made for the account
    hook,     \* the webhooks recorded: a function from events to their status
    task,     \* the tasks created, by key
    row,      \* the local messages by pk: [dir, st, recalled]
    map,      \* the rows of the message map by pk: [c, st]
    noted,    \* messages mapped without a local message
    bind,     \* the inbox the account is bound to, 0: none
    cmap,     \* the conversation in Chatwoot it is mapped to, 0: none
    last,     \* last_alert_state of the binding
    place,    \* its alert_conversation_id, 0: none
    on,       \* "on", the account's switch is off ("account"), the platform's ("off")
    takeover, \* a person has taken the conversation over
    acct,     \* state of the account
    moves,    \* changes made so far
    lost,     \* history: messages and alerts whose answer did not arrive
    hit,      \* history: tasks that died, webhooks a request failed for
    aside,    \* history: webhooks whose task has no account
    faults

remote  == <<cw, snaps, sent, inboxes, rconv, shown, places>>
mapping == <<map, noted, bind, cmap, last, place>>
control == <<on, takeover, acct, moves>>
history == <<lost, hit, aside>>
vars    == <<scen, remote, hook, task, row, mapping, control, history, faults>>

None == "none"
Cw(by, pk, out, type, conv) ==
    [by |-> by, pk |-> pk, out |-> out, type |-> type, conv |-> conv, deleted |-> FALSE]
Row(dir, st) == [dir |-> dir, st |-> st, recalled |-> FALSE, plat |-> 0, recalls |-> 0]
Map(c, st)   == [c |-> c, st |-> st]
Task(st, n, sys, pc) ==
    [st |-> st, n |-> n, sys |-> sys, pc |-> pc, c |-> 0, todo |-> {}, yes |-> {}, no |-> {}]
Nothing == [x \in {} |-> x]
\* f with the value v at x, which may be new.
With(f, x, v) == [y \in DOMAIN f \cup {x} |-> IF y = x THEN v ELSE f[y]]

Init ==
    /\ scen \in Scenarios
    /\ cw = <<>> /\ snaps = [i \in Ids |-> 0] /\ sent = {} /\ shown = <<>>
    /\ inboxes = IF scen.start = "mapped" THEN 1 ELSE 0
    /\ rconv = CASE scen.start = "mapped" -> <<1>>
                 [] scen.start = "legacy" -> <<0>>
                 [] OTHER -> <<>>
    /\ bind = inboxes /\ cmap = Len(rconv) /\ last = None /\ place = 0 /\ places = 0
    /\ hook = Nothing /\ task = Nothing /\ row = Nothing /\ map = Nothing /\ noted = {}
    /\ on = "on" /\ takeover = FALSE /\ acct = "online" /\ moves = 0
    /\ lost = {} /\ hit = {} /\ aside = {} /\ faults = 0

On(op) == op \in scen.ops
Fault  == faults < scen.faults /\ faults' = faults + 1
Move   == moves < scen.moves /\ moves' = moves + 1

-----------------------------------------------------------------------------
(* The queue, as the tasks of this module use it.                          *)

Running(k) == task[k].pc # "idle"
\* One consumer per account; tasks without an account have one each.
LaneFree(k) == task[k].sys \/ \A j \in DOMAIN task : Running(j) => task[j].sys
Ready(k) == task[k].st = "pending" /\ ~Running(k) /\ LaneFree(k)

\* The task functions with one task changed.
Created(t, k, sys) ==
    IF k \in DOMAIN t THEN t ELSE With(t, k, Task("pending", 0, sys, "idle"))
At(k, pc)  == [task EXCEPT ![k].st = "running", ![k].pc = pc]
Ended(k)   == [task EXCEPT ![k] = Task("success", 0, FALSE, "idle")]
\* Mutant: nothing is tried again.
MutFailedOnce(k) == [task EXCEPT ![k] = Task("failed", 0, FALSE, "idle")]
\* finish(status="failed"); a retry follows while there are some left.
Failed(k)  == [task EXCEPT ![k] = IF @.n < Retries THEN Task("failed", @.n, @.sys, "retry")
                                  ELSE Task("failed", 0, FALSE, "idle")]

\* The second transaction of a failure: the task is created again.
CreateRetry(k) ==
    /\ task[k].pc = "retry"
    /\ task' = [task EXCEPT ![k] = Task("pending", @.n + 1, @.sys, "idle")]
    /\ UNCHANGED <<scen, remote, hook, row, mapping, control, history, faults>>

\* The worker process dies: what it ran is failed when the lease has expired
\* and is not run again.
WorkerCrashes ==
    /\ LET ran == {k \in DOMAIN task : Running(k)} IN
       /\ ran # {} /\ Fault
       /\ task' = [k \in DOMAIN task |-> IF k \in ran THEN Task("failed", 0, FALSE, "idle") ELSE task[k]]
       /\ lost' = lost \cup {<<k[1], task[k].c>> : k \in {j \in ran : task[j].pc \in {"map", "told"}}}
       /\ hit' = hit \cup ran
    /\ UNCHANGED <<scen, remote, hook, row, mapping, control, aside>>

\* enqueue_local_message_sync: nothing while the account is switched off.
Enqueue(t, pk, rev) == IF on = "on" THEN Created(t, <<"local", pk, rev>>, FALSE) ELSE t
Revision(r) == IF r.recalled THEN "recalled" ELSE r.st
\* A local message is written and announced.
Write(t, pk, r) ==
    /\ row' = With(row, pk, r)
    /\ task' = Enqueue(t, pk, Revision(r))

-----------------------------------------------------------------------------
(* What happens outside the worker.                                        *)

Quiet == <<scen, remote, hook, mapping, history>>

\* A message from the buyer, and one an operator begins to send here.
Received(j) ==
    /\ On("in") /\ <<"l", j, "text">> \notin DOMAIN row
    /\ Write(task, <<"l", j, "text">>, Row("in", "received"))
    /\ UNCHANGED <<Quiet, control, faults>>
Begins(j) ==
    /\ On("out") /\ <<"l", j, "text">> \notin DOMAIN row
    /\ Write(task, <<"l", j, "text">>, Row("out", "sending"))
    /\ UNCHANGED <<Quiet, control, faults>>
\* The rest of send_text and send_image, for an operator and for the worker.
Completes(pk) ==
    /\ row[pk].st = "sending"
    /\ Write(task, pk, [row[pk] EXCEPT !.st = "sent", !.plat = @ + 1])
    /\ UNCHANGED <<Quiet, control, faults>>
Refused(pk) ==
    /\ row[pk].st = "sending" /\ Fault
    /\ Write(task, pk, [row[pk] EXCEPT !.st = "failed"])
    /\ UNCHANGED <<Quiet, control>>
\* Recalled by the buyer or by an operator.
Recalled(pk) ==
    /\ On("recall") /\ row[pk].st \in {"received", "sent"} /\ ~row[pk].recalled
    /\ Write(task, pk, [row[pk] EXCEPT !.recalled = TRUE])
    /\ UNCHANGED <<Quiet, control, faults>>

\* What agents do; Chatwoot sends a webhook for each.
AgentWrites(type) ==
    /\ On("agent") /\ type \in scen.types /\ Len(cw) < MaxCw /\ rconv # <<>>
    /\ \A i \in 1..Len(cw) : cw[i].by # "agent"
    /\ \E v \in 1..Len(rconv) : cw' = Append(cw, Cw("agent", <<>>, TRUE, type, v))
    /\ sent' = sent \cup {<<"created", Len(cw) + 1>>}
    /\ UNCHANGED <<scen, snaps, inboxes, rconv, shown, places, hook, task, row, mapping, control, history, faults>>
AgentDeletes(i) ==
    /\ On("delete") /\ i \in 1..Len(cw) /\ \A j \in 1..Len(cw) : ~cw[j].deleted
    /\ cw' = [cw EXCEPT ![i].deleted = TRUE]
    /\ sent' = sent \cup {<<"deleted", i>>, <<"again", i>>}
    /\ UNCHANGED <<scen, snaps, inboxes, rconv, shown, places, hook, task, row, mapping, control, history, faults>>
AgentResolves(v) ==
    /\ On("resolve") /\ v \in 1..Len(rconv) /\ sent' = sent \cup {<<"resolved", v>>}
    /\ UNCHANGED <<scen, cw, snaps, inboxes, rconv, shown, places, hook, task, row, mapping, control, history, faults>>

\* The switches of the platform and of the account.
Switch ==
    /\ On("switch") /\ Move /\ on' \in {"on", "account", "off"} \ {on}
    /\ UNCHANGED <<Quiet, task, row, takeover, acct, faults>>
\* enqueue_account_metadata_sync, from the reconciliation loop and the API.
Backfill ==
    /\ On("meta") /\ Move /\ on # "off" /\ (on = "on" \/ cmap # 0)
    /\ task' = Created(task, <<"meta", moves + 1, "online">>, FALSE)
    /\ UNCHANGED <<Quiet, row, on, takeover, acct, faults>>
\* The runtime shows a new state: a status task and an alert, each once per
\* state and bucket of 30 seconds; the new state may fall into the last bucket.
StateChanges(s, b) ==
    /\ On("alert") /\ Move /\ acct # s /\ acct' = s /\ b \in {moves, moves + 1} \ {0}
    /\ task' = IF on = "on"
               THEN Created(Created(task, <<"status", b, s>>, FALSE), <<"alert", b, s>>, FALSE)
               ELSE task
    /\ UNCHANGED <<Quiet, row, on, takeover, faults>>

\* accept_chatwoot_webhook: the row first, then the task, whose account is
\* that of the mapped conversation.
ConvOf(d) == IF d[1] = "resolved" THEN d[2] ELSE cw[d[2]].conv
RecordWebhook(d) ==
    /\ d \in sent \ DOMAIN hook
    /\ hook' = With(hook, d, IF on = "off" THEN "ignored" ELSE "accepting")
    /\ UNCHANGED <<scen, remote, task, row, mapping, control, history, faults>>
CreateHookTask(d) ==
    /\ hook[d] = "accepting" /\ hook' = [hook EXCEPT ![d] = "pending"]
    /\ task' = Created(task, <<"hook", d>>, ConvOf(d) # cmap)
    /\ aside' = IF ConvOf(d) # cmap THEN aside \cup {<<"hook", d>>} ELSE aside
    /\ UNCHANGED <<scen, remote, row, mapping, control, lost, hit, faults>>
\* The task could not be created: Chatwoot's next attempt is a duplicate.
AcceptFails(d) ==
    /\ hook[d] = "accepting" /\ Fault /\ hook' = [hook EXCEPT ![d] = "pending"]
    /\ hit' = hit \cup {<<"hook", d>>}
    /\ UNCHANGED <<scen, remote, task, row, mapping, control, lost, aside>>

-----------------------------------------------------------------------------
(* The inbox and the conversation of the account.                          *)

\* A failure: the row of a webhook is marked first.
Fails(k) ==
    /\ task' = Failed(k)
    /\ hook' = IF k \in HookKeys THEN [hook EXCEPT ![k[2]] = "failed"] ELSE hook
\* A request that changes nothing fails: a read, an update of a name or of a
\* label, a download of an image, a refused command.
RequestFails(k) ==
    /\ task[k].pc \in {"inbox", "conv", "post", "send", "look", "snap", "place", "alert"} /\ Fault
    /\ Fails(k) /\ hit' = IF k \in HookKeys THEN hit \cup {k} ELSE hit
    /\ UNCHANGED <<scen, remote, row, mapping, control, lost, aside>>

Goes(k, pc) ==
    /\ task' = At(k, pc)
    /\ UNCHANGED <<scen, remote, hook, row, control, history, faults>>
\* _ensure_managed_account_inbox looks for the account's inbox before it
\* makes one.
FindInbox(k) ==
    /\ task[k].pc = "inbox" /\ UNCHANGED <<map, noted, cmap, last, place>>
    /\ IF inboxes > 0 THEN bind' = 1 /\ Goes(k, "conv")
       ELSE UNCHANGED bind /\ Goes(k, "newinbox")
NewInbox(k) ==
    /\ task[k].pc = "newinbox" /\ inboxes' = inboxes + 1
    /\ \/ bind' = inboxes' /\ task' = At(k, "conv") /\ UNCHANGED <<hook, faults>>
       \/ Fault /\ Fails(k) /\ UNCHANGED bind
    /\ UNCHANGED <<scen, cw, snaps, sent, rconv, shown, places, row, map, noted, cmap, last, place, control, history>>

\* Where a task goes when the inbox and the conversation are there.
After(k) == CASE k \in LocalKeys -> "post" [] k[1] = "alert" -> "place" [] OTHER -> "end"
Managed == cmap # 0 /\ rconv[cmap] = bind
\* A message needs its conversation; the tasks of the account move one that is
\* mapped to another inbox, a metadata task if the account was on (c) when it began.
NeedsConv(k) ==
    \/ k \in LocalKeys
    \/ k[1] = "status" /\ cmap # 0
    \/ k[1] = "meta" /\ cmap # 0 /\ task[k].c = 1
\* _ensure_remote_conversation: the mapped conversation, else the one Chatwoot
\* lists for it in the inbox, else a new one.
FindConv(k) ==
    /\ task[k].pc = "conv" /\ UNCHANGED mapping
    /\ IF Managed \/ ~NeedsConv(k) THEN Goes(k, After(k))
       ELSE \/ \E v \in 1..Len(rconv) :
                 /\ rconv[v] = bind
                 /\ task' = [task EXCEPT ![k].pc = "mapconv", ![k].c = v]
                 /\ UNCHANGED <<scen, remote, hook, row, control, history, faults>>
            \/ (\A v \in 1..Len(rconv) : rconv[v] # bind) /\ Goes(k, "newconv")
NewConv(k) ==
    /\ task[k].pc = "newconv" /\ rconv' = Append(rconv, bind)
    /\ \/ /\ task' = [task EXCEPT ![k].pc = "mapconv", ![k].c = Len(rconv')]
          /\ UNCHANGED <<hook, faults>>
       \/ Fault /\ Fails(k)
    /\ UNCHANGED <<scen, cw, snaps, sent, inboxes, shown, places, row, mapping, control, history>>
\* create_conversation_map; c becomes the conversation mapped before.
MapConv(k) ==
    /\ task[k].pc = "mapconv" /\ cmap' = task[k].c
    /\ task' = [task EXCEPT ![k].pc = "moved", ![k].c = cmap]
    /\ UNCHANGED <<scen, remote, hook, row, map, noted, bind, last, place, control, history, faults>>
\* A conversation that moved is resolved in its old inbox; when Chatwoot does
\* not let us, the task goes on.
ResolveOld(k) ==
    /\ task[k].pc = "moved" /\ task' = At(k, After(k))
    /\ \/ sent' = sent \cup {<<"resolved", v>> : v \in {task[k].c} \ {0, cmap}} /\ UNCHANGED faults
       \/ task[k].c # 0 /\ Fault /\ UNCHANGED sent
    /\ UNCHANGED <<scen, cw, snaps, inboxes, rconv, shown, places, hook, row, mapping, control, history>>
\* The end of the tasks that only keep the inbox and the conversation.
EndMeta(k) ==
    /\ task[k].pc = "end" /\ task' = Ended(k)
    /\ UNCHANGED <<scen, remote, hook, row, mapping, control, history, faults>>

-----------------------------------------------------------------------------
(* execute_account_metadata_task, execute_account_status_task and          *)
(* execute_account_alert_task.                                             *)

TakeMeta(k) ==
    /\ k[1] = "meta" /\ Ready(k)
    /\ task' = [task EXCEPT ![k].st = "running", ![k].c = IF on = "on" THEN 1 ELSE 0,
                   ![k].pc = IF on = "on" \/ (on = "account" /\ bind # 0) THEN "inbox" ELSE "end"]
    /\ UNCHANGED <<scen, remote, hook, row, mapping, control, history, faults>>
TakeStatus(k) ==
    /\ k[1] = "status" /\ Ready(k) /\ UNCHANGED mapping
    /\ Goes(k, IF on = "on" THEN "inbox" ELSE "end")

\* An alert is due while the state lasts, a recovery only after an alert.
AlertDue(s) == acct = s /\ IF s = "online" THEN last \notin {None, "online"} ELSE last # s
TakeAlert(k) ==
    /\ k[1] = "alert" /\ Ready(k) /\ UNCHANGED mapping
    /\ Goes(k, IF on = "on" /\ AlertDue(k[3]) THEN "inbox" ELSE "end")
\* _ensure_account_alert_conversation: the one of the binding, else a new one.
FindPlace(k) ==
    /\ task[k].pc = "place" /\ UNCHANGED mapping
    /\ Goes(k, IF place # 0 THEN "alert" ELSE "newplace")
NewPlace(k) ==
    /\ task[k].pc = "newplace" /\ places' = places + 1
    /\ \/ task' = At(k, "setplace") /\ UNCHANGED <<hook, faults>>
       \/ Fault /\ Fails(k)
    /\ UNCHANGED <<scen, cw, snaps, sent, inboxes, rconv, shown, row, mapping, control, history>>
\* update_account_alert_channel.
RecordPlace(k) ==
    /\ task[k].pc = "setplace" /\ place' = places /\ task' = At(k, "alert")
    /\ UNCHANGED <<scen, remote, hook, row, map, noted, bind, cmap, last, control, history, faults>>
PostAlert(k) ==
    /\ task[k].pc = "alert" /\ shown' = Append(shown, k[3])
    /\ \/ /\ task' = [task EXCEPT ![k].pc = "told", ![k].c = Len(shown')]
          /\ UNCHANGED <<hook, lost, faults>>
       \/ Fault /\ Fails(k) /\ lost' = lost \cup {<<"alert", Len(shown')>>}
    /\ UNCHANGED <<scen, cw, snaps, sent, inboxes, rconv, places, row, mapping, control, hit, aside>>
RecordAlert(k) ==
    /\ task[k].pc = "told" /\ last' = k[3] /\ task' = Ended(k)
    /\ UNCHANGED <<scen, remote, hook, row, map, noted, bind, cmap, place, control, history, faults>>

-----------------------------------------------------------------------------
(* execute_local_message_task.                                             *)

MapOf(pk) == IF pk \in DOMAIN map THEN map[pk] ELSE Map(0, None)
\* What there is to do for a message, "end": nothing.
LocalGoes(pk) ==
    CASE on # "on" -> "end"
      [] row[pk].recalled -> IF MapOf(pk).c = 0 \/ MapOf(pk).st = "recalled" THEN "end" ELSE "look"
      [] pk \in DOMAIN map -> "end"
      [] row[pk].dir = "out" /\ row[pk].st # "sent" -> "end"
      [] OTHER -> "inbox"
TakeLocal(k) ==
    /\ k \in LocalKeys /\ Ready(k)
    /\ LET pc == LocalGoes(k[2]) IN
       task' = IF pc = "end" THEN Ended(k)
               ELSE [task EXCEPT ![k].st = "running", ![k].pc = pc, ![k].c = MapOf(k[2]).c]
    /\ UNCHANGED <<scen, remote, hook, row, mapping, control, history, faults>>
\* The message is posted; Chatwoot sends a webhook for it as for an agent's.
PostMessage(k) ==
    /\ task[k].pc = "post" /\ Len(cw) < MaxCw
    /\ cw' = Append(cw, Cw("mirror", k[2], row[k[2]].dir = "out", "text", cmap))
    /\ sent' = sent \cup {<<"created", Len(cw')>>}
    /\ \/ /\ task' = [task EXCEPT ![k].pc = "map", ![k].c = Len(cw')]
          /\ UNCHANGED <<hook, lost, faults>>
       \/ Fault /\ Fails(k) /\ lost' = lost \cup {<<"local", Len(cw')>>}
    /\ UNCHANGED <<scen, snaps, inboxes, rconv, shown, places, row, mapping, control, hit, aside>>
\* record_message_map.
RecordMirror(k) ==
    /\ task[k].pc = "map" /\ k \in LocalKeys
    /\ map' = With(map, k[2], Map(task[k].c, "synced"))
    /\ task' = Ended(k)
    /\ UNCHANGED <<scen, remote, hook, row, noted, bind, cmap, last, place, control, history, faults>>

\* _chatwoot_recall_snapshot_exists, for a recall here and for a deletion there.
\* Mutant: the messages of the conversation are not read.
MutLookForSnapshot(k) ==
    /\ task[k].pc = "look" /\ UNCHANGED mapping /\ Goes(k, "snap")
LookForSnapshot(k) ==
    /\ task[k].pc = "look" /\ UNCHANGED mapping
    /\ Goes(k, IF snaps[task[k].c] > 0 THEN "final" ELSE "snap")
CreateSnapshot(k) ==
    /\ task[k].pc = "snap" /\ snaps' = [snaps EXCEPT ![task[k].c] = @ + 1]
    /\ \/ task' = At(k, "final") /\ UNCHANGED <<hook, faults>>
       \/ Fault /\ Fails(k)
    /\ UNCHANGED <<scen, cw, sent, inboxes, rconv, shown, places, row, mapping, control, history>>
RecordRecalled(k) ==
    /\ task[k].pc = "final" /\ k \in LocalKeys
    /\ map' = [map EXCEPT ![k[2]].st = "recalled"] /\ task' = Ended(k)
    /\ UNCHANGED <<scen, remote, hook, row, noted, bind, cmap, last, place, control, history, faults>>

-----------------------------------------------------------------------------
(* execute_webhook_task.                                                   *)

Takes(k, ev) == k \in HookKeys /\ Ready(k) /\ k[2][1] \in ev
HookEnds(k, st) == task' = Ended(k) /\ hook' = [hook EXCEPT ![k[2]] = st]
\* The rows of the map for a message of Chatwoot.
MapsOf(i) == {pk \in DOMAIN map : map[pk].c = i}

TakeIgnored(k) ==
    /\ k \in HookKeys /\ Ready(k) /\ on = "off" /\ HookEnds(k, "ignored")
    /\ UNCHANGED <<scen, remote, row, mapping, control, history, faults>>
\* _handle_conversation_status: a resolved conversation is released.
TakeResolved(k) ==
    /\ Takes(k, {"resolved"}) /\ on # "off" /\ HookEnds(k, "success")
    /\ takeover' = (takeover /\ ~(cmap = k[2][2] /\ on = "on"))
    /\ UNCHANGED <<scen, remote, row, mapping, on, acct, moves, history, faults>>

\* message_created: what is not an agent's public message, or is mapped, is
\* skipped; an unmapped conversation is an error.
\* Mutant: the map is not consulted.
MutSkipped(i) == ~cw[i].out
Skipped(i) == ~cw[i].out \/ MapsOf(i) # {} \/ i \in noted
TakeCreated(k) ==
    /\ Takes(k, {"created"}) /\ on # "off"
    /\ LET i == k[2][2] IN
       \/ Skipped(i) /\ HookEnds(k, "success") /\ UNCHANGED noted
       \/ ~Skipped(i) /\ cmap # cw[i].conv /\ Fails(k) /\ UNCHANGED noted
       \/ /\ ~Skipped(i) /\ cmap = cw[i].conv /\ on # "on"
          /\ HookEnds(k, "ignored") /\ UNCHANGED noted
       \/ /\ ~Skipped(i) /\ cmap = cw[i].conv /\ on = "on" /\ cw[i].type = "audio"
          /\ noted' = noted \cup {i} /\ HookEnds(k, "ignored")
       \/ /\ ~Skipped(i) /\ cmap = cw[i].conv /\ on = "on" /\ cw[i].type # "audio"
          /\ task' = [task EXCEPT ![k].st = "running", ![k].pc = "send", ![k].c = i,
                                  ![k].todo = {"c"} \X {i} \X
                                      (IF cw[i].type = "both" THEN {"text", "image"} ELSE {"text"})]
          /\ UNCHANGED <<hook, noted>>
    /\ UNCHANGED <<scen, remote, row, map, bind, cmap, last, place, control, history, faults>>

\* The text goes before the image.
Piece(k) == CHOOSE pk \in task[k].todo : pk[3] = "text" \/ \A q \in task[k].todo : q[3] # "text"
\* The task with the result of a piece.
GotPiece(k, ok) ==
    LET pk == Piece(k)
        t  == [task[k] EXCEPT !.pc = "send", !.todo = @ \ {pk},
                              !.yes = IF ok THEN @ \cup {pk} ELSE @,
                              !.no  = IF ok THEN @ ELSE @ \cup {pk}]
    IN [task EXCEPT ![k] = IF t.todo = {} THEN [t EXCEPT !.pc = "map", !.todo = t.yes \cup t.no] ELSE t]
\* The command to the runtime carries the id of the message and of the piece
\* as client_request_id: one that has a row is answered from it.
SendPiece(k) ==
    /\ task[k].pc = "send"
    /\ LET pk == Piece(k) IN
       IF pk \notin DOMAIN row
       THEN Write([task EXCEPT ![k].pc = "wait"], pk, Row("out", "sending"))
       ELSE task' = GotPiece(k, row[pk].st = "sent") /\ UNCHANGED row
    /\ UNCHANGED <<Quiet, control, faults>>
PieceAnswered(k) ==
    /\ task[k].pc = "wait" /\ row[Piece(k)].st \in {"sent", "failed"}
    /\ task' = GotPiece(k, row[Piece(k)].st = "sent")
    /\ UNCHANGED <<Quiet, row, control, faults>>
\* The call ends after 30 or 45 seconds; the runtime goes on.
PieceTimesOut(k) ==
    /\ task[k].pc = "wait" /\ Fault /\ Fails(k) /\ hit' = hit \cup {k}
    /\ UNCHANGED <<scen, remote, row, mapping, control, lost, aside>>
\* Every piece is mapped, the failed ones too; then one that failed fails the
\* task, else the conversation is taken over for good.
RecordPiece(k, pk) ==
    /\ task[k].pc = "map" /\ k \in HookKeys /\ pk \in task[k].todo
    /\ map' = With(map, pk, Map(task[k].c, IF pk \in task[k].yes THEN "synced" ELSE "failed"))
    /\ IF task[k].todo # {pk}
       THEN task' = [task EXCEPT ![k].todo = @ \ {pk}] /\ UNCHANGED hook
       ELSE IF task[k].no # {} THEN Fails(k) ELSE task' = At(k, "takeover") /\ UNCHANGED hook
    /\ UNCHANGED <<scen, remote, row, noted, bind, cmap, last, place, control, history, faults>>
\* Mutant: the conversation is left to the automatic replies.
MutTakeOver(k) ==
    /\ task[k].pc = "takeover" /\ HookEnds(k, "success")
    /\ UNCHANGED <<scen, remote, row, mapping, control, history, faults>>
TakeOver(k) ==
    /\ task[k].pc = "takeover" /\ takeover' = TRUE /\ HookEnds(k, "success")
    /\ UNCHANGED <<scen, remote, row, mapping, on, acct, moves, history, faults>>

\* message_updated with a deletion: the rows and their states are read once.
TakeDeleted(k) ==
    /\ Takes(k, {"deleted", "again"}) /\ on # "off"
    /\ LET i == k[2][2] IN
       IF cw[i].out /\ MapsOf(i) # {}
       THEN /\ task' = [task EXCEPT ![k].st = "running", ![k].pc = "recall", ![k].c = i,
                                    ![k].todo = {<<pk, map[pk].st>> : pk \in MapsOf(i)}]
            /\ UNCHANGED <<hook, map>>
       ELSE /\ map' = [pk \in DOMAIN map |-> IF pk \in MapsOf(i) /\ on = "on"
                                      THEN Map(i, "remote_deleted") ELSE map[pk]]
            /\ HookEnds(k, "success")
    /\ UNCHANGED <<scen, remote, row, noted, bind, cmap, last, place, control, history, faults>>

\* The task with the result for a row, which is recorded next.
GotRecall(k, item, ok) ==
    [task EXCEPT ![k].todo = (@ \ {item}) \cup {<<item[1], "note">>},
                 ![k].yes = IF ok THEN @ \cup {item[1]} ELSE @,
                 ![k].no  = IF ok THEN @ ELSE @ \cup {item[1]}]
Picks(k, item) ==
    /\ task[k].pc = "recall" /\ item \in task[k].todo
    /\ item[2] = "note" \/ \A other \in task[k].todo : other[2] # "note"
\* A row that was handled before is not recalled again.
RecallHandled(k, item) ==
    /\ Picks(k, item)
    /\ \/ /\ item[2] \in {"recalled", "recall_failed"}
          /\ task' = [task EXCEPT ![k].todo = @ \ {item}]
       \/ /\ item[2] = "recall_snapshot_pending"
          /\ task' = [task EXCEPT ![k].todo = @ \ {item}, ![k].yes = @ \cup {item[1]}]
       \/ /\ item[2] = "recall_failed_snapshot_pending"
          /\ task' = [task EXCEPT ![k].todo = @ \ {item}, ![k].no = @ \cup {item[1]}]
    /\ UNCHANGED <<Quiet, row, control, faults>>
\* Mutant: a row whose outcome is known is recalled again.
MutRecallOpen(k, item) == Picks(k, item) /\ item[2] # "note"
RecallOpen(k, item) == Picks(k, item) /\ item[2] \in {"synced", "failed", "remote_deleted"}
Recallable(k) == on = "on" /\ cmap = cw[task[k].c].conv
Command(t, item, recalled) ==
    Write(t, item[1], [row[item[1]] EXCEPT !.recalled = recalled, !.recalls = @ + 1])
\* The command succeeds: at once for a message that is recalled already.
RecallSucceeds(k, item) ==
    /\ RecallOpen(k, item) /\ Recallable(k)
    /\ row[item[1]].st = "sent" \/ row[item[1]].recalled
    /\ Command(GotRecall(k, item, TRUE), item, TRUE)
    /\ UNCHANGED <<Quiet, control, faults>>
\* Switched off, another conversation, or not sent: refused without a fault;
\* else the platform refuses, or recalls and the answer is lost.
RecallFails(k, item) ==
    /\ RecallOpen(k, item)
    /\ LET r == row[item[1]]
           refused == ~Recallable(k) \/ (r.st # "sent" /\ ~r.recalled)
       IN \/ /\ refused /\ task' = GotRecall(k, item, FALSE)
             /\ UNCHANGED <<row, faults>>
          \/ /\ ~refused /\ ~r.recalled /\ Fault
             /\ \E recalled \in BOOLEAN : Command(GotRecall(k, item, FALSE), item, recalled)
    /\ UNCHANGED <<Quiet, control>>
NoteRecall(k, item) ==
    /\ Picks(k, item) /\ item[2] = "note"
    /\ map' = [map EXCEPT ![item[1]] =
                 Map(task[k].c, IF item[1] \in task[k].yes THEN "recall_snapshot_pending"
                                ELSE "recall_failed_snapshot_pending")]
    /\ task' = [task EXCEPT ![k].todo = @ \ {item}]
    /\ UNCHANGED <<scen, remote, hook, row, noted, bind, cmap, last, place, control, history, faults>>
\* All rows are done: a snapshot is due unless each had its outcome before.
RecallsDone(k) ==
    /\ task[k].pc = "recall" /\ task[k].todo = {}
    /\ IF task[k].yes \cup task[k].no = {} THEN HookEnds(k, "success")
       ELSE task' = At(k, "look") /\ UNCHANGED hook
    /\ UNCHANGED <<scen, remote, row, mapping, control, history, faults>>
\* The snapshot is there: the outcome of each row is final.
FinishRecall(k, pk) ==
    /\ task[k].pc = "final" /\ k \in HookKeys /\ pk \in task[k].yes \cup task[k].no
    /\ map' = With(map, pk, Map(task[k].c, IF pk \in task[k].yes THEN "recalled" ELSE "recall_failed"))
    /\ IF task[k].yes \cup task[k].no = {pk} THEN HookEnds(k, "success")
       ELSE /\ task' = [task EXCEPT ![k].yes = @ \ {pk}, ![k].no = @ \ {pk}]
            /\ UNCHANGED hook
    /\ UNCHANGED <<scen, remote, row, noted, bind, cmap, last, place, control, history, faults>>

-----------------------------------------------------------------------------
World ==
    \/ \E j \in Locals : Received(j) \/ Begins(j)
    \/ \E pk \in DOMAIN row : Refused(pk) \/ Recalled(pk)
    \/ \E type \in Types : AgentWrites(type)
    \/ \E i \in Ids : AgentDeletes(i)
    \/ \E v \in Convs : AgentResolves(v)
    \/ Switch \/ Backfill
    \/ \E s \in States, b \in 0..MaxMoves : StateChanges(s, b)
Accepting == (\E d \in sent : RecordWebhook(d)) \/ (\E d \in DOMAIN hook : CreateHookTask(d))
Runtime == \E pk \in DOMAIN row : Completes(pk)
\* A step of a running task, or the start of a pending one.
Work(k) ==
    \/ CreateRetry(k)
    \/ TakeMeta(k) \/ TakeStatus(k) \/ TakeAlert(k) \/ TakeLocal(k)
    \/ TakeIgnored(k) \/ TakeResolved(k) \/ TakeCreated(k) \/ TakeDeleted(k)
    \/ FindInbox(k) \/ NewInbox(k) \/ FindConv(k) \/ NewConv(k) \/ MapConv(k)
    \/ ResolveOld(k) \/ EndMeta(k)
    \/ FindPlace(k) \/ NewPlace(k) \/ RecordPlace(k) \/ PostAlert(k) \/ RecordAlert(k)
    \/ PostMessage(k) \/ RecordMirror(k)
    \/ LookForSnapshot(k) \/ CreateSnapshot(k) \/ RecordRecalled(k)
    \/ SendPiece(k) \/ PieceAnswered(k) \/ TakeOver(k)
    \/ \E pk \in task[k].todo : RecordPiece(k, pk)
    \/ \E pk \in task[k].yes \cup task[k].no : FinishRecall(k, pk)
    \/ RecallsDone(k)
    \/ \E item \in task[k].todo : \/ RecallHandled(k, item) \/ RecallSucceeds(k, item)
                                 \/ RecallFails(k, item) \/ NoteRecall(k, item)
Faulty ==
    \/ WorkerCrashes
    \/ \E d \in DOMAIN hook : AcceptFails(d)
    \/ \E k \in DOMAIN task : RequestFails(k) \/ PieceTimesOut(k)
Worker == \E k \in DOMAIN task : Work(k)
Next == World \/ Accepting \/ Runtime \/ Worker \/ Faulty

Spec == Init /\ [][Next]_vars
\* The API finishes what it began, and the worker polls for tasks and runs them.
Fairness == WF_vars(Accepting) /\ WF_vars(Runtime) /\ WF_vars(Worker)
FairSpec == Spec /\ Fairness

-----------------------------------------------------------------------------
(* Properties.                                                             *)

TypeOK ==
    /\ scen \in Scenarios /\ Len(cw) <= MaxCw /\ sent \subseteq Events
    /\ DOMAIN hook \subseteq sent
    /\ \A d \in DOMAIN hook : hook[d] \in {"accepting", "pending", "success", "failed", "ignored"}
    /\ DOMAIN task \subseteq Keys
    /\ \A k \in DOMAIN task : /\ task[k].st \in {"pending", "running", "success", "failed"}
                              /\ task[k].n \in 0..Retries
                              /\ Running(k) <=> task[k].st = "running" \/ task[k].pc = "retry"
    /\ DOMAIN map \subseteq DOMAIN row /\ DOMAIN row \subseteq Pks
    /\ \A p \in DOMAIN map : map[p].c \in 1..Len(cw)
    /\ \A p \in DOMAIN row : row[p].st \in {"received", "sending", "sent", "failed"}
    /\ cmap \in 0..Len(rconv) /\ bind \in 0..inboxes /\ place \in 0..places
    /\ last \in States \cup {None} /\ acct \in States

HookIs(d, st) == d \in DOMAIN hook /\ hook[d] = st
MirrorsOf(pk) == {i \in 1..Len(cw) : cw[i].by = "mirror" /\ cw[i].pk = pk}
\* The webhook of the agent's message a piece belongs to met a fault, or came
\* before its conversation was mapped and ran beside the account's tasks.
Disturbed(pk) == pk[1] = "c" /\ <<"hook", <<"created", pk[2]>>>> \in hit \cup aside

ForwardedOnce ==
    \A pk \in DOMAIN row :
      /\ row[pk].plat <= 1
      /\ \A i \in MirrorsOf(pk) :
         \/ \A p \in {"text", "image"} : <<"c", i, p>> \notin DOMAIN row
         \/ <<"local", i>> \in lost \/ Disturbed(pk)
MirroredOnce ==
    \A pk \in DOMAIN row :
       /\ Cardinality({i \in MirrorsOf(pk) : <<"local", i>> \notin lost}) <= 1
       /\ pk[1] = "c" /\ MirrorsOf(pk) # {} => Disturbed(pk)
OneInboxOneConversation ==
    /\ inboxes <= 1
    /\ \A v, w \in 1..Len(rconv) : rconv[v] = rconv[w] /\ rconv[v] # 0 => v = w

\* The two sides show the same conversation. A message goes to the buyer once:
\* its client_request_id is sent once under every redelivery, retry and crash,
\* and what was copied from here to Chatwoot is not taken for an agent's message
\* when its own webhook comes back. A message is copied to Chatwoot once, and an
\* agent's message is not copied back. (Unless the answer that named the copy was
\* lost, or the webhook met a fault.) The account has one inbox and the
\* conversation one counterpart in it, although the answer to the request that
\* makes them can be lost.
CopiedOnce == ForwardedOnce /\ MirroredOnce /\ OneInboxOneConversation

\* A webhook about the deletion of message i ran beside the account's tasks.
DeletedAside(i) == \E e \in {"deleted", "again"} : <<"hook", <<e, i>>>> \in aside
SnapshotOnce == \A i \in Ids : snaps[i] <= 1 \/ DeletedAside(i)
AlertsAlternate ==
    \A n \in 1..Len(shown) :
       LET known == {m \in 1..(n - 1) : <<"alert", m>> \notin lost}
           before == IF known = {} THEN None
                     ELSE shown[CHOOSE m \in known : \A x \in known : x <= m]
       IN IF shown[n] = "online" THEN before \notin {None, "online"} ELSE before # shown[n]

\* What the program itself writes for the agents is written once: a message that
\* was deleted there, or recalled here, gets one private snapshot, however often
\* its task is tried and although both ways can meet, unless a webhook about the
\* deletion runs beside the account's tasks; and alerts alternate, the same state
\* of an account is not announced twice, and a recovery only after an alert, as
\* far as the announcements are known to have arrived.
NotedOnce == SnapshotOnce /\ AlertsAlternate

\* A row that says the platform confirmed the recall is right, and when the
\* outcome of a recall is known no later event about the deletion makes the
\* worker ask again, unless a webhook about a deletion met a fault or ran beside
\* the account's tasks.
RecallAsTold ==
    \A pk \in DOMAIN row :
       /\ MapOf(pk).st \in {"recall_snapshot_pending", "recalled"} => row[pk].recalled
       /\ \/ row[pk].recalls <= 1 \/ Disturbed(pk)
          \/ \E k \in (hit \cup aside) \cap HookKeys : k[2][1] \in {"deleted", "again"}

\* When an agent's message has reached the buyer and its webhook is done
\* without a fault, the conversation belongs to a person until an agent
\* resolves it.
AgentTakesOver ==
    \A i \in 1..Len(cw) :
       /\ cw[i].by = "agent" /\ HookIs(<<"created", i>>, "success")
       /\ MapsOf(i) # {} /\ \A pk \in MapsOf(i) : row[pk].st = "sent"
       /\ ~Disturbed(<<"c", i, "text">>)
       /\ \A v \in Convs : ~HookIs(<<"resolved", v>>, "success")
       => takeover

HooksEnd ==
    []<>(\A d \in DOMAIN hook : hook[d] \in {"accepting", "pending"} => <<"hook", d>> \in hit)
MirroredInTheEnd ==
    []<>(\A pk \in DOMAIN row :
           row[pk].st \in {"received", "sent"} /\ ~row[pk].recalled /\ ~On("switch") =>
              \/ pk \in DOMAIN map
              \/ \E k \in hit \ MoveKeys : k[2] \in {pk, <<"created", pk[2]>>})

\* Every webhook comes to an end, unless a fault hit it; and while fewer requests
\* fail than a task has retries, every message that was sent or received is in
\* Chatwoot in the end, unless its task died.
SyncEnds == HooksEnd /\ MirroredInTheEnd

-----------------------------------------------------------------------------
(* What a doc of the repository says and does not hold: see README.md.     *)

\* docs: what agents write is sent to Xianyu.  A webhook that is a success has
\* sent every piece.  This is violated: a piece that failed is mapped as
\* "failed", and the retry takes the map for a message that was forwarded.
ForwardedAsTold ==
    \A i \in 1..Len(cw) :
       cw[i].by = "agent" /\ cw[i].type # "audio" /\ HookIs(<<"created", i>>, "success") =>
          <<"c", i, "text">> \in DOMAIN row /\ row[<<"c", i, "text">>].plat = 1
=============================================================================
