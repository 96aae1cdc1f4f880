------------------------------ MODULE Messages ------------------------------
(***************************************************************************)
(* One conversation of one account: the platform's log, the frames it      *)
(* pushes, the push workers of the client, the message table and the       *)
(* summary of the conversation, the requests that send, recall and mark as *)
(* read, the conversation and history syncs, and the worker that answers   *)
(* inbound messages.                                                       *)
(*                                                                         *)
(* Every write of the store is one step: the writes of an account are      *)
(* serialised by _account_write_lock.  The k-th message of the platform is *)
(* at time 2k; a row made here when the platform has n is at time 2n + 1.  *)
(***************************************************************************)
EXTENDS Naturals, Sequences, FiniteSets

CONSTANTS
    Scenarios,    \* what happens beside the platform's pushes: [ops, types, max]
    Reqs,         \* client_request_ids
    Callers,      \* concurrent API requests
    PushCapacity, \* size of _push_queue
    PushWorkers,  \* PUSH_WORKER_COUNT
    SideCapacity, \* size of the side effect queue
    MaxMsgs,      \* bound: messages of the conversation
    MaxFaults,    \* bound: failed writes, lost answers, refusals, redeliveries
    MaxBreaks     \* bound: replaced sessions and restarts of the process

Ops == {"device", "text", "image", "plain", "recall", "auto", "takeover",
        "loop", "page", "history", "read", "shared", "break"}
ASSUME ScenariosAssumption ==
    Scenarios \subseteq [ops : SUBSET Ops, types : SUBSET {"text", "audio"}, max : 1..MaxMsgs]
ASSUME BoundAssumption ==
    /\ {MaxMsgs, PushCapacity, PushWorkers, SideCapacity} \subseteq Nat \ {0}
    /\ MaxFaults \in Nat /\ MaxBreaks \in Nat /\ Reqs \subseteq Nat \ {0}

Ids     == 1..MaxMsgs
Pks     == ({"m"} \X Ids) \cup ({"q", "p"} \X Reqs) \cup ({"a"} \X Ids)
Senders == ({"q", "p"} \X Reqs) \cup ({"a"} \X Ids)
Syncs   == {"loop", "page"}   \* conversation syncs with different limits

VARIABLES
    scen,     \* the scenario
    plat,     \* the platform's log: Seq of [dir, type, by, recalled]
    wire,     \* senders whose message is on its way
    answer,   \* [Senders -> the id the platform answered, 0: none yet]
    pushq,    \* frames in _push_queue
    work,     \* frames the push workers have taken
    retry,    \* [Ids -> attempts _retry_message_persistence has left]
    rows,     \* [Pks -> the row of the messages table]
    conv,     \* the row of the conversation
    read,     \* a user's read state: whether it exists and its unread_count
    snap,     \* [Syncs -> the conversation as it was fetched]
    hist,     \* ids of the history page still to be recorded
    side,     \* the side effect queue
    ar,       \* the automatic reply in progress
    log,      \* [Ids -> the row of auto_reply_logs for this message]
    enabled,  \* auto reply is enabled
    takeover, \* manual_takeover_mode is not "auto"
    call,     \* [Callers -> the request in progress]
    since,    \* history: live inbound messages the user has not read yet
    cleared,  \* history: those an agent's read took for read, though they came
              \* after the agent looked
    barred,   \* history: messages a person took over before the last check
    faults, breaks

platform == <<plat, wire, answer>>
frames   == <<pushq, work, retry>>
table    == <<rows, conv, read, since, cleared>>
syncs    == <<snap, hist>>
replier  == <<side, ar, log, enabled, takeover>>
bounds   == <<faults, breaks>>
vars     == <<scen, platform, frames, table, syncs, replier, call, barred, bounds>>

None == "none"
Msg(dir, type, by) == [dir |-> dir, type |-> type, by |-> by, recalled |-> FALSE]
Row(id, dir, type, at, status) ==
    [id |-> id, dir |-> dir, type |-> type, at |-> at, status |-> status, recalled |-> FALSE]
NoRow == Row(0, None, None, 0, None)
NoConv == [ex |-> FALSE, unread |-> 0, needs |-> FALSE, lastIn |-> 0, lastOut |-> 0]
State(ex, n) == [ex |-> ex, n |-> n]
NoSnap == [last |-> 0, unread |-> 0]
NoHist == [on |-> FALSE, left |-> {}]
Idle == [pc |-> "idle", k |-> 0, ai |-> FALSE, id |-> 0, ok |-> FALSE]
Call(pc, by, type, id, ok) == [pc |-> pc, by |-> by, type |-> type, id |-> id, ok |-> ok]
NoCall == Call("idle", <<"q", 0>>, None, 0, FALSE)

Init ==
    /\ scen \in Scenarios
    /\ plat = <<>> /\ wire = {} /\ answer = [s \in Senders |-> 0]
    /\ pushq = <<>> /\ work = {} /\ retry = [k \in Ids |-> 0]
    /\ rows = [p \in Pks |-> NoRow]
    /\ conv = NoConv /\ read = State(FALSE, 0)
    /\ snap = [s \in Syncs |-> NoSnap] /\ hist = NoHist
    /\ side = <<>> /\ ar = Idle /\ log = [k \in Ids |-> "open"]
    /\ enabled = ("auto" \in scen.ops) /\ takeover = FALSE
    /\ call = [c \in Callers |-> NoCall]
    /\ since = {} /\ cleared = {} /\ barred = {}
    /\ faults = 0 /\ breaks = 0

On(op) == op \in scen.ops
Fault == faults < MaxFaults /\ faults' = faults + 1 /\ UNCHANGED breaks
Now == 2 * Len(plat) + 1
Known(p) == rows[p].dir # None

-----------------------------------------------------------------------------
(* The store.  An operator describes what one write makes of the rows and  *)
(* of the conversation.                                                    *)

\* _apply_conversation_work_state: "needs" follows the newest message however
\* late the others are recorded.
WorkState(cv, dir, at) ==
    IF dir = "in"
    THEN [cv EXCEPT !.lastIn = IF at >= @ THEN at ELSE @,
                    !.needs = IF at >= cv.lastOut THEN TRUE ELSE @]
    ELSE [cv EXCEPT !.lastOut = IF at >= @ THEN at ELSE @,
                    !.needs = IF at >= cv.lastIn THEN FALSE ELSE @]

\* The row record_message finds by message_id, if any.
RowsOf(id) == {p \in Pks : Known(p) /\ id # 0 /\ rows[p].id = id}

\* record_message of a row that exists: only what the event knows is changed.
Update(p, at, status) ==
    /\ rows' = [rows EXCEPT ![p].at = IF at # 0 THEN at ELSE @,
                            ![p].status = IF status # None THEN status ELSE @]
    /\ conv' = IF rows[p].dir = "out" /\ status = "sent" /\ conv.ex
               THEN WorkState(conv, "out", IF at # 0 THEN at ELSE Now) ELSE conv
    /\ UNCHANGED <<read, since, cleared>>
\* record_message of a new row.
Insert(p, row, count) ==
    LET cv == [conv EXCEPT !.ex = TRUE, !.unread = IF count THEN @ + 1 ELSE @] IN
    /\ rows' = [rows EXCEPT ![p] = row]
    /\ conv' = IF row.status = "failed" THEN cv ELSE WorkState(cv, row.dir, row.at)
    /\ read' = IF count THEN State(TRUE, IF read.ex THEN read.n + 1 ELSE cv.unread) ELSE read
    /\ since' = IF count THEN since \cup {row.id} ELSE since
    /\ UNCHANGED cleared

\* The event of the k-th message; live: from a push, not from the history.
\* TRUE in the second operator: record_message returns the message.
IsNew(k) == RowsOf(k) = {}
RecordEvent(k, live) ==
    IF IsNew(k)
    THEN Insert(<<"m", k>>, Row(k, plat[k].dir, plat[k].type, 2 * k, None),
                live /\ plat[k].dir = "in")
    ELSE \E p \in RowsOf(k) : Update(p, 2 * k, None)
\* The row of a message that was sent without a row of its own.
RecordSent(by, id, ok) ==
    LET status == IF ok THEN "sent" ELSE "failed" IN
    IF RowsOf(id) = {}
    THEN Insert(IF id # 0 THEN <<"m", id>> ELSE by, Row(id, "out", "text", Now, status), FALSE)
    ELSE \E p \in RowsOf(id) : Update(p, 0, status)

\* reconcile_conversation_summaries: recomputed from the rows.  Messages that
\* are being sent count, voice messages do not.
Counted == {p \in Pks : Known(p) /\ IF rows[p].dir = "in" THEN rows[p].type # "audio"
                                    ELSE rows[p].status # "failed"}
Newest(ps) == IF ps = {} THEN 0 ELSE LET ats == {rows[p].at : p \in ps}
                                     IN  CHOOSE t \in ats : \A u \in ats : u <= t
Reconciled ==
    LET in  == {p \in Counted : rows[p].dir = "in"}
        out == Counted \ in
        any == \E p \in Pks : Known(p) /\ (rows[p].dir = "in" \/ rows[p].status # "failed")
    IN  IF ~conv.ex \/ ~any THEN conv
        ELSE [conv EXCEPT !.lastIn = Newest(in), !.lastOut = Newest(out),
                          !.needs = in # {} /\ Newest(in) > Newest(out)]

-----------------------------------------------------------------------------
(* A person has taken over, or an answer newer than message k is stored;   *)
(* barred keeps what was so before the reply was last checked.             *)

Handled(k) ==
    \/ takeover
    \/ /\ Known(<<"m", k>>)
       /\ \E p \in Pks : rows[p].dir = "out" /\ rows[p].at > rows[<<"m", k>>].at
PastCheck(k) == ar.pc = "send" /\ ar.k = k
Track == barred' = {k \in Ids : Handled(k)' /\ (k \in barred \/ ~PastCheck(k)')}

-----------------------------------------------------------------------------
(* The platform and the frames it pushes.                                  *)

\* A full queue drops its oldest frame.
Pushed(k) == Append(IF Len(pushq) = PushCapacity THEN Tail(pushq) ELSE pushq, k)
Appended(m) == /\ Len(plat) < scen.max
               /\ plat' = Append(plat, m) /\ pushq' = Pushed(Len(plat) + 1)

PeerSends ==
    /\ \E t \in scen.types : Appended(Msg("in", t, <<"peer", 0>>))
    /\ UNCHANGED <<scen, wire, answer, work, retry, table, syncs, replier, call, bounds>> /\ Track
\* The seller answers with another device.
DeviceSends ==
    /\ On("device") /\ Appended(Msg("out", "text", <<"device", 0>>))
    /\ UNCHANGED <<scen, wire, answer, work, retry, table, syncs, replier, call, bounds>> /\ Track
\* The platform takes a message of ours, however late, and pushes it back.
MessageArrives(s) ==
    /\ s \in wire /\ Appended(Msg("out", "text", s))
    /\ wire' = wire \ {s}
    /\ answer' = [answer EXCEPT ![s] = Len(plat) + 1]
    /\ UNCHANGED <<scen, work, retry, table, syncs, replier, call, bounds>> /\ Track
Redelivers ==
    /\ \E k \in 1..Len(plat) : pushq' = Pushed(k)
    /\ Fault
    /\ UNCHANGED <<scen, platform, work, retry, table, syncs, replier, call>> /\ Track

\* _push_worker_loop: the workers take in order and finish in any order.
TakeFrame ==
    /\ pushq # <<>> /\ Cardinality(work) < PushWorkers /\ Head(pushq) \notin work
    /\ work' = work \cup {Head(pushq)} /\ pushq' = Tail(pushq)
    /\ UNCHANGED <<scen, platform, retry, table, syncs, replier, call, bounds>> /\ Track

\* _after_message_persisted: a new inbound message goes to the side effects; a
\* full queue drops it.
AfterPersisted(k) ==
    side' = IF IsNew(k) /\ plat[k].dir = "in" /\ Len(side) < SideCapacity
            THEN Append(side, k) ELSE side

\* _handle_message.
HandleMessage(k) ==
    /\ k \in work /\ work' = work \ {k}
    /\ RecordEvent(k, TRUE) /\ AfterPersisted(k)
    /\ UNCHANGED <<scen, platform, pushq, retry, syncs, ar, log, enabled, takeover, call, bounds>> /\ Track
HandleFails(k) ==
    /\ k \in work /\ work' = work \ {k}
    /\ retry' = [retry EXCEPT ![k] = 3] /\ Fault
    /\ UNCHANGED <<scen, platform, pushq, table, syncs, replier, call>> /\ Track
\* _retry_message_persistence: after 1, 3 and 10 seconds, then given up.
RetryPersistence(k) ==
    /\ retry[k] > 0
    /\ \/ /\ retry' = [retry EXCEPT ![k] = 0] /\ RecordEvent(k, TRUE) /\ AfterPersisted(k)
          /\ UNCHANGED bounds
       \/ /\ retry' = [retry EXCEPT ![k] = @ - 1] /\ Fault /\ UNCHANGED <<table, side>>
    /\ UNCHANGED <<scen, platform, pushq, work, syncs, ar, log, enabled, takeover, call>> /\ Track

-----------------------------------------------------------------------------
(* Synchronisation with the platform.                                      *)

\* The summary the platform has: its newest message, and the inbound ones the
\* account has not answered.
PlatformUnread ==
    Cardinality({k \in 1..Len(plat) : \A j \in k..Len(plat) : plat[j].dir = "in"})
\* _sync_conversations_once: the page is fetched, and stored later.  One task
\* per limit; the loop's own one is fetched again every interval.
FetchConversations(s) ==
    /\ On(s) /\ plat # <<>> /\ snap[s] = NoSnap
    /\ snap' = [snap EXCEPT ![s] = [last |-> Len(plat), unread |-> PlatformUnread]]
    /\ UNCHANGED <<scen, platform, frames, table, hist, replier, call, bounds>> /\ Track
\* _apply_authoritative_conversation_summary: no look at the times.
Authoritative(cv, last) ==
    IF plat[last].dir = "in" THEN [cv EXCEPT !.lastIn = 2 * last, !.needs = TRUE]
                             ELSE [cv EXCEPT !.lastOut = 2 * last, !.needs = FALSE]
\* Mutant: a page brings the platform's counter only, not its last message.
MutUpsertConversations(s) ==
    /\ snap[s] # NoSnap
    /\ conv' = [conv EXCEPT !.ex = TRUE, !.unread = snap[s].unread]
    /\ read' = IF read.ex /\ snap[s].unread > conv.unread
               THEN State(TRUE, read.n + (snap[s].unread - conv.unread)) ELSE read
    /\ snap' = [snap EXCEPT ![s] = NoSnap]
    /\ UNCHANGED <<scen, platform, frames, rows, since, cleared, hist, replier, call, bounds>> /\ Track
\* upsert_conversations: the platform's counter replaces ours, and what it
\* rose by is added to the read states there are.
UpsertConversations(s) ==
    /\ snap[s] # NoSnap
    /\ conv' = Authoritative([conv EXCEPT !.ex = TRUE, !.unread = snap[s].unread], snap[s].last)
    /\ read' = IF read.ex /\ snap[s].unread > conv.unread
               THEN State(TRUE, read.n + (snap[s].unread - conv.unread)) ELSE read
    /\ snap' = [snap EXCEPT ![s] = NoSnap]
    /\ UNCHANGED <<scen, platform, frames, rows, since, cleared, hist, replier, call, bounds>> /\ Track

\* _sync_messages_once: the page is fetched, its messages are recorded one by
\* one, and the summary is recomputed.
FetchMessages ==
    /\ On("history") /\ plat # <<>> /\ ~hist.on /\ Fault
    /\ hist' = [on |-> TRUE, left |-> 1..Len(plat)]
    /\ UNCHANGED <<scen, platform, frames, table, snap, replier, call>> /\ Track
RecordHistory(k) ==
    /\ k \in hist.left
    /\ hist' = [hist EXCEPT !.left = @ \ {k}] /\ RecordEvent(k, FALSE)
    /\ UNCHANGED <<scen, platform, frames, snap, replier, call, bounds>> /\ Track
Reconcile ==
    /\ hist.on /\ hist.left = {}
    /\ conv' = Reconciled /\ hist' = NoHist
    /\ UNCHANGED <<scen, platform, frames, rows, read, since, cleared, snap, replier, call, bounds>> /\ Track

-----------------------------------------------------------------------------
(* What the operators do.                                                  *)

\* mark_conversation_read.
MarkRead ==
    /\ On("read") /\ conv.ex /\ read # State(TRUE, 0)
    /\ read' = State(TRUE, 0) /\ since' = {} /\ cleared' = {}
    /\ UNCHANGED <<scen, platform, frames, rows, conv, syncs, replier, call, bounds>> /\ Track
\* Chatwoot reports whole seconds: an agent who looked after message n has "seen"
\* all that came until the end of that second, after message m.
EndOfSecond(n) == n..Len(plat)
SeenUntil(n, m) ==
    /\ since' = {k \in since : k > m}
    /\ cleared' = {k \in since \cup cleared : k > n} \ since'
\* Mutant: what an agent saw marks everything as read.
MutMarkReadShared(n, m) ==
    /\ On("shared") /\ conv.ex /\ read # State(TRUE, 0)
    /\ read' = State(TRUE, 0) /\ SeenUntil(n, m)
    /\ UNCHANGED <<scen, platform, frames, rows, conv, syncs, replier, call, bounds>> /\ Track
\* mark_conversation_read_shared: not if the last inbound message known is newer.
MarkReadShared(n, m) ==
    /\ On("shared") /\ conv.ex /\ read # State(TRUE, 0) /\ conv.lastIn <= 2 * m
    /\ read' = State(TRUE, 0) /\ SeenUntil(n, m)
    /\ UNCHANGED <<scen, platform, frames, rows, conv, syncs, replier, call, bounds>> /\ Track
\* set_manual_takeover, also when a temporary one ends.
SetTakeover ==
    /\ On("takeover") /\ conv.ex
    /\ takeover' = ~takeover
    /\ takeover => Fault
    /\ ~takeover => UNCHANGED bounds
    /\ UNCHANGED <<scen, platform, frames, table, syncs, side, ar, log, enabled, call>> /\ Track
DisableAutoReply ==
    /\ On("takeover") /\ enabled /\ enabled' = FALSE
    /\ UNCHANGED <<scen, platform, frames, table, syncs, side, ar, log, takeover, call, bounds>> /\ Track

Quiet == <<scen, frames, syncs, replier>>
\* begin_outbound_text, begin_outbound_image: a request that has a row is
\* answered from it.
Begin(c, r, type) ==
    /\ On(type) /\ conv.ex /\ call[c].pc = "idle" /\ ~Known(<<"q", r>>)
    /\ rows' = [rows EXCEPT ![<<"q", r>>] = Row(0, "out", type, Now, "sending")]
    /\ call' = [call EXCEPT ![c] = Call("send", <<"q", r>>, type, 0, FALSE)]
    /\ UNCHANGED <<Quiet, platform, conv, read, since, cleared, bounds>> /\ Track
\* send_text without a client_request_id: no row before the answer.
BeginPlain(c, r) ==
    /\ On("plain") /\ call[c].pc = "idle" /\ ~Known(<<"p", r>>) /\ Fault
    /\ \A d \in Callers : call[d].by # <<"p", r>>
    /\ answer[<<"p", r>>] = 0 /\ <<"p", r>> \notin wire
    /\ call' = [call EXCEPT ![c] = Call("send", <<"p", r>>, "text", 0, FALSE)]
    /\ UNCHANGED <<Quiet, platform, table>> /\ Track

Became(c, pc, id, ok) == call' = [call EXCEPT ![c].pc = pc, ![c].id = id, ![c].ok = ok]
\* Not running, not online, or the upload of the image failed: nothing is sent.
NotSent(c) ==
    /\ call[c].pc = "send" /\ Fault /\ Became(c, "complete", 0, FALSE)
    /\ UNCHANGED <<Quiet, platform, table>> /\ Track
Send(c) ==
    /\ call[c].pc = "send" /\ wire' = wire \cup {call[c].by}
    /\ call' = [call EXCEPT ![c].pc = "wait"]
    /\ UNCHANGED <<Quiet, plat, answer, table, bounds>> /\ Track
Answered(c) ==
    /\ call[c].pc = "wait" /\ answer[call[c].by] # 0
    /\ Became(c, "complete", answer[call[c].by], TRUE)
    /\ UNCHANGED <<Quiet, platform, table, bounds>> /\ Track
\* Mutant: no answer within 10 s is taken for a success.
MutTimeout(c) ==
    /\ call[c].pc = "wait" /\ Fault /\ Became(c, "complete", 0, TRUE)
    /\ UNCHANGED <<Quiet, platform, table>> /\ Track
\* No answer within 10 s: a failure with the id of the request, while the
\* message may be on its way.
Timeout(c) ==
    /\ call[c].pc = "wait" /\ Fault /\ Became(c, "complete", 0, FALSE)
    /\ UNCHANGED <<Quiet, platform, table>> /\ Track
Refused(c) ==
    /\ call[c].pc = "wait" /\ call[c].by \in wire /\ Fault
    /\ wire' = wire \ {call[c].by} /\ Became(c, "complete", 0, FALSE)
    /\ UNCHANGED <<Quiet, plat, answer, table>> /\ Track

\* complete_outbound_text, complete_outbound_image.  Where the pushed message
\* was recorded first, the unique message_id makes the write fail and the row
\* stays as it is.
Complete(c) ==
    LET p == call[c].by IN
    /\ call[c].pc = "complete" /\ p[1] = "q"
    /\ IF RowsOf(call[c].id) # {}
       THEN UNCHANGED <<rows, conv>>
       ELSE /\ rows' = [rows EXCEPT ![p].id = call[c].id,
                                    ![p].status = IF call[c].ok THEN "sent" ELSE "failed"]
            /\ conv' = IF call[c].ok THEN WorkState(conv, "out", rows[p].at) ELSE conv
    /\ call' = [call EXCEPT ![c] = NoCall]
    /\ UNCHANGED <<Quiet, platform, read, since, cleared, bounds>> /\ Track
CompletePlain(c) ==
    /\ call[c].pc = "complete" /\ call[c].by[1] = "p"
    /\ RecordSent(call[c].by, call[c].id, call[c].ok)
    /\ call' = [call EXCEPT ![c] = NoCall]
    /\ UNCHANGED <<Quiet, platform, bounds>> /\ Track

\* recall_message: the row was sent by us, has the platform's id and is not
\* older than two minutes.
Recall(c, p) ==
    /\ On("recall") /\ call[c].pc = "idle"
    /\ rows[p].dir = "out" /\ rows[p].status = "sent" /\ rows[p].id # 0 /\ ~rows[p].recalled
    /\ call' = [call EXCEPT ![c] = Call("recall", p, None, rows[p].id, FALSE)]
    /\ UNCHANGED <<Quiet, platform, table, bounds>> /\ Track
RecallArrives(c) ==
    /\ call[c].pc = "recall"
    /\ plat' = [plat EXCEPT ![call[c].id].recalled = TRUE]
    /\ call' = [call EXCEPT ![c].pc = "recalled"]
    /\ UNCHANGED <<Quiet, wire, answer, table, bounds>> /\ Track
\* Refused, or the answer is lost.
RecallFails(c) ==
    /\ call[c].pc \in {"recall", "recalled"} /\ Fault
    /\ call' = [call EXCEPT ![c] = NoCall]
    /\ UNCHANGED <<Quiet, platform, table>> /\ Track
MarkRecalled(c) ==
    /\ call[c].pc = "recalled"
    /\ rows' = [rows EXCEPT ![call[c].by].recalled = TRUE]
    /\ call' = [call EXCEPT ![c] = NoCall]
    /\ UNCHANGED <<Quiet, platform, conv, read, since, cleared, bounds>> /\ Track

-----------------------------------------------------------------------------
(* The automatic reply: one worker of the account takes the messages that  *)
(* were recorded first by a push.                                          *)

Still == <<scen, platform, frames, syncs, enabled, takeover, call>>
Step(pc) == ar' = [ar EXCEPT !.pc = pc]
\* Voice messages are not answered.
TakeSideEffect ==
    /\ ar.pc = "idle" /\ side # <<>>
    /\ side' = Tail(side)
    /\ ar' = IF plat[Head(side)].type = "text" THEN [Idle EXCEPT !.pc = "decide", !.k = Head(side)]
             ELSE Idle
    /\ UNCHANGED <<Still, table, log, bounds>> /\ Track
\* What the rules say: no rule, one that skips, or a reply within the cooldown;
\* a template; or an AI rule.
Decisions == {"none", "template", "ai"}
\* decide_auto_reply.
Decide ==
    /\ ar.pc = "decide"
    /\ \E d \in Decisions :
          ar' = IF enabled /\ ~takeover /\ d # "none"
                THEN [ar EXCEPT !.pc = "claim", !.ai = (d = "ai")] ELSE Idle
    /\ UNCHANGED <<Still, table, side, log, bounds>> /\ Track
\* claim_auto_reply_execution.
Claim ==
    /\ ar.pc = "claim"
    /\ IF enabled /\ ~takeover /\ log[ar.k] = "open"
       THEN log' = [log EXCEPT ![ar.k] = "taken"] /\ Step(IF ar.ai THEN "ai" ELSE "check")
       ELSE ar' = Idle /\ UNCHANGED log
    /\ UNCHANGED <<Still, table, side, bounds>> /\ Track
\* _generate_ai_reply: up to 30 seconds; the provider may fail.
GenerateAiReply ==
    /\ ar.pc = "ai"
    /\ (Step("check") /\ UNCHANGED bounds) \/ (Step("finish") /\ Fault)
    /\ UNCHANGED <<Still, table, side, log>> /\ Track
\* No text, no receiver, or the account is not running.
NoReply ==
    /\ ar.pc = "check" /\ Fault /\ Step("finish")
    /\ UNCHANGED <<Still, table, side, log>> /\ Track
\* Mutant: only the switch and the takeover are looked at again.
MutSendAllowed(k) == enabled /\ ~takeover
\* auto_reply_send_allowed, after the reply was made.
SendAllowed(k) == enabled /\ ~Handled(k)
CheckAllowed ==
    /\ ar.pc = "check" /\ Step(IF SendAllowed(ar.k) THEN "send" ELSE "finish")
    /\ UNCHANGED <<Still, table, side, log, bounds>> /\ Track
SendReply ==
    /\ ar.pc = "send" /\ Step("wait")
    /\ wire' = wire \cup {<<"a", ar.k>>}
    /\ UNCHANGED <<scen, plat, answer, frames, syncs, enabled, takeover, call, table, side, log, bounds>> /\ Track
\* The answer, or none (offline, refused, late).
ReplyAnswered ==
    /\ ar.pc = "wait" /\ answer[<<"a", ar.k>>] # 0
    /\ ar' = [ar EXCEPT !.pc = "record", !.id = answer[<<"a", ar.k>>], !.ok = TRUE]
    /\ UNCHANGED <<Still, table, side, log, bounds>> /\ Track
ReplyTimeout ==
    /\ ar.pc = "wait" /\ Fault /\ Step("record")
    /\ UNCHANGED <<Still, table, side, log>> /\ Track
RecordReply ==
    /\ ar.pc = "record" /\ Step("finish")
    /\ RecordSent(<<"a", ar.k>>, ar.id, ar.ok)
    /\ UNCHANGED <<Still, side, log, bounds>> /\ Track
\* Mutant: a reply that was cancelled is noted as given.
MutFinishReply ==
    /\ ar.pc = "finish" /\ ar' = Idle
    /\ log' = [log EXCEPT ![ar.k] = "answered"]
    /\ UNCHANGED <<Still, table, side, bounds>> /\ Track
\* finish_auto_reply_execution.
FinishReply ==
    /\ ar.pc = "finish" /\ ar' = Idle
    /\ log' = [log EXCEPT ![ar.k] = IF ar.ok THEN "answered" ELSE "given_up"]
    /\ UNCHANGED <<Still, table, side, bounds>> /\ Track

-----------------------------------------------------------------------------
(* Interruptions.                                                          *)

Break == On("break") /\ breaks < MaxBreaks /\ breaks' = breaks + 1 /\ UNCHANGED faults
\* A new session of the account: frames and retries of the old generation are
\* dropped.
SessionReplaced ==
    /\ Break
    /\ pushq' = <<>> /\ work' = {} /\ retry' = [k \in Ids |-> 0]
    /\ UNCHANGED <<scen, platform, table, syncs, replier, call>> /\ Track
\* The API process stops and starts again.  The summaries are recomputed after
\* the accounts were started, as at the end of a history sync.
ProcessRestarts ==
    /\ Break
    /\ pushq' = <<>> /\ work' = {} /\ retry' = [k \in Ids |-> 0]
    /\ snap' = [s \in Syncs |-> NoSnap] /\ hist' = [on |-> TRUE, left |-> {}]
    /\ side' = <<>> /\ ar' = Idle /\ call' = [c \in Callers |-> NoCall]
    /\ UNCHANGED <<scen, platform, table, log, enabled, takeover>> /\ Track

Frames  == TakeFrame \/ \E k \in Ids : HandleMessage(k) \/ HandleFails(k) \/ RetryPersistence(k)
World   == PeerSends \/ DeviceSends \/ Redelivers \/ \E s \in Senders : MessageArrives(s)
Sync    == \/ \E s \in Syncs : FetchConversations(s) \/ UpsertConversations(s)
           \/ FetchMessages \/ Reconcile \/ \E k \in Ids : RecordHistory(k)
Operate == \/ MarkRead \/ SetTakeover \/ DisableAutoReply
           \/ \E n \in 1..Len(plat) : \E m \in EndOfSecond(n) : MarkReadShared(n, m)
Sending == \E c \in Callers :
    \/ \E r \in Reqs : BeginPlain(c, r) \/ \E t \in {"text", "image"} : Begin(c, r, t)
    \/ NotSent(c) \/ Send(c) \/ Answered(c) \/ Timeout(c) \/ Refused(c)
    \/ Complete(c) \/ CompletePlain(c)
    \/ RecallArrives(c) \/ RecallFails(c) \/ MarkRecalled(c)
    \/ \E p \in Pks : Recall(c, p)
Replying == \/ TakeSideEffect \/ Decide \/ Claim \/ GenerateAiReply \/ NoReply \/ CheckAllowed \/ SendReply
            \/ ReplyAnswered \/ ReplyTimeout \/ RecordReply \/ FinishReply

Next == \/ Frames \/ World \/ Sync \/ Operate \/ Sending \/ Replying
        \/ SessionReplaced \/ ProcessRestarts

Spec == Init /\ [][Next]_vars

\* The event loop runs every task that is ready, and the loop of the runtime
\* fetches the conversations again and again.
Fairness ==
    /\ WF_vars(Frames) /\ WF_vars(Replying)
    /\ WF_vars(FetchConversations("loop")) /\ WF_vars(UpsertConversations("loop"))
    /\ WF_vars(UpsertConversations("page"))
    /\ \A k \in Ids : WF_vars(RecordHistory(k))
    /\ WF_vars(Reconcile)
FairSpec == Spec /\ Fairness

-----------------------------------------------------------------------------
(* Properties.                                                             *)

TypeOK ==
    /\ scen \in Scenarios
    /\ plat \in Seq([dir : {"in", "out"}, type : {"text", "audio"},
                     by : Senders \cup {<<"peer", 0>>, <<"device", 0>>}, recalled : BOOLEAN])
    /\ Len(plat) <= MaxMsgs /\ wire \subseteq Senders
    /\ answer \in [Senders -> 0..Len(plat)]
    /\ pushq \in Seq(1..Len(plat)) /\ Len(pushq) <= PushCapacity
    /\ work \subseteq 1..Len(plat) /\ Cardinality(work) <= PushWorkers
    /\ retry \in [Ids -> 0..3]
    /\ rows \in [Pks -> [id : 0..Len(plat), dir : {"in", "out", None},
                         type : {"text", "image", "audio", None}, at : 0..Now,
                         status : {None, "sending", "sent", "failed"}, recalled : BOOLEAN]]
    /\ conv \in [ex : BOOLEAN, unread : 0..(2 * Len(plat)), needs : BOOLEAN, lastIn : 0..Now, lastOut : 0..Now]
    /\ read \in [ex : BOOLEAN, n : Nat] /\ since \subseteq 1..Len(plat)
    /\ cleared \subseteq 1..Len(plat)
    /\ snap \in [Syncs -> [last : 0..Len(plat), unread : 0..Len(plat)]]
    /\ hist \in [on : BOOLEAN, left : SUBSET (1..Len(plat))]
    /\ side \in Seq(1..Len(plat)) /\ Len(side) <= SideCapacity
    /\ ar.pc \in {"idle", "decide", "claim", "ai", "check", "send", "wait", "record", "finish"}
    /\ log \in [Ids -> {"open", "taken", "answered", "given_up"}]
    /\ enabled \in BOOLEAN /\ takeover \in BOOLEAN /\ barred \subseteq Ids
    /\ \A c \in Callers : call[c].pc \in {"idle", "send", "wait", "complete", "recall", "recalled"}
    /\ faults \in 0..MaxFaults /\ breaks \in 0..MaxBreaks

CountBy(s) == Cardinality({k \in 1..Len(plat) : plat[k].by = s})

\* A request is sent at most once, however often its client_request_id comes,
\* and what the table, the log of replies and the recall mark say of a message
\* happened: a row is "sent" only if the platform has the message, recalled
\* only if the platform recalled it.
SentAsTold ==
    /\ \A r \in Reqs : CountBy(<<"q", r>>) <= 1
    /\ \A r \in Reqs : rows[<<"q", r>>].status = "sent" => CountBy(<<"q", r>>) = 1
    /\ \A p \in Pks : rows[p].recalled => rows[p].id # 0 /\ plat[rows[p].id].recalled

\* No inbound message that arrived after the user last looked is taken for
\* read: neither by a lost count, nor by what the platform's counter says, nor
\* by an agent of Chatwoot who looked in an earlier second.  (In the same second
\* one is, see NewerStaysUnread. Each of these by itself: an agent's read after
\* an older page of the platform, or after a summary that leaves a voice message
\* out, loses one too, see README.md.)
UnreadKept == read.ex => read.n >= Cardinality(since)

\* No automatic reply goes out for a message that a person had taken in hand,
\* by takeover or by an answer stored here, before the reply was last checked.
HandsOff == [][\A k \in Ids : <<"a", k>> \in wire' \ wire => k \notin barred]_vars

\* The automatic replies implement ReplyOnce.
Once == INSTANCE ReplyOnce WITH
    Msgs <- Ids, phase <- log, replies <- [k \in Ids |-> CountBy(<<"a", k>>)]
RepliesOnce == Once!Spec

\* Who has to answer next, by the platform.
Waiting == plat # <<>> /\ plat[Len(plat)].dir = "in"
PushesInAnyOrder ==
    /\ scen.ops \cap {"text", "image", "plain", "auto", "loop", "page", "history"} = {}
    /\ breaks = 0 /\ \A k \in 1..Len(plat) : ~IsNew(k)
    => conv.needs = Waiting
MarkHeals == On("loop") => <>[](plat # <<>> => conv.needs = Waiting)

\* The mark "needs reply" is right. Push workers, retries and redeliveries may
\* finish in any order: once all that the platform pushed is stored it says who
\* has to answer, without any sync. And however frames, pages, histories and rows
\* that stay "sending" mix the summary up, it does so in the end where the pages
\* are fetched.
MarkIsRight == []PushesInAnyOrder /\ MarkHeals

-----------------------------------------------------------------------------
(* What a document or a test of the repository says and does not hold.     *)

\* docs/chatwoot-integration.md: an agent's read takes nothing for read that came
\* after the agent looked ("旧事件不会误清之后收到的新消息").
NewerStaysUnread == read.ex => read.n >= Cardinality(since \cup cleared)

\* test_only_successful_outbound_clears_needs_reply: the mark "needs reply" is
\* cleared only when the platform has an answer.
OnlySuccessClears ==
    [][conv.needs /\ ~conv'.needs => \E k \in 1..Len(plat) : plat[k].dir = "out"]_vars
=============================================================================
