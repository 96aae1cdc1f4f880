--------------------------- MODULE AccountRuntime ---------------------------
(***************************************************************************)
(* The connection of one account: AccountRuntimeManager, its watchdog, the *)
(* session task of xianyu_core that reports back through callbacks, and    *)
(* the runtime state of the account row.                                   *)
(*                                                                         *)
(* Generations are only compared for equality and never repeat, so the     *)
(* model keeps, for whatever captured one, whether it is still current.    *)
(* The account has a cookie throughout; its row is not deleted.            *)
(***************************************************************************)
EXTENDS Naturals, Sequences

CONSTANTS
    Callers,   \* concurrent API requests
    Watchdog,  \* the caller that stands for _connection_watchdog_loop
    Ops,       \* the operations the requests perform
    MaxFaults  \* bound: failed writes and sessions that cannot be built

AllOps   == {"start", "startAll", "restart", "stop", "enable", "disable", "delete"}
Forced   == {"restart", "enable", "recover"}
Starts   == {"start", "startAll"} \cup Forced
Stops    == {"stop", "disable", "delete"}
Terminal == {"auth_expired", "risk_blocked"}
States   == {"stopped", "connecting", "online", "reconnecting", "disabled",
             "deleting", "error"} \cup Terminal

ASSUME OpsAssumption == Ops \subseteq AllOps
ASSUME CallersAssumption == {"session", "late"} \cap Callers = {} /\ Watchdog \in Callers
ASSUME FaultAssumption == MaxFaults \in Nat

VARIABLES
    enabled, \* accounts.enabled
    rstate,  \* the runtime state of the row
    writes,  \* set_runtime_state calls in the FIFO order of the account write
             \* lock; the head is in its database thread
    desired, \* _desired_running
    sess,    \* the session of core._sessions, or the one being stopped
    req,     \* [Callers -> the request in progress]
    stopped, \* history: the last stop that was completed with no start asked for since
    fenced,  \* history: a deletion was asked for and no generation taken since
    faults

vars == <<enabled, rstate, writes, desired, sess, req, stopped, fenced, faults>>
history == <<stopped, fenced>>

Sess(pc, online, current, stopping) ==
    [pc |-> pc, online |-> online, current |-> current, stopping |-> stopping]
NoSession == Sess("none", FALSE, FALSE, FALSE)

\* terminal: the state the request read was auth_expired or risk_blocked;
\* fresh: the generation it captured is the current one.
Req(pc, op, terminal, fresh) ==
    [pc |-> pc, op |-> op, terminal |-> terminal, fresh |-> fresh]
IdleReq == Req("idle", "none", FALSE, FALSE)

Init ==
    /\ enabled = TRUE
    /\ rstate = "stopped"
    /\ writes = <<>>
    /\ desired = FALSE
    /\ sess = NoSession
    /\ req = [p \in Callers |-> IdleReq]
    /\ stopped = "none" /\ fenced = FALSE
    /\ faults = 0

-----------------------------------------------------------------------------
Waiting(who) == \E i \in 1..Len(writes) : writes[i].who = who
Write(state, who) == Append(writes, [state |-> state, who |-> who])

Locked   == {"connecting", "restop", "wait", "decide", "stopping", "final"}
LockFree == \A p \in Callers : req[p].pc \notin Locked

Running == sess.pc \notin {"none", "dead"} /\ ~sess.stopping
Online  == sess.online /\ ~sess.stopping

\* _next_generation: nothing that captured an earlier one is current.
Outdated(r) == Req(r.pc, r.op, r.terminal, FALSE)
Muted(s) == Sess(s.pc, s.online, FALSE, s.stopping)

\* Popping a session from core._sessions and cancelling its tasks: a write
\* that waits for the lock is cancelled with them, one in its thread is not.
\* A session waits for one write at a time.
Popped(s) == Sess(s.pc, s.online, FALSE, s.pc \notin {"none", "dead"})
Cancelled ==
    IF Waiting("session") /\ Head(writes).who # "session"
    THEN LET i == CHOOSE i \in 1..Len(writes) : writes[i].who = "session"
         IN  SubSeq(writes, 1, i - 1) \o SubSeq(writes, i + 1, Len(writes))
    ELSE writes

Step(p, pc) == Req(pc, req[p].op, req[p].terminal, req[p].fresh)
Goto(p, pc) == req' = [req EXCEPT ![p] = Step(p, pc)]
Done(p)     == req' = [req EXCEPT ![p] = IdleReq]

-----------------------------------------------------------------------------
(* Requests: the endpoints read or update the row first, and take the      *)
(* account lock of the runtime later.                                      *)

\* The start endpoint refuses an account that needs a login or a verification;
\* start-all leaves that to _start_locked.
RequestStart(p) ==
    /\ p # Watchdog /\ req[p].pc = "idle" /\ enabled
    /\ \E op \in Ops \cap {"start", "startAll", "restart"} :
          /\ op = "start" => rstate \notin Terminal
          /\ req' = [req EXCEPT ![p] = Req("lock", op, rstate \in Terminal, FALSE)]
    /\ stopped' = "none"
    /\ UNCHANGED <<enabled, rstate, writes, desired, sess, fenced, faults>>

RequestEnable(p) ==
    /\ p # Watchdog /\ req[p].pc = "idle" /\ ~enabled /\ "enable" \in Ops
    /\ enabled' = TRUE
    /\ stopped' = "none"
    /\ req' = [req EXCEPT ![p] = Req("lock", "enable", FALSE, FALSE)]
    /\ UNCHANGED <<rstate, writes, desired, sess, fenced, faults>>

\* Mutant: stop invalidates the generation before it has the lock.
MutStopBumpsEarly(p) ==
    /\ p # Watchdog /\ req[p].pc = "idle"
    /\ \E op \in Ops \cap {"stop", "disable"} :
          /\ req' = [req EXCEPT ![p] = Req("lock", op, FALSE, FALSE)]
          /\ enabled' = (enabled /\ op # "disable")
    /\ sess' = Muted(sess)
    /\ UNCHANGED <<rstate, writes, desired, history, faults>>

RequestStop(p) ==
    /\ p # Watchdog /\ req[p].pc = "idle"
    /\ \E op \in Ops \cap {"stop", "disable"} :
          /\ req' = [req EXCEPT ![p] = Req("lock", op, FALSE, FALSE)]
          /\ enabled' = (enabled /\ op # "disable")
    /\ UNCHANGED <<rstate, writes, desired, sess, history, faults>>

\* prepare_delete fences the account before it asks for the lock.
RequestDelete(p) ==
    /\ p # Watchdog /\ req[p].pc = "idle" /\ "delete" \in Ops
    /\ desired' = FALSE
    /\ fenced' = TRUE
    /\ sess' = Muted(sess)
    /\ req' = [q \in Callers |-> IF q = p THEN Req("lock", "delete", FALSE, FALSE)
                                 ELSE Outdated(req[q])]
    /\ UNCHANGED <<enabled, rstate, writes, stopped, faults>>

\* The scan of the watchdog: what it reads here it acts on after the lock.
WatchdogScan ==
    /\ req[Watchdog].pc = "idle"
    /\ enabled /\ desired /\ ~Running
    /\ req' = [req EXCEPT ![Watchdog] = Req("lock", "recover", FALSE, FALSE)]
    /\ UNCHANGED <<enabled, rstate, writes, desired, sess, history, faults>>

-----------------------------------------------------------------------------
(* start and _start_locked.                                                *)

LockToStart(p) ==
    /\ req[p].pc = "lock" /\ req[p].op \in Starts /\ LockFree
    /\ \/ \* credentials need the operator
          /\ req[p].op \notin Forced /\ req[p].terminal
          /\ desired' = FALSE
          /\ Done(p)
          /\ UNCHANGED writes
       \/ \* already running; the row is corrected if it does not say so
          /\ req[p].op \notin Forced /\ ~req[p].terminal /\ Running
          /\ desired' = TRUE
          /\ \/ Online /\ rstate # "online" /\ writes' = Write("online", p) /\ Goto(p, "final")
             \/ ~(Online /\ rstate # "online") /\ UNCHANGED writes /\ Done(p)
       \/ \* a new session
          /\ req[p].op \in Forced \/ (~req[p].terminal /\ ~Running)
          /\ desired' = TRUE
          /\ writes' = Write("connecting", p)
          /\ Goto(p, "connecting")
    /\ UNCHANGED <<enabled, rstate, sess, history, faults>>

\* The generation is captured here; the old session is stopped in start_account.
TakeGeneration(p) ==
    /\ req[p].pc = "connecting" /\ ~Waiting(p)
    /\ req' = [q \in Callers |->
                 IF q = p THEN Req("restop", req[p].op, FALSE, TRUE) ELSE Outdated(req[q])]
    /\ sess' = Popped(sess)
    /\ fenced' = FALSE
    /\ writes' = Cancelled
    /\ UNCHANGED <<enabled, rstate, desired, stopped, faults>>

StartSession(p) ==
    /\ req[p].pc = "restop" /\ ~Waiting("session")
    /\ sess' = Sess("new", FALSE, req[p].fresh, FALSE)
    /\ Goto(p, "wait")
    /\ UNCHANGED <<enabled, rstate, writes, desired, history, faults>>

\* The cookie or the proxy is unusable: the session cannot be constructed.
StartFails(p) ==
    /\ req[p].pc = "restop" /\ ~Waiting("session")
    /\ faults < MaxFaults
    /\ faults' = faults + 1
    /\ sess' = NoSession
    /\ writes' = Write("error", p)
    /\ Goto(p, "final")
    /\ UNCHANGED <<enabled, rstate, desired, history>>

\* Mutant: a session that keeps trying is waited for without a timeout.
MutWaitForever(p) ==
    /\ req[p].pc = "wait" /\ (Online \/ ~Running)
    /\ Done(p)
    /\ UNCHANGED <<enabled, rstate, writes, desired, sess, history, faults>>

\* Online in time, or the row is read when the wait of 15 s is over.
WaitEnds(p) ==
    /\ req[p].pc = "wait"
    /\ \/ Online /\ Done(p)
       \/ req' = [req EXCEPT ![p] =
                     Req("decide", req[p].op, rstate \in Terminal, req[p].fresh)]
    /\ UNCHANGED <<enabled, rstate, writes, desired, sess, history, faults>>

\* Mutant: a timeout is "reconnecting" without another look at the session.
MutTimeoutIsOffline(p) ==
    /\ req[p].pc = "decide"
    /\ writes' = Write("reconnecting", p)
    /\ Goto(p, "final")
    /\ UNCHANGED <<enabled, rstate, desired, sess, history, faults>>

DecideState(p) ==
    /\ req[p].pc = "decide"
    /\ \/ Online /\ writes' = Write("online", p) /\ Goto(p, "final")
       \/ ~Online /\ ~req[p].terminal /\ writes' = Write("reconnecting", p) /\ Goto(p, "final")
       \/ ~Online /\ req[p].terminal /\ UNCHANGED writes /\ Done(p)
    /\ UNCHANGED <<enabled, rstate, desired, sess, history, faults>>

-----------------------------------------------------------------------------
(* stop.                                                                   *)

LockToStop(p) ==
    /\ req[p].pc = "lock" /\ req[p].op \in Stops /\ LockFree
    /\ desired' = FALSE
    /\ sess' = Popped(sess)
    /\ writes' = Cancelled
    /\ req' = [q \in Callers |->
                 IF q = p THEN Req("stopping", req[p].op, FALSE, FALSE) ELSE Outdated(req[q])]
    /\ UNCHANGED <<enabled, rstate, history, faults>>

\* session.stop returns when its tasks are done, writes in a thread included.
SessionStopped(p) ==
    /\ req[p].pc = "stopping" /\ ~Waiting("session")
    /\ sess' = NoSession
    /\ writes' = Write("stopped", p)
    /\ Goto(p, "final")
    /\ UNCHANGED <<enabled, rstate, desired, history, faults>>

\* The last write under the lock is done. What a disabled or deleted account
\* is shown as is written after the lock was given back.
Finish(p) ==
    /\ req[p].pc = "final" /\ ~Waiting(p)
    /\ \/ req[p].op \in {"disable", "delete"} /\ Goto(p, "shown")
              /\ writes' = Write(IF req[p].op = "disable" THEN "disabled" ELSE "deleting", p)
       \/ req[p].op \notin {"disable", "delete"} /\ UNCHANGED writes /\ Done(p)
    /\ stopped' = IF req[p].op \in Stops THEN req[p].op ELSE stopped
    /\ UNCHANGED <<enabled, rstate, desired, sess, fenced, faults>>

Shown(p) ==
    /\ req[p].pc = "shown" /\ ~Waiting(p)
    /\ Done(p)
    /\ UNCHANGED <<enabled, rstate, writes, desired, sess, history, faults>>

\* prepare_delete waits 5 s: for the lock, or for a session that is slow to
\* close. The session is cancelled all the same, a write in its thread goes on.
DeleteTimesOut(p) ==
    /\ req[p].op = "delete" /\ req[p].pc \in {"lock", "stopping"}
    /\ LET late == [i \in 1..Len(writes) |->
                      IF req[p].pc = "stopping" /\ writes[i].who = "session"
                      THEN [writes[i] EXCEPT !.who = "late"] ELSE writes[i]]
       IN  writes' = Append(late, [state |-> "stopped", who |-> p])
    /\ sess' = IF req[p].pc = "stopping" THEN NoSession ELSE sess
    /\ Goto(p, "shown")
    /\ UNCHANGED <<enabled, rstate, desired, history, faults>>

-----------------------------------------------------------------------------
(* The session task. A state is reported through _handle_state, which      *)
(* checks the generation and then waits for the write.                     *)

Alive == sess.pc # "none" /\ ~sess.stopping /\ ~Waiting("session")

Report(state) ==
    /\ writes' = IF sess.current THEN Write(state, "session") ELSE writes
    /\ desired' = (desired /\ ~(sess.current /\ state \in Terminal))

SessionStep(froms, to, online, state) ==
    /\ Alive /\ sess.pc \in froms
    /\ sess' = Sess(to, online, sess.current, FALSE)
    /\ Report(state)
    /\ UNCHANGED <<enabled, rstate, req, history, faults>>

SessionConnects == SessionStep({"new"}, "connecting", FALSE, "connecting")
SessionOnline   == SessionStep({"connecting"}, "up", TRUE, "online")
\* The online event is cleared only after the report of the lost connection.
SessionDrops    == SessionStep({"connecting", "up"}, "dropping", sess.online, "reconnecting")
SessionRetries  == SessionStep({"dropping"}, "connecting", FALSE, "reconnecting")
SessionRefused  ==
    \E state \in Terminal :
        SessionStep({"connecting", "up"}, "ending", sess.online, state)

SessionEnds ==
    /\ Alive /\ sess.pc = "ending"
    /\ sess' = Sess("dead", FALSE, sess.current, FALSE)
    /\ UNCHANGED <<enabled, rstate, writes, desired, req, history, faults>>

-----------------------------------------------------------------------------
(* The database.                                                           *)

WriteDone ==
    /\ writes # <<>>
    /\ rstate' = Head(writes).state
    /\ writes' = Tail(writes)
    /\ UNCHANGED <<enabled, desired, sess, req, history, faults>>

\* A report raises: inside the connection attempt it counts as a lost
\* connection, anywhere else it ends the session task.
ReportFails ==
    /\ writes # <<>> /\ Head(writes).who = "session" /\ ~sess.stopping
    /\ faults < MaxFaults
    /\ faults' = faults + 1
    /\ IF sess.pc \in {"connecting", "up"}
       THEN /\ sess' = Sess("dropping", sess.online, sess.current, FALSE)
            /\ writes' = IF sess.current
                         THEN Append(Tail(writes), [state |-> "reconnecting", who |-> "session"])
                         ELSE Tail(writes)
       ELSE /\ sess' = Sess("dead", FALSE, sess.current, FALSE)
            /\ writes' = Tail(writes)
    /\ UNCHANGED <<enabled, rstate, desired, req, history>>

-----------------------------------------------------------------------------
Proceed(p) ==
    \/ TakeGeneration(p) \/ StartSession(p) \/ WaitEnds(p) \/ DecideState(p)
    \/ SessionStopped(p) \/ Finish(p) \/ Shown(p)

Next ==
    \/ \E p \in Callers :
          \/ RequestStart(p) \/ RequestEnable(p) \/ RequestStop(p) \/ RequestDelete(p)
          \/ LockToStart(p) \/ LockToStop(p) \/ Proceed(p)
          \/ StartFails(p) \/ DeleteTimesOut(p)
    \/ WatchdogScan
    \/ SessionConnects \/ SessionOnline \/ SessionDrops \/ SessionRetries
    \/ SessionRefused \/ SessionEnds
    \/ WriteDone
    \/ ReportFails

Spec == Init /\ [][Next]_vars

\* Requests go on, database calls end, waiters of an asyncio.Lock are woken
\* in FIFO order, the session task runs and the watchdog scans every 15 s.
Fairness ==
    /\ WF_vars(WriteDone)
    /\ WF_vars(WatchdogScan)
    /\ WF_vars(SessionConnects) /\ WF_vars(SessionRetries) /\ WF_vars(SessionEnds)
    /\ \A p \in Callers :
          /\ WF_vars(Proceed(p))
          /\ SF_vars(LockToStart(p)) /\ SF_vars(LockToStop(p))
FairSpec == Spec /\ Fairness

-----------------------------------------------------------------------------
(* Properties.                                                             *)

\* Every variable keeps its range.
TypeOK ==
    /\ enabled \in BOOLEAN /\ desired \in BOOLEAN /\ fenced \in BOOLEAN
    /\ stopped \in Stops \cup {"none"}
    /\ rstate \in States
    /\ writes \in Seq([state : States, who : Callers \cup {"session", "late"}])
    /\ sess \in [pc : {"none", "new", "connecting", "up", "dropping", "ending", "dead"},
                 online : BOOLEAN, current : BOOLEAN, stopping : BOOLEAN]
    /\ req \in [Callers -> [pc : {"idle", "lock", "shown"} \cup Locked,
                            op : AllOps \cup {"none", "recover"},
                            terminal : BOOLEAN, fresh : BOOLEAN]]
    /\ faults \in 0..MaxFaults

Settled == \A p \in Callers : req[p].pc \notin Locked

\* A session that runs while no request is replacing it has the current
\* generation: messages, states and cookies of a live connection are never
\* dropped by the generation check of its callbacks. The one exception is the
\* session a deletion has fenced.
NeverMuted == Settled /\ Running /\ ~fenced => sess.current

\* A connected session is shown as online once the writes are done, whatever
\* starts and timeouts it races with: "reconnecting" never overwrites it. Only
\* what a disable or a deletion writes without the lock can cover it.
OnlineShown ==
    Settled /\ Running /\ ~fenced /\ sess.pc = "up" /\ writes = <<>>
        => rstate \in {"online", "disabled", "deleting", "stopped"}

WatchdogRecovers ==
    (enabled /\ desired /\ ~Running) ~> (Running \/ ~enabled \/ ~desired)
RequestsEnd == \A p \in Callers : (req[p].pc # "idle") ~> (req[p].pc = "idle")

\* Every request ends, those that wait for the lock behind a session that never
\* comes online, or for a session that is slow to close, included; and a wanted
\* connection whose task has died is started again.
RuntimeGoesOn == RequestsEnd /\ WatchdogRecovers

-----------------------------------------------------------------------------
(* What one would expect of the code and does not hold: see README.md.      *)

\* What the test of the manual stop says: it also disables the recovery by the
\* watchdog, until a start is asked for.
ManualStopSticks == stopped = "stop" => ~Running

\* What prepare_delete says: one account is fenced, then its runtime stopped.
\* After that no connection runs that was not asked for since.
FenceHolds == stopped = "delete" => ~Running
=============================================================================
