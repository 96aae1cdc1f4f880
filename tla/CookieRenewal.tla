--------------------------- MODULE CookieRenewal ---------------------------
(***************************************************************************)
(* The Web cookie of one account: everyone who replaces it (renewal,       *)
(* keepalive, the session's token refresh, product and order tasks, QR     *)
(* login, the operator's edit), the renewal row that says whether a login  *)
(* is needed, and the cookie the running session uses.                     *)
(*                                                                         *)
(* A stored cookie is only ever compared with the one in the account row.  *)
(* So whoever holds one is described by two facts: whether it equals the   *)
(* row's cookie, and whether it descends from the last cookie an operator  *)
(* supplied. The account exists and is enabled throughout.                 *)
(***************************************************************************)
EXTENDS Naturals

CONSTANTS
    Clients,    \* concurrent requests and worker tasks
    Scenarios,  \* what they, the platform and the session do in a behaviour
    AttemptIds, \* bound: attempts that are open at once
    NoAttempt,
    MaxCrashes  \* bound: crashes of the API process

RenewalOps ==
    {"login", "update", "restart", "merge", "manual", "report", "refresh", "scan", "crash"}
Tasks == {"task", "keep", "sess", "conf"}

ASSUME ScenariosAssumption == Scenarios \subseteq SUBSET RenewalOps
ASSUME ClientsAssumption == Clients \cap (Tasks \cup {"live", "scan"}) = {}
ASSUME AttemptAssumption == NoAttempt \notin AttemptIds
ASSUME CrashAssumption == MaxCrashes \in Nat

Holders == Clients \cup Tasks \cup {"live"}
Procs   == Clients \cup Tasks \cup {"scan"}

VARIABLES
    kept,     \* the account row's cookie descends from the operator's last one
    holds,    \* [Holders -> what is known of the cookie each one holds]
    on,       \* a session runs, with the cookie holds["live"]
    row,      \* the cookie renewal row
    open,     \* attempts whose row says running or applying
    probing,  \* a keepalive is due: the last one is an interval ago
    recent,   \* last_succeeded_at is less than the interval ago
    pc,       \* [Procs -> where each one is]
    trig,     \* what the renewal task knows of its trigger ...
    prev,     \* ... and of the error kind before it
    evidence, \* history: failed checks seen, up to 2
    blame,    \* history: the cookie last found expired descends from the
              \* operator's last one
    ops,      \* the scenario
    crashes

renewalVars ==
    <<kept, holds, on, row, open, recent, probing, pc, trig, prev, evidence, blame, ops,
      crashes>>
cookies == <<kept, holds, on>>
renewal == <<row, open, recent, probing>>
checks == <<evidence, blame>>
env == <<ops, crashes>>

\* own: the session got it by a refresh that is not reported yet.
Cookie(same, line, own) == [same |-> same, line |-> line, own |-> own]
H(same, line) == Cookie(same, line, FALSE)
Nothing == H(FALSE, FALSE)
Row(state, trigger, active, err, next) ==
    [state |-> state, trigger |-> trigger, active |-> active, err |-> err,
     next |-> next, stale |-> FALSE]

Busy == {"running", "applying"}

\* A time after now; far if it is later than the last success and its interval
\* allow.
Future == {"later", "far"}
NeedsLogin == row.err = "expired" \* manual_action_required

RenewalInit ==
    /\ kept = TRUE
    /\ holds = [h \in Holders |-> Nothing]
    /\ on = FALSE
    /\ row = Row("idle", "none", NoAttempt, "none", "none")
    /\ open = {}
    /\ recent = FALSE /\ probing = FALSE
    /\ pc = [x \in Procs |-> "idle"]
    /\ trig = "none" /\ prev = "none"
    /\ evidence = 0 /\ blame = FALSE
    /\ ops \in Scenarios /\ crashes = 0

-----------------------------------------------------------------------------
(* Cookies.                                                                *)

Enter(x, label) == pc' = [pc EXCEPT ![x] = label]
Take(x, h) == holds' = [holds EXCEPT ![x] = h]
Drop(x) == Take(x, Nothing)
Stored == H(TRUE, kept)

\* The row's cookie becomes one derived from x's, which x holds from now on.
Derived(x) ==
    /\ kept' = holds[x].line
    /\ holds' = [h \in Holders |->
                   IF h = x THEN H(TRUE, holds[x].line)
                   ELSE Cookie(FALSE, holds[h].line, holds[h].own)]

\* The operator supplies a cookie: what the others hold is of an older line.
Supplied(x) ==
    /\ kept' = TRUE
    /\ blame' = FALSE
    /\ holds' = [h \in Holders |-> Cookie(h = x, h = x, h # x /\ holds[h].own)]

\* Mutant: the write does not compare.
MutBlindSwap(x) ==
    \/ Derived(x)
    \/ holds[x].same /\ UNCHANGED <<kept, holds>>

\* compare_and_set with the cookie x holds; the platform may have left it as
\* it was.
Swap(x) ==
    /\ holds[x].same
    /\ Derived(x) \/ UNCHANGED <<kept, holds>>

-----------------------------------------------------------------------------
(* The renewal task. trigger holds its lock from reading the status until  *)
(* the task is created.                                                    *)

Trigger(kind) ==
    /\ pc["task"] = "idle"
    /\ trig' = kind /\ prev' = row.err

Begin ==
    /\ pc["task"] = "begin"
    /\ \E a \in AttemptIds \ (open \cup {row.active}) :
          /\ row' = Row("running", trig, a, "none", "none")
          /\ open' = (open \ {row.active}) \cup {a}
    /\ Enter("task", "read")
    /\ UNCHANGED <<cookies, recent, probing, trig, prev, checks, env>>

\* _execute reads the account and the status again.
ReadAccount ==
    /\ pc["task"] = "read"
    /\ Take("task", Stored)
    /\ trig' = row.trigger
    /\ Enter("task", "renew")
    /\ UNCHANGED <<kept, on, renewal, prev, checks, env>>

\* The task is done: _discard_task forgets what it knew.
DiscardTask == Enter("task", "idle") /\ trig' = "none" /\ prev' = "none"

\* Mutant: one failed renewal is final.
MutErrorKind(candidate) == IF candidate THEN "expired" ELSE "other"

ErrorKind(candidate) ==
    IF ~candidate THEN "other"
    ELSE IF trig = "auth_recovery" \/ prev = "suspected" THEN "expired" ELSE "suspected"

Seen(n) == IF evidence = 2 THEN 2 ELSE evidence + n

\* fail_cookie_renewal writes whatever the row says by now.
RenewalFails ==
    /\ pc["task"] = "renew"
    /\ \E candidate \in BOOLEAN :
          LET err == ErrorKind(candidate)
          IN  /\ \E next \in IF err = "expired" THEN {"none"} ELSE Future :
                    row' = Row("failed", row.trigger, NoAttempt, err, next)
              /\ blame' = IF err = "expired" THEN holds["task"].line ELSE blame
              /\ evidence' = Seen(IF candidate THEN 1 ELSE 0)
    /\ open' = open \ {row.active}
    /\ Drop("task")
    /\ DiscardTask
    /\ UNCHANGED <<kept, on, recent, probing, env>>

\* Mutant: a conflict forgets the attempt without closing it.
MutConflictLeavesAttempt ==
    /\ pc["task"] = "renew"
    /\ \/ /\ Swap("task")
          /\ \E next \in Future : row' = Row("applying", row.trigger, row.active, "none", next)
          /\ Enter("task", "apply")
          /\ UNCHANGED <<trig, prev>>
       \/ /\ ~holds["task"].same
          /\ row' = Row("conflict", row.trigger, NoAttempt, "other", "later")
          /\ Drop("task") /\ UNCHANGED kept
          /\ DiscardTask
    /\ UNCHANGED <<on, open, recent, probing, checks, env>>

Persist ==
    /\ pc["task"] = "renew"
    /\ \/ /\ Swap("task")
          /\ \E next \in Future : row' = Row("applying", row.trigger, row.active, "none", next)
          /\ Enter("task", "apply")
          /\ UNCHANGED <<open, trig, prev>>
       \/ /\ ~holds["task"].same
          /\ row' = Row("conflict", row.trigger, NoAttempt, "other", "later")
          /\ open' = open \ {row.active}
          /\ Drop("task") /\ UNCHANGED kept
          /\ DiscardTask
    /\ UNCHANGED <<on, recent, probing, checks, env>>

Install(x, c) == holds' = [holds EXCEPT !["live"] = c, ![x] = Nothing]

\* replace_cookie under the account lock of the runtime: without a session it
\* does nothing, and a cookie the session refuses restarts it with the latest.
Replace(x) ==
    IF on THEN \E c \in {holds[x], Stored} : Install(x, c) ELSE Drop(x)

\* The renewed cookie goes to the session; a session that was found expired
\* is restarted with the latest record.
ApplyRenewed ==
    /\ pc["task"] = "apply"
    /\ \/ Replace("task") /\ UNCHANGED on
       \/ Install("task", Stored) /\ on' = TRUE
    /\ Enter("task", "finish")
    /\ UNCHANGED <<kept, renewal, trig, prev, checks, env>>

FinishRenewal ==
    /\ pc["task"] = "finish"
    /\ row' = Row("succeeded", row.trigger, NoAttempt, "none",
                  IF row.next = "far" THEN "later" ELSE row.next)
    /\ open' = open \ {row.active}
    /\ recent' = TRUE
    /\ DiscardTask
    /\ UNCHANGED <<cookies, probing, checks, env>>

-----------------------------------------------------------------------------
(* The scheduler: it decides on a status it read earlier.                  *)

Due == IF row.state \in Busy THEN row.stale ELSE row.next = "due"

\* Mutant: a row without a next attempt is left alone.
MutSkipUnscheduled ==
    IF row.next = "none" THEN "idle"
    ELSE IF row.next = "far" THEN "clamp"
    ELSE IF recent THEN IF row.next = "later" THEN "look" ELSE "defer"
    ELSE IF Due THEN "due" ELSE "look"

Decision ==
    IF row.next = "none" THEN "schedule"
    ELSE IF row.next = "far" THEN "clamp"
    ELSE IF recent THEN IF row.next = "later" THEN "look" ELSE "defer"
    ELSE IF Due THEN "due" ELSE "look"

ScanReads ==
    /\ pc["scan"] = "idle" /\ ~NeedsLogin /\ "scan" \in ops
    /\ Enter("scan", Decision)
    /\ UNCHANGED <<cookies, renewal, trig, prev, checks, env>>

ScanReschedules ==
    /\ \/ /\ pc["scan"] = "schedule"
          /\ \E next \in Future : row' = [row EXCEPT !.next = next, !.stale = FALSE]
          /\ Enter("scan", "idle")
       \/ /\ pc["scan"] = "clamp"
          /\ row' = [row EXCEPT !.next = IF recent THEN "later" ELSE "due", !.stale = FALSE]
          /\ Enter("scan", IF recent \/ row.state \in Busy THEN "look" ELSE "due")
       \/ /\ pc["scan"] = "defer"
          /\ row' = [row EXCEPT !.next = "later", !.stale = FALSE]
          /\ Enter("scan", "look")
    /\ UNCHANGED <<cookies, open, recent, probing, trig, prev, checks, env>>

ScanTriggers ==
    /\ pc["scan"] = "due"
    /\ \/ Trigger("scheduled") /\ pc' = [pc EXCEPT !["scan"] = "idle", !["task"] = "begin"]
       \/ pc["task"] # "idle" /\ Enter("scan", "idle") /\ UNCHANGED <<trig, prev>>
    /\ UNCHANGED <<cookies, renewal, checks, env>>

ScanKeepalive ==
    /\ pc["scan"] = "look"
    /\ IF probing /\ pc["task"] = "idle" /\ pc["keep"] = "idle"
       THEN /\ pc' = [pc EXCEPT !["scan"] = "idle", !["keep"] = "probe"]
            /\ probing' = FALSE
            /\ Take("keep", Stored)
       ELSE Enter("scan", "idle") /\ UNCHANGED <<holds, probing>>
    /\ UNCHANGED <<kept, on, row, open, recent, trig, prev, checks, env>>

\* With the default settings, 10 minutes for a keepalive and 5 for a row to be
\* stale, a row that is busy is stale before the next keepalive touches it, and
\* a keepalive is over before the next one is due.
KeepaliveComesDue ==
    /\ ~probing /\ pc["keep"] = "idle"
    /\ row.state \in Busy => row.stale /\ pc["scan"] = "idle"
    /\ probing' = TRUE
    /\ UNCHANGED <<cookies, row, open, recent, pc, trig, prev, checks, env>>

SuccessAges ==
    /\ recent
    /\ recent' = FALSE
    /\ UNCHANGED <<cookies, row, open, probing, pc, trig, prev, checks, env>>

AttemptComesDue ==
    /\ row.next \in Future
    /\ row' = [row EXCEPT !.next = "due"]
    /\ UNCHANGED <<cookies, open, recent, probing, pc, trig, prev, checks, env>>

RowGetsStale ==
    /\ row.state \in Busy /\ ~row.stale
    /\ row' = [row EXCEPT !.stale = TRUE]
    /\ UNCHANGED <<cookies, open, recent, probing, pc, trig, prev, checks, env>>

-----------------------------------------------------------------------------
(* The keepalive task.                                                     *)

\* handle_auth_expired: a confirmation, unless one runs or has been made.
Confirm(pc1) ==
    /\ evidence' = Seen(1)
    /\ IF NeedsLogin \/ pc["task"] # "idle"
       THEN pc' = pc1 /\ UNCHANGED <<trig, prev>>
       ELSE Trigger("auth_recovery") /\ pc' = [pc1 EXCEPT !["task"] = "begin"]

\* suspected_expired is looked at again after a delay; auth_expired is
\* confirmed at once; any other failure is only an event.
KeepaliveFails ==
    /\ pc["keep"] \in {"probe", "probeAgain"}
    /\ \/ Enter("keep", "idle") /\ UNCHANGED <<trig, prev, evidence>>
       \/ /\ pc["keep"] = "probe" /\ Enter("keep", "sleep")
          /\ evidence' = Seen(1) /\ UNCHANGED <<trig, prev>>
       \/ Confirm([pc EXCEPT !["keep"] = "idle"])
    /\ Drop("keep")
    /\ UNCHANGED <<kept, on, renewal, blame, env>>

KeepaliveWakes ==
    /\ pc["keep"] = "sleep"
    /\ Take("keep", Stored)
    /\ Enter("keep", "probeAgain")
    /\ UNCHANGED <<kept, on, renewal, trig, prev, checks, env>>

\* record_cookie_validation leaves a row alone when its cookie has changed.
KeepalivePersists ==
    /\ pc["keep"] \in {"probe", "probeAgain"}
    /\ \/ /\ Swap("keep")
          /\ row' = [row EXCEPT !.state = IF @ = "failed" /\ row.err # "expired" THEN "idle" ELSE @,
                                !.err = "none", !.stale = FALSE]
          /\ Enter("keep", "apply")
       \/ ~holds["keep"].same /\ Enter("keep", "idle") /\ Drop("keep") /\ UNCHANGED <<kept, row>>
    /\ UNCHANGED <<on, open, recent, probing, trig, prev, checks, env>>

KeepaliveApplies ==
    /\ pc["keep"] = "apply"
    /\ Replace("keep")
    /\ Enter("keep", "idle")
    /\ UNCHANGED <<kept, on, renewal, trig, prev, checks, env>>

-----------------------------------------------------------------------------
(* The session refreshes its token and reports the cookie it got.          *)

\* Bound: one conflict is being resolved at a time.
SessionRefreshes ==
    /\ on /\ pc["sess"] = "idle" /\ pc["conf"] = "idle" /\ "refresh" \in ops
    /\ holds' = [holds EXCEPT !["sess"] = H(holds["live"].same, holds["live"].line),
                              !["live"] = Cookie(FALSE, holds["live"].line, TRUE)]
    /\ Enter("sess", "swap")
    /\ UNCHANGED <<kept, on, renewal, trig, prev, checks, env>>

\* The session that refreshed may have been given another cookie meanwhile,
\* or have been replaced (then its generation is old and it is not heard).
SessionReports ==
    /\ pc["sess"] = "swap"
    /\ \/ /\ holds["sess"].same
          /\ kept' = holds["sess"].line
          /\ holds' = [h \in Holders |->
                         IF h = "sess" THEN Nothing
                         ELSE IF h = "live" /\ holds[h].own THEN H(TRUE, holds["sess"].line)
                         ELSE Cookie(FALSE, holds[h].line, holds[h].own)]
          /\ Enter("sess", "idle")
       \/ /\ ~holds["sess"].same
          /\ holds' = [holds EXCEPT !["conf"] = Stored, !["sess"] = Nothing]
          /\ pc' = [pc EXCEPT !["sess"] = "idle", !["conf"] = "apply"]
          /\ UNCHANGED kept
       \/ ~holds["live"].own /\ Enter("sess", "idle") /\ Drop("sess") /\ UNCHANGED kept
    /\ UNCHANGED <<on, renewal, trig, prev, checks, env>>

ConflictApplies ==
    /\ pc["conf"] = "apply"
    /\ Replace("conf")
    /\ Enter("conf", "idle")
    /\ UNCHANGED <<kept, on, renewal, trig, prev, checks, env>>

-----------------------------------------------------------------------------
(* Requests of operators, and product or order tasks of the worker.        *)

\* QR login: compare and set, then the renewal row, then the session.
LoginReads(p) ==
    /\ pc[p] = "idle" /\ "login" \in ops
    /\ Take(p, Stored)
    /\ Enter(p, "loginSwap")
    /\ UNCHANGED <<kept, on, renewal, trig, prev, checks, env>>

LoginPersists(p) ==
    /\ pc[p] = "loginSwap"
    /\ \/ holds[p].same /\ Supplied(p) /\ Enter(p, "mark")
       \/ ~holds[p].same /\ Drop(p) /\ UNCHANGED <<kept, blame>> /\ Enter(p, "idle")
    /\ UNCHANGED <<on, renewal, trig, prev, evidence, env>>

MarkLoginSuccess(p) ==
    /\ pc[p] = "mark"
    /\ \E next \in Future : row' = Row("idle", "none", NoAttempt, "none", next)
    /\ probing' = FALSE
    /\ Enter(p, "reread")
    /\ UNCHANGED <<cookies, open, recent, trig, prev, checks, env>>

RereadAccount(p) ==
    /\ pc[p] = "reread"
    /\ Take(p, Stored)
    /\ Enter(p, "start")
    /\ UNCHANGED <<kept, on, renewal, trig, prev, checks, env>>

\* A change of the proxy restarts the session with the record of the update.
RequestRestart(p) ==
    /\ pc[p] = "idle" /\ "restart" \in ops
    /\ Take(p, Stored)
    /\ Enter(p, "start")
    /\ UNCHANGED <<kept, on, renewal, trig, prev, checks, env>>

StartSessionFor(p) ==
    /\ pc[p] = "start"
    /\ Install(p, holds[p])
    /\ on' = TRUE
    /\ Enter(p, "idle")
    /\ UNCHANGED <<kept, renewal, trig, prev, checks, env>>

\* The operator pastes a cookie: a renewal in progress keeps the row.
UpdateCookie(p) ==
    /\ pc[p] = "idle" /\ "update" \in ops
    /\ Supplied(p)
    /\ IF row.state \in Busy THEN UNCHANGED <<row, recent>>
       ELSE /\ row' = Row("idle", "none", row.active, "none", "due")
            /\ recent' = FALSE
    /\ Enter(p, "replace")
    /\ UNCHANGED <<on, open, probing, trig, prev, evidence, env>>

ReplaceOrStart(p) ==
    /\ pc[p] = "replace"
    /\ IF on THEN Replace(p) ELSE Install(p, holds[p])
    /\ on' = TRUE
    /\ Enter(p, "idle")
    /\ UNCHANGED <<kept, renewal, trig, prev, checks, env>>

\* Cookies of platform answers are merged into the latest cookie, with three
\* attempts, then the API is asked to reload it.
MergeReads(p) ==
    /\ pc[p] \in {"idle", "mergeAgain"} /\ "merge" \in ops
    /\ Take(p, Stored)
    /\ Enter(p, "mergeSwap")
    /\ UNCHANGED <<kept, on, renewal, trig, prev, checks, env>>

MergePersists(p) ==
    /\ pc[p] = "mergeSwap"
    /\ \/ Swap(p) /\ Enter(p, "reload")
       \/ /\ ~holds[p].same /\ Drop(p) /\ UNCHANGED kept
          /\ \E label \in {"mergeAgain", "idle"} : Enter(p, label)
    /\ UNCHANGED <<on, renewal, trig, prev, checks, env>>

ReloadReads(p) ==
    /\ pc[p] = "reload"
    /\ Take(p, Stored)
    /\ Enter(p, "reloadApply")
    /\ UNCHANGED <<kept, on, renewal, trig, prev, checks, env>>

ReloadApplies(p) ==
    /\ pc[p] = "reloadApply"
    /\ Replace(p)
    /\ Enter(p, "idle")
    /\ UNCHANGED <<kept, on, renewal, trig, prev, checks, env>>

\* The manual renewal: refused while one runs or after a recent success.
RequestRenewal ==
    /\ "manual" \in ops /\ ~recent
    /\ Trigger("manual") /\ Enter("task", "begin")
    /\ UNCHANGED <<cookies, renewal, checks, env>>

\* A platform call of the runtime or of a task found the session expired.
ReportAuthFailure ==
    /\ "report" \in ops
    /\ Confirm(pc)
    /\ UNCHANGED <<cookies, renewal, blame, env>>

ApiCrash ==
    /\ "crash" \in ops /\ crashes < MaxCrashes
    /\ crashes' = crashes + 1
    /\ pc' = [x \in Procs |-> "idle"]
    /\ holds' = [h \in Holders |-> Nothing]
    /\ on' = FALSE
    /\ trig' = "none" /\ prev' = "none"
    /\ UNCHANGED <<kept, renewal, checks, ops>>

-----------------------------------------------------------------------------
RenewalStep == Begin \/ ReadAccount \/ RenewalFails \/ Persist \/ ApplyRenewed \/ FinishRenewal
ScanStep == ScanReads \/ ScanReschedules \/ ScanTriggers \/ ScanKeepalive
KeepaliveStep == KeepaliveFails \/ KeepaliveWakes \/ KeepalivePersists \/ KeepaliveApplies

RenewalNext ==
    \/ RenewalStep \/ ScanStep \/ KeepaliveStep
    \/ SessionRefreshes \/ SessionReports \/ ConflictApplies
    \/ \E p \in Clients :
          \/ LoginReads(p) \/ LoginPersists(p) \/ MarkLoginSuccess(p) \/ RereadAccount(p)
          \/ RequestRestart(p) \/ StartSessionFor(p)
          \/ UpdateCookie(p) \/ ReplaceOrStart(p)
          \/ MergeReads(p) \/ MergePersists(p) \/ ReloadReads(p) \/ ReloadApplies(p)
    \/ RequestRenewal \/ ReportAuthFailure
    \/ SuccessAges \/ AttemptComesDue \/ RowGetsStale \/ KeepaliveComesDue
    \/ ApiCrash

RenewalSpec == RenewalInit /\ [][RenewalNext]_renewalVars

\* The event loop runs every task, HTTP calls have timeouts, the scheduler
\* scans every minute and the clock goes on.
RenewalFairness ==
    /\ WF_renewalVars(RenewalStep) /\ WF_renewalVars(ScanStep)
    /\ WF_renewalVars(KeepaliveStep) /\ WF_renewalVars(SuccessAges)
    /\ WF_renewalVars(AttemptComesDue) /\ WF_renewalVars(RowGetsStale)
FairRenewal == RenewalSpec /\ RenewalFairness

-----------------------------------------------------------------------------
(* Properties.                                                             *)

\* Every variable keeps its range.
RenewalTypeOK ==
    /\ kept \in BOOLEAN /\ on \in BOOLEAN /\ recent \in BOOLEAN /\ probing \in BOOLEAN
    /\ blame \in BOOLEAN
    /\ holds \in [Holders -> [same : BOOLEAN, line : BOOLEAN, own : BOOLEAN]]
    /\ row \in [state : {"idle", "running", "applying", "succeeded", "failed", "conflict"},
                trigger : {"none", "manual", "scheduled", "auth_recovery"},
                active : AttemptIds \cup {NoAttempt},
                err : {"none", "suspected", "expired", "other"},
                next : Future \cup {"none", "due"}, stale : BOOLEAN]
    /\ open \subseteq AttemptIds
    /\ pc \in [Procs -> {"idle", "begin", "read", "renew", "apply", "finish", "schedule",
                         "clamp", "defer", "due", "look", "probe", "probeAgain", "sleep", "swap",
                         "loginSwap", "mark", "reread", "start", "replace", "mergeAgain",
                         "mergeSwap", "reload", "reloadApply"}]
    /\ trig \in {"none", "manual", "scheduled", "auth_recovery"}
    /\ prev \in {"none", "suspected", "expired", "other"}
    /\ evidence \in 0..2 /\ ops \in Scenarios /\ crashes \in 0..MaxCrashes

\* The stored cookie always descends from the one an operator supplied last,
\* by scanning or by pasting: no renewal, validation, token refresh or merge
\* that began with an older cookie ever brings the older line back.
OperatorCookieKept == kept

\* An operator is asked to log in only after two checks have failed, whichever
\* of renewal, keepalive and platform calls made them. One failed renewal by
\* itself leaves the cookie suspected.
LoginNeedsTwoChecks == NeedsLogin => evidence = 2

\* Where nobody logs in by QR code, the history shows no attempt as running but
\* the one the row refers to, also after interruptions, conflicts and restarts
\* of the process.
AttemptsTracked == "login" \notin ops => open \subseteq {row.active}

RunningEnds == (row.state \in Busy) ~> (row.state \notin Busy)
ScheduleGoesOn ==
    ("scan" \in ops /\ ~NeedsLogin) ~> (pc["task"] # "idle" \/ NeedsLogin)

\* A row that says running or applying does so for a finite time, although the
\* process may die with the task; and as long as no login is needed and the
\* scheduler scans there is always a next renewal.
RenewalGoesOn == RunningEnds /\ ScheduleGoesOn

-----------------------------------------------------------------------------
(* What one would expect of the code and does not hold: see README.md.      *)

\* What the test of the QR login says: a login clears the manual state. So the
\* account is not shown as needing one because of an older cookie.
LoginClearsManualState ==
    NeedsLogin /\ (\A p \in Clients : pc[p] # "mark") => blame

\* What persist_validated_cookie says: the cookie is stored and applied to the
\* runtime. So when nobody is at work on it, the session uses the stored one.
RuntimeUsesStoredCookie ==
    on /\ (\A x \in Procs \ {"scan"} : pc[x] = "idle") => holds["live"].same
=============================================================================
