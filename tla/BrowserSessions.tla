-------------------------- MODULE BrowserSessions --------------------------
(***************************************************************************)
(* The remote browsers of the API process: the pool of account browsers    *)
(* (VNC), the one reserved desktop for a QR login or a safety              *)
(* verification, the timers that close them, and the cookie that is taken  *)
(* from a browser when it closes.                                          *)
(*                                                                         *)
(* One asyncio lock serialises the operations of the manager; held is the  *)
(* operation that has it.  The rest of the program (cookie renewal, edits, *)
(* the runtime, a QR login that is being saved) works between its awaits.  *)
(***************************************************************************)
EXTENDS Naturals, Sequences, FiniteSets

CONSTANTS
    Accounts,  \* accounts, existing or to be created by a login
    Scenarios, \* what happens in a run, see MCBrowserSessions
    Callers,   \* requests that complete the QR login
    MaxPool,   \* account_browser_max_sessions
    Idle,      \* account_browser_idle_seconds, in ticks
    Life,      \* account_browser_max_session_seconds
    Reserved,  \* im_verification_session_seconds
    MaxSess,   \* bound: account browsers started
    MaxRows,   \* bound: verification rows of an account
    MaxVers,   \* bound: cookies
    MaxFaults  \* bound: failures and crashes

Ops    == {"vnc", "qr", "poll", "ver", "edit", "renew", "delete", "identity", "stop", "ticket", "crash"}
Owners == {"u", "w"}
ASSUME ScenariosAssumption ==
    /\ Scenarios \subseteq [ops : SUBSET Ops, exists : SUBSET Accounts,
                         scan : Accounts \cup {"new"}, faults : 0..MaxFaults,
                         sess : 0..MaxSess, vers : 1..MaxVers]
    /\ \A s \in Scenarios : "delete" \in s.ops => s.scan # "new"
ASSUME BoundAssumption ==
    /\ {MaxPool, Idle, Life, Reserved, MaxSess, MaxRows, MaxVers} \subseteq Nat \ {0}
    /\ MaxFaults \in Nat /\ Idle <= Life
    /\ {"new", "none", "tmp"} \cap Accounts = {} /\ "poll" \notin Callers

VARIABLES
    scen,    \* the scenario
    held,    \* the operation that holds the manager's lock
    desk,    \* _active, the session on the reserved desktop
    pool,    \* _account_actives: a function from session numbers to sessions
    pay,     \* Seq: status of each account browser, "gone": popped
    by,      \* [Accounts -> session number shown for the account, 0: none]
    qr,      \* the QR login session: [st, fin, acct, exp, gone, asked]
    qrp,     \* its entry of _qr_verifications
    call,    \* [Callers and "poll" -> a request that saves the login]
    ver,     \* [Accounts -> Seq: status of the verification rows]
    rt,      \* [Accounts -> "online", "risk" or "stopped"], the runtime's state
    exists,  \* the accounts in the database
    cookie,  \* [Accounts -> the stored cookie [own, v]]
    prev,    \* [Accounts -> the cookie before it]
    vers,    \* cookies there have been
    run,     \* [profiles -> browser processes that run with the profile]
    left,    \* desktops of account browsers that outlived the API
    stray,   \* profiles whose browser was left behind on the reserved desktop
    tickets, \* VNC tickets: <<session id, desktop>>
    cut,     \* history: the API died, an identity change took the desk, or the
             \* row of a session was not written after its desk was closed
    faults

memory == <<desk, pool, pay, by, qr, qrp, call, tickets>>
stored == <<ver, rt, exists, cookie, prev, vers>>
system == <<run, left, stray>>
vars   == <<scen, held, memory, stored, system, cut, faults>>

On(op)   == op \in scen.ops
Fault    == faults < scen.faults /\ faults' = faults + 1
Profiles == Accounts \cup {"tmp"}
None     == [own |-> "none", v |-> 0]
Ends     == {"completed", "failed", "expired", "cancelled"}

\* A session; exp and max are the ticks until its timer and its longest life
\* end; profile is the account or "tmp", the profile of a new login.
Sess(id, acct, profile, base, slot, exp, max) ==
    [id |-> id, acct |-> acct, profile |-> profile, base |-> base, slot |-> slot,
     exp |-> exp, max |-> max]
NoSess == Sess(<<"none", "none", 0>>, "none", "none", None, 0, 0, 0)
\* An operation in the lock; mine is the account's cookie as it read it, got
\* the cookie of the browser.
Op(op, id, acct, profile, base, pc) ==
    [op |-> op, id |-> id, acct |-> acct, profile |-> profile, base |-> base, pc |-> pc,
     slot |-> 0, max |-> 0, mine |-> None, got |-> None, why |-> "none"]
Free   == Op("free", <<"none", "none", 0>>, "none", "none", None, "none")
Done   == [pc |-> "done", acct |-> "none", cookie |-> None, cur |-> None]
NoCall == [pc |-> "idle", acct |-> "none", cookie |-> None, cur |-> None]

Init ==
    /\ scen \in Scenarios /\ held = Free /\ desk = NoSess
    /\ pool = [n \in {} |-> NoSess] /\ pay = <<>> /\ by = [a \in Accounts |-> 0]
    /\ qr = [st |-> "pending", fin |-> FALSE, acct |-> scen.scan,
             exp |-> Reserved, gone |-> ~On("qr"), asked |-> FALSE]
    /\ qrp = "none" /\ call = [c \in Callers \cup {"poll"} |-> NoCall]
    /\ ver = [a \in Accounts |-> <<>>] /\ rt = [a \in Accounts |-> "online"]
    /\ exists = scen.exists
    /\ cookie = [a \in Accounts |-> [own |-> "u", v |-> 1]] /\ prev = cookie /\ vers = 1
    /\ run = [p \in Profiles |-> 0] /\ left = {} /\ stray = {} /\ tickets = {}
    /\ cut = FALSE /\ faults = 0

-----------------------------------------------------------------------------
(* Cookies and rows.                                                       *)

\* The cookie c becomes the account's; a new one has the next number.
New(own) == [own |-> own, v |-> vers + 1]
Store(a, c) ==
    /\ c.v <= scen.vers
    /\ prev' = [prev EXCEPT ![a] = cookie[a]] /\ cookie' = [cookie EXCEPT ![a] = c]
    /\ vers' = IF c.v > vers THEN c.v ELSE vers
\* compare_and_set_account_cookie.
Swaps(a, old, c, ok) ==
    /\ ok = (a \in exists /\ cookie[a] = old)
    /\ IF ok THEN Store(a, c) ELSE UNCHANGED <<cookie, prev, vers>>
\* What a request that waited for the lock has read of the account.
Read(a) == {cookie[a], prev[a]}

\* record_im_verification: the last row if it is open, else a new one.
Recorded(a) ==
    IF a \notin exists THEN ver
    ELSE IF ver[a] # <<>> /\ ver[a][Len(ver[a])] \notin Ends
    THEN [ver EXCEPT ![a][Len(ver[a])] = "required"]
    ELSE [ver EXCEPT ![a] = Append(@, "required")]
MayRecord(a) == (ver[a] # <<>> /\ ver[a][Len(ver[a])] \notin Ends) \/ Len(ver[a]) < MaxRows
\* set_im_verification_state; nothing when the row is gone.
Set(f, id, st) == IF id[3] \in DOMAIN f[id[2]] THEN [f EXCEPT ![id[2]][id[3]] = st] ELSE f

-----------------------------------------------------------------------------
(* Closing.                                                                *)

Actives == ({desk} \ {NoSess}) \cup {pool[n] : n \in DOMAIN pool}
OfAccount(a) == {n \in DOMAIN pool : pool[n].acct = a}
\* Mutant: the tickets of a session survive it.
MutPurged(id) == tickets
Purged(id) == {t \in tickets : t[1] # id}
\* The browser ends, if it has not yet, or it does not close and is left behind.
Quits(p) ==
    \/ run' = [run EXCEPT ![p] = IF @ > 0 THEN @ - 1 ELSE 0]
    \/ On("crash") /\ run' = run
Remains(p)  == run[p] > 0 /\ run' = run
Spent(p, n) == /\ faults' = faults + n + (IF Remains(p) THEN 1 ELSE 0)
               /\ faults' <= scen.faults
\* What runs on the reserved desktop stays there: only the browser is closed.
Strays(p)   == stray' = IF Remains(p) THEN stray \cup {p} ELSE stray
\* _close_active_locked: no cookie is taken from the reserved desktop.
EmptiesDesk ==
    /\ desk' = NoSess /\ tickets' = Purged(desk.id)
    /\ Quits(desk.profile) /\ Strays(desk.profile)
ClosesDesk == EmptiesDesk /\ Spent(desk.profile, 0)
KeepsDesk == UNCHANGED <<desk, tickets, run, stray, faults>>

\* _close_session_resources of an account browser, up to the cookie check.
\* Whoever used the browser may be logged in as before, anew, as someone else
\* or not at all; v = 0 with an owner stands for a cookie that cannot be read.
Captured(s) ==
    {s.base, None, [own |-> "u", v |-> 0]} \cup {New(o) : o \in Owners}
BeginClose(n, why) ==
    /\ held = Free /\ n \in DOMAIN pool
    /\ \E got \in Captured(pool[n]) :
         /\ got.v <= scen.vers /\ vers' = IF got.v > vers THEN got.v ELSE vers
         /\ held' = [Op("close", pool[n].id, pool[n].acct, pool[n].profile, pool[n].base, "check")
                       EXCEPT !.got = got, !.why = why]
    /\ pool' = [m \in DOMAIN pool \ {n} |-> pool[m]] /\ tickets' = Purged(pool[n].id)
    /\ pay' = IF why = "close" THEN [pay EXCEPT ![n] = "closing"] ELSE pay
    /\ Quits(pool[n].profile) /\ Spent(pool[n].profile, 0)
    /\ UNCHANGED <<scen, desk, by, qr, qrp, call, ver, rt, exists, cookie, prev, left, stray, cut>>

Inner(pc) == held.op = "close" /\ held.pc = pc
Outside   == <<scen, memory, ver, rt, exists, system, cut, faults>>
\* _reconcile_account_browser_cookie: the owner first, then what the platform
\* says of the browser's cookie and of the stored one.
SameOwnerAs(a) ==
    /\ held.got # None /\ held.got.v # 0 => held.got.own = held.base.own
    /\ cookie[a].own = held.base.own
Checks == {"valid", "invalid", "unknown"}
CheckCookie ==
    /\ Inner("check") /\ UNCHANGED <<Outside, cookie, prev, vers>>
    /\ LET a == held.acct IN
       IF a \notin exists \/ ~SameOwnerAs(a) THEN held' = [held EXCEPT !.pc = "tell"]
       ELSE \E b, l \in Checks :
              /\ held.got = None => b = "invalid"
              /\ held.got.v = 0 /\ held.got # None => b = "unknown"
              /\ held.got = cookie[a] => l = b
              /\ held' = [held EXCEPT !.mine = cookie[a],
                            !.pc = IF b = "valid" THEN "persist"
                                   ELSE IF l = "valid" THEN "local" ELSE "tell"]
\* _persist_validated_browser_cookie: two attempts, the second with the cookie
\* that is stored by then.
Persist ==
    /\ held.op = "close" /\ held.pc \in {"persist", "again"} /\ UNCHANGED Outside
    /\ \E ok \in BOOLEAN :
         /\ Swaps(held.acct, held.mine, held.got, ok)
         /\ held' = [held EXCEPT !.pc = IF ok \/ held.pc = "again" THEN "tell" ELSE "latest"]
\* Mutant: the owner of the cookie stored meanwhile is not compared.
MutLatest ==
    /\ Inner("latest") /\ UNCHANGED <<Outside, cookie, prev, vers>>
    /\ held' = IF held.acct \in exists THEN [held EXCEPT !.mine = cookie[held.acct], !.pc = "again"]
               ELSE [held EXCEPT !.pc = "tell"]
Latest ==
    /\ Inner("latest") /\ UNCHANGED <<Outside, cookie, prev, vers>>
    /\ held' = IF held.acct \in exists /\ cookie[held.acct].own = held.mine.own
               THEN [held EXCEPT !.mine = cookie[held.acct], !.pc = "again"]
               ELSE [held EXCEPT !.pc = "tell"]
\* _persist_validated_local_cookie: the stored one as the platform renewed it.
PersistLocal ==
    /\ Inner("local") /\ UNCHANGED Outside /\ held' = [held EXCEPT !.pc = "tell"]
    /\ \E ok \in BOOLEAN, c \in {held.mine, New(held.mine.own)} :
         Swaps(held.acct, held.mine, c, ok)
\* The end of a close: what is shown; an identity change also takes the desk.
Tell ==
    /\ Inner("tell") /\ held' = Free
    /\ LET n == held.id[3] IN
       pay' = IF pay[n] = "gone" THEN pay
              ELSE [pay EXCEPT ![n] = IF held.why = "expire" THEN "expired" ELSE "closed"]
    /\ IF held.why = "identity" /\ desk.acct = held.acct
       THEN ClosesDesk /\ cut' = TRUE ELSE KeepsDesk /\ UNCHANGED cut
    /\ UNCHANGED <<scen, pool, by, qr, qrp, call, stored, left>>

-----------------------------------------------------------------------------
(* The operations that close: the operator's, the timers', the directory   *)
(* manager's, an identity change and a deletion.                           *)

\* What is shown of the session on the desk when it is closed.
DeskShows(st) ==
    /\ qrp' = IF desk.id[1] = "qr" THEN st ELSE qrp
    /\ ver' = IF desk.id[1] = "ver" THEN Set(ver, desk.id, st) ELSE ver
\* The row of a verification is written after the desk was closed; when that
\* fails it goes on saying what it said.
RowLost ==
    /\ desk.id[1] = "ver" /\ EmptiesDesk /\ Spent(desk.profile, 1)
    /\ UNCHANGED <<qrp, ver>> /\ cut' = TRUE
DropDesk(st) ==
    /\ held = Free /\ desk # NoSess
    /\ (ClosesDesk /\ DeskShows(st) /\ UNCHANGED cut) \/ RowLost
    /\ UNCHANGED <<scen, held, pool, pay, by, call, rt, exists, cookie, prev, vers, left>>

CloseAccountBrowser(n) ==
    On("vnc") /\ n \in DOMAIN pool /\ pay[n] # "gone" /\ BeginClose(n, "close")
\* Mutant: the timer ends only a session that is still shown.
MutExpireAccount(n) ==
    n \in DOMAIN pool /\ pool[n].exp = 0 /\ pay[n] = "ready" /\ BeginClose(n, "expire")
ExpireAccount(n) == n \in DOMAIN pool /\ pool[n].exp = 0 /\ BeginClose(n, "expire")
ExpireDesk == desk.exp = 0 /\ DropDesk("expired") /\ UNCHANGED qr
StopProfile(p) ==
    /\ On("stop") /\ held = Free
    /\ \/ \E n \in DOMAIN pool : pool[n].profile = p /\ BeginClose(n, "stop")
       \/ /\ desk.profile = p /\ DropDesk("cancelled")
          /\ qr' = IF desk.id[1] = "qr" THEN [qr EXCEPT !.st = "error"] ELSE qr
       \/ /\ \A s \in Actives : s.profile # p
          /\ run[p] > 0 /\ run' = [run EXCEPT ![p] = 0] /\ stray' = stray \ {p}
          /\ UNCHANGED <<scen, held, memory, stored, left, cut, faults>>
\* The row and the entry of the login keep what they say.
IdentityChange(a) ==
    /\ On("identity") /\ held = Free
    /\ \/ \E n \in OfAccount(a) : BeginClose(n, "identity")
       \/ /\ OfAccount(a) = {} /\ desk.acct = a /\ ClosesDesk /\ cut' = TRUE
          /\ UNCHANGED <<scen, held, pool, pay, by, qr, qrp, call, stored, left>>
PrepareDeletion(a) ==
    /\ On("delete") /\ a \in exists /\ held = Free
    /\ \/ \E n \in OfAccount(a) : BeginClose(n, "delete")
       \/ OfAccount(a) = {} /\ desk.acct = a /\ DropDesk("cancelled") /\ UNCHANGED qr
\* The worker deletes the account; then the API forgets what it showed.
DeleteAccount(a) ==
    /\ On("delete") /\ a \in exists /\ exists' = exists \ {a} /\ ver' = [ver EXCEPT ![a] = <<>>]
    /\ UNCHANGED <<scen, held, memory, rt, cookie, prev, vers, system, cut, faults>>
ForgetBrowser(a) ==
    /\ On("delete") /\ a \notin exists /\ held = Free /\ by[a] # 0
    /\ by' = [by EXCEPT ![a] = 0] /\ pay' = [pay EXCEPT ![by[a]] = "gone"]
    /\ UNCHANGED <<scen, held, desk, pool, qr, qrp, call, tickets, stored, system, cut, faults>>

-----------------------------------------------------------------------------
(* Starting.                                                               *)

\* The display, the VNC port and the CDP port of a slot are all free.
SlotFree(k) == k \notin left /\ \A n \in DOMAIN pool : pool[n].slot # k
FirstSlot == CHOOSE k \in 1..(MaxSess + 1) : SlotFree(k) /\ \A j \in 1..(k - 1) : ~SlotFree(j)
PoolFull == Cardinality(DOMAIN pool) >= MaxPool
\* start_account_browser, up to the first await.
StartAccountBrowser(a) ==
    /\ On("vnc") /\ held = Free /\ a \in exists
    /\ OfAccount(a) = {} /\ desk.acct # a /\ ~PoolFull
    /\ Len(pay) < scen.sess
    /\ LET n == Len(pay) + 1 IN
       /\ pay' = Append([m \in DOMAIN pay |-> IF m = by[a] THEN "gone" ELSE pay[m]], "starting")
       /\ by' = [by EXCEPT ![a] = n]
       /\ \E base \in Read(a) : held' = [Op("vnc", <<"vnc", a, n>>, a, a, base, "launch")
                                           EXCEPT !.slot = FirstSlot, !.max = Life]
    /\ UNCHANGED <<scen, desk, pool, qr, qrp, call, tickets, stored, system, cut, faults>>
\* start_qr_login.
StartQr ==
    /\ held = Free /\ qr.asked /\ desk = NoSess
    /\ OfAccount(qr.acct) = {}
    /\ qrp' = "starting" /\ qr' = [qr EXCEPT !.st = "browser", !.exp = Reserved, !.asked = FALSE]
    /\ LET a == IF qr.acct \in exists THEN qr.acct ELSE "new" IN
       \E base \in (IF a = "new" THEN {None} ELSE Read(a)) :
          held' = Op("qr", <<"qr", "new", 0>>, a, IF a = "new" THEN "tmp" ELSE a, base, "launch")
    /\ UNCHANGED <<scen, desk, pool, pay, by, call, tickets, stored, system, cut, faults>>
\* start_account_im_verification: a row that ended is followed by a new one.
StartVerification(a) ==
    /\ On("ver") /\ held = Free /\ a \in exists /\ rt[a] = "risk" /\ MayRecord(a)
    /\ OfAccount(a) = {} /\ desk = NoSess
    /\ LET f == IF ver[a] = <<>> \/ ver[a][Len(ver[a])] \in Ends THEN Recorded(a) ELSE ver
           id == <<"ver", a, Len(f[a])>>
       IN /\ ver' = Set(f, id, "starting")
          /\ \E base \in Read(a) : held' = Op("ver", id, a, a, base, "launch")
    /\ UNCHANGED <<scen, memory, rt, exists, cookie, prev, vers, system, cut, faults>>

Starting(pc) == held.op \in {"vnc", "qr", "ver"} /\ held.pc = pc
StartShows(st) ==
    /\ pay' = IF held.op = "vnc" THEN [pay EXCEPT ![held.id[3]] = st] ELSE pay
    /\ qrp' = IF held.op = "qr" THEN st ELSE qrp
    /\ ver' = IF held.op = "ver" THEN Set(ver, held.id, st) ELSE ver
\* Mutant: a browser that was left behind is not looked for.
MutProfileInUse(p) == FALSE
\* _prepare_account_browser_profile; the directory of a new login is not asked.
ProfileInUse(p) == p # "tmp" /\ run[p] > 0
\* _launch_browser.
Launch ==
    /\ Starting("launch") /\ ~ProfileInUse(held.profile)
    /\ run' = [run EXCEPT ![held.profile] = @ + 1]
    /\ held' = [held EXCEPT !.pc = IF held.op = "ver" THEN "url" ELSE "page"]
    /\ UNCHANGED <<scen, memory, stored, left, stray, cut, faults>>
\* The profile is in use, or something fails: what was started is closed, if it
\* can be; the desktop of an account browser is stopped with it.
StartFails ==
    /\ held.op \in {"vnc", "qr", "ver"} /\ StartShows("failed") /\ held' = Free
    /\ \/ Starting("launch") /\ ProfileInUse(held.profile) /\ UNCHANGED <<run, faults>>
       \/ Starting("launch") /\ Fault /\ UNCHANGED run
       \/ ~Starting("launch") /\ Quits(held.profile) /\ Spent(held.profile, 1)
    /\ IF Starting("launch") \/ held.op = "vnc" THEN UNCHANGED stray ELSE Strays(held.profile)
    /\ UNCHANGED <<scen, desk, pool, by, qr, call, tickets, rt, exists, cookie, prev, vers, left, cut>>
\* The timer of an account browser, put off to its longest life at most.
Touched(s) == [s EXCEPT !.exp = IF Idle < s.max THEN Idle ELSE s.max]
\* The session is entered, its timer runs and it is shown as ready.
BrowserReady ==
    /\ Starting("page") /\ StartShows("ready") /\ held' = Free
    /\ IF held.op = "vnc"
       THEN /\ pool' = [n \in DOMAIN pool \cup {held.id[3]} |->
                          IF n # held.id[3] THEN pool[n]
                          ELSE Touched(Sess(held.id, held.acct, held.profile, held.base,
                                            held.slot, Idle, held.max))]
            /\ UNCHANGED desk
       ELSE /\ desk' = Sess(held.id, held.acct, held.profile, held.base, 0,
                            IF held.op = "qr" THEN qr.exp ELSE Reserved, 0)
            /\ UNCHANGED pool
    /\ UNCHANGED <<scen, by, qr, call, tickets, rt, exists, cookie, prev, vers, system, cut, faults>>
\* start: the row cannot be written when the session is on the desk already;
\* the browser is closed, the session stays there until its timer ends it.
ReadyLost ==
    /\ Starting("page") /\ held.op = "ver" /\ held' = Free
    /\ desk' = Sess(held.id, held.acct, held.profile, held.base, 0, Reserved, 0)
    /\ Quits(held.profile) /\ Spent(held.profile, 1) /\ ver' = Set(ver, held.id, "failed")
    /\ UNCHANGED <<scen, pool, pay, by, qr, qrp, call, tickets, rt, exists, cookie, prev, vers, left, stray, cut>>
\* The address of the verification is fresh, or the platform is asked: it may
\* give another one, the token itself, or neither; the cookie it returns is
\* stored if nobody was faster.
VerificationUrl ==
    /\ Starting("url") /\ held' = [held EXCEPT !.pc = "page"]
    /\ \/ UNCHANGED <<ver, cookie, prev, vers>>
       \/ \E ok \in BOOLEAN : Swaps(held.acct, held.base, New(held.base.own), ok)
          /\ MayRecord(held.acct) /\ ver' = Recorded(held.acct)
    /\ UNCHANGED <<scen, memory, rt, exists, system, cut, faults>>
\* _resume_without_browser.
TokenGiven ==
    /\ Starting("url") /\ run' = [run EXCEPT ![held.profile] = @ - 1]
    /\ \E ok \in BOOLEAN : Swaps(held.acct, held.base, New(held.base.own), ok)
    /\ held' = [held EXCEPT !.op = "resume", !.pc = "start"]
    /\ UNCHANGED <<scen, memory, ver, rt, exists, left, stray, cut, faults>>

-----------------------------------------------------------------------------
(* complete: the safety verification was passed in the browser.            *)

CompleteVerification(a) ==
    /\ On("ver") /\ held = Free /\ desk.id[1] = "ver" /\ desk.acct = a /\ a \in exists
    /\ ver' = Set(ver, desk.id, "completing")
    /\ held' = [Op("complete", desk.id, a, a, desk.base, "cas") EXCEPT !.mine = cookie[a]]
    /\ UNCHANGED <<scen, memory, rt, exists, cookie, prev, vers, system, cut, faults>>
\* The x5 cookies are added to the cookie that was read; a browser without
\* them, of another account, or a cookie changed meanwhile ends the attempt.
EndsWith(st) == ver' = Set(ver, held.id, st) /\ held' = Free
SaveX5 ==
    /\ held.op = "complete" /\ held.pc = "cas" /\ ClosesDesk
    /\ \/ /\ EndsWith("failed") /\ UNCHANGED <<cookie, prev, vers>>
       \/ /\ Swaps(held.acct, held.mine, New(held.mine.own), TRUE)
          /\ held' = [held EXCEPT !.pc = "start"] /\ UNCHANGED ver
    /\ UNCHANGED <<scen, pool, pay, by, qr, qrp, call, rt, exists, left, cut>>
\* The runtime is started, of complete and of _resume_without_browser: online,
\* blocked again (the row is recorded as required by the session), or not up.
Resumed ==
    /\ held.op \in {"complete", "resume"} /\ held.pc = "start"
    /\ LET a == held.acct IN
       \/ a \in exists /\ EndsWith("completed") /\ rt' = [rt EXCEPT ![a] = "online"]
       \/ /\ a \in exists /\ MayRecord(a) /\ ver' = Recorded(a) /\ held' = Free
          /\ rt' = [rt EXCEPT ![a] = "risk"]
       \/ EndsWith("failed") /\ UNCHANGED rt
    /\ UNCHANGED <<scen, memory, exists, cookie, prev, vers, system, cut, faults>>
CancelVerification(a) ==
    /\ On("ver") /\ held = Free
    /\ \E i \in DOMAIN ver[a] :
         /\ ver[a][i] \notin Ends
         /\ \/ /\ ver' = [ver EXCEPT ![a][i] = "cancelled"] /\ UNCHANGED cut
               /\ IF desk.id = <<"ver", a, i>> THEN ClosesDesk ELSE KeepsDesk
            \/ desk.id = <<"ver", a, i>> /\ RowLost
    /\ UNCHANGED <<scen, held, pool, pay, by, qr, qrp, call, rt, exists, cookie, prev, vers, left>>

-----------------------------------------------------------------------------
(* The viewer: activity and tickets.                                       *)

\* _touch_account_browser_locked.
MayTouch(n) == held = Free /\ n \in DOMAIN pool /\ pay[n] = "ready" /\ pool[n].max > 0
TouchAccountBrowser(n) ==
    /\ On("vnc") /\ MayTouch(n) /\ pool' = [pool EXCEPT ![n] = Touched(@)]
    /\ UNCHANGED <<scen, held, desk, pay, by, qr, qrp, call, tickets, stored, system, cut, faults>>
IssueTicket ==
    /\ On("ticket") /\ held = Free
    /\ \/ /\ desk # NoSess /\ tickets' = tickets \cup {<<desk.id, 0>>} /\ UNCHANGED pool
       \/ \E n \in DOMAIN pool : /\ MayTouch(n) /\ pool' = [pool EXCEPT ![n] = Touched(@)]
                                 /\ tickets' = tickets \cup {<<pool[n].id, pool[n].slot>>}
    /\ UNCHANGED <<scen, held, desk, pay, by, qr, qrp, call, stored, system, cut, faults>>
\* consume_vnc_ticket; an old ticket is popped as well.
ConsumeTicket(t) ==
    /\ held = Free /\ t \in tickets /\ tickets' = tickets \ {t}
    /\ UNCHANGED <<scen, held, desk, pool, pay, by, qr, qrp, call, stored, system, cut, faults>>

-----------------------------------------------------------------------------
(* The QR login: polled over HTTP, or completed in the remote browser.     *)

Around == <<scen, held, desk, pool, pay, by, tickets, system, cut, faults>>
\* QRLoginSession.poll: what the platform says of the code.
PollQr ==
    /\ On("poll") /\ ~qr.gone /\ call["poll"].pc = "idle"
    /\ LET st == CASE qr.st \in {"completed", "error", "expired"} -> {qr.st}
                   [] qr.exp = 0 -> {"expired"}
                   [] qr.st \in {"finalizing", "browser"} -> {qr.st}
                   [] qr.st = "face" -> {"face", "finalizing", "error"}
                   [] OTHER -> {"pending", "face", "finalizing", "expired", "error"}
       IN \E s \in st :
            /\ qr' = [qr EXCEPT !.st = s, !.exp = IF s = "face" /\ qr.st # s THEN Reserved ELSE @]
            /\ call' = [call EXCEPT !["poll"].pc = IF s = "finalizing" /\ ~qr.fin THEN "final" ELSE "idle"]
    /\ UNCHANGED <<Around, qrp, stored>>
\* finalize_credentials: refused when the browser took over meanwhile.
FinalizePoll ==
    /\ call["poll"].pc = "final"
    /\ \/ /\ qr.st = "finalizing"
          /\ \E o \in Owners : /\ vers < scen.vers /\ vers' = vers + 1
                               /\ call' = [call EXCEPT !["poll"] = [@ EXCEPT !.pc = "read", !.cookie = New(o)]]
          /\ UNCHANGED qr
       \/ /\ qr' = [qr EXCEPT !.st = "error"] /\ call' = [call EXCEPT !["poll"] = NoCall]
          /\ UNCHANGED vers
    /\ UNCHANGED <<Around, qrp, ver, rt, exists, cookie, prev>>
\* start_xianyu_qr_browser_verification, up to the read of the account.
AskQr ==
    /\ ~qr.gone /\ qr.st # "completed" /\ ~qr.asked /\ qr' = [qr EXCEPT !.asked = TRUE]
    /\ UNCHANGED <<Around, qrp, call, stored>>
\* prepare_qr_login_completion: the login of the browser is checked; a refused
\* one leaves the browser open.
PrepareQr(c) ==
    /\ ~qr.gone /\ call[c].pc = "idle" /\ held = Free /\ desk.id[1] = "qr"
    /\ \/ /\ vers < scen.vers /\ vers' = vers + 1 /\ qrp' = "completing"
          /\ \E o \in Owners :
               /\ qr.acct \in exists => \E seen \in Read(qr.acct) : seen.own = o
               /\ call' = [call EXCEPT ![c] = [@ EXCEPT !.pc = "read", !.cookie = New(o)]]
       \/ qrp' = "ready" /\ UNCHANGED <<call, vers>>
    /\ UNCHANGED <<Around, qr, ver, rt, exists, cookie, prev>>
\* _persist_qr_login_credentials: the account is read and compared, its cookie
\* swapped; a login without an account makes one.
GivesUp(c) == call' = [call EXCEPT ![c].pc = "restore"]
SameLogin(c, cur) == call[c].cookie.own = cur.own
PersistRead(c) ==
    /\ call[c].pc = "read" /\ qr.acct # "new"
    /\ LET a == qr.acct IN
       IF a \in exists /\ SameLogin(c, cookie[a])
       THEN call' = [call EXCEPT ![c] = [@ EXCEPT !.pc = "cas", !.cur = cookie[a], !.acct = a]]
       ELSE GivesUp(c)
    /\ UNCHANGED <<Around, qr, qrp, stored>>
CreateAccount(c) ==
    /\ call[c].pc = "read" /\ qr.acct = "new"
    /\ \E a \in Accounts \ exists :
         /\ exists' = exists \cup {a} /\ Store(a, call[c].cookie) /\ qr' = [qr EXCEPT !.acct = a]
         /\ call' = [call EXCEPT ![c] = [@ EXCEPT !.pc = "start", !.acct = a]]
         /\ rt' = [rt EXCEPT ![a] = "stopped"]
    /\ UNCHANGED <<Around, qrp, ver>>
PersistCas(c) ==
    /\ call[c].pc = "cas" /\ UNCHANGED <<Around, qrp, ver, rt, exists>>
    /\ \E ok \in BOOLEAN :
         /\ Swaps(call[c].acct, call[c].cur, call[c].cookie, ok)
         /\ IF ok THEN /\ qr' = [qr EXCEPT !.acct = call[c].acct]
                       /\ call' = [call EXCEPT ![c].pc = "start"]
            ELSE GivesUp(c) /\ UNCHANGED qr
\* The runtime is started and the session marked completed.
StartRuntime(c) ==
    /\ call[c].pc = "start"
    /\ LET a == call[c].acct IN
       \/ a \notin exists /\ GivesUp(c) /\ UNCHANGED <<qr, rt, ver>>
       \/ /\ a \in exists /\ qr' = [qr EXCEPT !.st = "completed", !.fin = TRUE]
          /\ call' = [call EXCEPT ![c] = IF c = "poll" THEN NoCall ELSE [@ EXCEPT !.pc = "finish"]]
          /\ \/ rt' = [rt EXCEPT ![a] = "online"] /\ UNCHANGED ver
             \/ MayRecord(a) /\ rt' = [rt EXCEPT ![a] = "risk"] /\ ver' = Recorded(a)
    /\ UNCHANGED <<Around, qrp, exists, cookie, prev, vers>>
FailPoll ==
    /\ call["poll"].pc = "restore" /\ qr' = [qr EXCEPT !.st = "error"]
    /\ call' = [call EXCEPT !["poll"] = NoCall] /\ UNCHANGED <<Around, qrp, stored>>

QrDesk == IF desk.id[1] = "qr" THEN ClosesDesk ELSE KeepsDesk
Rest   == <<scen, held, pool, pay, by, stored, left, cut>>
FinishQr(c) ==
    /\ call[c].pc = "finish" /\ held = Free /\ QrDesk /\ qrp' = "completed"
    /\ call' = [call EXCEPT ![c] = Done] /\ UNCHANGED <<Rest, qr>>
\* Mutant: the entry says ready also when the browser was closed meanwhile.
MutRestoreQr(c) ==
    /\ c # "poll" /\ call[c].pc = "restore" /\ held = Free /\ call' = [call EXCEPT ![c] = Done]
    /\ qrp' = "ready" /\ UNCHANGED <<Around, qr, stored>>
RestoreQr(c) ==
    /\ c # "poll" /\ call[c].pc = "restore" /\ held = Free /\ call' = [call EXCEPT ![c] = Done]
    /\ qrp' = IF desk.id[1] = "qr" THEN "ready" ELSE qrp
    /\ UNCHANGED <<Around, qr, stored>>
CancelQr ==
    /\ On("qr") /\ ~qr.gone /\ held = Free /\ QrDesk /\ qrp' = "cancelled"
    /\ qr' = [qr EXCEPT !.st = "error"] /\ UNCHANGED <<Rest, call>>
\* The session is dropped; its browser is closed in one of its states only.
DeleteQr ==
    /\ On("qr") /\ ~qr.gone /\ qr' = [qr EXCEPT !.st = "error", !.gone = TRUE]
    /\ IF qr.st = "browser" THEN held = Free /\ QrDesk /\ qrp' = "cancelled"
       ELSE KeepsDesk /\ UNCHANGED qrp
    /\ UNCHANGED <<Rest, call>>
\* _cleanup_qr_sessions_loop.
CleanupQr ==
    /\ ~qr.gone /\ (qr.exp = 0 \/ qr.fin) /\ call["poll"].pc = "idle"
    /\ qr' = [qr EXCEPT !.gone = TRUE] /\ UNCHANGED <<Around, qrp, call, stored>>

-----------------------------------------------------------------------------
(* The rest of the program, time and crashes.                              *)

Others == <<scen, held, memory, system, cut, faults>>
\* The operator stores a cookie, of this owner or another.
Edit(a) ==
    /\ On("edit") /\ a \in exists /\ \E o \in Owners : Store(a, New(o))
    /\ UNCHANGED <<Others, ver, rt, exists>>
\* The cookie renewal stores the renewed cookie.
Renew(a) ==
    /\ On("renew") /\ a \in exists /\ Store(a, New(cookie[a].own))
    /\ UNCHANGED <<Others, ver, rt, exists>>
\* The session of the account meets a risk check.
RiskDetected(a) ==
    /\ On("ver") /\ a \in exists /\ rt[a] = "online" /\ MayRecord(a)
    /\ rt' = [rt EXCEPT ![a] = "risk"] /\ ver' = Recorded(a)
    /\ UNCHANGED <<Others, exists, cookie, prev, vers>>
\* Every timer runs down.
Down(t) == IF t > 0 THEN t - 1 ELSE 0
Tick ==
    /\ \E t \in {desk.exp, qr.exp, held.max} \cup {pool[n].max : n \in DOMAIN pool} : t > 0
    /\ desk' = [desk EXCEPT !.exp = Down(@)] /\ qr' = [qr EXCEPT !.exp = Down(@)]
    /\ pool' = [n \in DOMAIN pool |-> [pool[n] EXCEPT !.exp = Down(@), !.max = Down(@)]]
    /\ held' = [held EXCEPT !.max = Down(@)]
    /\ UNCHANGED <<scen, pay, by, qrp, call, tickets, stored, system, cut, faults>>
\* The API dies; its browsers and desktops die with it or outlive it.
Slots == {pool[n].slot : n \in DOMAIN pool} \cup (IF held.op = "vnc" THEN {held.slot} ELSE {})
OnReserved ==
    {p \in Profiles :
        \/ /\ desk.profile = p /\ run[p] > 0
        \/ /\ held.op \in {"qr", "ver"} /\ held.pc # "launch" /\ held.profile = p}
Crash ==
    /\ On("crash") /\ Fault /\ cut' = TRUE /\ held' = Free /\ desk' = NoSess
    /\ pool' = [n \in {} |-> NoSess] /\ pay' = [n \in DOMAIN pay |-> "gone"]
    /\ by' = [a \in Accounts |-> 0] /\ qr' = [qr EXCEPT !.gone = TRUE, !.asked = FALSE]
    /\ qrp' = "none" /\ call' = [c \in DOMAIN call |-> NoCall] /\ tickets' = {}
    /\ \/ run' = [p \in Profiles |-> 0] /\ left' = {} /\ stray' = {}
       \/ UNCHANGED run /\ left' = left \cup Slots /\ stray' = stray \cup OnReserved
    /\ UNCHANGED <<scen, stored>>

HolderStep == \/ CheckCookie \/ Persist \/ Latest \/ PersistLocal \/ Tell
              \/ Launch \/ StartFails \/ BrowserReady \/ ReadyLost \/ VerificationUrl \/ TokenGiven
              \/ SaveX5 \/ Resumed
SaveLogin(c) == \/ PersistRead(c) \/ CreateAccount(c) \/ PersistCas(c) \/ StartRuntime(c)
                \/ FinishQr(c) \/ RestoreQr(c)
Browsers == 1..MaxSess
Next ==
    \/ HolderStep \/ ExpireDesk \/ Tick
    \/ \E n \in Browsers : CloseAccountBrowser(n) \/ ExpireAccount(n) \/ TouchAccountBrowser(n)
    \/ \E a \in Accounts :
         \/ IdentityChange(a) \/ PrepareDeletion(a) \/ DeleteAccount(a) \/ ForgetBrowser(a)
         \/ StartAccountBrowser(a) \/ StartVerification(a) \/ CompleteVerification(a)
         \/ CancelVerification(a) \/ Edit(a) \/ Renew(a) \/ RiskDetected(a)
    \/ \E p \in Profiles : StopProfile(p)
    \/ IssueTicket \/ \E t \in tickets : ConsumeTicket(t)
    \/ AskQr \/ StartQr \/ PollQr \/ FinalizePoll \/ FailPoll \/ CancelQr \/ DeleteQr \/ CleanupQr
    \/ \E c \in Callers : PrepareQr(c)
    \/ \E c \in DOMAIN call : SaveLogin(c)
    \/ Crash

Spec == Init /\ [][Next]_vars
\* Time passes; an operation in the lock goes on; the lock is handed out in
\* turn, so a timer that waits for it gets it.
FairSpec ==
    /\ Spec /\ WF_vars(Tick) /\ WF_vars(HolderStep) /\ SF_vars(ExpireDesk)
    /\ SF_vars(\E n \in Browsers : ExpireAccount(n))

-----------------------------------------------------------------------------
(* Properties.                                                             *)

\* The account browsers never exceed the pool, whatever order the starts,
\* closes and crashes take (start_account_browser).
TypeOK ==
    /\ held.op \in {"free", "vnc", "qr", "ver", "complete", "resume", "close"}
    /\ DOMAIN pool \subseteq DOMAIN pay /\ Cardinality(DOMAIN pool) <= MaxPool
    /\ qrp \in {"none", "starting", "ready", "completing"} \cup Ends
    /\ exists \subseteq Accounts /\ vers \in 1..MaxVers
    /\ \A a \in Accounts : cookie[a] \in [own : Owners, v : 1..vers] /\ by[a] \in {0} \cup DOMAIN pay
    /\ run \in [Profiles -> Nat]

\* Two browsers never run with the profile directory of an account, also not
\* when the API died and its browser lives on (_launch_account_browser,
\* profile_in_use).
OneBrowserPerProfile == \A a \in Accounts : run[a] <= 1

OwnDesktop ==
    /\ \A m, n \in DOMAIN pool : m # n => pool[m].slot # pool[n].slot
    /\ \A n \in DOMAIN pool : pool[n].slot \notin left \cup {0}
TicketsLive ==
    \A t \in tickets : \E s \in Actives : <<s.id, s.slot>> = t

\* An account browser has its desktop to itself: two never share one, none is on
\* the reserved desktop, and none takes one of a browser that outlived the API
\* (_start_account_visual_desktop_locked). And a VNC ticket, of an account
\* browser or of the reserved desktop, opens the desktop of the session it was
\* issued for: when the session is closed its tickets are gone, so none opens
\* the session that comes after it (_close_session_resources). What an earlier
\* session left on the reserved desktop is another matter, see ReservedIsPrivate.
AccountDesktopIsPrivate == OwnDesktop /\ TicketsLive

\* What is shown as ready is there: the account's browser in the pool, the
\* login or the verification on the reserved desktop (after a crash, an identity
\* change or a row that could not be written it may be older than that).
ShownIsTrue ==
    held = Free =>
      /\ \A n \in DOMAIN pay : pay[n] = "ready" => n \in DOMAIN pool
      /\ ~cut /\ qrp = "ready" => desk.id[1] = "qr"
      /\ ~cut => \A a \in Accounts : \A i \in DOMAIN ver[a] :
                   ver[a][i] = "ready" => desk.id = <<"ver", a, i>>

\* The cookie of an account passes to another platform account only by the
\* operator's own edit: no browser that closes, no login and no verification
\* stores the cookie of someone else, whatever was stored meanwhile
\* (_reconcile_account_browser_cookie, _persist_qr_login_credentials).
SameOwner ==
    [][\A a \in exists : cookie'[a].own # cookie[a].own => Edit(a)]_vars

\* A browser is closed in the end, however long it is used: activity puts the
\* timer off to the longest life only (_touch_account_browser_locked,
\* _expire_session).
SessionsEnd ==
    /\ \A n \in Browsers : (n \in DOMAIN pool) ~> (n \notin DOMAIN pool)
    /\ (desk # NoSess) ~> (desk = NoSess)

-----------------------------------------------------------------------------
(* What a reader may expect and the code does not ensure, see the README.  *)

\* Whoever logs in or verifies on the reserved desktop has it to himself. The
\* desktop is used again when its display is there (_ensure_visual_desktop), so
\* a browser that was not closed, or that outlived the API, is on it.
ReservedIsPrivate == desk # NoSess => stray = {}
=============================================================================
