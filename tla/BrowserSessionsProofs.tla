----------------------- MODULE BrowserSessionsProofs -----------------------
(***************************************************************************)
(* Proofs about BrowserSessions for any accounts, requests, timers, pool,  *)
(* faults and scenarios: one browser per profile, desktops of account      *)
(* browsers and tickets that are private, statuses that are true, and      *)
(* cookies that stay with their owner.                                     *)
(***************************************************************************)
EXTENDS BrowserSessions, FiniteSetTheorems, WellFoundedInduction, TLAPS

Cookies == [own : Owners \cup {"none"}, v : Nat]
Ids == {<<"none", "none", 0>>, <<"qr", "new", 0>>} \cup ({"vnc", "ver"} \X Accounts \X Nat)
Names == Accounts \cup {"new", "none"}
Sessions == [id : Ids, acct : Names, profile : Profiles \cup {"none"}, base : Cookies,
             slot : Nat, exp : Nat, max : Nat]
Starts == {"vnc", "qr", "ver"}
Helds == [op : Starts \cup {"free", "complete", "resume", "close"}, id : Ids, acct : Names,
          profile : Profiles \cup {"none"}, base : Cookies,
          pc : {"none", "launch", "page", "url", "cas", "start", "check", "persist", "latest",
                "again", "local", "tell"},
          slot : Nat, max : Nat, mine : Cookies, got : Cookies,
          why : {"none", "close", "expire", "stop", "identity", "delete"}]
Shows == {"none", "starting", "ready", "closing", "closed", "required", "completing", "gone"} \cup Ends
Logins == [st : {"pending", "face", "finalizing", "browser"} \cup {"completed", "error", "expired"},
           fin : BOOLEAN, acct : Accounts \cup {"new"}, exp : Nat, gone : BOOLEAN, asked : BOOLEAN]
Requests == Callers \cup {"poll"}
Calls == [pc : {"idle", "final", "read", "cas", "start", "restore", "finish", "done"},
          acct : Accounts \cup {"none"}, cookie : Cookies, cur : Cookies]

TypedCore ==
    /\ scen \in Scenarios
    /\ held \in Helds
    /\ desk \in Sessions
    /\ pool \in [DOMAIN pool -> Sessions] /\ DOMAIN pool \subseteq 1..Len(pay)
    /\ pay \in Seq(Shows) /\ Len(pay) <= MaxSess
    /\ by \in [Accounts -> Nat]
    /\ run \in [Profiles -> Nat]
TypedData ==
    /\ qr \in Logins
    /\ qrp \in Shows
    /\ call \in [Requests -> Calls]
    /\ ver \in [Accounts -> Seq(Shows)]
    /\ exists \subseteq Accounts
    /\ cookie \in [Accounts -> Cookies] /\ prev \in [Accounts -> Cookies] /\ vers \in Nat

(* Whose session it is: an account browser has the profile of its account, *)
(* the reserved desktop is a login's or a verification's, and what holds   *)
(* the lock knows which.                                                   *)
PoolOK ==
    \A n \in DOMAIN pool : /\ pool[n].acct \in Accounts /\ pool[n].profile \in Accounts
                           /\ pool[n].id = <<"vnc", pool[n].acct, n>>
DeskOK ==
    /\ desk.id[1] \in {"none", "qr", "ver"}
    /\ desk.id[1] = "none" => desk = NoSess
    /\ desk.id[1] # "none" => desk.profile \in Profiles
HeldOK ==
    /\ held.op # "free" => held.profile \in Profiles
    /\ held.op \in {"vnc", "close"} =>
         /\ held.id[1] = "vnc" /\ held.acct \in Accounts /\ held.profile \in Accounts
         /\ held.id = <<"vnc", held.acct, held.id[3]>>
         /\ held.id[3] \in 1..Len(pay) /\ held.id[3] \notin DOMAIN pool
    /\ held.op \in {"ver", "complete", "resume"} => held.id[1] = "ver" /\ held.acct \in Accounts
    /\ held.op = "qr" => held.id[1] = "qr"
    /\ held.op \in {"qr", "ver"} => desk = NoSess
    /\ held.op = "complete" /\ held.pc = "cas" => desk.id = held.id

(* One browser per profile: who started one has it running.                *)
RunOK ==
    /\ held.op \in Starts /\ held.pc \in {"page", "url"} => run[held.profile] > 0
    /\ held.op \in Starts => held.pc \in {"launch", "page", "url"}
    /\ OneBrowserPerProfile

(* Only a verification asks for its address.                               *)
UrlOK == held.op \in Starts /\ held.pc = "url" => held.op = "ver"

(* The desktops in use are never more than the browsers there have been,   *)
(* so there is a free one.                                                 *)
Used == left \cup {pool[n].slot : n \in DOMAIN pool}
SlotsCounted ==
    /\ IsFiniteSet(Used)
    /\ Cardinality(Used) <= Len(pay) /\ (held.op = "vnc" => Cardinality(Used) < Len(pay))

Core == TypedCore /\ PoolOK /\ DeskOK /\ HeldOK /\ RunOK /\ UrlOK /\ SlotsCounted
IInv == Core /\ TypedData

(* A start of an account browser in the lock has a desktop that nobody     *)
(* uses and that is not the reserved one.                                  *)
SlotTaken == held.op = "vnc" => held.slot \notin Used \cup {0}
(* The reserved desktop is desktop 0.                                      *)
DeskSlot == desk.slot = 0
Desktops == OwnDesktop /\ SlotTaken /\ DeskSlot /\ TicketsLive

(* A row that says ready has its session, unless it is being closed.       *)
BrowserShown ==
    \A n \in 1..Len(pay) : pay[n] = "ready"
       => n \in DOMAIN pool \/ (held.op = "close" /\ held.id[3] = n)
LoginShown == ~cut /\ qrp = "ready" => desk.id[1] = "qr"
RowShown ==
    ~cut => \A a \in Accounts : \A i \in 1..Len(ver[a]) :
              ver[a][i] = "ready" => desk.id = <<"ver", a, i>> /\ held.op # "complete"
Shown == BrowserShown /\ LoginShown /\ RowShown

(* A cookie about to be stored is the owner's of the one it replaces.      *)
HeldOwner == held.op = "close" /\ held.pc \in {"persist", "latest", "again"} => held.got.own = held.mine.own
CallOwner == \A c \in Requests : call[c].pc = "cas" => call[c].cookie.own = call[c].cur.own
OwnersKept == HeldOwner /\ CallOwner

-----------------------------------------------------------------------------
(* Facts about the operators of the model.                                 *)

LEMMA Bounds ==
    /\ MaxSess \in Nat \ {0} /\ Idle \in Nat /\ Life \in Nat /\ Reserved \in Nat
    /\ "new" \notin Accounts /\ "none" \notin Accounts /\ "tmp" \notin Accounts
    /\ "poll" \notin Callers
  <1>1. {MaxPool, Idle, Life, Reserved, MaxSess, MaxRows, MaxVers} \subseteq Nat \ {0}
    BY BoundAssumption
  <1>2. {"new", "none", "tmp"} \cap Accounts = {} /\ "poll" \notin Callers
    BY BoundAssumption
  <1> QED BY <1>1, <1>2

LEMMA ScenarioFacts ==
    ASSUME NEW s \in Scenarios
    PROVE  s.exists \subseteq Accounts /\ s.scan \in Accounts \cup {"new"} /\ s.sess <= MaxSess /\ s.sess \in Nat
  <1>1. s \in [ops : SUBSET Ops, exists : SUBSET Accounts, scan : Accounts \cup {"new"},
               faults : 0..MaxFaults, sess : 0..MaxSess, vers : 1..MaxVers]
    BY ScenariosAssumption
  <1> QED BY <1>1, Bounds

LEMMA CookieTypes ==
    /\ None \in Cookies /\ [own |-> "u", v |-> 0] \in Cookies /\ [own |-> "u", v |-> 1] \in Cookies
    /\ vers \in Nat => \A o \in Owners \cup {"none"} : New(o) \in Cookies
  BY DEF None, Cookies, Owners, New

LEMMA SeqExcept ==
    ASSUME NEW S, NEW q \in Seq(S), NEW i, NEW e \in S
    PROVE  /\ [q EXCEPT ![i] = e] \in Seq(S) /\ Len([q EXCEPT ![i] = e]) = Len(q)
           /\ \A j \in 1..Len(q) : [q EXCEPT ![i] = e][j] = IF j = i THEN e ELSE q[j]
  <1>1. q \in [1..Len(q) -> S] /\ Len(q) \in Nat
    OBVIOUS
  <1>2. PICK r : r = [q EXCEPT ![i] = e]
    OBVIOUS
  <1>3. r \in [1..Len(q) -> S]
    BY <1>1, <1>2
  <1>4. r \in Seq(S) /\ Len(r) = Len(q)
    BY <1>1, <1>3
  <1>5. \A j \in 1..Len(q) : r[j] = IF j = i THEN e ELSE q[j]
    BY <1>1, <1>2
  <1> QED BY <1>2, <1>4, <1>5

LEMMA IdFacts ==
    ASSUME NEW id \in Ids
    PROVE  /\ id[1] \in {"none", "qr", "vnc", "ver"} /\ id[3] \in Nat
           /\ id[1] \in {"vnc", "ver"} => id[2] \in Accounts /\ id = <<id[1], id[2], id[3]>>
  BY DEF Ids

LEMMA SetType ==
    ASSUME NEW f \in [Accounts -> Seq(Shows)], NEW id \in Ids, id[1] = "ver", NEW st \in Shows
    PROVE  /\ Set(f, id, st) \in [Accounts -> Seq(Shows)]
           /\ \A a \in Accounts : Len(Set(f, id, st)[a]) = Len(f[a])
           /\ \A a \in Accounts : \A i \in 1..Len(f[a]) :
                Set(f, id, st)[a][i] = IF id = <<"ver", a, i>> THEN st ELSE f[a][i]
  <1>1. id[2] \in Accounts /\ id = <<"ver", id[2], id[3]>> /\ f[id[2]] \in Seq(Shows)
    BY IdFacts
  <1>2. CASE id[3] \in DOMAIN f[id[2]]
    <2>1. Set(f, id, st) = [f EXCEPT ![id[2]] = [@ EXCEPT ![id[3]] = st]]
      BY <1>2 DEF Set
    <2> DEFINE q == [f[id[2]] EXCEPT ![id[3]] = st]
    <2>2. /\ q \in Seq(Shows) /\ Len(q) = Len(f[id[2]])
          /\ \A j \in 1..Len(f[id[2]]) : q[j] = IF j = id[3] THEN st ELSE f[id[2]][j]
      BY <1>1, SeqExcept
    <2>3. \A a \in Accounts : Set(f, id, st)[a] = IF a = id[2] THEN q ELSE f[a]
      BY <2>1
    <2>4. Set(f, id, st) \in [Accounts -> Seq(Shows)]
      BY <2>1, <2>2
    <2> HIDE DEF q
    <2>5. ASSUME NEW a \in Accounts, NEW i \in 1..Len(f[a])
          PROVE  Set(f, id, st)[a][i] = IF id = <<"ver", a, i>> THEN st ELSE f[a][i]
      <3>1. CASE a = id[2]
        BY <1>1, <2>2, <2>3, <2>5, <3>1
      <3>2. CASE a # id[2]
        BY <1>1, <2>3, <2>5, <3>2
      <3> QED BY <3>1, <3>2
    <2> QED BY <1>1, <2>2, <2>3, <2>4, <2>5
  <1>3. CASE id[3] \notin DOMAIN f[id[2]]
    <2>1. Set(f, id, st) = f
      BY <1>3 DEF Set
    <2>2. ASSUME NEW a \in Accounts, NEW i \in 1..Len(f[a]) PROVE id # <<"ver", a, i>>
      <3>1. SUFFICES ASSUME id = <<"ver", a, i>> PROVE FALSE
        OBVIOUS
      <3>2. id[2] = a /\ id[3] = i
        BY <3>1
      <3>3. DOMAIN f[a] = 1..Len(f[a])
        OBVIOUS
      <3> QED BY <1>3, <2>2, <3>2, <3>3
    <2> QED BY <2>1, <2>2
  <1> QED BY <1>2, <1>3

LEMMA RecordedType ==
    ASSUME NEW a \in Accounts, ver \in [Accounts -> Seq(Shows)]
    PROVE  /\ Recorded(a) \in [Accounts -> Seq(Shows)]
           /\ \A b \in Accounts : \A i \in 1..Len(Recorded(a)[b]) :
                Recorded(a)[b][i] # "required" => i \in 1..Len(ver[b]) /\ Recorded(a)[b][i] = ver[b][i]
  <1>0. "required" \in Shows /\ ver[a] \in Seq(Shows) /\ Len(ver[a]) \in Nat
    BY DEF Shows
  <1>1. CASE a \notin exists
    BY <1>1 DEF Recorded
  <1>2. CASE a \in exists /\ ver[a] # <<>> /\ ver[a][Len(ver[a])] \notin Ends
    <2> DEFINE q == [ver[a] EXCEPT ![Len(ver[a])] = "required"]
    <2>1. /\ q \in Seq(Shows) /\ Len(q) = Len(ver[a])
          /\ \A j \in 1..Len(ver[a]) : q[j] = IF j = Len(ver[a]) THEN "required" ELSE ver[a][j]
      <3>1. PICK u, k, e : u = ver[a] /\ k = Len(ver[a]) /\ e = "required"
        OBVIOUS
      <3>2. u \in Seq(Shows) /\ e \in Shows
        BY <1>0, <3>1
      <3>3. /\ [u EXCEPT ![k] = e] \in Seq(Shows) /\ Len([u EXCEPT ![k] = e]) = Len(u)
            /\ \A j \in 1..Len(u) : [u EXCEPT ![k] = e][j] = IF j = k THEN e ELSE u[j]
        BY ONLY <3>2, SeqExcept
      <3> QED BY <3>1, <3>3
    <2>2. Recorded(a) = [ver EXCEPT ![a] = q]
      BY <1>2 DEF Recorded
    <2> HIDE DEF q
    <2> QED BY <2>1, <2>2
  <1>3. CASE a \in exists /\ ~(ver[a] # <<>> /\ ver[a][Len(ver[a])] \notin Ends)
    <2> DEFINE q == Append(ver[a], "required")
    <2>1. /\ q \in Seq(Shows) /\ Len(q) = Len(ver[a]) + 1 /\ q[Len(ver[a]) + 1] = "required"
          /\ \A j \in 1..Len(ver[a]) : q[j] = ver[a][j]
      BY <1>0
    <2>2. Recorded(a) = [ver EXCEPT ![a] = q]
      BY <1>3 DEF Recorded
    <2> HIDE DEF q
    <2>3. \A i \in 1..Len(q) : i \in 1..Len(ver[a]) \/ i = Len(ver[a]) + 1
      BY <1>0, <2>1
    <2> QED BY <1>0, <2>1, <2>2, <2>3
  <1> QED BY <1>1, <1>2, <1>3

LEMMA StoreType ==
    ASSUME NEW a, NEW c \in Cookies, Store(a, c), vers \in Nat,
           cookie \in [Accounts -> Cookies], prev \in [Accounts -> Cookies],
           a \in Accounts
    PROVE  /\ cookie' \in [Accounts -> Cookies] /\ prev' \in [Accounts -> Cookies] /\ vers' \in Nat
           /\ \A b \in Accounts : cookie'[b] = IF b = a THEN c ELSE cookie[b]
  <1>1. c.v \in Nat
    BY DEF Cookies
  <1> QED BY <1>1 DEF Store

LEMMA SwapsType ==
    ASSUME NEW a, NEW old, NEW c \in Cookies, NEW ok, Swaps(a, old, c, ok), TypedData
    PROVE  /\ cookie' \in [Accounts -> Cookies] /\ prev' \in [Accounts -> Cookies] /\ vers' \in Nat
           /\ \A b \in Accounts : cookie'[b] # cookie[b] => b = a /\ cookie[b] = old /\ cookie'[b] = c
  <1>1. CASE ok
    <2>1. a \in Accounts /\ cookie[a] = old /\ Store(a, c)
      BY <1>1 DEF Swaps, TypedData
    <2> QED BY <2>1, StoreType DEF TypedData
  <1>2. CASE ~ok
    BY <1>2 DEF Swaps, TypedData
  <1> QED BY <1>1, <1>2

LEMMA UsedFacts == \A k : SlotFree(k) <=> k \notin Used
  BY DEF SlotFree, Used

(* A free desktop is found.                                                *)
LEMMA FreeSlot ==
    ASSUME IsFiniteSet(Used), Cardinality(Used) <= MaxSess
    PROVE  FirstSlot \in Nat \ {0} /\ SlotFree(FirstSlot)
  <1> DEFINE All == 1..(MaxSess + 1)
             T == {k \in All : SlotFree(k)}
  <1>1. MaxSess \in Nat /\ Cardinality(Used) \in Nat
    BY Bounds, FS_CardinalityType
  <1>2. IsFiniteSet(All) /\ Cardinality(All) = MaxSess + 1
    BY <1>1, FS_Interval
  <1>3. ~(All \subseteq Used)
    <2>1. ASSUME All \in SUBSET Used PROVE Cardinality(All) <= Cardinality(Used)
      BY <2>1, FS_Subset
    <2> HIDE DEF All
    <2> QED BY <1>1, <1>2, <2>1
  <1>4. T # {} /\ T \subseteq Nat
    BY <1>1, <1>3, UsedFacts
  <1>5. PICK k \in T : \A j \in T : ~(<<j, k>> \in OpToRel(<, Nat))
    <2> HIDE DEF T
    <2> QED BY <1>4, NatLessThanWellFounded, WFMin, Zenon
  <1>6. \A j \in T : ~(j < k)
    BY <1>4, <1>5 DEF OpToRel
  <1>7. k \in All /\ SlotFree(k) /\ \A j \in 1..(k - 1) : ~SlotFree(j)
    <2>1. \A j \in 1..(k - 1) : j \in All /\ j < k
      BY <1>1, <1>4
    <2> QED BY <1>6, <2>1
  <1>8. FirstSlot \in All /\ SlotFree(FirstSlot)
    BY <1>7 DEF FirstSlot
  <1> QED BY <1>1, <1>8

-----------------------------------------------------------------------------
(* The stored data keeps its type.                                         *)

LEMMA CallTypes ==
    ASSUME call \in [Requests -> Calls], NEW c \in Requests
    PROVE  /\ NoCall \in Calls /\ Done \in Calls
           /\ \A x \in {"idle", "final", "read", "cas", "start", "restore", "finish", "done"} :
                [call EXCEPT ![c].pc = x] \in [Requests -> Calls]
           /\ \A q \in Calls : [call EXCEPT ![c] = q] \in [Requests -> Calls]
           /\ GivesUp(c) => call' \in [Requests -> Calls]
  <1>1. call[c] \in Calls
    OBVIOUS
  <1>2. NoCall \in Calls /\ Done \in Calls
    BY CookieTypes DEF NoCall, Done, Calls
  <1>3. \A x \in {"idle", "final", "read", "cas", "start", "restore", "finish", "done"} :
           [call[c] EXCEPT !.pc = x] \in Calls
    BY <1>1 DEF Calls
  <1>4. \A q \in Calls : [call EXCEPT ![c] = q] \in [Requests -> Calls]
    OBVIOUS
  <1> QED BY <1>2, <1>3, <1>4 DEF GivesUp

LEMMA LoginTypes ==
    ASSUME qr \in Logins
    PROVE  /\ \A s \in {"pending", "face", "finalizing", "browser", "completed", "error", "expired"} :
                [qr EXCEPT !.st = s] \in Logins
           /\ \A a \in Accounts \cup {"new"} : [qr EXCEPT !.acct = a] \in Logins
           /\ [qr EXCEPT !.gone = TRUE] \in Logins /\ [qr EXCEPT !.asked = TRUE] \in Logins
           /\ [qr EXCEPT !.gone = TRUE, !.asked = FALSE] \in Logins
           /\ [qr EXCEPT !.st = "error", !.gone = TRUE] \in Logins
           /\ [qr EXCEPT !.st = "completed", !.fin = TRUE] \in Logins
           /\ [qr EXCEPT !.st = "browser", !.exp = Reserved, !.asked = FALSE] \in Logins
           /\ [qr EXCEPT !.exp = Down(@)] \in Logins
           /\ \A s \in {"pending", "face", "finalizing", "browser", "completed", "error", "expired"} :
                \A e \in Nat : [qr EXCEPT !.st = s, !.exp = e] \in Logins
           /\ qr.exp \in Nat
  <1>1. Reserved \in Nat
    BY Bounds
  <1>2. qr.exp \in Nat /\ Down(qr.exp) \in Nat
    BY DEF Logins, Down
  <1> QED BY <1>1, <1>2 DEF Logins

LEMMA BeginCloseData ==
    ASSUME IInv, NEW n, NEW why, BeginClose(n, why)
    PROVE  TypedData'
  <1>1. PICK got \in Captured(pool[n]) : vers' = IF got.v > vers THEN got.v ELSE vers
    BY DEF BeginClose
  <1>2. pool[n] \in Sessions
    BY DEF BeginClose, IInv, Core, TypedCore
  <1>3. got \in Cookies
    BY <1>1, <1>2, CookieTypes DEF Captured, IInv, TypedData, Sessions
  <1>4. vers' \in Nat
    BY <1>1, <1>3 DEF Cookies, IInv, TypedData
  <1> QED BY <1>4 DEF BeginClose, IInv, TypedData

(* The desk is emptied; its row says so, or keeps what it said.            *)
LEMMA DropDeskCases ==
    ASSUME NEW st, DropDesk(st)
    PROVE  /\ held = Free /\ EmptiesDesk
           /\ UNCHANGED <<scen, held, pool, pay, by, call, rt, exists, cookie, prev, vers, left>>
           /\ \/ DeskShows(st) /\ UNCHANGED cut
              \/ UNCHANGED <<qrp, ver>> /\ cut' = TRUE
  BY DEF DropDesk, ClosesDesk, RowLost

LEMMA DeskShowsType ==
    ASSUME IInv, NEW st \in Shows, DeskShows(st)
    PROVE  qrp' \in Shows /\ ver' \in [Accounts -> Seq(Shows)]
  <1>1. desk.id \in Ids
    BY DEF IInv, Core, TypedCore, Sessions
  <1>2. desk.id[1] = "ver" => Set(ver, desk.id, st) \in [Accounts -> Seq(Shows)]
    BY <1>1, SetType DEF IInv, TypedData
  <1> QED BY <1>2 DEF DeskShows, IInv, TypedData

LEMMA ReadTypes ==
    ASSUME TypedData, NEW a \in Accounts
    PROVE  Read(a) \subseteq Cookies /\ cookie[a] \in Cookies /\ cookie[a].own \in Owners \cup {"none"}
  BY DEF TypedData, Read, Cookies

LEMMA HolderData ==
    ASSUME IInv, HolderStep
    PROVE  TypedData'
  <1> USE DEF IInv
  <1>1. /\ held.id \in Ids /\ held.base \in Cookies /\ held.mine \in Cookies /\ held.got \in Cookies
        /\ held.base.own \in Owners \cup {"none"} /\ held.mine.own \in Owners \cup {"none"}
    BY DEF Core, TypedCore, Helds, Cookies
  <1>2. vers \in Nat
    BY DEF TypedData
  <1>3. New(held.base.own) \in Cookies /\ New(held.mine.own) \in Cookies
    BY <1>1, <1>2, CookieTypes
  <1>4. \A st \in Shows : held.op \in {"ver", "complete", "resume"}
                            => Set(ver, held.id, st) \in [Accounts -> Seq(Shows)]
    BY <1>1, SetType DEF TypedData, Core, HeldOK
  <1>5. held.op \in {"ver", "complete", "resume"} => held.acct \in Accounts
    BY DEF Core, HeldOK
  <1>6. {"failed", "ready", "completed", "cancelled", "expired", "starting", "completing"} \subseteq Shows
    BY DEF Shows, Ends
  <1>7. CASE CheckCookie
    BY <1>7 DEF CheckCookie, Outside, memory, TypedData
  <1>8. CASE Persist
    <2>1. PICK ok : Swaps(held.acct, held.mine, held.got, ok)
      BY <1>8 DEF Persist
    <2> QED BY <1>1, <1>8, <2>1, SwapsType DEF Persist, Outside, memory, TypedData
  <1>9. CASE Latest
    BY <1>9 DEF Latest, Outside, memory, TypedData
  <1>10. CASE PersistLocal
    <2>1. PICK ok \in BOOLEAN, c \in {held.mine, New(held.mine.own)} : Swaps(held.acct, held.mine, c, ok)
      BY <1>10 DEF PersistLocal
    <2>2. c \in Cookies
      BY <1>1, <1>3
    <2> QED BY <1>10, <2>1, <2>2, SwapsType DEF PersistLocal, Outside, memory, TypedData
  <1>11. CASE Tell
    BY <1>11 DEF Tell, stored, TypedData
  <1>12. CASE Launch
    BY <1>12 DEF Launch, stored, memory, TypedData
  <1>13. CASE StartFails
    BY <1>4, <1>6, <1>13 DEF StartFails, StartShows, TypedData
  <1>14. CASE BrowserReady
    BY <1>4, <1>6, <1>14 DEF BrowserReady, StartShows, TypedData
  <1>15. CASE ReadyLost
    BY <1>4, <1>6, <1>15 DEF ReadyLost, TypedData
  <1>16. CASE VerificationUrl
    <2>0. held.op \in {"vnc", "qr", "ver"} /\ held.pc = "url"
      BY <1>16 DEF VerificationUrl, Starting
    <2>1. CASE UNCHANGED <<ver, cookie, prev, vers>>
      BY <1>16, <2>1 DEF VerificationUrl, memory, TypedData
    <2>2. CASE \E ok \in BOOLEAN : Swaps(held.acct, held.base, New(held.base.own), ok)
                  /\ MayRecord(held.acct) /\ ver' = Recorded(held.acct)
      <3>1. PICK ok : Swaps(held.acct, held.base, New(held.base.own), ok)
        BY <2>2
      <3>2. ver' = Recorded(held.acct)
        BY <2>2
      <3>3. held.op = "ver"
        BY <2>0 DEF Core, UrlOK, Starts
      <3>4. ver' \in [Accounts -> Seq(Shows)]
        BY <1>5, <3>2, <3>3, RecordedType DEF TypedData
      <3> QED BY <1>3, <1>16, <3>1, <3>4, SwapsType DEF VerificationUrl, memory, TypedData
    <2> QED BY <1>16, <2>1, <2>2 DEF VerificationUrl
  <1>17. CASE TokenGiven
    <2>1. PICK ok : Swaps(held.acct, held.base, New(held.base.own), ok)
      BY <1>17 DEF TokenGiven
    <2> QED BY <1>3, <1>17, <2>1, SwapsType DEF TokenGiven, memory, TypedData
  <1>18. CASE SaveX5
    <2>1. CASE EndsWith("failed") /\ UNCHANGED <<cookie, prev, vers>>
      BY <1>4, <1>6, <1>18, <2>1 DEF SaveX5, EndsWith, TypedData
    <2>2. CASE Swaps(held.acct, held.mine, New(held.mine.own), TRUE) /\ UNCHANGED ver
      BY <1>3, <1>18, <2>2, SwapsType DEF SaveX5, TypedData
    <2> QED BY <1>18, <2>1, <2>2 DEF SaveX5
  <1>19. CASE Resumed
    <2>1. Recorded(held.acct) \in [Accounts -> Seq(Shows)]
      BY <1>5, <1>19, RecordedType DEF Resumed, TypedData
    <2>2. ver' \in [Accounts -> Seq(Shows)]
      BY <1>4, <1>6, <1>19, <2>1 DEF Resumed, EndsWith
    <2> QED BY <1>19, <2>2 DEF Resumed, memory, TypedData
  <1> QED BY <1>7, <1>8, <1>9, <1>10, <1>11, <1>12, <1>13, <1>14, <1>15, <1>16, <1>17, <1>18, <1>19
          DEF HolderStep

LEMMA LoginData ==
    ASSUME IInv,
           \/ AskQr \/ StartQr \/ PollQr \/ FinalizePoll \/ FailPoll \/ CancelQr \/ DeleteQr \/ CleanupQr
           \/ \E c \in Callers : PrepareQr(c)
           \/ \E c \in DOMAIN call : SaveLogin(c)
    PROVE  TypedData'
  <1> USE DEF IInv
  <1>0. /\ qr \in Logins /\ call \in [Requests -> Calls] /\ vers \in Nat
        /\ "poll" \in Requests /\ DOMAIN call = Requests
    BY DEF TypedData, Requests
  <1>1. \A o \in Owners : New(o) \in Cookies
    BY <1>0, CookieTypes
  <1>2. {"starting", "ready", "completing", "completed", "cancelled"} \subseteq Shows
    BY DEF Shows, Ends
  <1>3. CASE AskQr
    BY <1>0, <1>3, LoginTypes DEF AskQr, stored, TypedData
  <1>4. CASE StartQr
    BY <1>0, <1>2, <1>4, LoginTypes DEF StartQr, stored, TypedData
  <1>5. CASE PollQr
    <2>1. PICK s \in {"pending", "face", "finalizing", "browser", "completed", "error", "expired"} :
             /\ qr' = [qr EXCEPT !.st = s, !.exp = IF s = "face" /\ qr.st # s THEN Reserved ELSE @]
             /\ call' = [call EXCEPT !["poll"].pc = IF s = "finalizing" /\ ~qr.fin THEN "final" ELSE "idle"]
      BY <1>5 DEF PollQr
    <2>2. (IF s = "face" /\ qr.st # s THEN Reserved ELSE qr.exp) \in Nat
      BY <1>0, LoginTypes, Bounds
    <2>3. qr' \in Logins
      BY <1>0, <2>1, <2>2, LoginTypes
    <2>4. call' \in [Requests -> Calls]
      BY <1>0, <2>1, CallTypes
    <2> QED BY <1>5, <2>3, <2>4 DEF PollQr, stored, TypedData
  <1>6. CASE FinalizePoll
    <2>1. CASE /\ qr.st = "finalizing"
               /\ \E o \in Owners :
                    /\ vers < scen.vers /\ vers' = vers + 1
                    /\ call' = [call EXCEPT !["poll"] = [@ EXCEPT !.pc = "read", !.cookie = New(o)]]
               /\ UNCHANGED qr
      <3>1. PICK o \in Owners : call' = [call EXCEPT !["poll"] = [@ EXCEPT !.pc = "read", !.cookie = New(o)]]
        BY <2>1
      <3>2. [call["poll"] EXCEPT !.pc = "read", !.cookie = New(o)] \in Calls
        BY <1>0, <1>1 DEF Calls
      <3>3. call' \in [Requests -> Calls] /\ vers' \in Nat
        BY <1>0, <2>1, <3>1, <3>2, CallTypes
      <3> QED BY <1>6, <2>1, <3>3 DEF FinalizePoll, TypedData
    <2>2. CASE /\ qr' = [qr EXCEPT !.st = "error"] /\ call' = [call EXCEPT !["poll"] = NoCall]
               /\ UNCHANGED vers
      BY <1>0, <1>6, <2>2, LoginTypes, CallTypes DEF FinalizePoll, TypedData
    <2> QED BY <1>6, <2>1, <2>2 DEF FinalizePoll
  <1>7. CASE FailPoll
    BY <1>0, <1>7, LoginTypes, CallTypes DEF FailPoll, stored, TypedData
  <1>8. CASE CancelQr
    BY <1>0, <1>2, <1>8, LoginTypes DEF CancelQr, Rest, stored, TypedData
  <1>9. CASE DeleteQr
    BY <1>0, <1>2, <1>9, LoginTypes DEF DeleteQr, Rest, stored, TypedData
  <1>10. CASE CleanupQr
    BY <1>0, <1>10, LoginTypes DEF CleanupQr, stored, TypedData
  <1>11. ASSUME NEW c \in Callers, PrepareQr(c) PROVE TypedData'
    <2>0. c \in Requests /\ call[c] \in Calls
      BY <1>0 DEF Requests
    <2>3. vers' \in Nat /\ qrp' \in Shows
      <3>1. (vers' = vers + 1 \/ vers' = vers) /\ (qrp' = "completing" \/ qrp' = "ready")
        BY <1>11 DEF PrepareQr
      <3> QED BY <1>0, <1>2, <3>1
    <2>1. CASE \E o \in Owners : call' = [call EXCEPT ![c] = [@ EXCEPT !.pc = "read", !.cookie = New(o)]]
      <3>1. PICK o \in Owners : call' = [call EXCEPT ![c] = [@ EXCEPT !.pc = "read", !.cookie = New(o)]]
        BY <2>1
      <3>2. [call[c] EXCEPT !.pc = "read", !.cookie = New(o)] \in Calls
        BY <2>0, <1>1 DEF Calls
      <3>3. call' \in [Requests -> Calls]
        BY <1>0, <2>0, <3>1, <3>2, CallTypes
      <3> QED BY <1>11, <2>3, <3>3 DEF PrepareQr, TypedData
    <2>2. CASE UNCHANGED call
      BY <1>11, <2>2, <2>3 DEF PrepareQr, TypedData
    <2> QED BY <1>11, <2>1, <2>2 DEF PrepareQr
  <1>12. ASSUME NEW c \in Requests, SaveLogin(c) PROVE TypedData'
    <2>0. call[c] \in Calls /\ call[c].cookie \in Cookies
      BY <1>0 DEF Calls
    <2>1. CASE PersistRead(c)
      <3>1. CASE qr.acct \in exists
        <4>1. cookie[qr.acct] \in Cookies /\ qr.acct \in Accounts
          BY <3>1 DEF TypedData
        <4>2. [call[c] EXCEPT !.pc = "cas", !.cur = cookie[qr.acct], !.acct = qr.acct] \in Calls
          BY <2>0, <4>1 DEF Calls
        <4>3. call' \in [Requests -> Calls]
          <5>1. \/ call' = [call EXCEPT ![c] = [@ EXCEPT !.pc = "cas", !.cur = cookie[qr.acct], !.acct = qr.acct]]
                \/ GivesUp(c)
            BY <2>1 DEF PersistRead
          <5>2. CASE GivesUp(c)
            BY <1>0, <5>2, CallTypes
          <5>3. CASE call' = [call EXCEPT ![c] = [@ EXCEPT !.pc = "cas", !.cur = cookie[qr.acct], !.acct = qr.acct]]
            BY <1>0, <4>2, <5>3
          <5> QED BY <5>1, <5>2, <5>3
        <4> QED BY <2>1, <4>3 DEF PersistRead, stored, TypedData
      <3>2. CASE qr.acct \notin exists
        BY <1>0, <2>1, <3>2, CallTypes DEF PersistRead, stored, TypedData
      <3> QED BY <3>1, <3>2
    <2>2. CASE CreateAccount(c)
      <3>1. PICK a \in Accounts \ exists :
              /\ exists' = exists \cup {a} /\ Store(a, call[c].cookie) /\ qr' = [qr EXCEPT !.acct = a]
              /\ call' = [call EXCEPT ![c] = [@ EXCEPT !.pc = "start", !.acct = a]]
        BY <2>2 DEF CreateAccount
      <3>2. [call[c] EXCEPT !.pc = "start", !.acct = a] \in Calls
        BY <2>0 DEF Calls
      <3>3. call' \in [Requests -> Calls] /\ qr' \in Logins
        BY <1>0, <3>1, <3>2, CallTypes, LoginTypes
      <3>4. cookie' \in [Accounts -> Cookies] /\ prev' \in [Accounts -> Cookies] /\ vers' \in Nat
        BY <2>0, <3>1, StoreType DEF TypedData
      <3> QED BY <2>2, <3>1, <3>3, <3>4 DEF CreateAccount, TypedData
    <2>3. CASE PersistCas(c)
      <3>1. PICK ok \in BOOLEAN :
              /\ Swaps(call[c].acct, call[c].cur, call[c].cookie, ok)
              /\ IF ok THEN /\ qr' = [qr EXCEPT !.acct = call[c].acct]
                            /\ call' = [call EXCEPT ![c].pc = "start"]
                 ELSE GivesUp(c) /\ UNCHANGED qr
        BY <2>3 DEF PersistCas
      <3>2. call' \in [Requests -> Calls]
        <4>1. CASE GivesUp(c)
          BY <1>0, <4>1, CallTypes
        <4>2. CASE call' = [call EXCEPT ![c].pc = "start"]
          BY <1>0, <4>2, CallTypes
        <4> QED BY <3>1, <4>1, <4>2
      <3>3. qr' \in Logins
        <4>1. CASE ok
          <5>1. call[c].acct \in Accounts
            BY <3>1, <4>1 DEF Swaps, TypedData
          <5> QED BY <1>0, <3>1, <4>1, <5>1, LoginTypes
        <4>2. CASE ~ok
          BY <1>0, <3>1, <4>2
        <4> QED BY <4>1, <4>2
      <3> QED BY <2>0, <2>3, <3>1, <3>2, <3>3, SwapsType DEF PersistCas, TypedData
    <2>4. CASE StartRuntime(c)
      <3>1. CASE call[c].acct \notin exists /\ GivesUp(c) /\ UNCHANGED <<qr, rt, ver>>
        BY <1>0, <2>4, <3>1, CallTypes DEF StartRuntime, TypedData
      <3>2. CASE /\ call[c].acct \in exists /\ qr' = [qr EXCEPT !.st = "completed", !.fin = TRUE]
                 /\ call' = [call EXCEPT ![c] = IF c = "poll" THEN NoCall ELSE [@ EXCEPT !.pc = "finish"]]
                 /\ ver' = ver \/ ver' = Recorded(call[c].acct)
        <4>1. call[c].acct \in Accounts
          BY <3>2 DEF TypedData
        <4>2. ver' \in [Accounts -> Seq(Shows)]
          BY <3>2, <4>1, RecordedType DEF TypedData
        <4>3. [call[c] EXCEPT !.pc = "finish"] \in Calls
          BY <2>0 DEF Calls
        <4>4. call' \in [Requests -> Calls]
          BY <1>0, <3>2, <4>3, CallTypes
        <4>5. qr' \in Logins
          BY <1>0, <3>2, LoginTypes
        <4> QED BY <2>4, <4>2, <4>4, <4>5 DEF StartRuntime, TypedData
      <3> QED BY <2>4, <3>1, <3>2 DEF StartRuntime
    <2>5. CASE FinishQr(c)
      BY <1>0, <1>2, <2>5, CallTypes DEF FinishQr, Rest, stored, TypedData
    <2>6. CASE RestoreQr(c)
      BY <1>0, <1>2, <2>6, CallTypes DEF RestoreQr, stored, TypedData
    <2> QED BY <1>12, <2>1, <2>2, <2>3, <2>4, <2>5, <2>6 DEF SaveLogin
  <1> QED BY <1>0, <1>3, <1>4, <1>5, <1>6, <1>7, <1>8, <1>9, <1>10, <1>11, <1>12

LEMMA OtherData ==
    ASSUME IInv,
           \/ ExpireDesk \/ Tick \/ IssueTicket \/ Crash
           \/ \E t \in tickets : ConsumeTicket(t)
           \/ \E n \in Browsers : CloseAccountBrowser(n) \/ ExpireAccount(n) \/ TouchAccountBrowser(n)
           \/ \E p \in Profiles : StopProfile(p)
           \/ \E a \in Accounts :
                \/ IdentityChange(a) \/ PrepareDeletion(a) \/ DeleteAccount(a) \/ ForgetBrowser(a)
                \/ StartAccountBrowser(a) \/ StartVerification(a) \/ CompleteVerification(a)
                \/ CancelVerification(a) \/ Edit(a) \/ Renew(a) \/ RiskDetected(a)
    PROVE  TypedData'
  <1> USE DEF IInv
  <1>0. /\ qr \in Logins /\ call \in [Requests -> Calls] /\ vers \in Nat
        /\ cookie \in [Accounts -> Cookies] /\ prev \in [Accounts -> Cookies]
        /\ ver \in [Accounts -> Seq(Shows)] /\ DOMAIN call = Requests
    BY DEF TypedData
  <1>1. {"none", "starting", "completing", "completed", "cancelled", "expired"} \subseteq Shows
    BY DEF Shows, Ends
  <1>2. ASSUME NEW st \in Shows, DropDesk(st), qr' \in Logins PROVE TypedData'
    <2>0. TypedData
      OBVIOUS
    <2>1. qrp' \in Shows /\ ver' \in [Accounts -> Seq(Shows)]
      <3>1. CASE DeskShows(st)
        BY <3>1, DeskShowsType
      <3>2. CASE UNCHANGED <<qrp, ver>>
        BY <2>0, <3>2 DEF TypedData
      <3> QED BY <1>2, <3>1, <3>2, DropDeskCases
    <2>2. UNCHANGED <<call, exists, cookie, prev, vers>>
      BY <1>2, DropDeskCases
    <2> QED BY <1>2, <2>0, <2>1, <2>2 DEF TypedData
  <1>3. CASE ExpireDesk
    BY <1>0, <1>1, <1>2, <1>3 DEF ExpireDesk
  <1>4. CASE Tick
    BY <1>0, <1>4, LoginTypes DEF Tick, stored, TypedData
  <1>5. CASE IssueTicket
    BY <1>5 DEF IssueTicket, stored, TypedData
  <1>6. CASE Crash
    <2>1. qr' \in Logins
      BY <1>0, <1>6, LoginTypes DEF Crash
    <2>2. call' \in [Requests -> Calls]
      <3>1. NoCall \in Calls
        BY CookieTypes DEF NoCall, Calls
      <3> QED BY <1>0, <1>6, <3>1 DEF Crash
    <2> QED BY <1>1, <1>6, <2>1, <2>2 DEF Crash, stored, TypedData
  <1>7. ASSUME NEW t \in tickets, ConsumeTicket(t) PROVE TypedData'
    BY <1>7 DEF ConsumeTicket, stored, TypedData
  <1>8. ASSUME NEW n \in Browsers, CloseAccountBrowser(n) \/ ExpireAccount(n) \/ TouchAccountBrowser(n)
        PROVE  TypedData'
    <2>1. CASE CloseAccountBrowser(n) \/ ExpireAccount(n)
      BY <2>1, BeginCloseData DEF CloseAccountBrowser, ExpireAccount
    <2>2. CASE TouchAccountBrowser(n)
      BY <2>2 DEF TouchAccountBrowser, stored, TypedData
    <2> QED BY <1>8, <2>1, <2>2
  <1>9. ASSUME NEW p \in Profiles, StopProfile(p) PROVE TypedData'
    <2>1. CASE \E n \in DOMAIN pool : BeginClose(n, "stop")
      BY <2>1, BeginCloseData
    <2>2. CASE /\ DropDesk("cancelled")
               /\ qr' = IF desk.id[1] = "qr" THEN [qr EXCEPT !.st = "error"] ELSE qr
      <3>1. qr' \in Logins
        BY <1>0, <2>2, LoginTypes
      <3> QED BY <1>1, <1>2, <2>2, <3>1
    <2>3. CASE UNCHANGED <<memory, stored>>
      BY <2>3 DEF memory, stored, TypedData
    <2> QED BY <1>9, <2>1, <2>2, <2>3 DEF StopProfile
  <1>10. ASSUME NEW a \in Accounts, IdentityChange(a) PROVE TypedData'
    <2>1. CASE \E n \in OfAccount(a) : BeginClose(n, "identity")
      BY <2>1, BeginCloseData
    <2>2. CASE UNCHANGED <<qr, qrp, call, stored>>
      BY <2>2 DEF stored, TypedData
    <2> QED BY <1>10, <2>1, <2>2 DEF IdentityChange
  <1>11. ASSUME NEW a \in Accounts, PrepareDeletion(a) PROVE TypedData'
    <2>1. CASE \E n \in OfAccount(a) : BeginClose(n, "delete")
      BY <2>1, BeginCloseData
    <2>2. CASE DropDesk("cancelled") /\ UNCHANGED qr
      BY <1>0, <1>1, <1>2, <2>2
    <2> QED BY <1>11, <2>1, <2>2 DEF PrepareDeletion
  <1>12. ASSUME NEW a \in Accounts, DeleteAccount(a) PROVE TypedData'
    <2>1. <<>> \in Seq(Shows)
      OBVIOUS
    <2>2. ver' \in [Accounts -> Seq(Shows)]
      BY <1>0, <1>12, <2>1 DEF DeleteAccount
    <2> QED BY <1>12, <2>2 DEF DeleteAccount, memory, TypedData
  <1>13. ASSUME NEW a \in Accounts, ForgetBrowser(a) \/ StartAccountBrowser(a) PROVE TypedData'
    BY <1>13 DEF ForgetBrowser, StartAccountBrowser, stored, TypedData
  <1>14. ASSUME NEW a \in Accounts, StartVerification(a) PROVE TypedData'
    <2>1. PICK f : /\ f = Recorded(a) \/ f = ver
                   /\ ver' = Set(f, <<"ver", a, Len(f[a])>>, "starting")
      BY <1>14 DEF StartVerification
    <2>2. f \in [Accounts -> Seq(Shows)]
      BY <1>0, <2>1, RecordedType
    <2>3. <<"ver", a, Len(f[a])>> \in Ids
      BY <2>2 DEF Ids
    <2>4. ver' \in [Accounts -> Seq(Shows)]
      BY <1>1, <2>1, <2>2, <2>3, SetType
    <2> QED BY <1>14, <2>4 DEF StartVerification, memory, TypedData
  <1>15. ASSUME NEW a \in Accounts, CompleteVerification(a) PROVE TypedData'
    <2>1. desk.id \in Ids
      BY DEF Core, TypedCore, Sessions
    <2>2. ver' \in [Accounts -> Seq(Shows)]
      BY <1>0, <1>1, <1>15, <2>1, SetType DEF CompleteVerification
    <2> QED BY <1>15, <2>2 DEF CompleteVerification, memory, TypedData
  <1>16. ASSUME NEW a \in Accounts, CancelVerification(a) PROVE TypedData'
    <2>1. PICK i \in DOMAIN ver[a] : ver' = [ver EXCEPT ![a][i] = "cancelled"] \/ ver' = ver
      BY <1>16 DEF CancelVerification, RowLost
    <2>2. [ver[a] EXCEPT ![i] = "cancelled"] \in Seq(Shows)
      <3>1. PICK u, e : u = ver[a] /\ e = "cancelled"
        OBVIOUS
      <3>2. u \in Seq(Shows) /\ e \in Shows
        BY <1>0, <1>1, <3>1
      <3>3. [u EXCEPT ![i] = e] \in Seq(Shows)
        BY ONLY <3>2, SeqExcept
      <3> QED BY <3>1, <3>3
    <2>3. ver' \in [Accounts -> Seq(Shows)]
      BY <1>0, <2>1, <2>2
    <2>4. UNCHANGED <<qr, qrp, call, exists, cookie, prev, vers>>
      BY <1>16 DEF CancelVerification
    <2> QED BY <2>3, <2>4 DEF TypedData
  <1>17. ASSUME NEW a \in Accounts, Edit(a) PROVE TypedData'
    <2>1. PICK o \in Owners : Store(a, New(o))
      BY <1>17 DEF Edit
    <2>2. New(o) \in Cookies
      BY <1>0, CookieTypes
    <2> QED BY <1>0, <1>17, <2>1, <2>2, StoreType DEF Edit, Others, memory, TypedData
  <1>18. ASSUME NEW a \in Accounts, Renew(a) PROVE TypedData'
    <2>1. New(cookie[a].own) \in Cookies
      BY <1>0, CookieTypes, ReadTypes
    <2> QED BY <1>0, <1>18, <2>1, StoreType DEF Renew, Others, memory, TypedData
  <1>19. ASSUME NEW a \in Accounts, RiskDetected(a) PROVE TypedData'
    <2>1. ver' \in [Accounts -> Seq(Shows)]
      BY <1>0, <1>19, RecordedType DEF RiskDetected
    <2> QED BY <1>19, <2>1 DEF RiskDetected, Others, memory, TypedData
  <1> QED BY <1>3, <1>4, <1>5, <1>6, <1>7, <1>8, <1>9, <1>10, <1>11, <1>12, <1>13, <1>14, <1>15,
             <1>16, <1>17, <1>18, <1>19

LEMMA DataStep ==
    ASSUME IInv, [Next]_vars
    PROVE  TypedData'
  <1>1. CASE Next
    BY <1>1, HolderData, LoginData, OtherData DEF Next
  <1>2. CASE UNCHANGED vars
    BY <1>2 DEF vars, memory, stored, IInv, TypedData
  <1> QED BY <1>1, <1>2

-----------------------------------------------------------------------------
(* One browser per profile, and a free desktop for the next session.       *)

CoreVars == <<scen, held, desk, pool, pay, by, run, left>>

LEMMA CoreSame ==
    ASSUME Core, UNCHANGED CoreVars
    PROVE  Core'
  <1>1. TypedCore' /\ PoolOK' /\ DeskOK'
    BY DEF Core, CoreVars, TypedCore, PoolOK, DeskOK
  <1>2. HeldOK' /\ RunOK' /\ UrlOK'
    BY DEF Core, CoreVars, HeldOK, RunOK, UrlOK, OneBrowserPerProfile
  <1>3. SlotsCounted'
    BY DEF Core, CoreVars, SlotsCounted, Used
  <1> QED BY <1>1, <1>2, <1>3 DEF Core

LEMMA HeldTypes ==
    ASSUME held \in Helds
    PROVE  /\ held.pc \in {"none", "launch", "page", "url", "cas", "start", "check", "persist",
                           "latest", "again", "local", "tell"}
           /\ held.id \in Ids /\ held.id[3] \in Nat /\ held.slot \in Nat /\ held.max \in Nat /\ held.base \in Cookies
           /\ held.acct \in Names /\ held.profile \in Profiles \cup {"none"}
           /\ \A x \in {"page", "url", "start", "tell", "latest", "again"} : [held EXCEPT !.pc = x] \in Helds
           /\ [held EXCEPT !.op = "resume", !.pc = "start"] \in Helds
           /\ \A x \in {"persist", "local", "tell", "again"} : \A c \in Cookies :
                [held EXCEPT !.mine = c, !.pc = x] \in Helds
           /\ [held EXCEPT !.max = Down(@)] \in Helds
  <1>1. held.id \in Ids /\ held.max \in Nat
    BY DEF Helds
  <1>2. held.id[3] \in Nat /\ Down(held.max) \in Nat
    BY <1>1, IdFacts DEF Down
  <1>3. /\ held.pc \in {"none", "launch", "page", "url", "cas", "start", "check", "persist",
                           "latest", "again", "local", "tell"}
        /\ held.slot \in Nat /\ held.base \in Cookies /\ held.acct \in Names
        /\ held.profile \in Profiles \cup {"none"}
    BY DEF Helds
  <1>4. /\ \A x \in {"page", "url", "start", "tell", "latest", "again"} : [held EXCEPT !.pc = x] \in Helds
        /\ [held EXCEPT !.op = "resume", !.pc = "start"] \in Helds
    BY DEF Helds
  <1>5. \A x \in {"persist", "local", "tell", "again"} : \A c \in Cookies :
                [held EXCEPT !.mine = c, !.pc = x] \in Helds
    BY DEF Helds
  <1>6. [held EXCEPT !.max = Down(@)] \in Helds
    BY <1>2 DEF Helds
  <1> QED BY <1>1, <1>2, <1>3, <1>4, <1>5, <1>6

LEMMA OpType ==
    ASSUME NEW op \in Starts \cup {"complete", "close"}, NEW id \in Ids, NEW a \in Names,
           NEW p \in Profiles, NEW base \in Cookies, NEW pc \in {"launch", "cas", "check"}
    PROVE  /\ Op(op, id, a, p, base, pc) \in Helds
           /\ \A k \in Nat, m \in Nat : [Op(op, id, a, p, base, pc) EXCEPT !.slot = k, !.max = m] \in Helds
           /\ \A c \in Cookies : [Op(op, id, a, p, base, pc) EXCEPT !.mine = c] \in Helds
           /\ \A c \in Cookies : \A w \in {"close", "expire", "stop", "identity", "delete"} :
                [Op(op, id, a, p, base, pc) EXCEPT !.got = c, !.why = w] \in Helds
  <1>1. Op(op, id, a, p, base, pc) \in Helds
    BY CookieTypes DEF Op, Helds
  <1>2. PICK h \in Helds : h = Op(op, id, a, p, base, pc)
    BY <1>1
  <1>3. /\ \A k \in Nat, m \in Nat : [h EXCEPT !.slot = k, !.max = m] \in Helds
        /\ \A c \in Cookies : [h EXCEPT !.mine = c] \in Helds
    BY DEF Helds
  <1>4. \A c \in Cookies : \A w \in {"close", "expire", "stop", "identity", "delete"} :
                [h EXCEPT !.got = c, !.why = w] \in Helds
    BY DEF Helds
  <1> QED BY <1>1, <1>2, <1>3, <1>4

LEMMA FreeType == Free \in Helds /\ Free.op = "free" /\ Free.pc = "none" /\ NoSess \in Sessions
                  /\ NoSess.id = <<"none", "none", 0>> /\ NoSess.acct = "none" /\ NoSess.profile = "none"
                  /\ NoSess.slot = 0
  <1>1. <<"none", "none", 0>> \in Ids
    BY DEF Ids
  <1> QED BY <1>1, CookieTypes DEF Free, Op, Helds, Names, NoSess, Sess, Sessions

LEMMA QuitsRun ==
    ASSUME NEW p, Quits(p), run \in [Profiles -> Nat], OneBrowserPerProfile
    PROVE  run' \in [Profiles -> Nat] /\ OneBrowserPerProfile'
  <1>1. CASE run' = [run EXCEPT ![p] = IF @ > 0 THEN @ - 1 ELSE 0]
    <2>1. \A q \in Profiles : run'[q] \in Nat /\ run'[q] <= run[q]
      BY <1>1
    <2>2. run' \in [Profiles -> Nat]
      <3>1. run' = [q \in Profiles |-> run'[q]]
        BY <1>1
      <3> QED BY <2>1, <3>1
    <2>3. \A a \in Accounts : a \in Profiles
      BY DEF Profiles
    <2> QED BY <2>1, <2>2, <2>3 DEF OneBrowserPerProfile
  <1>2. CASE UNCHANGED run
    BY <1>2 DEF OneBrowserPerProfile
  <1> QED BY <1>1, <1>2 DEF Quits

LEMMA SlotsFewer ==
    ASSUME SlotsCounted, Used' \subseteq Used, Len(pay') = Len(pay), Len(pay) \in Nat,
           held'.op = "vnc" => held.op = "vnc"
    PROVE  SlotsCounted'
  <1>1. IsFiniteSet(Used') /\ Cardinality(Used') <= Cardinality(Used)
    BY FS_Subset DEF SlotsCounted
  <1>2. Cardinality(Used') \in Nat /\ Cardinality(Used) \in Nat
    BY <1>1, FS_CardinalityType DEF SlotsCounted
  <1> QED BY <1>1, <1>2 DEF SlotsCounted

(* The lock is given back, or the operation in it goes on with the same    *)
(* session.                                                                *)
LEMMA HeldMoves ==
    ASSUME Core, held' \in Helds,
           \/ held' = Free
           \/ /\ held'.op = held.op /\ held'.id = held.id /\ held'.acct = held.acct
              /\ held'.profile = held.profile
              /\ held'.op \in Starts => held'.pc \in {"launch", "page", "url"}
              /\ held'.op \in Starts /\ held'.pc \in {"page", "url"} => run'[held.profile] > 0
              /\ held'.op \in Starts /\ held'.pc = "url" => held.op = "ver"
              /\ held'.pc = "cas" => held.pc = "cas" /\ desk' = desk,
           held.op \in {"qr", "ver"} => desk' = desk \/ held' = Free,
           run' \in [Profiles -> Nat], OneBrowserPerProfile',
           UNCHANGED <<scen, by, pool, left>>, pay' \in Seq(Shows), Len(pay') = Len(pay),
           desk' \in Sessions, DeskOK'
    PROVE  Core'
  <1> USE DEF Core
  <1>0. Len(pay) \in Nat
    BY DEF TypedCore
  <1>1. TypedCore'
    BY DEF TypedCore
  <1>2. PoolOK'
    BY DEF PoolOK
  <1>3. CASE held' = Free
    <2>1. held'.op = "free"
      BY <1>3, FreeType
    <2>2. HeldOK'
      BY <2>1 DEF HeldOK
    <2>4. RunOK' /\ UrlOK'
      BY <2>1 DEF RunOK, UrlOK, Starts
    <2>3. SlotsCounted'
      BY <1>0, <2>1, SlotsFewer DEF Used
    <2> QED BY <1>1, <1>2, <2>2, <2>3, <2>4
  <1>4. CASE held' # Free
    <2>1. HeldOK'
      BY <1>4 DEF HeldOK
    <2>2. RunOK' /\ UrlOK'
      BY <1>4 DEF RunOK, UrlOK
    <2>3. SlotsCounted'
      BY <1>0, <1>4, SlotsFewer DEF Used
    <2> QED BY <1>1, <1>2, <2>1, <2>2, <2>3
  <1> QED BY <1>3, <1>4

HeldStays(h) ==
    h.op = held.op /\ h.id = held.id /\ h.acct = held.acct /\ h.profile = held.profile

LEMMA HeldFields ==
    ASSUME held \in Helds
    PROVE  /\ \A x : HeldStays([held EXCEPT !.pc = x]) /\ [held EXCEPT !.pc = x].pc = x
                     /\ [held EXCEPT !.pc = x].slot = held.slot /\ [held EXCEPT !.pc = x].got = held.got
                     /\ [held EXCEPT !.pc = x].mine = held.mine
           /\ \A x, c : /\ HeldStays([held EXCEPT !.mine = c, !.pc = x])
                        /\ [held EXCEPT !.mine = c, !.pc = x].pc = x
                        /\ [held EXCEPT !.mine = c, !.pc = x].slot = held.slot
                        /\ [held EXCEPT !.mine = c, !.pc = x].mine = c
                        /\ [held EXCEPT !.mine = c, !.pc = x].got = held.got
  <1>1. \A x : HeldStays([held EXCEPT !.pc = x]) /\ [held EXCEPT !.pc = x].pc = x
                     /\ [held EXCEPT !.pc = x].slot = held.slot /\ [held EXCEPT !.pc = x].got = held.got
                     /\ [held EXCEPT !.pc = x].mine = held.mine
    BY DEF Helds, HeldStays
  <1>2. \A x, c : /\ HeldStays([held EXCEPT !.mine = c, !.pc = x])
                  /\ [held EXCEPT !.mine = c, !.pc = x].pc = x
                  /\ [held EXCEPT !.mine = c, !.pc = x].slot = held.slot
                  /\ [held EXCEPT !.mine = c, !.pc = x].mine = c
                  /\ [held EXCEPT !.mine = c, !.pc = x].got = held.got
    BY DEF Helds, HeldStays
  <1> QED BY <1>1, <1>2

LEMMA DeskCloses ==
    ASSUME Core, EmptiesDesk
    PROVE  /\ desk' = NoSess /\ desk' \in Sessions /\ DeskOK'
           /\ run' \in [Profiles -> Nat] /\ OneBrowserPerProfile'
  <1>1. desk' = NoSess /\ Quits(desk.profile)
    BY DEF EmptiesDesk
  <1>2. DeskOK'
    BY <1>1, FreeType DEF DeskOK
  <1>3. run' \in [Profiles -> Nat] /\ OneBrowserPerProfile'
    BY <1>1, QuitsRun DEF Core, TypedCore, RunOK
  <1> QED BY <1>1, <1>2, <1>3, FreeType

LEMMA HeldOnly ==
    ASSUME Core, held' \in Helds,
           \/ held' = Free
           \/ HeldStays(held') /\ held.op \notin Starts /\ held'.pc # "cas"
           \/ HeldStays(held') /\ held.op = "ver" /\ held.pc = "url" /\ held'.pc = "page",
           UNCHANGED <<scen, by, pool, left, pay, desk, run>>
    PROVE  Core'
  <1> USE DEF Core
  <1>1. /\ run' \in [Profiles -> Nat] /\ OneBrowserPerProfile' /\ pay' \in Seq(Shows)
        /\ Len(pay') = Len(pay) /\ desk' \in Sessions
    BY DEF TypedCore, RunOK, OneBrowserPerProfile
  <1>2. DeskOK'
    BY DEF DeskOK
  <1>3. held.op = "ver" /\ held.pc = "url" => run'[held.profile] > 0
    BY DEF RunOK, Starts
  <1>4. \/ held' = Free
        \/ /\ held'.op = held.op /\ held'.id = held.id /\ held'.acct = held.acct
           /\ held'.profile = held.profile
           /\ held'.op \in Starts => held'.pc \in {"launch", "page", "url"}
           /\ held'.op \in Starts /\ held'.pc \in {"page", "url"} => run'[held.profile] > 0
           /\ held'.op \in Starts /\ held'.pc = "url" => held.op = "ver"
           /\ held'.pc = "cas" => held.pc = "cas" /\ desk' = desk
    BY <1>3 DEF HeldStays
  <1> HIDE DEF Core
  <1> QED BY <1>1, <1>2, <1>4, HeldMoves

LEMMA LessRuns ==
    ASSUME NEW p \in Profiles, run \in [Profiles -> Nat], run[p] > 0, OneBrowserPerProfile,
           run' = [run EXCEPT ![p] = @ - 1]
    PROVE  run' \in [Profiles -> Nat] /\ OneBrowserPerProfile'
  <1>1. \A q \in Profiles : run'[q] \in Nat /\ run'[q] <= run[q]
    OBVIOUS
  <1>2. run' = [q \in Profiles |-> run'[q]]
    OBVIOUS
  <1>3. Accounts \subseteq Profiles
    BY DEF Profiles
  <1> QED BY <1>1, <1>2, <1>3 DEF OneBrowserPerProfile

(* The platform gave the token itself: the browser is closed again.        *)
LEMMA TokenCore ==
    ASSUME Core, TokenGiven
    PROVE  Core'
  <1> USE DEF Core
  <1>1. /\ held.op \in Starts /\ held.pc = "url" /\ run' = [run EXCEPT ![held.profile] = @ - 1]
        /\ held' = [held EXCEPT !.op = "resume", !.pc = "start"]
        /\ UNCHANGED <<scen, by, pool, left, pay, desk>>
    BY DEF TokenGiven, Starting, Starts, memory
  <1>2. held.op = "ver" /\ held.profile \in Profiles /\ run[held.profile] > 0
    BY <1>1 DEF UrlOK, HeldOK, RunOK, Starts
  <1>3. run' \in [Profiles -> Nat] /\ OneBrowserPerProfile'
    BY <1>1, <1>2, LessRuns DEF TypedCore, RunOK
  <1>4. /\ held' \in Helds /\ held'.op = "resume" /\ held'.id = held.id /\ held'.acct = held.acct
        /\ held'.profile = held.profile
    <2>1. held \in Helds
      BY DEF TypedCore
    <2>2. held' \in Helds
      BY <1>1, <2>1, HeldTypes
    <2>3. /\ held'.op = "resume" /\ held'.id = held.id /\ held'.acct = held.acct
          /\ held'.profile = held.profile
      BY <1>1, <2>1 DEF Helds
    <2> QED BY <2>2, <2>3
  <1>5. TypedCore'
    BY <1>1, <1>3, <1>4 DEF TypedCore
  <1>6. PoolOK' /\ DeskOK'
    BY <1>1 DEF PoolOK, DeskOK
  <1>7. HeldOK'
    BY <1>1, <1>2, <1>4 DEF HeldOK
  <1>8. RunOK' /\ UrlOK'
    BY <1>3, <1>4 DEF RunOK, UrlOK, Starts
  <1>9. SlotsCounted'
    BY <1>1, <1>4, SlotsFewer DEF Used, TypedCore
  <1> QED BY <1>5, <1>6, <1>7, <1>8, <1>9

LEMMA HolderCore ==
    ASSUME IInv, HolderStep, ~BrowserReady
    PROVE  Core'
  <1>0. Core /\ TypedData /\ TypedCore /\ HeldOK /\ RunOK /\ UrlOK /\ held \in Helds
    BY DEF IInv, Core, TypedCore
  <1>a. Len(pay) \in Nat /\ pay \in Seq(Shows) /\ run \in [Profiles -> Nat] /\ OneBrowserPerProfile
    BY <1>0 DEF TypedCore, RunOK
  <1>b. DeskOK /\ desk \in Sessions
    BY <1>0 DEF Core, TypedCore
  <1>c. {"failed", "ready", "expired", "closed"} \subseteq Shows
    BY DEF Shows, Ends
  <1>1. CASE CheckCookie
    <2>1. UNCHANGED <<scen, by, pool, left, pay, desk, run>> /\ held.op = "close"
      BY <1>1 DEF CheckCookie, Outside, memory, system, Inner
    <2>2. CASE held' = [held EXCEPT !.pc = "tell"]
      BY <1>0, <2>1, <2>2, HeldOnly, HeldTypes, HeldFields DEF Starts
    <2>3. CASE \E x \in {"persist", "local", "tell"} : held' = [held EXCEPT !.mine = cookie[held.acct], !.pc = x]
      <3>1. PICK x \in {"persist", "local", "tell"} : held' = [held EXCEPT !.mine = cookie[held.acct], !.pc = x]
        BY <2>3
      <3>2. held.acct \in Accounts
        BY <1>0, <2>1 DEF HeldOK
      <3>3. cookie[held.acct] \in Cookies
        BY <1>0, <3>2, ReadTypes
      <3>4. held' \in Helds /\ HeldStays(held') /\ held'.pc = x
        BY <1>0, <3>1, <3>3, HeldTypes, HeldFields
      <3>5. held.op \notin Starts /\ held'.pc # "cas"
        BY <2>1, <3>4 DEF Starts
      <3> QED BY <1>0, <2>1, <3>4, <3>5, HeldOnly
    <2> QED BY <1>1, <2>2, <2>3 DEF CheckCookie, Checks
  <1>2. CASE Persist
    <2>1. UNCHANGED <<scen, by, pool, left, pay, desk, run>> /\ held.op = "close"
      BY <1>2 DEF Persist, Outside, memory, system
    <2>2. PICK x \in {"tell", "latest"} : held' = [held EXCEPT !.pc = x]
      BY <1>2 DEF Persist
    <2>3. held' \in Helds /\ HeldStays(held') /\ held'.pc # "cas" /\ held.op \notin Starts
      BY <1>0, <2>1, <2>2, HeldTypes, HeldFields DEF Starts
    <2> QED BY <1>0, <2>1, <2>3, HeldOnly
  <1>3. CASE Latest
    <2>1. UNCHANGED <<scen, by, pool, left, pay, desk, run>> /\ held.op = "close"
      BY <1>3 DEF Latest, Outside, memory, system, Inner
    <2>2. held.acct \in Accounts
      BY <1>0, <2>1 DEF HeldOK
    <2>3. cookie[held.acct] \in Cookies
      BY <1>0, <2>2, ReadTypes
    <2>4. \/ held' = [held EXCEPT !.pc = "tell"]
          \/ held' = [held EXCEPT !.mine = cookie[held.acct], !.pc = "again"]
      BY <1>3 DEF Latest
    <2>5. held' \in Helds /\ HeldStays(held') /\ held'.pc # "cas" /\ held.op \notin Starts
      <3>1. CASE held' = [held EXCEPT !.pc = "tell"]
        BY <1>0, <2>1, <3>1, HeldTypes, HeldFields DEF Starts
      <3>2. CASE held' = [held EXCEPT !.mine = cookie[held.acct], !.pc = "again"]
        <4>1. PICK c \in Cookies : held' = [held EXCEPT !.mine = c, !.pc = "again"]
          BY <2>3, <3>2
        <4>2. held' \in Helds
          BY <1>0, <4>1, HeldTypes
        <4>3. HeldStays(held') /\ held'.pc = "again"
          BY <1>0, <4>1, HeldFields
        <4> QED BY <2>1, <4>2, <4>3 DEF Starts
      <3> QED BY <2>4, <3>1, <3>2
    <2> QED BY <1>0, <2>1, <2>5, HeldOnly
  <1>4. CASE PersistLocal
    <2>1. /\ UNCHANGED <<scen, by, pool, left, pay, desk, run>> /\ held.op = "close"
          /\ held' = [held EXCEPT !.pc = "tell"]
      BY <1>4 DEF PersistLocal, Outside, memory, system, Inner
    <2>2. held' \in Helds /\ HeldStays(held') /\ held'.pc # "cas" /\ held.op \notin Starts
      BY <1>0, <2>1, HeldTypes, HeldFields DEF Starts
    <2> QED BY <1>0, <2>1, <2>2, HeldOnly
  <1>5. CASE Tell
    <2>1. held' = Free /\ UNCHANGED <<scen, pool, by, left>> /\ held.op = "close"
      BY <1>5 DEF Tell, Inner
    <2>2. pay' \in Seq(Shows) /\ Len(pay') = Len(pay)
      <3>1. PICK x \in {"expired", "closed"} : pay' = pay \/ pay' = [pay EXCEPT ![held.id[3]] = x]
        BY <1>5 DEF Tell
      <3>2. x \in Shows
        BY <1>c
      <3> QED BY <1>a, <3>1, <3>2, SeqExcept
    <2>3. /\ desk' \in Sessions /\ DeskOK' /\ run' \in [Profiles -> Nat] /\ OneBrowserPerProfile'
      <3>1. CASE ClosesDesk
        BY <1>0, <3>1, DeskCloses DEF ClosesDesk
      <3>2. CASE KeepsDesk
        BY <1>a, <1>b, <3>2 DEF KeepsDesk, DeskOK, OneBrowserPerProfile
      <3> QED BY <1>5, <3>1, <3>2 DEF Tell
    <2> QED BY <1>0, <2>1, <2>2, <2>3, HeldMoves, FreeType
  <1>6. CASE Launch
    <2>1. /\ held.op \in Starts /\ held.pc = "launch" /\ ~ProfileInUse(held.profile)
          /\ run' = [run EXCEPT ![held.profile] = @ + 1]
          /\ held' = [held EXCEPT !.pc = IF held.op = "ver" THEN "url" ELSE "page"]
          /\ UNCHANGED <<scen, by, pool, left, pay, desk>>
      BY <1>6 DEF Launch, Starting, Starts, memory
    <2>2. held.profile \in Profiles
      BY <1>0, <2>1 DEF HeldOK, Starts
    <2>3. run' \in [Profiles -> Nat] /\ run'[held.profile] > 0
      BY <1>a, <2>1, <2>2
    <2>4. OneBrowserPerProfile'
      <3>1. ASSUME NEW a \in Accounts PROVE run'[a] <= 1
        <4>1. a \in Profiles /\ a # "tmp"
          BY Bounds DEF Profiles
        <4>2. CASE a = held.profile
          BY <1>a, <2>1, <2>2, <4>1, <4>2 DEF ProfileInUse
        <4>3. CASE a # held.profile
          BY <1>a, <2>1, <4>1, <4>3 DEF OneBrowserPerProfile
        <4> QED BY <4>2, <4>3
      <3> QED BY <3>1 DEF OneBrowserPerProfile
    <2>5. /\ held' \in Helds /\ HeldStays(held')
          /\ held'.pc = IF held.op = "ver" THEN "url" ELSE "page"
      BY <1>0, <2>1, HeldTypes, HeldFields
    <2>6. desk' \in Sessions /\ DeskOK' /\ pay' \in Seq(Shows) /\ Len(pay') = Len(pay)
      BY <1>a, <1>b, <2>1 DEF DeskOK
    <2>7. /\ held'.op = held.op /\ held'.id = held.id /\ held'.acct = held.acct
          /\ held'.profile = held.profile
          /\ held'.op \in Starts => held'.pc \in {"launch", "page", "url"}
          /\ held'.op \in Starts /\ held'.pc \in {"page", "url"} => run'[held.profile] > 0
          /\ held'.op \in Starts /\ held'.pc = "url" => held.op = "ver"
          /\ held'.pc = "cas" => held.pc = "cas" /\ desk' = desk
      BY <2>3, <2>5 DEF HeldStays
    <2> QED BY <1>0, <2>1, <2>3, <2>4, <2>5, <2>6, <2>7, HeldMoves
  <1>7. CASE StartFails
    <2>1. held' = Free /\ UNCHANGED <<scen, desk, pool, by, left>> /\ held.op \in Starts
      BY <1>7 DEF StartFails, Starts
    <2>2. pay' \in Seq(Shows) /\ Len(pay') = Len(pay)
      <3>1. PICK n, x : x = "failed" /\ (pay' = pay \/ pay' = [pay EXCEPT ![n] = x])
        BY <1>7 DEF StartFails, StartShows
      <3>2. x \in Shows
        BY <1>c, <3>1
      <3> QED BY <1>a, <3>1, <3>2, SeqExcept
    <2>3. run' \in [Profiles -> Nat] /\ OneBrowserPerProfile'
      <3>1. CASE UNCHANGED run
        BY <1>a, <3>1 DEF OneBrowserPerProfile
      <3>2. CASE Quits(held.profile)
        BY <1>a, <3>2, QuitsRun
      <3> QED BY <1>7, <3>1, <3>2 DEF StartFails
    <2>4. desk' \in Sessions /\ DeskOK'
      BY <1>b, <2>1 DEF DeskOK
    <2> QED BY <1>0, <2>1, <2>2, <2>3, <2>4, HeldMoves, FreeType
  <1>8. CASE ReadyLost
    <2>1. /\ held' = Free /\ UNCHANGED <<scen, pool, by, left, pay>> /\ held.op = "ver" /\ held.pc = "page"
          /\ desk' = Sess(held.id, held.acct, held.profile, held.base, 0, Reserved, 0)
          /\ Quits(held.profile)
      BY <1>8 DEF ReadyLost, Starting
    <2>2. held.profile \in Profiles /\ held.id[1] = "ver"
      BY <1>0, <2>1 DEF HeldOK
    <2>3. run' \in [Profiles -> Nat] /\ OneBrowserPerProfile'
      BY <1>a, <2>1, QuitsRun
    <2>4. desk' \in Sessions
      BY <1>0, <2>1, HeldTypes, Bounds DEF Sess, Sessions
    <2>5. DeskOK'
      BY <2>1, <2>2 DEF DeskOK, Sess
    <2>6. pay' \in Seq(Shows) /\ Len(pay') = Len(pay)
      BY <1>a, <2>1
    <2> QED BY <1>0, <2>1, <2>3, <2>4, <2>5, <2>6, HeldMoves, FreeType
  <1>9. CASE VerificationUrl
    <2>1. /\ UNCHANGED <<scen, by, pool, left, pay, desk, run>> /\ held.op \in Starts /\ held.pc = "url"
          /\ held' = [held EXCEPT !.pc = "page"]
      BY <1>9 DEF VerificationUrl, memory, system, Starting, Starts
    <2>2. held.op = "ver"
      BY <1>0, <2>1 DEF UrlOK
    <2>3. held' \in Helds /\ HeldStays(held') /\ held'.pc = "page"
      BY <1>0, <2>1, HeldTypes, HeldFields
    <2> QED BY <1>0, <2>1, <2>2, <2>3, HeldOnly
  <1>10. CASE TokenGiven
    BY <1>0, <1>10, TokenCore
  <1>11. CASE SaveX5
    <2>1. held.op = "complete" /\ held.pc = "cas" /\ ClosesDesk /\ UNCHANGED <<scen, pool, pay, by, left>>
      BY <1>11 DEF SaveX5
    <2>2. held' = Free \/ held' = [held EXCEPT !.pc = "start"]
      BY <1>11 DEF SaveX5, EndsWith
    <2>3. held' \in Helds /\ (held' = Free \/ (HeldStays(held') /\ held'.pc = "start"))
      BY <1>0, <2>2, HeldTypes, HeldFields, FreeType
    <2>4. /\ desk' \in Sessions /\ DeskOK' /\ run' \in [Profiles -> Nat] /\ OneBrowserPerProfile'
      BY <1>0, <2>1, DeskCloses DEF ClosesDesk
    <2>5. pay' \in Seq(Shows) /\ Len(pay') = Len(pay)
      BY <1>a, <2>1
    <2>6. \/ held' = Free
          \/ /\ held'.op = held.op /\ held'.id = held.id /\ held'.acct = held.acct
             /\ held'.profile = held.profile /\ held'.op \notin Starts /\ held'.pc # "cas"
      BY <2>1, <2>3 DEF HeldStays, Starts
    <2> QED BY <1>0, <2>1, <2>3, <2>4, <2>5, <2>6, HeldMoves
  <1>12. CASE Resumed
    <2>1. UNCHANGED <<scen, by, pool, left, pay, desk, run>> /\ held' = Free
      BY <1>12 DEF Resumed, memory, system, EndsWith
    <2> QED BY <1>0, <2>1, HeldOnly, FreeType
  <1> QED BY <1>1, <1>2, <1>3, <1>4, <1>5, <1>6, <1>7, <1>8, <1>9, <1>10, <1>11, <1>12 DEF HolderStep

LEMMA TouchedType ==
    ASSUME NEW q \in Sessions
    PROVE  /\ Touched(q) \in Sessions
           /\ Touched(q).id = q.id /\ Touched(q).acct = q.acct /\ Touched(q).profile = q.profile
           /\ Touched(q).slot = q.slot /\ Touched(q).base = q.base
  <1>1. Idle \in Nat /\ q.max \in Nat
    BY Bounds DEF Sessions
  <1>2. (IF Idle < q.max THEN Idle ELSE q.max) \in Nat
    BY <1>1
  <1>3. \A e \in Nat : [q EXCEPT !.exp = e] \in Sessions
    BY DEF Sessions
  <1>4. /\ Touched(q).id = q.id /\ Touched(q).acct = q.acct /\ Touched(q).profile = q.profile
        /\ Touched(q).slot = q.slot /\ Touched(q).base = q.base
    BY DEF Touched, Sessions
  <1> QED BY <1>2, <1>3, <1>4 DEF Touched

LEMMA ReadyCore ==
    ASSUME IInv, BrowserReady
    PROVE  Core'
  <1> USE DEF IInv, Core
  <1>1. /\ held.op \in Starts /\ held.pc = "page" /\ held' = Free
        /\ UNCHANGED <<scen, by, run, left>>
    BY DEF BrowserReady, Starting, Starts, system
  <1>2. held'.op = "free" /\ held' \in Helds
    BY <1>1, FreeType
  <1>3. HeldOK'
    BY <1>2 DEF HeldOK
  <1>4. RunOK' /\ UrlOK'
    BY <1>1, <1>2 DEF RunOK, UrlOK, Starts, OneBrowserPerProfile
  <1>5. held \in Helds /\ held.profile \in Profiles
    BY <1>1 DEF TypedCore, HeldOK, Starts
  <1>6. pay' \in Seq(Shows) /\ Len(pay') = Len(pay) /\ Len(pay) \in Nat
    <2>1. PICK x : x = "ready" /\ (pay' = pay \/ pay' = [pay EXCEPT ![held.id[3]] = x])
      BY DEF BrowserReady, StartShows
    <2>2. x \in Shows
      BY <2>1 DEF Shows
    <2>3. pay \in Seq(Shows)
      BY DEF TypedCore
    <2> QED BY <2>1, <2>2, <2>3, SeqExcept
  <1>7. CASE held.op = "vnc"
    <2> DEFINE n == held.id[3]
               q == Sess(held.id, held.acct, held.profile, held.base, held.slot, Idle, held.max)
    <2>1. /\ pool' = [m \in DOMAIN pool \cup {n} |-> IF m # n THEN pool[m] ELSE Touched(q)]
          /\ desk' = desk
      BY <1>7 DEF BrowserReady
    <2>2. /\ held.id = <<"vnc", held.acct, n>> /\ held.acct \in Accounts /\ n \in 1..Len(pay)
          /\ n \notin DOMAIN pool
      BY <1>7 DEF HeldOK
    <2>3. q \in Sessions
      BY <1>5, HeldTypes, Bounds DEF Sess, Sessions
    <2>4. q.id = held.id /\ q.acct = held.acct /\ q.profile = held.profile /\ q.slot = held.slot
      BY DEF Sess
    <2>5. PICK u \in Sessions : /\ u = Touched(q) /\ u.id = <<"vnc", u.acct, n>> /\ u.acct \in Accounts
                                /\ u.profile = held.profile /\ u.slot = held.slot
      BY <2>2, <2>3, <2>4, TouchedType
    <2>6. held.profile \in Accounts
      BY <1>7 DEF HeldOK
    <2> HIDE DEF q, n
    <2>7. pool' = [m \in DOMAIN pool \cup {n} |-> IF m = n THEN u ELSE pool[m]]
      BY <2>1, <2>5
    <2>8. DOMAIN pool' = DOMAIN pool \cup {n} /\ \A m \in DOMAIN pool' : pool'[m] = IF m = n THEN u ELSE pool[m]
      BY <2>7
    <2>9. TypedCore'
      <3>1. \A m \in DOMAIN pool : pool[m] \in Sessions
        BY DEF TypedCore
      <3>2. pool' \in [DOMAIN pool' -> Sessions]
        BY <2>7, <3>1
      <3>3. DOMAIN pool' \subseteq 1..Len(pay')
        BY <1>6, <2>2, <2>8 DEF TypedCore
      <3> QED BY <1>1, <1>2, <1>6, <2>1, <3>2, <3>3 DEF TypedCore
    <2>10. PoolOK'
      BY <2>5, <2>6, <2>8 DEF PoolOK
    <2>11. DeskOK'
      BY <2>1 DEF DeskOK
    <2>12. SlotsCounted'
      <3>1. Used' = Used \cup {held.slot}
        <4>1. ASSUME NEW k \in Used' PROVE k \in Used \cup {held.slot}
          BY <1>1, <2>5, <2>8, <4>1 DEF Used
        <4>2. ASSUME NEW k \in left PROVE k \in Used'
          BY <1>1 DEF Used
        <4>3. ASSUME NEW m \in DOMAIN pool PROVE pool[m].slot \in Used'
          <5>1. m \in DOMAIN pool' /\ pool'[m] = pool[m]
            BY <2>2, <2>8, <4>3
          <5> QED BY <5>1 DEF Used
        <4>4. held.slot \in Used'
          <5>1. n \in DOMAIN pool' /\ pool'[n].slot = held.slot
            BY <2>5, <2>8
          <5> QED BY <5>1 DEF Used
        <4> QED BY <4>1, <4>2, <4>3, <4>4 DEF Used
      <3>2. IsFiniteSet(Used) /\ Cardinality(Used) < Len(pay) /\ Cardinality(Used) \in Nat
        BY <1>7, FS_CardinalityType DEF SlotsCounted
      <3>3. IsFiniteSet(Used') /\ Cardinality(Used') <= Cardinality(Used) + 1 /\ Cardinality(Used') \in Nat
        <4>1. PICK U, x : U = Used /\ x = held.slot
          OBVIOUS
        <4>2. IsFiniteSet(U \cup {x}) /\ Cardinality(U \cup {x}) <= Cardinality(U) + 1
          <5>1. IsFiniteSet(U) /\ Cardinality(U) \in Nat
            BY <3>2, <4>1
          <5>2. /\ IsFiniteSet(U \cup {x})
                /\ Cardinality(U \cup {x}) = IF x \in U THEN Cardinality(U) ELSE Cardinality(U) + 1
            BY ONLY <5>1, FS_AddElement
          <5> QED BY <5>1, <5>2
        <4>3. Cardinality(U \cup {x}) \in Nat
          BY <4>2, FS_CardinalityType
        <4> QED BY <3>1, <4>1, <4>2, <4>3
      <3> QED BY <1>2, <1>6, <3>2, <3>3 DEF SlotsCounted
    <2> QED BY <1>3, <1>4, <2>9, <2>10, <2>11, <2>12
  <1>8. CASE held.op # "vnc"
    <2>1. /\ pool' = pool
          /\ desk' = Sess(held.id, held.acct, held.profile, held.base, 0,
                          IF held.op = "qr" THEN qr.exp ELSE Reserved, 0)
      BY <1>8 DEF BrowserReady
    <2>2. held.id[1] \in {"qr", "ver"}
      BY <1>1, <1>8 DEF HeldOK, Starts
    <2>3. (IF held.op = "qr" THEN qr.exp ELSE Reserved) \in Nat
      BY LoginTypes, Bounds DEF TypedData
    <2>4. desk' \in Sessions
      <3>1. PICK e \in Nat : desk' = Sess(held.id, held.acct, held.profile, held.base, 0, e, 0)
        BY <2>1, <2>3
      <3> QED BY <1>5, <3>1, HeldTypes DEF Sess, Sessions
    <2>5. DeskOK'
      <3>1. desk'.id = held.id /\ desk'.profile = held.profile
        BY <2>1 DEF Sess
      <3> QED BY <1>5, <2>2, <3>1 DEF DeskOK
    <2>6. TypedCore'
      BY <1>1, <1>2, <1>6, <2>1, <2>4 DEF TypedCore
    <2>7. PoolOK'
      BY <2>1 DEF PoolOK
    <2>8. SlotsCounted'
      BY <1>1, <1>2, <1>6, <2>1, SlotsFewer DEF Used
    <2> QED BY <1>3, <1>4, <2>5, <2>6, <2>7, <2>8
  <1> QED BY <1>7, <1>8

LEMMA CloseCore ==
    ASSUME IInv, NEW n, NEW why \in {"close", "expire", "stop", "identity", "delete"}, BeginClose(n, why)
    PROVE  Core'
  <1> USE DEF IInv, Core
  <1>1. /\ n \in DOMAIN pool /\ pool' = [m \in DOMAIN pool \ {n} |-> pool[m]]
        /\ Quits(pool[n].profile) /\ UNCHANGED <<scen, desk, by, left>>
    BY DEF BeginClose
  <1>2. PICK got \in Captured(pool[n]) :
           held' = [Op("close", pool[n].id, pool[n].acct, pool[n].profile, pool[n].base, "check")
                       EXCEPT !.got = got, !.why = why]
    BY DEF BeginClose
  <1>3. /\ pool[n] \in Sessions /\ pool[n].id \in Ids /\ pool[n].base \in Cookies /\ pool[n].acct \in Names
        /\ n \in 1..Len(pay)
    BY <1>1 DEF TypedCore, Sessions
  <1>4. got \in Cookies
    BY <1>2, <1>3, CookieTypes DEF Captured, TypedData
  <1>5. /\ pool[n].acct \in Accounts /\ pool[n].profile \in Accounts
        /\ pool[n].id = <<"vnc", pool[n].acct, n>>
    BY <1>1 DEF PoolOK
  <1>6. held' \in Helds
    <2>1. pool[n].profile \in Profiles
      BY <1>5 DEF Profiles
    <2>2. PICK id \in Ids, a \in Names, p \in Profiles, base \in Cookies :
             id = pool[n].id /\ a = pool[n].acct /\ p = pool[n].profile /\ base = pool[n].base
      BY <1>3, <2>1
    <2>3. [Op("close", id, a, p, base, "check") EXCEPT !.got = got, !.why = why] \in Helds
      BY <1>4, OpType
    <2> QED BY <1>2, <2>2, <2>3
  <1>7. /\ held'.op = "close" /\ held'.id = <<"vnc", pool[n].acct, n>> /\ held'.acct = pool[n].acct
        /\ held'.profile = pool[n].profile /\ held'.pc = "check"
    BY <1>2, <1>5 DEF Op
  <1>8. pay' \in Seq(Shows) /\ Len(pay') = Len(pay) /\ Len(pay) \in Nat
    <2>1. PICK x : x = "closing" /\ (pay' = pay \/ pay' = [pay EXCEPT ![n] = x])
      BY DEF BeginClose
    <2>2. x \in Shows
      BY <2>1 DEF Shows
    <2>3. pay \in Seq(Shows)
      BY DEF TypedCore
    <2> QED BY <2>1, <2>2, <2>3, SeqExcept
  <1>9. run' \in [Profiles -> Nat] /\ OneBrowserPerProfile'
    BY <1>1, QuitsRun DEF TypedCore, RunOK
  <1>10. DOMAIN pool' = DOMAIN pool \ {n} /\ \A m \in DOMAIN pool' : pool'[m] = pool[m]
    BY <1>1
  <1>11. TypedCore'
    <2>1. pool' \in [DOMAIN pool' -> Sessions]
      BY <1>1, <1>10 DEF TypedCore
    <2>2. DOMAIN pool' \subseteq 1..Len(pay')
      BY <1>8, <1>10 DEF TypedCore
    <2> QED BY <1>1, <1>6, <1>8, <1>9, <2>1, <2>2 DEF TypedCore
  <1>12. PoolOK' /\ DeskOK'
    BY <1>1, <1>10 DEF PoolOK, DeskOK
  <1>13. HeldOK'
    BY <1>3, <1>5, <1>7, <1>8, <1>10 DEF HeldOK, Profiles
  <1>14. RunOK' /\ UrlOK'
    BY <1>7, <1>9 DEF RunOK, UrlOK, Starts
  <1>15. SlotsCounted'
    <2>1. Used' \subseteq Used
      BY <1>1, <1>10 DEF Used
    <2> QED BY <1>7, <1>8, <2>1, SlotsFewer
  <1> QED BY <1>11, <1>12, <1>13, <1>14, <1>15

(* The reserved desktop is closed, or not, by who has no session in the    *)
(* lock.                                                                   *)
LEMMA DeskCore ==
    ASSUME Core, held = Free, held' = held, EmptiesDesk \/ KeepsDesk, UNCHANGED <<scen, pool, pay, by, left>>
    PROVE  Core'
  <1>1. CASE EmptiesDesk
    <2>1. /\ desk' \in Sessions /\ DeskOK' /\ run' \in [Profiles -> Nat] /\ OneBrowserPerProfile'
      BY <1>1, DeskCloses
    <2>2. held' \in Helds /\ held' = Free /\ pay' \in Seq(Shows) /\ Len(pay') = Len(pay)
      BY FreeType DEF Core, TypedCore
    <2> QED BY <2>1, <2>2, HeldMoves
  <1>2. CASE KeepsDesk
    BY <1>2, CoreSame DEF KeepsDesk, CoreVars
  <1> QED BY <1>1, <1>2

LEMMA LoginCore ==
    ASSUME IInv,
           \/ AskQr \/ PollQr \/ FinalizePoll \/ FailPoll \/ CancelQr \/ DeleteQr \/ CleanupQr
           \/ \E c \in Callers : PrepareQr(c)
           \/ \E c \in DOMAIN call : SaveLogin(c)
    PROVE  Core'
  <1>0. Core
    BY DEF IInv
  <1>1. ASSUME UNCHANGED Around PROVE Core'
    BY <1>0, <1>1, CoreSame DEF Around, system, CoreVars
  <1>2. CASE AskQr \/ PollQr \/ FinalizePoll \/ FailPoll \/ CleanupQr
    BY <1>1, <1>2 DEF AskQr, PollQr, FinalizePoll, FailPoll, CleanupQr
  <1>3. ASSUME NEW c \in Callers, PrepareQr(c) PROVE Core'
    BY <1>1, <1>3 DEF PrepareQr
  <1>4. ASSUME UNCHANGED Rest, held = Free, QrDesk PROVE Core'
    BY <1>0, <1>4, DeskCore DEF Rest, QrDesk, ClosesDesk
  <1>5. ASSUME NEW c, SaveLogin(c) PROVE Core'
    <2>1. CASE PersistRead(c) \/ CreateAccount(c) \/ PersistCas(c) \/ StartRuntime(c) \/ RestoreQr(c)
      BY <1>1, <2>1 DEF PersistRead, CreateAccount, PersistCas, StartRuntime, RestoreQr
    <2>2. CASE FinishQr(c)
      BY <1>4, <2>2 DEF FinishQr
    <2> QED BY <1>5, <2>1, <2>2 DEF SaveLogin
  <1>6. CASE CancelQr
    BY <1>4, <1>6 DEF CancelQr
  <1>7. CASE DeleteQr
    <2>1. CASE held = Free /\ QrDesk
      BY <1>4, <1>7, <2>1 DEF DeleteQr
    <2>2. CASE KeepsDesk
      BY <1>0, <1>7, <2>2, CoreSame DEF DeleteQr, KeepsDesk, Rest, CoreVars
    <2> QED BY <1>7, <2>1, <2>2 DEF DeleteQr
  <1> QED BY <1>2, <1>3, <1>5, <1>6, <1>7

(* A session is put on its timer, or every timer runs down.                *)
LEMMA PoolTimed ==
    ASSUME Core, UNCHANGED <<scen, pay, by, run, left>>,
           held' \in Helds, HeldStays(held'), held'.pc = held.pc,
           desk' \in Sessions, desk'.id = desk.id, desk'.profile = desk.profile, desk = NoSess => desk' = NoSess,
           DOMAIN pool' = DOMAIN pool, pool' = [n \in DOMAIN pool |-> pool'[n]],
           \A n \in DOMAIN pool :
              /\ pool'[n] \in Sessions /\ pool'[n].id = pool[n].id /\ pool'[n].acct = pool[n].acct
              /\ pool'[n].profile = pool[n].profile /\ pool'[n].slot = pool[n].slot
    PROVE  Core'
  <1> USE DEF Core
  <1>1. TypedCore'
    BY DEF TypedCore
  <1>2. PoolOK'
    BY DEF PoolOK
  <1>3. DeskOK'
    BY DEF DeskOK
  <1>4. HeldOK'
    BY DEF HeldOK, HeldStays
  <1>5. RunOK' /\ UrlOK'
    BY DEF RunOK, UrlOK, HeldStays, OneBrowserPerProfile
  <1>6. SlotsCounted'
    <2>1. Used' \subseteq Used
      BY DEF Used
    <2> QED BY <2>1, SlotsFewer DEF HeldStays, TypedCore
  <1> QED BY <1>1, <1>2, <1>3, <1>4, <1>5, <1>6

LEMMA TouchCore ==
    ASSUME Core, NEW n \in DOMAIN pool, pool' = [pool EXCEPT ![n] = Touched(@)],
           UNCHANGED <<scen, held, desk, pay, by, run, left>>
    PROVE  Core'
  <1> USE DEF Core
  <1>0. \A m \in DOMAIN pool : pool[m] \in Sessions
    BY DEF TypedCore
  <1>1. ASSUME NEW m \in DOMAIN pool
        PROVE  /\ pool'[m] \in Sessions /\ pool'[m].id = pool[m].id /\ pool'[m].acct = pool[m].acct
               /\ pool'[m].profile = pool[m].profile /\ pool'[m].slot = pool[m].slot
    <2>1. CASE m = n
      <3>1. pool'[m] = Touched(pool[m])
        BY <2>1 DEF TypedCore
      <3> QED BY <1>0, <3>1, TouchedType
    <2>2. CASE m # n
      BY <1>0, <2>2 DEF TypedCore
    <2> QED BY <2>1, <2>2
  <1>2. DOMAIN pool' = DOMAIN pool /\ pool' = [m \in DOMAIN pool |-> pool'[m]]
    BY DEF TypedCore
  <1>3. /\ held' \in Helds /\ HeldStays(held') /\ held'.pc = held.pc
        /\ desk' \in Sessions /\ desk'.id = desk.id /\ desk'.profile = desk.profile
        /\ (desk = NoSess => desk' = NoSess)
    BY DEF TypedCore, HeldStays
  <1> HIDE DEF Core
  <1> QED BY <1>1, <1>2, <1>3, PoolTimed

LEMMA DownSession ==
    ASSUME NEW q \in Sessions
    PROVE  /\ [q EXCEPT !.exp = Down(@)] \in Sessions
           /\ [q EXCEPT !.exp = Down(@)].id = q.id /\ [q EXCEPT !.exp = Down(@)].profile = q.profile
           /\ [q EXCEPT !.exp = Down(@)].slot = q.slot
           /\ [q EXCEPT !.exp = Down(@), !.max = Down(@)] \in Sessions
           /\ [q EXCEPT !.exp = Down(@), !.max = Down(@)].id = q.id
           /\ [q EXCEPT !.exp = Down(@), !.max = Down(@)].acct = q.acct
           /\ [q EXCEPT !.exp = Down(@), !.max = Down(@)].profile = q.profile
           /\ [q EXCEPT !.exp = Down(@), !.max = Down(@)].slot = q.slot
  <1>1. q.exp \in Nat /\ q.max \in Nat /\ Down(q.exp) \in Nat /\ Down(q.max) \in Nat
    BY DEF Sessions, Down
  <1>2. \A e, m \in Nat : [q EXCEPT !.exp = e] \in Sessions /\ [q EXCEPT !.exp = e, !.max = m] \in Sessions
    BY DEF Sessions
  <1>3. \A e, m : /\ [q EXCEPT !.exp = e].id = q.id /\ [q EXCEPT !.exp = e].profile = q.profile
                  /\ [q EXCEPT !.exp = e].slot = q.slot
                  /\ [q EXCEPT !.exp = e, !.max = m].id = q.id /\ [q EXCEPT !.exp = e, !.max = m].acct = q.acct
                  /\ [q EXCEPT !.exp = e, !.max = m].profile = q.profile
                  /\ [q EXCEPT !.exp = e, !.max = m].slot = q.slot
    BY DEF Sessions
  <1> QED BY <1>1, <1>2, <1>3

LEMMA TickKeeps ==
    ASSUME TypedCore, Tick
    PROVE  /\ held' \in Helds /\ HeldStays(held') /\ held'.pc = held.pc /\ held'.slot = held.slot
           /\ held'.got = held.got /\ held'.mine = held.mine
           /\ desk' \in Sessions /\ desk'.id = desk.id /\ desk'.profile = desk.profile
           /\ desk'.slot = desk.slot /\ (desk = NoSess => desk' = NoSess)
           /\ DOMAIN pool' = DOMAIN pool /\ pool' = [n \in DOMAIN pool |-> pool'[n]]
           /\ \A n \in DOMAIN pool :
                /\ pool'[n] \in Sessions /\ pool'[n].id = pool[n].id /\ pool'[n].acct = pool[n].acct
                /\ pool'[n].profile = pool[n].profile /\ pool'[n].slot = pool[n].slot
  <1>1. /\ desk' = [desk EXCEPT !.exp = Down(@)] /\ held' = [held EXCEPT !.max = Down(@)]
        /\ pool' = [n \in DOMAIN pool |-> [pool[n] EXCEPT !.exp = Down(@), !.max = Down(@)]]
    BY DEF Tick
  <1>2. held \in Helds /\ desk \in Sessions /\ \A n \in DOMAIN pool : pool[n] \in Sessions
    BY DEF TypedCore
  <1>3. /\ held' \in Helds
    BY <1>1, <1>2, HeldTypes
  <1>4. /\ HeldStays(held') /\ held'.pc = held.pc /\ held'.slot = held.slot
        /\ held'.got = held.got /\ held'.mine = held.mine
    <2>1. \A x : /\ HeldStays([held EXCEPT !.max = x]) /\ [held EXCEPT !.max = x].pc = held.pc
                 /\ [held EXCEPT !.max = x].slot = held.slot
                 /\ [held EXCEPT !.max = x].got = held.got /\ [held EXCEPT !.max = x].mine = held.mine
      BY <1>2 DEF Helds, HeldStays
    <2> QED BY <1>1, <2>1
  <1>5. desk' \in Sessions /\ desk'.id = desk.id /\ desk'.profile = desk.profile /\ desk'.slot = desk.slot
    BY <1>1, <1>2, DownSession
  <1>6. desk = NoSess => desk' = NoSess
    <2>1. [NoSess EXCEPT !.exp = 0] = NoSess /\ Down(NoSess.exp) = 0
      BY DEF NoSess, Sess, Down
    <2> QED BY <1>1, <2>1
  <1>7. DOMAIN pool' = DOMAIN pool /\ pool' = [n \in DOMAIN pool |-> pool'[n]]
    BY <1>1
  <1>8. \A n \in DOMAIN pool :
                /\ pool'[n] \in Sessions /\ pool'[n].id = pool[n].id /\ pool'[n].acct = pool[n].acct
                /\ pool'[n].profile = pool[n].profile /\ pool'[n].slot = pool[n].slot
    BY <1>1, <1>2, DownSession
  <1> QED BY <1>3, <1>4, <1>5, <1>6, <1>7, <1>8

LEMMA TickCore ==
    ASSUME Core, Tick
    PROVE  Core'
  <1>1. UNCHANGED <<scen, pay, by, run, left>>
    BY DEF Tick, system
  <1>2. TypedCore
    BY DEF Core
  <1> QED BY <1>1, <1>2, TickKeeps, PoolTimed

LEMMA StartVncCore ==
    ASSUME IInv, NEW a \in Accounts, StartAccountBrowser(a)
    PROVE  Core'
  <1> USE DEF IInv, Core
  <1> DEFINE n == Len(pay) + 1
  <1>1. /\ held = Free /\ Len(pay) < scen.sess /\ UNCHANGED <<scen, desk, pool, run, left>>
        /\ pay' = Append([m \in DOMAIN pay |-> IF m = by[a] THEN "gone" ELSE pay[m]], "starting")
        /\ by' = [by EXCEPT ![a] = n]
    BY DEF StartAccountBrowser, system
  <1>2. PICK base \in Read(a) : held' = [Op("vnc", <<"vnc", a, n>>, a, a, base, "launch")
                                           EXCEPT !.slot = FirstSlot, !.max = Life]
    BY DEF StartAccountBrowser
  <1>3. pay \in Seq(Shows) /\ Len(pay) \in Nat /\ n \in Nat /\ n <= MaxSess
    <2>1. pay \in Seq(Shows) /\ Len(pay) \in Nat
      BY DEF TypedCore
    <2>2. scen.sess \in Nat /\ scen.sess <= MaxSess /\ MaxSess \in Nat
      BY ScenarioFacts, Bounds DEF TypedCore
    <2> QED BY <1>1, <2>1, <2>2
  <1>4. pay' \in Seq(Shows) /\ Len(pay') = n
    <2>1. PICK q : q = [m \in DOMAIN pay |-> IF m = by[a] THEN "gone" ELSE pay[m]]
      OBVIOUS
    <2>2. "gone" \in Shows /\ "starting" \in Shows
      BY DEF Shows
    <2>3. DOMAIN pay = 1..Len(pay) /\ \A m \in 1..Len(pay) : pay[m] \in Shows
      BY <1>3
    <2>4. q \in [1..Len(pay) -> Shows]
      BY <2>1, <2>2, <2>3
    <2>5. q \in Seq(Shows) /\ Len(q) = Len(pay)
      BY <1>3, <2>4
    <2> QED BY <1>1, <2>1, <2>2, <2>5
  <1>5. IsFiniteSet(Used) /\ Cardinality(Used) \in Nat /\ Cardinality(Used) <= Len(pay)
    BY FS_CardinalityType DEF SlotsCounted
  <1>6. FirstSlot \in Nat
    BY <1>3, <1>5, FreeSlot, Bounds
  <1>7. held' \in Helds
    <2>1. <<"vnc", a, n>> \in Ids /\ a \in Names /\ a \in Profiles /\ base \in Cookies /\ Life \in Nat
      BY <1>3, ReadTypes, Bounds DEF Ids, Names, Profiles
    <2>2. PICK id \in Ids, k \in Nat : id = <<"vnc", a, n>> /\ k = FirstSlot
      BY <1>6, <2>1
    <2>3. [Op("vnc", id, a, a, base, "launch") EXCEPT !.slot = k, !.max = Life] \in Helds
      BY <2>1, OpType DEF Starts
    <2> QED BY <1>2, <2>2, <2>3
  <1>8. /\ held'.op = "vnc" /\ held'.id = <<"vnc", a, n>> /\ held'.acct = a
        /\ held'.profile = a /\ held'.pc = "launch" /\ held'.slot = FirstSlot
    BY <1>2 DEF Op
  <1>9. n \notin DOMAIN pool /\ DOMAIN pool \subseteq 1..n
    BY <1>3 DEF TypedCore
  <1> HIDE DEF n
  <1>10. TypedCore'
    BY <1>1, <1>3, <1>4, <1>7, <1>9 DEF TypedCore
  <1>11. PoolOK' /\ DeskOK'
    BY <1>1 DEF PoolOK, DeskOK
  <1>12. HeldOK'
    <2>1. n \in 1..n
      BY <1>3 DEF n
    <2> QED BY <1>1, <1>4, <1>8, <1>9, <2>1 DEF HeldOK, Profiles
  <1>13. RunOK' /\ UrlOK'
    BY <1>1, <1>8 DEF RunOK, UrlOK, OneBrowserPerProfile
  <1>14. SlotsCounted'
    <2>1. Used' = Used
      BY <1>1 DEF Used
    <2> QED BY <1>3, <1>4, <1>5, <2>1 DEF SlotsCounted, n
  <1> QED BY <1>10, <1>11, <1>12, <1>13, <1>14

(* A start on the reserved desktop, or the end of a verification, takes    *)
(* the lock.                                                               *)
LEMMA TakesLock ==
    ASSUME Core, held = Free, held' \in Helds, UNCHANGED <<scen, desk, pool, pay, by, run, left>>,
           held'.profile \in Profiles,
           \/ /\ held'.op = "qr" /\ held'.id[1] = "qr" /\ held'.pc = "launch" /\ desk = NoSess
           \/ /\ held'.op = "ver" /\ held'.id[1] = "ver" /\ held'.acct \in Accounts
              /\ held'.pc = "launch" /\ desk = NoSess
           \/ /\ held'.op = "complete" /\ held'.id[1] = "ver" /\ held'.acct \in Accounts
              /\ held'.pc = "cas" /\ desk.id = held'.id
    PROVE  Core'
  <1> USE DEF Core
  <1>1. TypedCore'
    BY DEF TypedCore
  <1>2. PoolOK' /\ DeskOK'
    BY DEF PoolOK, DeskOK
  <1>3. HeldOK'
    BY DEF HeldOK
  <1>4. RunOK' /\ UrlOK'
    BY DEF RunOK, UrlOK, Starts, OneBrowserPerProfile
  <1>5. SlotsCounted'
    BY SlotsFewer DEF Used, TypedCore
  <1> QED BY <1>1, <1>2, <1>3, <1>4, <1>5

LEMMA StartQrCore ==
    ASSUME IInv, StartQr
    PROVE  Core'
  <1>1. held = Free /\ desk = NoSess /\ UNCHANGED <<scen, desk, pool, pay, by, run, left>>
    BY DEF StartQr, system
  <1>2. PICK a : /\ a = (IF qr.acct \in exists THEN qr.acct ELSE "new")
                 /\ \E base \in (IF a = "new" THEN {None} ELSE Read(a)) :
                      held' = Op("qr", <<"qr", "new", 0>>, a, IF a = "new" THEN "tmp" ELSE a, base, "launch")
    BY DEF StartQr
  <1>3. PICK base \in (IF a = "new" THEN {None} ELSE Read(a)) :
           held' = Op("qr", <<"qr", "new", 0>>, a, IF a = "new" THEN "tmp" ELSE a, base, "launch")
    BY <1>2
  <1>4. a \in Names /\ (a # "new" => a \in Accounts)
    BY <1>2 DEF IInv, TypedData, Names
  <1>5. base \in Cookies
    <2>1. CASE a = "new"
      BY <1>3, <2>1, CookieTypes
    <2>2. CASE a # "new"
      BY <1>3, <1>4, <2>2, ReadTypes DEF IInv
    <2> QED BY <2>1, <2>2
  <1>6. PICK q \in Profiles : q = IF a = "new" THEN "tmp" ELSE a
    BY <1>4 DEF Profiles
  <1>7. PICK id \in Ids : id = <<"qr", "new", 0>>
    BY DEF Ids
  <1>8. held' = Op("qr", id, a, q, base, "launch")
    BY <1>3, <1>6, <1>7
  <1>9. held' \in Helds
    BY <1>4, <1>5, <1>8, OpType DEF Starts
  <1>10. held'.op = "qr" /\ held'.id = id /\ held'.profile = q /\ held'.pc = "launch" /\ id[1] = "qr"
    BY <1>7, <1>8 DEF Op
  <1> QED BY <1>1, <1>9, <1>10, TakesLock DEF IInv

LEMMA StartVerCore ==
    ASSUME IInv, NEW a \in Accounts, StartVerification(a)
    PROVE  Core'
  <1>1. held = Free /\ desk = NoSess /\ UNCHANGED <<scen, desk, pool, pay, by, run, left>>
    BY DEF StartVerification, memory, system
  <1>4. PICK g : /\ g = Recorded(a) \/ g = ver
                 /\ \E b \in Read(a) : held' = Op("ver", <<"ver", a, Len(g[a])>>, a, a, b, "launch")
    BY DEF StartVerification
  <1>5. PICK b \in Read(a) : held' = Op("ver", <<"ver", a, Len(g[a])>>, a, a, b, "launch")
    BY <1>4
  <1>6. g \in [Accounts -> Seq(Shows)]
    BY <1>4, RecordedType DEF IInv, TypedData
  <1>7. PICK id \in Ids : id = <<"ver", a, Len(g[a])>>
    <2>1. Len(g[a]) \in Nat
      BY <1>6
    <2>2. <<"ver", a, Len(g[a])>> \in Ids
      BY <2>1 DEF Ids
    <2> QED BY <2>2
  <1>8. a \in Names /\ a \in Profiles /\ b \in Cookies
    BY ReadTypes DEF Names, Profiles, IInv
  <1>9. held' = Op("ver", id, a, a, b, "launch")
    BY <1>5, <1>7
  <1>10. held' \in Helds
    BY <1>8, <1>9, OpType DEF Starts
  <1>11. /\ held'.op = "ver" /\ held'.id = id /\ held'.acct = a /\ held'.profile = a /\ held'.pc = "launch"
         /\ id[1] = "ver"
    BY <1>7, <1>9 DEF Op
  <1> QED BY <1>1, <1>8, <1>10, <1>11, TakesLock DEF IInv

LEMMA CompleteCore ==
    ASSUME IInv, NEW a \in Accounts, CompleteVerification(a)
    PROVE  Core'
  <1>1. held = Free /\ desk.id[1] = "ver" /\ UNCHANGED <<scen, desk, pool, pay, by, run, left>>
    BY DEF CompleteVerification, memory, system
  <1>2. held' = [Op("complete", desk.id, a, a, desk.base, "cas") EXCEPT !.mine = cookie[a]]
    BY DEF CompleteVerification
  <1>3. PICK id \in Ids, b \in Cookies, c \in Cookies : id = desk.id /\ b = desk.base /\ c = cookie[a]
    BY ReadTypes DEF IInv, Core, TypedCore, Sessions
  <1>4. a \in Names /\ a \in Profiles
    BY DEF Names, Profiles
  <1>5. held' = [Op("complete", id, a, a, b, "cas") EXCEPT !.mine = c]
    BY <1>2, <1>3
  <1>6. held' \in Helds
    BY <1>4, <1>5, OpType
  <1>7. /\ held'.op = "complete" /\ held'.id = desk.id /\ held'.acct = a /\ held'.profile = a /\ held'.pc = "cas"
    BY <1>3, <1>5 DEF Op
  <1> QED BY <1>1, <1>4, <1>6, <1>7, TakesLock DEF IInv

LEMMA CrashCore ==
    ASSUME Core, Crash
    PROVE  Core'
  <1> USE DEF Core
  <1>1. /\ held' = Free /\ desk' = NoSess /\ pool' = [n \in {} |-> NoSess] /\ pay' = [n \in DOMAIN pay |-> "gone"]
        /\ by' = [a \in Accounts |-> 0] /\ scen' = scen
        /\ \/ run' = [p \in Profiles |-> 0] /\ left' = {}
           \/ UNCHANGED run /\ left' = left \cup Slots
    BY DEF Crash
  <1>2. pay' \in Seq(Shows) /\ Len(pay') = Len(pay) /\ Len(pay) \in Nat
    <2>1. pay \in Seq(Shows) /\ Len(pay) \in Nat /\ DOMAIN pay = 1..Len(pay)
      BY DEF TypedCore
    <2>2. "gone" \in Shows
      BY DEF Shows
    <2>3. pay' \in [1..Len(pay) -> Shows]
      BY <1>1, <2>1, <2>2
    <2> QED BY <2>1, <2>3
  <1>3. held'.op = "free" /\ held' \in Helds /\ desk' \in Sessions
    BY <1>1, FreeType
  <1>4. DOMAIN pool' = {} /\ pool' \in [DOMAIN pool' -> Sessions]
    BY <1>1
  <1>5. run' \in [Profiles -> Nat] /\ OneBrowserPerProfile'
    <2>1. CASE run' = [p \in Profiles |-> 0]
      <3>1. \A a \in Accounts : run'[a] = 0
        BY <2>1 DEF Profiles
      <3> QED BY <2>1, <3>1 DEF OneBrowserPerProfile
    <2>2. CASE UNCHANGED run
      BY <2>2 DEF TypedCore, RunOK, OneBrowserPerProfile
    <2> QED BY <1>1, <2>1, <2>2
  <1>6. TypedCore'
    BY <1>1, <1>2, <1>3, <1>4, <1>5 DEF TypedCore
  <1>7. PoolOK' /\ DeskOK'
    BY <1>1, <1>4, FreeType DEF PoolOK, DeskOK
  <1>8. HeldOK'
    BY <1>3 DEF HeldOK
  <1>9. RunOK' /\ UrlOK'
    BY <1>3, <1>5 DEF RunOK, UrlOK, Starts
  <1>10. SlotsCounted'
    <2>1. CASE held.op # "vnc"
      <3>1. Used' \subseteq Used
        BY <1>1, <1>4, <2>1 DEF Used, Slots
      <3> QED BY <1>2, <1>3, <3>1, SlotsFewer
    <2>2. CASE held.op = "vnc"
      <3>1. PICK U, x : U = Used /\ x = held.slot
        OBVIOUS
      <3>2. Used' \subseteq U \cup {x}
        BY <1>1, <1>4, <2>2, <3>1 DEF Used, Slots
      <3>3. IsFiniteSet(U) /\ Cardinality(U) < Len(pay)
        BY <2>2, <3>1 DEF SlotsCounted
      <3>4. Cardinality(U) \in Nat
        BY <3>3, FS_CardinalityType
      <3>5. /\ IsFiniteSet(U \cup {x})
            /\ Cardinality(U \cup {x}) = IF x \in U THEN Cardinality(U) ELSE Cardinality(U) + 1
        BY ONLY <3>3, FS_AddElement
      <3>6. IsFiniteSet(Used') /\ Cardinality(Used') <= Cardinality(U \cup {x})
        BY <3>2, <3>5, FS_Subset
      <3>7. Cardinality(Used') \in Nat
        BY <3>6, FS_CardinalityType
      <3> QED BY <1>2, <1>3, <3>3, <3>4, <3>5, <3>6, <3>7 DEF SlotsCounted
    <2> QED BY <2>1, <2>2
  <1> QED BY <1>6, <1>7, <1>8, <1>9, <1>10

LEMMA ForgetCore ==
    ASSUME Core, NEW a \in Accounts, ForgetBrowser(a)
    PROVE  Core'
  <1> USE DEF Core
  <1>1. /\ by' = [by EXCEPT ![a] = 0] /\ pay' = [pay EXCEPT ![by[a]] = "gone"]
        /\ UNCHANGED <<scen, held, desk, pool, run, left>>
    BY DEF ForgetBrowser, system
  <1>2. pay' \in Seq(Shows) /\ Len(pay') = Len(pay) /\ Len(pay) \in Nat
    <2>1. PICK x, k : x = "gone" /\ k = by[a]
      OBVIOUS
    <2>2. x \in Shows /\ pay \in Seq(Shows) /\ Len(pay) \in Nat
      BY <2>1 DEF Shows, TypedCore
    <2>3. [pay EXCEPT ![k] = x] \in Seq(Shows) /\ Len([pay EXCEPT ![k] = x]) = Len(pay)
      BY ONLY <2>2, SeqExcept
    <2> QED BY <1>1, <2>1, <2>2, <2>3
  <1>3. TypedCore'
    BY <1>1, <1>2 DEF TypedCore
  <1>4. PoolOK' /\ DeskOK'
    BY <1>1 DEF PoolOK, DeskOK
  <1>5. HeldOK'
    BY <1>1, <1>2 DEF HeldOK
  <1>6. RunOK' /\ UrlOK'
    BY <1>1 DEF RunOK, UrlOK, OneBrowserPerProfile
  <1>7. SlotsCounted'
    BY <1>1, <1>2, SlotsFewer DEF Used
  <1> QED BY <1>3, <1>4, <1>5, <1>6, <1>7

LEMMA OtherCore ==
    ASSUME IInv,
           \/ ExpireDesk \/ Tick \/ IssueTicket \/ Crash \/ StartQr
           \/ \E t \in tickets : ConsumeTicket(t)
           \/ \E n \in Browsers : CloseAccountBrowser(n) \/ ExpireAccount(n) \/ TouchAccountBrowser(n)
           \/ \E p \in Profiles : StopProfile(p)
           \/ \E a \in Accounts :
                \/ IdentityChange(a) \/ PrepareDeletion(a) \/ DeleteAccount(a) \/ ForgetBrowser(a)
                \/ StartAccountBrowser(a) \/ StartVerification(a) \/ CompleteVerification(a)
                \/ CancelVerification(a) \/ Edit(a) \/ Renew(a) \/ RiskDetected(a)
    PROVE  Core'
  <1>0. Core
    BY DEF IInv
  <1>1. ASSUME NEW st, DropDesk(st) PROVE Core'
    BY <1>0, <1>1, DropDeskCases, DeskCore
  <1>2. CASE ExpireDesk
    BY <1>1, <1>2 DEF ExpireDesk
  <1>3. CASE Tick
    BY <1>0, <1>3, TickCore
  <1>4. CASE IssueTicket
    <2>1. UNCHANGED <<scen, held, desk, pay, by, run, left>>
      BY <1>4 DEF IssueTicket, system
    <2>2. CASE UNCHANGED pool
      BY <1>0, <2>1, <2>2, CoreSame DEF CoreVars
    <2>3. CASE \E n \in DOMAIN pool : pool' = [pool EXCEPT ![n] = Touched(@)]
      BY <1>0, <2>1, <2>3, TouchCore
    <2> QED BY <1>4, <2>2, <2>3 DEF IssueTicket
  <1>5. CASE Crash
    BY <1>0, <1>5, CrashCore
  <1>6. CASE StartQr
    BY <1>6, StartQrCore
  <1>7. ASSUME NEW t \in tickets, ConsumeTicket(t) PROVE Core'
    BY <1>0, <1>7, CoreSame DEF ConsumeTicket, system, CoreVars
  <1>8. ASSUME NEW n \in Browsers, CloseAccountBrowser(n) \/ ExpireAccount(n) PROVE Core'
    BY <1>8, CloseCore DEF CloseAccountBrowser, ExpireAccount
  <1>9. ASSUME NEW n \in Browsers, TouchAccountBrowser(n) PROVE Core'
    BY <1>0, <1>9, TouchCore DEF TouchAccountBrowser, MayTouch, system
  <1>10. ASSUME NEW p \in Profiles, StopProfile(p) PROVE Core'
    <2>1. CASE \E n \in DOMAIN pool : BeginClose(n, "stop")
      BY <2>1, CloseCore
    <2>2. CASE DropDesk("cancelled")
      BY <1>1, <2>2
    <2>3. CASE run' = [run EXCEPT ![p] = 0] /\ UNCHANGED <<scen, held, memory, left>> /\ held = Free
      <3>1. run' \in [Profiles -> Nat] /\ OneBrowserPerProfile'
        <4>1. run \in [Profiles -> Nat] /\ OneBrowserPerProfile
          BY <1>0 DEF Core, TypedCore, RunOK
        <4>2. run' \in [Profiles -> Nat]
          BY <2>3, <4>1
        <4>3. \A a \in Accounts : run'[a] = 0 \/ run'[a] = run[a]
          BY <2>3, <4>1 DEF Profiles
        <4>4. 0 <= 1
          OBVIOUS
        <4> QED BY <4>1, <4>2, <4>3, <4>4 DEF OneBrowserPerProfile
      <3>2. /\ held' \in Helds /\ held' = Free /\ desk' \in Sessions /\ pay' \in Seq(Shows)
            /\ Len(pay') = Len(pay) /\ UNCHANGED <<scen, by, pool, left>>
        BY <1>0, <2>3 DEF memory, Core, TypedCore
      <3>3. DeskOK'
        BY <1>0, <2>3 DEF memory, Core, DeskOK
      <3> QED BY <1>0, <3>1, <3>2, <3>3, HeldMoves
    <2> QED BY <1>10, <2>1, <2>2, <2>3 DEF StopProfile
  <1>11. ASSUME NEW a \in Accounts, IdentityChange(a) PROVE Core'
    <2>1. CASE \E n \in OfAccount(a) : BeginClose(n, "identity")
      BY <2>1, CloseCore
    <2>2. CASE ClosesDesk /\ UNCHANGED <<scen, held, pool, pay, by, left>>
      BY <1>0, <1>11, <2>2, DeskCore DEF IdentityChange, ClosesDesk
    <2> QED BY <1>11, <2>1, <2>2 DEF IdentityChange
  <1>12. ASSUME NEW a \in Accounts, PrepareDeletion(a) PROVE Core'
    <2>1. CASE \E n \in OfAccount(a) : BeginClose(n, "delete")
      BY <2>1, CloseCore
    <2>2. CASE DropDesk("cancelled")
      BY <1>1, <2>2
    <2> QED BY <1>12, <2>1, <2>2 DEF PrepareDeletion
  <1>13. ASSUME NEW a \in Accounts, DeleteAccount(a) PROVE Core'
    BY <1>0, <1>13, CoreSame DEF DeleteAccount, memory, system, CoreVars
  <1>14. ASSUME NEW a \in Accounts, ForgetBrowser(a) PROVE Core'
    BY <1>0, <1>14, ForgetCore
  <1>15. ASSUME NEW a \in Accounts, StartAccountBrowser(a) PROVE Core'
    BY <1>15, StartVncCore
  <1>16. ASSUME NEW a \in Accounts, StartVerification(a) PROVE Core'
    BY <1>16, StartVerCore
  <1>17. ASSUME NEW a \in Accounts, CompleteVerification(a) PROVE Core'
    BY <1>17, CompleteCore
  <1>18. ASSUME NEW a \in Accounts, CancelVerification(a) PROVE Core'
    <2>1. held = Free /\ UNCHANGED <<scen, held, pool, pay, by, left>> /\ (EmptiesDesk \/ KeepsDesk)
      BY <1>18 DEF CancelVerification, ClosesDesk, RowLost
    <2> QED BY <1>0, <2>1, DeskCore
  <1>19. ASSUME NEW a \in Accounts, Edit(a) \/ Renew(a) \/ RiskDetected(a) PROVE Core'
    BY <1>0, <1>19, CoreSame DEF Edit, Renew, RiskDetected, Others, memory, system, CoreVars
  <1> QED BY <1>2, <1>3, <1>4, <1>5, <1>6, <1>7, <1>8, <1>9, <1>10, <1>11, <1>12, <1>13, <1>14, <1>15,
             <1>16, <1>17, <1>18, <1>19

LEMMA InitInv == Init => IInv
  <1> SUFFICES ASSUME Init PROVE IInv
    OBVIOUS
  <1>1. held = Free /\ desk = NoSess /\ pool = [n \in {} |-> NoSess] /\ pay = <<>> /\ scen \in Scenarios
    BY DEF Init
  <1>2. DOMAIN pool = {} /\ pay \in Seq(Shows) /\ Len(pay) = 0
    BY <1>1
  <1>3. held \in Helds /\ held.op = "free" /\ desk \in Sessions
    BY <1>1, FreeType
  <1>4. by \in [Accounts -> Nat] /\ run \in [Profiles -> Nat]
    BY DEF Init
  <1>5. TypedCore
    BY <1>1, <1>2, <1>3, <1>4, Bounds DEF TypedCore
  <1>6. PoolOK /\ DeskOK
    BY <1>1, <1>2, FreeType DEF PoolOK, DeskOK
  <1>7. HeldOK
    BY <1>3 DEF HeldOK
  <1>8. RunOK /\ UrlOK
    <2>1. \A a \in Accounts : run[a] = 0
      BY DEF Init, Profiles
    <2>2. 0 <= 1
      OBVIOUS
    <2> QED BY <1>3, <2>1, <2>2 DEF RunOK, UrlOK, Starts, OneBrowserPerProfile
  <1>9. SlotsCounted
    <2>1. Used = {}
      BY <1>2 DEF Used, Init
    <2> QED BY <1>2, <1>3, <2>1, FS_EmptySet DEF SlotsCounted
  <1>10. TypedData
    <2>1. scen.exists \subseteq Accounts /\ scen.scan \in Accounts \cup {"new"}
      BY <1>1, ScenarioFacts
    <2>2. NoCall \in Calls
      BY CookieTypes DEF NoCall, Calls
    <2>3. qr \in Logins
      BY <2>1, Bounds DEF Init, Logins
    <2>4. "none" \in Shows /\ <<>> \in Seq(Shows)
      BY DEF Shows
    <2>5. call \in [Requests -> Calls] /\ ver \in [Accounts -> Seq(Shows)]
      BY <2>2, <2>4 DEF Init, Requests
    <2>6. cookie \in [Accounts -> Cookies] /\ prev = cookie
      BY CookieTypes DEF Init
    <2> QED BY <2>1, <2>3, <2>4, <2>5, <2>6 DEF Init, TypedData
  <1> QED BY <1>5, <1>6, <1>7, <1>8, <1>9, <1>10 DEF IInv, Core

LEMMA StepInv == IInv /\ [Next]_vars => IInv'
  <1> SUFFICES ASSUME IInv, [Next]_vars PROVE IInv'
    OBVIOUS
  <1>1. TypedData'
    BY DataStep
  <1>2. CASE Next
    <2>1. HolderStep => Core'
      BY HolderCore, ReadyCore
    <2>2. ~HolderStep => Core'
      BY <1>2, LoginCore, OtherCore DEF Next
    <2> QED BY <1>1, <2>1, <2>2 DEF IInv
  <1>3. CASE UNCHANGED vars
    <2>1. Core'
      BY <1>3, CoreSame DEF vars, memory, system, CoreVars, IInv
    <2> QED BY <1>1, <2>1 DEF IInv
  <1> QED BY <1>2, <1>3

LEMMA Inductive == Spec => []IInv
  BY InitInv, StepInv, PTL DEF Spec

(* The profile directory of an account has one browser at most, whatever   *)
(* the starts, closes, failures and crashes of the API: _launch_browser is *)
(* only reached when no process has the profile, and the lock keeps that   *)
(* true until it is started.                                               *)
THEOREM ProfilesAreExclusive == Spec => []OneBrowserPerProfile
  <1>1. IInv => OneBrowserPerProfile
    BY DEF IInv, Core, RunOK
  <1> QED BY <1>1, Inductive, PTL

-----------------------------------------------------------------------------
(* Cookies stay with their owner.                                          *)

LEMMA OthersKeepHeld ==
    ASSUME Next, ~CheckCookie, ~Persist, ~Latest, ~PersistLocal, ~Tick
    PROVE  held' = held \/ held'.op # "close" \/ held'.pc = "check" \/ TokenGiven \/ Launch \/ VerificationUrl
           \/ SaveX5
  <1> DEFINE Goal == held' = held \/ held'.op # "close" \/ held'.pc = "check" \/ TokenGiven
                     \/ Launch \/ VerificationUrl \/ SaveX5
  <1> SUFFICES Goal
    OBVIOUS
  <1>1. Free.op # "close"
    BY FreeType
  <1>2. ASSUME NEW n, NEW why, BeginClose(n, why) PROVE Goal
    BY <1>2 DEF BeginClose, Op
  <1>3. ASSUME NEW st, DropDesk(st) PROVE Goal
    BY <1>3, DropDeskCases
  <1>4. CASE HolderStep
    BY <1>1, <1>4 DEF HolderStep, Tell, StartFails, BrowserReady, ReadyLost, Resumed, EndsWith
  <1>5. CASE ExpireDesk \/ \E n \in Browsers : CloseAccountBrowser(n) \/ ExpireAccount(n) \/ TouchAccountBrowser(n)
    BY <1>2, <1>3, <1>5 DEF ExpireDesk, CloseAccountBrowser, ExpireAccount, TouchAccountBrowser
  <1>6. ASSUME NEW a \in Accounts, IdentityChange(a) \/ PrepareDeletion(a) \/ DeleteAccount(a) \/ ForgetBrowser(a)
        PROVE  Goal
    BY <1>2, <1>3, <1>6 DEF IdentityChange, PrepareDeletion, DeleteAccount, ForgetBrowser
  <1>7. ASSUME NEW a \in Accounts, StartAccountBrowser(a) \/ StartVerification(a) \/ CompleteVerification(a)
        PROVE  Goal
    <2>1. CASE StartAccountBrowser(a)
      <3>1. held'.op = "vnc"
        BY <2>1 DEF StartAccountBrowser, Op
      <3> QED BY <3>1
    <2>2. CASE StartVerification(a)
      <3>1. held'.op = "ver"
        BY <2>2 DEF StartVerification, Op
      <3> QED BY <3>1
    <2>3. CASE CompleteVerification(a)
      <3>1. held'.op = "complete"
        BY <2>3 DEF CompleteVerification, Op
      <3> QED BY <3>1
    <2> QED BY <1>7, <2>1, <2>2, <2>3
  <1>8. ASSUME NEW a \in Accounts, CancelVerification(a) \/ Edit(a) \/ Renew(a) \/ RiskDetected(a)
        PROVE  Goal
    BY <1>8 DEF CancelVerification, Edit, Renew, RiskDetected, Others
  <1>9. ASSUME NEW p \in Profiles, StopProfile(p) PROVE Goal
    BY <1>2, <1>3, <1>9 DEF StopProfile
  <1>10. CASE IssueTicket \/ \E t \in tickets : ConsumeTicket(t)
    BY <1>10 DEF IssueTicket, ConsumeTicket
  <1>11. CASE StartQr
    <2>1. held'.op = "qr"
      BY <1>11 DEF StartQr, Op
    <2> QED BY <2>1
  <1>12. CASE \/ AskQr \/ PollQr \/ FinalizePoll \/ FailPoll \/ CancelQr \/ DeleteQr \/ CleanupQr
              \/ \E c \in Callers : PrepareQr(c)
    BY <1>12 DEF AskQr, PollQr, FinalizePoll, FailPoll, CancelQr, DeleteQr, CleanupQr, PrepareQr, Around, Rest
  <1>13. ASSUME NEW c, SaveLogin(c) PROVE Goal
    BY <1>13 DEF SaveLogin, PersistRead, CreateAccount, PersistCas, StartRuntime, FinishQr, RestoreQr, Around, Rest
  <1>14. CASE Crash
    BY <1>1, <1>14 DEF Crash
  <1> HIDE DEF Goal
  <1> QED BY <1>4, <1>5, <1>6, <1>7, <1>8, <1>9, <1>10, <1>11, <1>12, <1>13, <1>14 DEF Next

LEMMA HeldOwnerStep ==
    ASSUME IInv, HeldOwner, Next
    PROVE  HeldOwner'
  <1>0. held \in Helds /\ TypedCore
    BY DEF IInv, Core, TypedCore
  <1>1. CASE CheckCookie
    <2> DEFINE a == held.acct
    <2>1. CASE held' = [held EXCEPT !.pc = "tell"]
      <3>1. held'.pc = "tell"
        BY <1>0, <2>1, HeldFields
      <3> QED BY <3>1 DEF HeldOwner
    <2>2. CASE a \in exists /\ SameOwnerAs(a)
      <3>1. PICK b \in Checks, l \in Checks :
              /\ held.got = None => b = "invalid"
              /\ held.got.v = 0 /\ held.got # None => b = "unknown"
              /\ held' = [held EXCEPT !.mine = cookie[a],
                            !.pc = IF b = "valid" THEN "persist" ELSE IF l = "valid" THEN "local" ELSE "tell"]
        BY <1>1, <2>2 DEF CheckCookie
      <3>2. /\ held'.mine = cookie[a] /\ held'.got = held.got
            /\ held'.pc = IF b = "valid" THEN "persist" ELSE IF l = "valid" THEN "local" ELSE "tell"
        <4>1. PICK c, x : /\ c = cookie[a]
                          /\ x = IF b = "valid" THEN "persist" ELSE IF l = "valid" THEN "local" ELSE "tell"
                          /\ held' = [held EXCEPT !.mine = c, !.pc = x]
          BY <3>1
        <4>2. held'.mine = c /\ held'.got = held.got /\ held'.pc = x
          BY <1>0, <4>1 DEF Helds
        <4> QED BY <4>1, <4>2
      <3>3. CASE b = "valid"
        <4>1. held.got # None /\ held.got.v # 0
          BY <3>1, <3>3
        <4>2. held.got.own = cookie[a].own
          BY <2>2, <4>1 DEF SameOwnerAs
        <4> QED BY <3>2, <4>2 DEF HeldOwner
      <3>4. CASE b # "valid"
        BY <3>2, <3>4 DEF HeldOwner
      <3> QED BY <3>3, <3>4
    <2> QED BY <1>1, <2>1, <2>2 DEF CheckCookie
  <1>2. CASE Persist
    <2>1. PICK x : held' = [held EXCEPT !.pc = x]
      BY <1>2 DEF Persist
    <2>2. held'.got = held.got /\ held'.mine = held.mine
      BY <1>0, <2>1, HeldFields
    <2>3. held.got.own = held.mine.own
      BY <1>2 DEF Persist, HeldOwner
    <2> QED BY <2>2, <2>3 DEF HeldOwner
  <1>3. CASE Latest
    <2>1. CASE held' = [held EXCEPT !.pc = "tell"]
      <3>1. held'.pc = "tell"
        BY <1>0, <2>1, HeldFields
      <3> QED BY <3>1 DEF HeldOwner
    <2>2. CASE /\ cookie[held.acct].own = held.mine.own
               /\ held' = [held EXCEPT !.mine = cookie[held.acct], !.pc = "again"]
      <3>1. held'.got = held.got /\ held'.mine = cookie[held.acct]
        <4>1. PICK c : c = cookie[held.acct] /\ held' = [held EXCEPT !.mine = c, !.pc = "again"]
          BY <2>2
        <4>2. held'.mine = c /\ held'.got = held.got
          BY <1>0, <4>1 DEF Helds
        <4> QED BY <4>1, <4>2
      <3>2. held.got.own = held.mine.own
        BY <1>3 DEF Latest, Inner, HeldOwner
      <3> QED BY <2>2, <3>1, <3>2 DEF HeldOwner
    <2> QED BY <1>3, <2>1, <2>2 DEF Latest
  <1>4. CASE PersistLocal
    <2>1. held'.pc = "tell"
      BY <1>0, <1>4, HeldFields DEF PersistLocal
    <2> QED BY <2>1 DEF HeldOwner
  <1>5. CASE Tick
    BY <1>0, <1>5, TickKeeps DEF HeldOwner, HeldStays
  <1>6. CASE TokenGiven
    <2>1. held' = [held EXCEPT !.op = "resume", !.pc = "start"]
      BY <1>6 DEF TokenGiven
    <2>2. held'.op = "resume"
      BY <1>0, <2>1 DEF Helds
    <2> QED BY <2>2 DEF HeldOwner
  <1>7. CASE Launch \/ VerificationUrl \/ SaveX5
    <2>1. PICK x : held' = [held EXCEPT !.pc = x] \/ held' = Free
      BY <1>7 DEF Launch, VerificationUrl, SaveX5, EndsWith
    <2>2. held.op # "close"
      BY <1>7 DEF Launch, VerificationUrl, SaveX5, Starting
    <2>3. held'.op # "close"
      <3>1. CASE held' = Free
        BY <3>1, FreeType
      <3>2. CASE held' = [held EXCEPT !.pc = x]
        BY <1>0, <2>2, <3>2, HeldFields DEF HeldStays
      <3> QED BY <2>1, <3>1, <3>2
    <2> QED BY <2>3 DEF HeldOwner
  <1>8. CASE held' = held \/ held'.op # "close" \/ held'.pc = "check"
    BY <1>8 DEF HeldOwner
  <1> QED BY <1>1, <1>2, <1>3, <1>4, <1>5, <1>6, <1>7, <1>8, OthersKeepHeld

LEMMA CallWriters ==
    ASSUME Next
    PROVE  \/ call' = call \/ PollQr \/ FinalizePoll \/ FailPoll \/ Crash
           \/ \E c \in Callers : PrepareQr(c)
           \/ \E c \in DOMAIN call : SaveLogin(c)
  <1> DEFINE Goal == \/ call' = call \/ PollQr \/ FinalizePoll \/ FailPoll \/ Crash
                     \/ \E c \in Callers : PrepareQr(c)
                     \/ \E c \in DOMAIN call : SaveLogin(c)
  <1> SUFFICES Goal
    OBVIOUS
  <1>1. ASSUME NEW n, NEW why, BeginClose(n, why) PROVE call' = call
    BY <1>1 DEF BeginClose
  <1>2. ASSUME NEW st, DropDesk(st) PROVE call' = call
    BY <1>2, DropDeskCases
  <1>3. CASE HolderStep
    BY <1>3 DEF HolderStep, CheckCookie, Persist, Latest, PersistLocal, Tell, Launch, StartFails, BrowserReady,
                ReadyLost, VerificationUrl, TokenGiven, SaveX5, Resumed, Outside, memory
  <1>4. CASE ExpireDesk \/ Tick \/ \E n \in Browsers : CloseAccountBrowser(n) \/ ExpireAccount(n) \/ TouchAccountBrowser(n)
    BY <1>1, <1>2, <1>4 DEF ExpireDesk, Tick, CloseAccountBrowser, ExpireAccount, TouchAccountBrowser
  <1>5. ASSUME NEW a \in Accounts, IdentityChange(a) \/ PrepareDeletion(a) \/ DeleteAccount(a) \/ ForgetBrowser(a)
        PROVE  call' = call
    BY <1>1, <1>2, <1>5 DEF IdentityChange, PrepareDeletion, DeleteAccount, ForgetBrowser, memory
  <1>6. ASSUME NEW a \in Accounts,
               \/ StartAccountBrowser(a) \/ StartVerification(a) \/ CompleteVerification(a)
               \/ CancelVerification(a) \/ Edit(a) \/ Renew(a) \/ RiskDetected(a)
        PROVE  call' = call
    BY <1>6 DEF StartAccountBrowser, StartVerification, CompleteVerification, CancelVerification, Edit, Renew,
                RiskDetected, Others, memory
  <1>7. ASSUME NEW p \in Profiles, StopProfile(p) PROVE call' = call
    BY <1>1, <1>2, <1>7 DEF StopProfile, memory
  <1>8. CASE IssueTicket \/ StartQr \/ AskQr \/ CancelQr \/ DeleteQr \/ CleanupQr \/ \E t \in tickets : ConsumeTicket(t)
    BY <1>8 DEF IssueTicket, ConsumeTicket, StartQr, AskQr, CancelQr, DeleteQr, CleanupQr
  <1> QED BY <1>3, <1>4, <1>5, <1>6, <1>7, <1>8 DEF Next

(* A request that is about to swap the cookie compared it with the one it  *)
(* replaces.                                                               *)
LEMMA CallOwnerStep ==
    ASSUME IInv, CallOwner, Next
    PROVE  CallOwner'
  <1>0. call \in [Requests -> Calls] /\ "poll" \in Requests /\ DOMAIN call = Requests
    BY DEF IInv, TypedData, Requests
  <1>1. ASSUME NEW c \in Requests, NEW q, call' = [call EXCEPT ![c] = q], q.pc # "cas" \/ q.cookie.own = q.cur.own
        PROVE  CallOwner'
    <2>1. \A d \in Requests : call'[d] = IF d = c THEN q ELSE call[d]
      BY <1>0, <1>1
    <2> QED BY <1>1, <2>1 DEF CallOwner
  <1>2. ASSUME NEW c \in Requests, NEW x, x # "cas", call' = [call EXCEPT ![c].pc = x] PROVE CallOwner'
    <2>1. call[c] \in Calls
      BY <1>0
    <2>2a. PICK q : q = [call[c] EXCEPT !.pc = x]
      OBVIOUS
    <2>2. q = [call[c] EXCEPT !.pc = x] /\ q.pc = x
      BY <2>1, <2>2a DEF Calls
    <2>3. call' = [call EXCEPT ![c] = q]
      BY <1>2, <2>2
    <2> QED BY <1>1, <1>2, <2>2, <2>3
  <1>3. NoCall.pc # "cas" /\ Done.pc # "cas"
    BY DEF NoCall, Done
  <1>4. CASE call' = call
    BY <1>4 DEF CallOwner
  <1>5. CASE PollQr
    <2>1. PICK x \in {"final", "idle"} : call' = [call EXCEPT !["poll"].pc = x]
      BY <1>5 DEF PollQr
    <2> QED BY <1>0, <1>2, <2>1
  <1>6. CASE FinalizePoll \/ FailPoll
    <2>1. CASE call' = [call EXCEPT !["poll"] = NoCall]
      BY <1>0, <1>1, <1>3, <2>1
    <2>2. CASE \E o \in Owners : call' = [call EXCEPT !["poll"] = [@ EXCEPT !.pc = "read", !.cookie = New(o)]]
      <3>1. PICK k : call' = [call EXCEPT !["poll"] = [@ EXCEPT !.pc = "read", !.cookie = k]]
        BY <2>2
      <3>2a. PICK q : q = [call["poll"] EXCEPT !.pc = "read", !.cookie = k]
        OBVIOUS
      <3>2. q = [call["poll"] EXCEPT !.pc = "read", !.cookie = k] /\ q.pc = "read"
        BY <1>0, <3>2a DEF Calls
      <3>3. call' = [call EXCEPT !["poll"] = q]
        BY <3>1, <3>2
      <3> QED BY <1>0, <1>1, <3>2, <3>3
    <2> QED BY <1>6, <2>1, <2>2 DEF FinalizePoll, FailPoll
  <1>7. CASE Crash
    BY <1>0, <1>3, <1>7 DEF Crash, CallOwner
  <1>8. ASSUME NEW c \in Callers, PrepareQr(c) PROVE CallOwner'
    <2>0. c \in Requests /\ call[c] \in Calls
      BY <1>0 DEF Requests
    <2>1. CASE \E o \in Owners : call' = [call EXCEPT ![c] = [@ EXCEPT !.pc = "read", !.cookie = New(o)]]
      <3>1. PICK k : call' = [call EXCEPT ![c] = [@ EXCEPT !.pc = "read", !.cookie = k]]
        BY <2>1
      <3>2a. PICK q : q = [call[c] EXCEPT !.pc = "read", !.cookie = k]
        OBVIOUS
      <3>2. q = [call[c] EXCEPT !.pc = "read", !.cookie = k] /\ q.pc = "read"
        BY <2>0, <3>2a DEF Calls
      <3>3. call' = [call EXCEPT ![c] = q]
        BY <3>1, <3>2
      <3> QED BY <2>0, <1>1, <3>2, <3>3
    <2>2. CASE call' = call
      BY <1>4, <2>2
    <2> QED BY <1>8, <2>1, <2>2 DEF PrepareQr
  <1>9. ASSUME NEW c \in Requests, SaveLogin(c) PROVE CallOwner'
    <2>0. call[c] \in Calls
      BY <1>0
    <2>g. ASSUME GivesUp(c) PROVE CallOwner'
      BY <1>2, <2>g DEF GivesUp
    <2>1. CASE PersistRead(c)
      <3>1. CASE SameLogin(c, cookie[qr.acct]) /\ ~GivesUp(c)
        <4>1. PICK k, a : /\ k = cookie[qr.acct]
                          /\ call' = [call EXCEPT ![c] = [@ EXCEPT !.pc = "cas", !.cur = k, !.acct = a]]
          BY <2>1, <3>1 DEF PersistRead
        <4>2a. PICK q : q = [call[c] EXCEPT !.pc = "cas", !.cur = k, !.acct = a]
          OBVIOUS
        <4>2. q = [call[c] EXCEPT !.pc = "cas", !.cur = k, !.acct = a] /\ q.cookie = call[c].cookie /\ q.cur = k
          BY <2>0, <4>2a DEF Calls
        <4>3. call' = [call EXCEPT ![c] = q]
          BY <4>1, <4>2
        <4>4. q.cookie.own = q.cur.own
          BY <3>1, <4>1, <4>2 DEF SameLogin
        <4> QED BY <1>1, <4>3, <4>4
      <3> QED BY <2>1, <2>g, <3>1 DEF PersistRead
    <2>2. CASE CreateAccount(c)
      <3>1. PICK a : call' = [call EXCEPT ![c] = [@ EXCEPT !.pc = "start", !.acct = a]]
        BY <2>2 DEF CreateAccount
      <3>2a. PICK q : q = [call[c] EXCEPT !.pc = "start", !.acct = a]
        OBVIOUS
      <3>2. q = [call[c] EXCEPT !.pc = "start", !.acct = a] /\ q.pc = "start"
        BY <2>0, <3>2a DEF Calls
      <3>3. call' = [call EXCEPT ![c] = q]
        BY <3>1, <3>2
      <3> QED BY <1>1, <3>2, <3>3
    <2>3. CASE PersistCas(c)
      <3>1. GivesUp(c) \/ call' = [call EXCEPT ![c].pc = "start"]
        BY <2>3 DEF PersistCas
      <3> QED BY <1>2, <2>g, <3>1
    <2>4. CASE StartRuntime(c)
      <3>1. CASE call' = [call EXCEPT ![c] = NoCall]
        BY <1>1, <1>3, <3>1
      <3>2. CASE call' = [call EXCEPT ![c] = [@ EXCEPT !.pc = "finish"]]
        <4>1a. PICK q : q = [call[c] EXCEPT !.pc = "finish"]
          OBVIOUS
        <4>1. q = [call[c] EXCEPT !.pc = "finish"] /\ q.pc = "finish"
          BY <2>0, <4>1a DEF Calls
        <4>2. call' = [call EXCEPT ![c] = q]
          BY <3>2, <4>1
        <4> QED BY <1>1, <4>1, <4>2
      <3> QED BY <2>4, <2>g, <3>1, <3>2 DEF StartRuntime
    <2>5. CASE FinishQr(c) \/ RestoreQr(c)
      <3>1. call' = [call EXCEPT ![c] = Done]
        BY <2>5 DEF FinishQr, RestoreQr
      <3> QED BY <1>1, <1>3, <3>1
    <2> QED BY <1>9, <2>1, <2>2, <2>3, <2>4, <2>5 DEF SaveLogin
  <1> QED BY <1>0, <1>4, <1>5, <1>6, <1>7, <1>8, <1>9, CallWriters

CookieWriter ==
    \/ Persist \/ PersistLocal \/ VerificationUrl \/ TokenGiven \/ SaveX5
    \/ \E c \in DOMAIN call : CreateAccount(c) \/ PersistCas(c)
    \/ \E a \in Accounts : Edit(a) \/ Renew(a)

LEMMA CookieWriters ==
    ASSUME Next
    PROVE  cookie' = cookie \/ CookieWriter
  <1>1. ASSUME NEW n, NEW why, BeginClose(n, why) PROVE cookie' = cookie
    BY <1>1 DEF BeginClose
  <1>2. ASSUME NEW st, DropDesk(st) PROVE cookie' = cookie
    BY <1>2, DropDeskCases
  <1>3. CASE HolderStep
    BY <1>3 DEF HolderStep, CookieWriter, CheckCookie, Latest, Tell, Launch, StartFails, BrowserReady,
                ReadyLost, Resumed, stored
  <1>4. CASE ExpireDesk \/ Tick \/ Crash
             \/ \E n \in Browsers : CloseAccountBrowser(n) \/ ExpireAccount(n) \/ TouchAccountBrowser(n)
    BY <1>1, <1>2, <1>4 DEF ExpireDesk, Tick, Crash, CloseAccountBrowser, ExpireAccount, TouchAccountBrowser, stored
  <1>5. ASSUME NEW a \in Accounts, IdentityChange(a) \/ PrepareDeletion(a) \/ DeleteAccount(a) \/ ForgetBrowser(a)
        PROVE  cookie' = cookie
    BY <1>1, <1>2, <1>5 DEF IdentityChange, PrepareDeletion, DeleteAccount, ForgetBrowser, stored
  <1>6. ASSUME NEW a \in Accounts,
               \/ StartAccountBrowser(a) \/ StartVerification(a) \/ CompleteVerification(a)
               \/ CancelVerification(a) \/ RiskDetected(a)
        PROVE  cookie' = cookie
    BY <1>6 DEF StartAccountBrowser, StartVerification, CompleteVerification, CancelVerification,
                RiskDetected, stored
  <1>7. ASSUME NEW p \in Profiles, StopProfile(p) PROVE cookie' = cookie
    BY <1>1, <1>2, <1>7 DEF StopProfile, stored
  <1>8. CASE \/ IssueTicket \/ StartQr \/ AskQr \/ CancelQr \/ DeleteQr \/ CleanupQr \/ PollQr \/ FinalizePoll
             \/ FailPoll \/ \E t \in tickets : ConsumeTicket(t)
    BY <1>8 DEF IssueTicket, ConsumeTicket, StartQr, AskQr, CancelQr, DeleteQr, CleanupQr, PollQr, FinalizePoll,
                FailPoll, Rest, stored
  <1>9. CASE \E c \in Callers : PrepareQr(c)
    BY <1>9 DEF PrepareQr
  <1>10. ASSUME NEW c \in DOMAIN call, SaveLogin(c) PROVE cookie' = cookie \/ CookieWriter
    BY <1>10 DEF SaveLogin, CookieWriter, PersistRead, StartRuntime, FinishQr, RestoreQr, Rest, stored
  <1>11. ASSUME NEW a \in Accounts, Edit(a) \/ Renew(a) PROVE CookieWriter
    BY <1>11 DEF CookieWriter
  <1> QED BY <1>3, <1>4, <1>5, <1>6, <1>7, <1>8, <1>9, <1>10, <1>11 DEF Next

LEMMA OwnerStep ==
    ASSUME IInv, OwnersKept, Next, NEW a \in exists, cookie'[a].own # cookie[a].own
    PROVE  Edit(a)
  <1>0. TypedData /\ a \in Accounts /\ vers \in Nat /\ DOMAIN call = Requests
    BY DEF IInv, TypedData
  <1>1. ASSUME NEW b, NEW old, NEW c \in Cookies, NEW ok, Swaps(b, old, c, ok), c.own = old.own PROVE FALSE
    <2>1. cookie'[a] # cookie[a] => cookie[a] = old /\ cookie'[a] = c
      BY <1>0, <1>1, SwapsType
    <2> QED BY <1>1, <2>1
  <1>2. /\ held.base \in Cookies /\ held.mine \in Cookies /\ held.got \in Cookies
        /\ held.base.own \in Owners \cup {"none"} /\ held.mine.own \in Owners \cup {"none"}
    BY DEF IInv, Core, TypedCore, Helds, Cookies
  <1>3. /\ New(held.base.own) \in Cookies /\ New(held.mine.own) \in Cookies
        /\ New(held.base.own).own = held.base.own /\ New(held.mine.own).own = held.mine.own
    BY <1>0, <1>2, CookieTypes DEF New
  <1>4. CASE Persist
    <2>1. PICK ok : Swaps(held.acct, held.mine, held.got, ok)
      BY <1>4 DEF Persist
    <2>2. held.got.own = held.mine.own
      BY <1>4 DEF Persist, OwnersKept, HeldOwner
    <2> QED BY <1>1, <1>2, <2>1, <2>2
  <1>5. CASE PersistLocal
    <2>1. PICK ok \in BOOLEAN, c \in {held.mine, New(held.mine.own)} : Swaps(held.acct, held.mine, c, ok)
      BY <1>5 DEF PersistLocal
    <2>2. c \in Cookies /\ c.own = held.mine.own
      BY <1>2, <1>3
    <2> QED BY <1>1, <2>1, <2>2
  <1>6. CASE VerificationUrl
    <2>1. cookie' # cookie
      OBVIOUS
    <2>2. PICK ok : Swaps(held.acct, held.base, New(held.base.own), ok)
      BY <1>6, <2>1 DEF VerificationUrl
    <2> QED BY <1>1, <1>3, <2>2
  <1>7. CASE TokenGiven
    <2>1. PICK ok : Swaps(held.acct, held.base, New(held.base.own), ok)
      BY <1>7 DEF TokenGiven
    <2> QED BY <1>1, <1>3, <2>1
  <1>8. CASE SaveX5
    <2>1. cookie' # cookie
      OBVIOUS
    <2>2. Swaps(held.acct, held.mine, New(held.mine.own), TRUE)
      BY <1>8, <2>1 DEF SaveX5
    <2> QED BY <1>1, <1>3, <2>2
  <1>9. ASSUME NEW c \in DOMAIN call, CreateAccount(c) PROVE FALSE
    <2>1. PICK b \in Accounts \ exists : Store(b, call[c].cookie)
      BY <1>9 DEF CreateAccount
    <2>2. cookie'[a] = cookie[a]
      BY <1>0, <2>1 DEF Store, TypedData
    <2> QED BY <2>2
  <1>10. ASSUME NEW c \in DOMAIN call, PersistCas(c) PROVE FALSE
    <2>1. PICK ok : Swaps(call[c].acct, call[c].cur, call[c].cookie, ok)
      BY <1>10 DEF PersistCas
    <2>2. call[c].cookie \in Cookies
      BY <1>0 DEF TypedData, Calls
    <2>3. call[c].cookie.own = call[c].cur.own
      BY <1>0, <1>10 DEF PersistCas, OwnersKept, CallOwner
    <2> QED BY <1>1, <2>1, <2>2, <2>3
  <1>11. ASSUME NEW b \in Accounts, Edit(b) PROVE Edit(a)
    <2>1. PICK c : Store(b, c)
      BY <1>11 DEF Edit
    <2>2. a # b => cookie'[a] = cookie[a]
      BY <1>0, <2>1 DEF Store, TypedData
    <2> QED BY <1>11, <2>2
  <1>12. ASSUME NEW b \in Accounts, Renew(b) PROVE FALSE
    <2>1. Store(b, New(cookie[b].own))
      BY <1>12 DEF Renew
    <2>2. cookie'[a] = IF a = b THEN New(cookie[b].own) ELSE cookie[a]
      BY <1>0, <2>1 DEF Store, TypedData
    <2> QED BY <2>2 DEF New
  <1> QED BY <1>4, <1>5, <1>6, <1>7, <1>8, <1>9, <1>10, <1>11, <1>12, CookieWriters DEF CookieWriter

(* The cookie of an account passes to another platform account only by the *)
(* operator's edit, for every interleaving of closing browsers, logins,    *)
(* verifications, renewals and edits: what is swapped in was compared with *)
(* exactly the cookie it replaces (compare_and_set_account_cookie).        *)
THEOREM CookiesStayWithTheirOwner == Spec => SameOwner
  <1>1. Init => OwnersKept
    <2>1. ASSUME Init PROVE OwnersKept
      <3>1. held.op # "close"
        BY <2>1, FreeType DEF Init
      <3>2. \A c \in Requests : call[c].pc = "idle"
        BY <2>1 DEF Init, Requests, NoCall
      <3> QED BY <3>1, <3>2 DEF OwnersKept, HeldOwner, CallOwner
    <2> QED BY <2>1
  <1>2. IInv /\ OwnersKept /\ [Next]_vars => OwnersKept'
    <2>1. ASSUME IInv, OwnersKept, Next PROVE OwnersKept'
      BY <2>1, HeldOwnerStep, CallOwnerStep DEF OwnersKept
    <2>2. ASSUME OwnersKept, UNCHANGED vars PROVE OwnersKept'
      BY <2>2 DEF OwnersKept, HeldOwner, CallOwner, vars, memory
    <2> QED BY <2>1, <2>2
  <1>3. IInv /\ OwnersKept /\ [Next]_vars
           => [\A a \in exists : cookie'[a].own # cookie[a].own => Edit(a)]_vars
    BY OwnerStep
  <1> QED BY <1>1, <1>2, <1>3, Inductive, PTL DEF Spec, SameOwner

-----------------------------------------------------------------------------
(* Desktops and tickets.                                                   *)

(* The session of a ticket.                                                *)
Opens(t) == \/ desk # NoSess /\ t = <<desk.id, desk.slot>>
            \/ \E n \in DOMAIN pool : t = <<pool[n].id, pool[n].slot>>

LEMMA LiveOpens ==
    /\ TicketsLive <=> \A t \in tickets : Opens(t)
    /\ TicketsLive' <=> \A t \in tickets' : Opens(t)'
  <1>1. ASSUME NEW t PROVE (\E q \in Actives : <<q.id, q.slot>> = t) <=> Opens(t)
    BY DEF Actives, Opens
  <1>2. ASSUME NEW t PROVE (\E q \in Actives' : <<q.id, q.slot>> = t) <=> Opens(t)'
    BY DEF Actives, Opens
  <1>3. TicketsLive <=> \A t \in tickets : Opens(t)
    BY <1>1 DEF TicketsLive
  <1>4. TicketsLive' <=> \A t \in tickets' : Opens(t)'
    BY <1>2 DEF TicketsLive
  <1> QED BY <1>3, <1>4

HeldSlot == held'.op = "vnc" => held.op = "vnc" /\ held'.slot = held.slot

(* The sessions keep their desktops.                                       *)
LEMMA DesksSame ==
    ASSUME Desktops, HeldSlot, UNCHANGED <<desk, pool, left>>, tickets' \subseteq tickets
    PROVE  Desktops'
  <1>1. OwnDesktop' /\ DeskSlot'
    BY DEF Desktops, OwnDesktop, DeskSlot
  <1>2. SlotTaken'
    BY DEF Desktops, SlotTaken, HeldSlot, Used
  <1>3. \A t \in tickets' : Opens(t)'
    BY LiveOpens DEF Desktops, Opens
  <1> QED BY <1>1, <1>2, <1>3, LiveOpens DEF Desktops

LEMMA DeskGone ==
    ASSUME Desktops, HeldSlot, EmptiesDesk, UNCHANGED <<pool, left>>
    PROVE  Desktops'
  <1>1. OwnDesktop' /\ DeskSlot'
    BY FreeType DEF Desktops, OwnDesktop, DeskSlot, EmptiesDesk
  <1>2. SlotTaken'
    BY DEF Desktops, SlotTaken, HeldSlot, Used
  <1>3. ASSUME NEW t \in tickets' PROVE Opens(t)'
    <2>1. t \in tickets /\ t[1] # desk.id
      BY <1>3 DEF EmptiesDesk, Purged
    <2>2. Opens(t)
      BY <2>1, LiveOpens DEF Desktops
    <2>3. t # <<desk.id, desk.slot>>
      BY <2>1
    <2> QED BY <2>2, <2>3 DEF Opens
  <1> QED BY <1>1, <1>2, <1>3, LiveOpens DEF Desktops

LEMMA CloseDesktops ==
    ASSUME Desktops, NEW n, NEW why, BeginClose(n, why)
    PROVE  Desktops'
  <1>1. /\ n \in DOMAIN pool /\ pool' = [m \in DOMAIN pool \ {n} |-> pool[m]]
        /\ tickets' = Purged(pool[n].id) /\ UNCHANGED <<desk, left>>
    BY DEF BeginClose
  <1>2. DOMAIN pool' = DOMAIN pool \ {n} /\ \A m \in DOMAIN pool' : pool'[m] = pool[m]
    BY <1>1
  <1>3. held'.op = "close"
    BY DEF BeginClose, Op
  <1>4. OwnDesktop' /\ DeskSlot'
    BY <1>1, <1>2 DEF Desktops, OwnDesktop, DeskSlot
  <1>5. SlotTaken'
    BY <1>3 DEF SlotTaken
  <1>6. ASSUME NEW t \in tickets' PROVE Opens(t)'
    <2>1. t \in tickets /\ t[1] # pool[n].id
      BY <1>1, <1>6 DEF Purged
    <2>2. Opens(t)
      BY <2>1, LiveOpens DEF Desktops
    <2>3. t # <<pool[n].id, pool[n].slot>>
      BY <2>1
    <2> QED BY <1>1, <1>2, <2>2, <2>3 DEF Opens
  <1> QED BY <1>4, <1>5, <1>6, LiveOpens DEF Desktops

(* Timers run, and a ticket is issued for a session that is there.         *)
LEMMA TimedDesktops ==
    ASSUME Desktops, HeldSlot, left' = left,
           desk = NoSess <=> desk' = NoSess, desk'.id = desk.id, desk'.slot = desk.slot,
           DOMAIN pool' = DOMAIN pool,
           \A n \in DOMAIN pool : pool'[n].id = pool[n].id /\ pool'[n].slot = pool[n].slot,
           \A t \in tickets' : t \in tickets \/ Opens(t)
    PROVE  Desktops'
  <1>1. OwnDesktop' /\ DeskSlot'
    BY DEF Desktops, OwnDesktop, DeskSlot
  <1>2. Used' = Used
    BY DEF Used
  <1>3. SlotTaken'
    BY <1>2 DEF Desktops, SlotTaken, HeldSlot
  <1>4. ASSUME NEW t \in tickets' PROVE Opens(t)'
    <2>1. Opens(t)
      BY <1>4, LiveOpens DEF Desktops
    <2> QED BY <2>1 DEF Opens
  <1> QED BY <1>1, <1>3, <1>4, LiveOpens DEF Desktops

LEMMA ReadyDesktops ==
    ASSUME IInv, Desktops, BrowserReady \/ ReadyLost
    PROVE  Desktops'
  <1>0. held'.op = "free" /\ UNCHANGED <<left, tickets>>
    BY FreeType DEF BrowserReady, ReadyLost, system
  <1>1. SlotTaken'
    BY <1>0 DEF SlotTaken
  <1>2. CASE BrowserReady /\ held.op = "vnc"
    <2> DEFINE n == held.id[3]
               q == Sess(held.id, held.acct, held.profile, held.base, held.slot, Idle, held.max)
    <2>1. pool' = [m \in DOMAIN pool \cup {n} |-> IF m # n THEN pool[m] ELSE Touched(q)] /\ desk' = desk
      BY <1>2 DEF BrowserReady
    <2>2. n \notin DOMAIN pool
      BY <1>2 DEF IInv, Core, HeldOK
    <2>3. q \in Sessions
      BY <1>2, HeldTypes, Bounds DEF Sess, Sessions, IInv, Core, TypedCore
    <2>4. q.slot = held.slot
      BY DEF Sess
    <2>5. Touched(q).slot = held.slot
      BY <2>3, <2>4, TouchedType
    <2>6. held.slot \notin Used \cup {0}
      BY <1>2 DEF Desktops, SlotTaken
    <2> HIDE DEF q, n
    <2>7. /\ DOMAIN pool' = DOMAIN pool \cup {n}
          /\ \A m \in DOMAIN pool : pool'[m] = pool[m]
          /\ pool'[n].slot = held.slot
      BY <2>1, <2>2, <2>5
    <2>8. held.slot \notin left \cup {0} /\ \A m \in DOMAIN pool : pool[m].slot # held.slot
      BY <2>6 DEF Used
    <2>9. OwnDesktop' /\ DeskSlot'
      BY <1>0, <2>1, <2>2, <2>7, <2>8 DEF Desktops, OwnDesktop, DeskSlot
    <2>10. \A t \in tickets' : Opens(t)'
      BY <1>0, <2>1, <2>7, LiveOpens DEF Desktops, Opens
    <2> QED BY <1>1, <2>9, <2>10, LiveOpens DEF Desktops
  <1>3. CASE ReadyLost \/ held.op # "vnc"
    <2>1. UNCHANGED pool
      BY <1>3 DEF BrowserReady, ReadyLost
    <2>2. held.op \in {"qr", "ver"}
      BY <1>3 DEF BrowserReady, ReadyLost, Starting
    <2>3. desk = NoSess
      BY <2>2 DEF IInv, Core, HeldOK
    <2>4. OwnDesktop'
      BY <1>0, <2>1 DEF Desktops, OwnDesktop
    <2>6. DeskSlot'
      BY <1>3 DEF BrowserReady, ReadyLost, Sess, DeskSlot
    <2>5. \A t \in tickets' : Opens(t)'
      BY <1>0, <2>1, <2>3, LiveOpens DEF Desktops, Opens
    <2> QED BY <1>1, <2>4, <2>5, <2>6, LiveOpens DEF Desktops
  <1> QED BY <1>2, <1>3

LEMMA HolderDesktops ==
    ASSUME IInv, Desktops, HolderStep
    PROVE  Desktops'
  <1>0. held \in Helds
    BY DEF IInv, Core, TypedCore
  <1>1. ASSUME NEW x, held' = [held EXCEPT !.pc = x] PROVE HeldSlot
    BY <1>0, <1>1, HeldFields DEF HeldSlot, HeldStays
  <1>2. ASSUME held' = Free PROVE HeldSlot
    BY <1>2, FreeType DEF HeldSlot
  <1>3. CASE CheckCookie \/ Latest
    <2>1. held.op = "close"
      BY <1>3 DEF CheckCookie, Latest, Inner
    <2>2. PICK c, x : held' = [held EXCEPT !.pc = x] \/ held' = [held EXCEPT !.mine = c, !.pc = x]
      BY <1>3 DEF CheckCookie, Latest
    <2>3. held'.op = held.op
      <3>1. CASE held' = [held EXCEPT !.pc = x]
        BY <1>0, <3>1 DEF Helds
      <3>2. CASE held' = [held EXCEPT !.mine = c, !.pc = x]
        BY <1>0, <3>2 DEF Helds
      <3> QED BY <2>2, <3>1, <3>2
    <2>4. HeldSlot
      BY <2>1, <2>3 DEF HeldSlot
    <2> QED BY <1>3, <2>4, DesksSame DEF CheckCookie, Latest, Outside, memory, system
  <1>4. CASE Persist \/ PersistLocal
    <2>1. HeldSlot
      BY <1>1, <1>4 DEF Persist, PersistLocal
    <2> QED BY <1>4, <2>1, DesksSame DEF Persist, PersistLocal, Outside, memory, system
  <1>5. CASE Tell
    <2>1. HeldSlot
      BY <1>2, <1>5 DEF Tell
    <2>2. CASE ClosesDesk
      BY <1>5, <2>1, <2>2, DeskGone DEF Tell, ClosesDesk
    <2>3. CASE KeepsDesk
      BY <1>5, <2>1, <2>3, DesksSame DEF Tell, KeepsDesk
    <2> QED BY <1>5, <2>2, <2>3 DEF Tell
  <1>6. CASE Launch
    <2>1. HeldSlot
      BY <1>1, <1>6 DEF Launch
    <2> QED BY <1>6, <2>1, DesksSame DEF Launch, memory
  <1>7. CASE StartFails
    <2>1. HeldSlot
      BY <1>2, <1>7 DEF StartFails
    <2> QED BY <1>7, <2>1, DesksSame DEF StartFails
  <1>8. CASE BrowserReady \/ ReadyLost
    BY <1>8, ReadyDesktops
  <1>9. CASE VerificationUrl
    <2>1. HeldSlot
      BY <1>1, <1>9 DEF VerificationUrl
    <2> QED BY <1>9, <2>1, DesksSame DEF VerificationUrl, memory, system
  <1>10. CASE TokenGiven
    <2>1. held' = [held EXCEPT !.op = "resume", !.pc = "start"]
      BY <1>10 DEF TokenGiven
    <2>2. held'.op = "resume"
      BY <1>0, <2>1 DEF Helds
    <2>3. HeldSlot
      BY <2>2 DEF HeldSlot
    <2> QED BY <1>10, <2>3, DesksSame DEF TokenGiven, memory
  <1>11. CASE SaveX5
    <2>1. HeldSlot
      BY <1>1, <1>2, <1>11 DEF SaveX5, EndsWith
    <2> QED BY <1>11, <2>1, DeskGone DEF SaveX5, ClosesDesk
  <1>12. CASE Resumed
    <2>1. HeldSlot
      BY <1>2, <1>12 DEF Resumed, EndsWith
    <2> QED BY <1>12, <2>1, DesksSame DEF Resumed, memory, system
  <1> QED BY <1>3, <1>4, <1>5, <1>6, <1>7, <1>8, <1>9, <1>10, <1>11, <1>12 DEF HolderStep

LEMMA LoginDesktops ==
    ASSUME IInv, Desktops,
           \/ AskQr \/ StartQr \/ PollQr \/ FinalizePoll \/ FailPoll \/ CancelQr \/ DeleteQr \/ CleanupQr
           \/ \E c \in Callers : PrepareQr(c)
           \/ \E c \in DOMAIN call : SaveLogin(c)
    PROVE  Desktops'
  <1>0. ASSUME held' = held PROVE HeldSlot
    BY <1>0 DEF HeldSlot
  <1>1. ASSUME UNCHANGED Around PROVE Desktops'
    BY <1>0, <1>1, DesksSame DEF Around, system
  <1>2. ASSUME UNCHANGED Rest, QrDesk \/ KeepsDesk PROVE Desktops'
    <2>1. UNCHANGED <<held, pool, left>>
      BY <1>2 DEF Rest
    <2>2. CASE ClosesDesk
      BY <1>0, <2>1, <2>2, DeskGone DEF ClosesDesk
    <2>3. CASE KeepsDesk
      BY <1>0, <2>1, <2>3, DesksSame DEF KeepsDesk
    <2> QED BY <1>2, <2>2, <2>3 DEF QrDesk
  <1>3. CASE AskQr \/ PollQr \/ FinalizePoll \/ FailPoll \/ CleanupQr
    BY <1>1, <1>3 DEF AskQr, PollQr, FinalizePoll, FailPoll, CleanupQr
  <1>4. CASE \E c \in Callers : PrepareQr(c)
    BY <1>1, <1>4 DEF PrepareQr
  <1>5. CASE StartQr
    <2>1. held'.op = "qr"
      BY <1>5 DEF StartQr, Op
    <2>2. HeldSlot
      BY <2>1 DEF HeldSlot
    <2> QED BY <1>5, <2>2, DesksSame DEF StartQr, system
  <1>6. CASE CancelQr \/ DeleteQr
    BY <1>2, <1>6 DEF CancelQr, DeleteQr
  <1>7. ASSUME NEW c, SaveLogin(c) PROVE Desktops'
    <2>1. CASE FinishQr(c)
      BY <1>2, <2>1 DEF FinishQr
    <2>2. CASE ~FinishQr(c)
      BY <1>1, <1>7, <2>2 DEF SaveLogin, PersistRead, CreateAccount, PersistCas, StartRuntime, RestoreQr
    <2> QED BY <2>1, <2>2
  <1> QED BY <1>3, <1>4, <1>5, <1>6, <1>7

LEMMA TouchDesktops ==
    ASSUME IInv, Desktops, NEW n \in DOMAIN pool, pool' = [pool EXCEPT ![n] = Touched(@)],
           UNCHANGED <<held, desk, left>>, \A t \in tickets' : t \in tickets \/ Opens(t)
    PROVE  Desktops'
  <1>0. \A m \in DOMAIN pool : pool[m] \in Sessions
    BY DEF IInv, Core, TypedCore
  <1>1. DOMAIN pool' = DOMAIN pool
    OBVIOUS
  <1>2. ASSUME NEW m \in DOMAIN pool PROVE pool'[m].id = pool[m].id /\ pool'[m].slot = pool[m].slot
    <2>1. CASE m = n
      BY <1>0, <2>1, TouchedType
    <2>2. CASE m # n
      BY <2>2
    <2> QED BY <2>1, <2>2
  <1>3. HeldSlot
    BY DEF HeldSlot
  <1> QED BY <1>1, <1>2, <1>3, TimedDesktops

LEMMA OtherDesktops ==
    ASSUME IInv, Desktops,
           \/ ExpireDesk \/ Tick \/ IssueTicket \/ Crash
           \/ \E t \in tickets : ConsumeTicket(t)
           \/ \E n \in Browsers : CloseAccountBrowser(n) \/ ExpireAccount(n) \/ TouchAccountBrowser(n)
           \/ \E p \in Profiles : StopProfile(p)
           \/ \E a \in Accounts :
                \/ IdentityChange(a) \/ PrepareDeletion(a) \/ DeleteAccount(a) \/ ForgetBrowser(a)
                \/ StartAccountBrowser(a) \/ StartVerification(a) \/ CompleteVerification(a)
                \/ CancelVerification(a) \/ Edit(a) \/ Renew(a) \/ RiskDetected(a)
    PROVE  Desktops'
  <1>0. ASSUME held' = held PROVE HeldSlot
    BY <1>0 DEF HeldSlot
  <1>1. ASSUME NEW st, DropDesk(st) PROVE Desktops'
    BY <1>0, <1>1, DropDeskCases, DeskGone
  <1>2. CASE ExpireDesk
    BY <1>1, <1>2 DEF ExpireDesk
  <1>3. CASE Tick
    <2>1. TypedCore /\ DeskOK
      BY DEF IInv, Core
    <2>2. HeldSlot
      BY <1>3, <2>1, TickKeeps DEF HeldSlot, HeldStays
    <2>3. /\ desk'.id = desk.id /\ desk'.slot = desk.slot /\ (desk = NoSess => desk' = NoSess)
          /\ DOMAIN pool' = DOMAIN pool
          /\ \A n \in DOMAIN pool : pool'[n].id = pool[n].id /\ pool'[n].slot = pool[n].slot
      BY <1>3, <2>1, TickKeeps
    <2>4. desk' = NoSess => desk = NoSess
      BY <2>1, <2>3, FreeType DEF DeskOK
    <2>5. UNCHANGED <<tickets, left>>
      BY <1>3 DEF Tick, system
    <2> QED BY <2>2, <2>3, <2>4, <2>5, TimedDesktops
  <1>4. CASE IssueTicket
    <2>1. UNCHANGED <<held, desk, left>>
      BY <1>4 DEF IssueTicket, system
    <2>2. CASE desk # NoSess /\ tickets' = tickets \cup {<<desk.id, 0>>} /\ UNCHANGED pool
      <3>1. desk.slot = 0
        BY DEF Desktops, DeskSlot
      <3>2. \A t \in tickets' : t \in tickets \/ Opens(t)
        BY <2>2, <3>1 DEF Opens
      <3> QED BY <1>0, <2>1, <2>2, <3>2, TimedDesktops
    <2>3. CASE \E n \in DOMAIN pool : /\ pool' = [pool EXCEPT ![n] = Touched(@)]
                                      /\ tickets' = tickets \cup {<<pool[n].id, pool[n].slot>>}
      <3>1. PICK n \in DOMAIN pool : /\ pool' = [pool EXCEPT ![n] = Touched(@)]
                                     /\ tickets' = tickets \cup {<<pool[n].id, pool[n].slot>>}
        BY <2>3
      <3>2. \A t \in tickets' : t \in tickets \/ Opens(t)
        BY <3>1 DEF Opens
      <3> QED BY <2>1, <3>1, <3>2, TouchDesktops
    <2> QED BY <1>4, <2>2, <2>3 DEF IssueTicket
  <1>5. CASE Crash
    <2>1. /\ held' = Free /\ desk' = NoSess /\ pool' = [n \in {} |-> NoSess] /\ tickets' = {}
      BY <1>5 DEF Crash
    <2>2. DOMAIN pool' = {} /\ held'.op = "free"
      BY <2>1, FreeType
    <2> QED BY <2>1, <2>2, LiveOpens, FreeType DEF Desktops, OwnDesktop, SlotTaken, DeskSlot
  <1>6. ASSUME NEW t \in tickets, ConsumeTicket(t) PROVE Desktops'
    BY <1>0, <1>6, DesksSame DEF ConsumeTicket, system
  <1>7. ASSUME NEW n \in Browsers, CloseAccountBrowser(n) \/ ExpireAccount(n) PROVE Desktops'
    BY <1>7, CloseDesktops DEF CloseAccountBrowser, ExpireAccount
  <1>8. ASSUME NEW n \in Browsers, TouchAccountBrowser(n) PROVE Desktops'
    BY <1>8, TouchDesktops DEF TouchAccountBrowser, MayTouch, system
  <1>9. ASSUME NEW p \in Profiles, StopProfile(p) PROVE Desktops'
    <2>1. CASE \E n \in DOMAIN pool : BeginClose(n, "stop")
      BY <2>1, CloseDesktops
    <2>2. CASE DropDesk("cancelled")
      BY <1>1, <2>2
    <2>3. CASE UNCHANGED <<held, memory, left>>
      BY <1>0, <2>3, DesksSame DEF memory
    <2> QED BY <1>9, <2>1, <2>2, <2>3 DEF StopProfile
  <1>10. ASSUME NEW a \in Accounts, IdentityChange(a) PROVE Desktops'
    <2>1. CASE \E n \in OfAccount(a) : BeginClose(n, "identity")
      BY <2>1, CloseDesktops
    <2>2. CASE ClosesDesk /\ UNCHANGED <<held, pool, left>>
      BY <1>0, <2>2, DeskGone DEF ClosesDesk
    <2> QED BY <1>10, <2>1, <2>2 DEF IdentityChange
  <1>11. ASSUME NEW a \in Accounts, PrepareDeletion(a) PROVE Desktops'
    <2>1. CASE \E n \in OfAccount(a) : BeginClose(n, "delete")
      BY <2>1, CloseDesktops
    <2>2. CASE DropDesk("cancelled")
      BY <1>1, <2>2
    <2> QED BY <1>11, <2>1, <2>2 DEF PrepareDeletion
  <1>12. ASSUME NEW a \in Accounts, DeleteAccount(a) \/ ForgetBrowser(a) PROVE Desktops'
    BY <1>0, <1>12, DesksSame DEF DeleteAccount, ForgetBrowser, memory, system
  <1>13. ASSUME NEW a \in Accounts, StartAccountBrowser(a) PROVE Desktops'
    <2>1. UNCHANGED <<desk, pool, left, tickets>>
      BY <1>13 DEF StartAccountBrowser, system
    <2>2. held'.slot = FirstSlot
      BY <1>13 DEF StartAccountBrowser, Op
    <2>3. IsFiniteSet(Used) /\ Cardinality(Used) <= MaxSess
      <3>1. IsFiniteSet(Used) /\ Cardinality(Used) <= Len(pay) /\ Len(pay) <= MaxSess /\ Len(pay) \in Nat
        BY DEF IInv, Core, SlotsCounted, TypedCore
      <3>2. Cardinality(Used) \in Nat
        BY <3>1, FS_CardinalityType
      <3> QED BY <3>1, <3>2, Bounds
    <2>4. FirstSlot \notin Used \cup {0}
      BY <2>3, FreeSlot, UsedFacts
    <2>5. Used' = Used
      BY <2>1 DEF Used
    <2>6. SlotTaken'
      BY <2>2, <2>4, <2>5 DEF SlotTaken
    <2>7. OwnDesktop' /\ DeskSlot'
      BY <2>1 DEF Desktops, OwnDesktop, DeskSlot
    <2>8. \A t \in tickets' : Opens(t)'
      BY <2>1, LiveOpens DEF Desktops, Opens
    <2> QED BY <2>6, <2>7, <2>8, LiveOpens DEF Desktops
  <1>14. ASSUME NEW a \in Accounts, StartVerification(a) \/ CompleteVerification(a) PROVE Desktops'
    <2>1. held'.op \in {"ver", "complete"}
      <3>1. CASE StartVerification(a)
        BY <3>1 DEF StartVerification, Op
      <3>2. CASE CompleteVerification(a)
        BY <3>2 DEF CompleteVerification, Op
      <3> QED BY <1>14, <3>1, <3>2
    <2>2. HeldSlot
      BY <2>1 DEF HeldSlot
    <2> QED BY <1>14, <2>2, DesksSame DEF StartVerification, CompleteVerification, memory, system
  <1>15. ASSUME NEW a \in Accounts, CancelVerification(a) PROVE Desktops'
    <2>1. UNCHANGED <<held, pool, left>> /\ (EmptiesDesk \/ KeepsDesk)
      BY <1>15 DEF CancelVerification, ClosesDesk, RowLost
    <2>2. CASE EmptiesDesk
      BY <1>0, <2>1, <2>2, DeskGone
    <2>3. CASE KeepsDesk
      BY <1>0, <2>1, <2>3, DesksSame DEF KeepsDesk
    <2> QED BY <2>1, <2>2, <2>3
  <1>16. ASSUME NEW a \in Accounts, Edit(a) \/ Renew(a) \/ RiskDetected(a) PROVE Desktops'
    BY <1>0, <1>16, DesksSame DEF Edit, Renew, RiskDetected, Others, memory, system
  <1> QED BY <1>2, <1>3, <1>4, <1>5, <1>6, <1>7, <1>8, <1>9, <1>10, <1>11, <1>12, <1>13, <1>14, <1>15, <1>16

(* An account browser has its desktop to itself: a free one, never the     *)
(* reserved one, is chosen under the lock and kept until the session is    *)
(* entered, one that outlived the API is never taken again, and a ticket   *)
(* goes with its session (_start_account_visual_desktop_locked,            *)
(* _close_session_resources). Nothing is said of what an earlier session   *)
(* left on the reserved desktop: TLC finds that case, ReservedIsPrivate.   *)
THEOREM AccountDesktopsArePrivate == Spec => []AccountDesktopIsPrivate
  <1>1. Init => Desktops
    <2>1. ASSUME Init PROVE Desktops
      <3>1. DOMAIN pool = {} /\ tickets = {} /\ desk = NoSess
        BY <2>1 DEF Init
      <3>2. held.op = "free"
        BY <2>1, FreeType DEF Init
      <3> QED BY <3>1, <3>2, FreeType DEF Desktops, OwnDesktop, SlotTaken, TicketsLive, DeskSlot
    <2> QED BY <2>1
  <1>2. IInv /\ Desktops /\ [Next]_vars => Desktops'
    <2>1. ASSUME IInv, Desktops, Next PROVE Desktops'
      BY <2>1, HolderDesktops, LoginDesktops, OtherDesktops DEF Next
    <2>2. ASSUME Desktops, UNCHANGED vars PROVE Desktops'
      <3>1. HeldSlot /\ UNCHANGED <<desk, pool, left, tickets>>
        BY <2>2 DEF vars, memory, system, HeldSlot
      <3> QED BY <2>2, <3>1, DesksSame
    <2> QED BY <2>1, <2>2
  <1>3. Desktops => AccountDesktopIsPrivate
    BY DEF Desktops, AccountDesktopIsPrivate
  <1> QED BY <1>1, <1>2, <1>3, Inductive, PTL DEF Spec

-----------------------------------------------------------------------------
(* What is shown as ready is there.                                        *)

(* No row becomes ready.                                                   *)
ReadyFewer ==
    \A a \in Accounts : \A i \in 1..Len(ver'[a]) :
       ver'[a][i] = "ready" => i \in 1..Len(ver[a]) /\ ver[a][i] = "ready"
NoReady == \A a \in Accounts : \A i \in 1..Len(ver[a]) : ver[a][i] # "ready"
HeldCompletes == held'.op = "complete" => held.op = "complete"

(* What a row says after set_im_verification_state.                        *)
LEMMA SetRows ==
    ASSUME ver \in [Accounts -> Seq(Shows)], NEW id \in Ids, id[1] = "ver", NEW st \in Shows,
           ver' = Set(ver, id, st), NEW a \in Accounts, NEW i \in 1..Len(ver'[a])
    PROVE  /\ i \in 1..Len(ver[a])
           /\ id = <<"ver", a, i>> => ver'[a][i] = st
           /\ id # <<"ver", a, i>> => ver'[a][i] = ver[a][i]
  <1>1. /\ \A b \in Accounts : Len(Set(ver, id, st)[b]) = Len(ver[b])
        /\ \A b \in Accounts : \A j \in 1..Len(ver[b]) :
                Set(ver, id, st)[b][j] = IF id = <<"ver", b, j>> THEN st ELSE ver[b][j]
    BY SetType
  <1>2. /\ \A b \in Accounts : Len(ver'[b]) = Len(ver[b])
        /\ \A b \in Accounts : \A j \in 1..Len(ver[b]) :
                ver'[b][j] = IF id = <<"ver", b, j>> THEN st ELSE ver[b][j]
    BY <1>1
  <1>3. i \in 1..Len(ver[a])
    BY <1>2
  <1> QED BY <1>2, <1>3

LEMMA RowsFewer ==
    ASSUME TypedData
    PROVE  /\ ver' = ver => ReadyFewer
           /\ \A a \in Accounts : ver' = Recorded(a) => ReadyFewer
           /\ \A id \in Ids : \A st \in Shows \ {"ready"} :
                id[1] = "ver" /\ ver' = Set(ver, id, st) => ReadyFewer
  <1>0. ver \in [Accounts -> Seq(Shows)]
    BY DEF TypedData
  <1>1. ver' = ver => ReadyFewer
    BY DEF ReadyFewer
  <1>2. ASSUME NEW a \in Accounts, ver' = Recorded(a) PROVE ReadyFewer
    <2>1. ASSUME NEW b \in Accounts, NEW i \in 1..Len(ver'[b]), ver'[b][i] = "ready"
          PROVE  i \in 1..Len(ver[b]) /\ ver[b][i] = "ready"
      BY <1>0, <1>2, <2>1, RecordedType
    <2> QED BY <2>1 DEF ReadyFewer
  <1>3. ASSUME NEW id \in Ids, NEW st \in Shows \ {"ready"}, id[1] = "ver", ver' = Set(ver, id, st)
        PROVE  ReadyFewer
    <2>1. ASSUME NEW b \in Accounts, NEW i \in 1..Len(ver'[b]), ver'[b][i] = "ready"
          PROVE  i \in 1..Len(ver[b]) /\ ver[b][i] = "ready"
      <3>1. i \in 1..Len(ver[b]) /\ (ver'[b][i] = st \/ ver'[b][i] = ver[b][i])
        BY <1>0, <1>3, <2>1, SetRows
      <3> QED BY <2>1, <3>1
    <2> QED BY <2>1 DEF ReadyFewer
  <1> QED BY <1>1, <1>2, <1>3

LEMMA ShowsQuiet ==
    ASSUME LoginShown, RowShown, desk'.id = desk.id, cut' = cut, qrp' = qrp \/ qrp' # "ready",
           ReadyFewer, HeldCompletes
    PROVE  LoginShown' /\ RowShown'
  <1>1. LoginShown'
    BY DEF LoginShown
  <1>2. RowShown'
    BY DEF RowShown, ReadyFewer, HeldCompletes
  <1> QED BY <1>1, <1>2

LEMMA NoRows ==
    ASSUME RowShown, ~cut, desk.id[1] # "ver" \/ held.op = "complete"
    PROVE  NoReady
  <1>1. ASSUME NEW a \in Accounts, NEW i \in 1..Len(ver[a]), ver[a][i] = "ready" PROVE FALSE
    <2>1. desk.id = <<"ver", a, i>> /\ held.op # "complete"
      BY <1>1 DEF RowShown
    <2>2. desk.id[1] = "ver"
      BY <2>1
    <2> QED BY <2>1, <2>2
  <1> QED BY <1>1 DEF NoReady

LEMMA NoRowsLater ==
    ASSUME NoReady, ReadyFewer
    PROVE  RowShown'
  <1>1. \A a \in Accounts : \A i \in 1..Len(ver'[a]) : ver'[a][i] # "ready"
    BY DEF NoReady, ReadyFewer
  <1> QED BY <1>1 DEF RowShown

(* The row of the session on the desk gets another status.                 *)
LEMMA DeskRow ==
    ASSUME IInv, RowShown, ~cut, desk.id[1] = "ver", NEW st \in Shows, st # "ready",
           ver' = Set(ver, desk.id, st)
    PROVE  \A a \in Accounts : \A i \in 1..Len(ver'[a]) : ver'[a][i] # "ready"
  <1>0. ver \in [Accounts -> Seq(Shows)] /\ desk.id \in Ids
    BY DEF IInv, Core, TypedCore, Sessions, TypedData
  <1>1. PICK d \in Ids : d = desk.id /\ d[1] = "ver" /\ ver' = Set(ver, d, st)
    BY <1>0
  <1>2. ASSUME NEW a \in Accounts, NEW i \in 1..Len(ver'[a]) PROVE ver'[a][i] # "ready"
    <2>1. i \in 1..Len(ver[a])
      BY ONLY <1>0, <1>1, <1>2, st \in Shows, SetRows
    <2>2. CASE d = <<"ver", a, i>>
      <3>1. ver'[a][i] = st
        BY ONLY <1>0, <1>1, <1>2, <2>2, st \in Shows, SetRows
      <3> QED BY <3>1
    <2>3. CASE d # <<"ver", a, i>>
      <3>1. ver'[a][i] = ver[a][i]
        BY ONLY <1>0, <1>1, <1>2, <2>3, st \in Shows, SetRows
      <3> QED BY <1>1, <2>1, <2>3, <3>1 DEF RowShown
    <2> QED BY <2>2, <2>3
  <1> QED BY <1>2

(* The session of the desk is closed, and its row or entry says so.        *)
LEMMA DropShows ==
    ASSUME IInv, LoginShown, RowShown, NEW st \in Shows, st # "ready", DeskShows(st), cut' = cut
    PROVE  LoginShown' /\ RowShown'
  <1>0. TypedData
    BY DEF IInv
  <1>1. LoginShown'
    <2>1. ~cut => qrp' # "ready"
      BY DEF DeskShows, LoginShown
    <2> QED BY <2>1 DEF LoginShown
  <1>2. CASE cut
    BY <1>1, <1>2 DEF RowShown
  <1>3. CASE ~cut /\ desk.id[1] # "ver"
    <2>1. ReadyFewer
      BY <1>0, <1>3, RowsFewer DEF DeskShows
    <2> QED BY <1>1, <1>3, <2>1, NoRows, NoRowsLater
  <1>4. CASE ~cut /\ desk.id[1] = "ver"
    <2>1. ver' = Set(ver, desk.id, st)
      BY <1>4 DEF DeskShows
    <2>2. \A a \in Accounts : \A i \in 1..Len(ver'[a]) : ver'[a][i] # "ready"
      BY <1>4, <2>1, DeskRow
    <2> QED BY <1>1, <2>2 DEF RowShown
  <1> QED BY <1>1, <1>2, <1>3, <1>4

LEMMA FreeShows == (held' = Free => HeldCompletes) /\ (held' = held => HeldCompletes)
  BY FreeType DEF HeldCompletes

LEMMA HolderShows ==
    ASSUME IInv, LoginShown, RowShown, HolderStep
    PROVE  LoginShown' /\ RowShown'
  <1>0. TypedData /\ held \in Helds /\ held.id \in Ids /\ HeldOK /\ TypedCore
    BY HeldTypes DEF IInv, Core, TypedCore
  <1>a. {"failed", "completed"} \subseteq Shows \ {"ready"}
    BY DEF Shows, Ends
  <1>1. ASSUME NEW x, held' = [held EXCEPT !.pc = x] PROVE HeldCompletes
    BY <1>0, <1>1, HeldFields DEF HeldCompletes, HeldStays
  <1>2. CASE CheckCookie \/ Latest
    <2>1. held.op = "close"
      BY <1>2 DEF CheckCookie, Latest, Inner
    <2>2. PICK c, x : held' = [held EXCEPT !.pc = x] \/ held' = [held EXCEPT !.mine = c, !.pc = x]
      BY <1>2 DEF CheckCookie, Latest
    <2>3. held'.op = held.op
      <3>1. CASE held' = [held EXCEPT !.pc = x]
        BY <1>0, <3>1 DEF Helds
      <3>2. CASE held' = [held EXCEPT !.mine = c, !.pc = x]
        BY <1>0, <3>2 DEF Helds
      <3> QED BY <2>2, <3>1, <3>2
    <2>4. HeldCompletes
      BY <2>1, <2>3 DEF HeldCompletes
    <2> QED BY <1>0, <1>2, <2>4, ShowsQuiet, RowsFewer DEF CheckCookie, Latest, Outside, memory
  <1>3. CASE Persist \/ PersistLocal
    <2>1. HeldCompletes
      BY <1>1, <1>3 DEF Persist, PersistLocal
    <2> QED BY <1>0, <1>3, <2>1, ShowsQuiet, RowsFewer DEF Persist, PersistLocal, Outside, memory
  <1>4. CASE Tell
    <2>1. HeldCompletes /\ ver' = ver /\ qrp' = qrp
      BY <1>4, FreeShows DEF Tell, stored
    <2>2. CASE cut' = TRUE
      BY <2>2 DEF LoginShown, RowShown
    <2>3. CASE KeepsDesk /\ UNCHANGED cut
      BY <1>0, <2>1, <2>3, ShowsQuiet, RowsFewer DEF KeepsDesk
    <2> QED BY <1>4, <2>2, <2>3 DEF Tell
  <1>5. CASE Launch
    <2>1. HeldCompletes
      BY <1>1, <1>5 DEF Launch
    <2> QED BY <1>0, <1>5, <2>1, ShowsQuiet, RowsFewer DEF Launch, memory, stored
  <1>6. CASE StartFails
    <2>1. ReadyFewer
      <3>1. CASE held.op = "ver"
        BY <1>0, <1>a, <1>6, <3>1, RowsFewer DEF StartFails, StartShows, HeldOK
      <3>2. CASE held.op # "ver"
        BY <1>0, <1>6, <3>2, RowsFewer DEF StartFails, StartShows
      <3> QED BY <3>1, <3>2
    <2>2. HeldCompletes
      BY <1>6, FreeShows DEF StartFails
    <2>3. desk' = desk /\ cut' = cut /\ (qrp' = qrp \/ qrp' # "ready")
      BY <1>6 DEF StartFails, StartShows
    <2> QED BY <2>1, <2>2, <2>3, ShowsQuiet
  <1>7. CASE BrowserReady
    <2>0. held.op \in Starts /\ held'.op = "free" /\ cut' = cut
      BY <1>7, FreeType DEF BrowserReady, Starting, Starts
    <2>1. CASE held.op = "vnc"
      <3>1. desk' = desk /\ qrp' = qrp /\ ver' = ver
        BY <1>7, <2>1 DEF BrowserReady, StartShows
      <3>2. HeldCompletes
        BY <2>0 DEF HeldCompletes
      <3> QED BY <1>0, <2>0, <3>1, <3>2, ShowsQuiet, RowsFewer
    <2>2. CASE held.op = "qr"
      <3>1. desk'.id = held.id /\ ver' = ver
        BY <1>7, <2>2 DEF BrowserReady, StartShows, Sess
      <3>2. desk'.id[1] = "qr"
        BY <1>0, <2>2, <3>1 DEF HeldOK
      <3>3. desk.id[1] # "ver"
        BY <1>0, <2>2, FreeType DEF HeldOK
      <3>4. LoginShown'
        BY <3>2 DEF LoginShown
      <3>5. CASE cut
        BY <2>0, <3>4, <3>5 DEF RowShown
      <3>6. CASE ~cut
        BY <1>0, <3>1, <3>3, <3>4, <3>6, NoRows, NoRowsLater, RowsFewer
      <3> QED BY <3>5, <3>6
    <2>3. CASE held.op = "ver"
      <3>1. desk'.id = held.id /\ ver' = Set(ver, held.id, "ready") /\ qrp' = qrp
        BY <1>7, <2>3 DEF BrowserReady, StartShows, Sess
      <3>2. desk.id[1] = "none" /\ held.id[1] = "ver"
        BY <1>0, <2>3, FreeType DEF HeldOK
      <3>3. LoginShown'
        BY <2>0, <3>1, <3>2 DEF LoginShown
      <3>4. CASE cut
        BY <2>0, <3>3, <3>4 DEF RowShown
      <3>5. CASE ~cut
        <4>1. NoReady
          BY <3>2, <3>5, NoRows
        <4>2. ASSUME NEW a \in Accounts, NEW i \in 1..Len(ver'[a]), ver'[a][i] = "ready"
              PROVE  desk'.id = <<"ver", a, i>>
          <5>1. ver \in [Accounts -> Seq(Shows)] /\ "ready" \in Shows
            BY <1>0 DEF TypedData, Shows
          <5>3. i \in 1..Len(ver[a]) /\ (held.id # <<"ver", a, i>> => ver'[a][i] = ver[a][i])
            BY <1>0, <3>1, <3>2, <4>2, <5>1, SetRows
          <5>4. ver[a][i] # "ready"
            BY <4>1, <4>2, <5>3 DEF NoReady
          <5> QED BY <3>1, <4>2, <5>3, <5>4
        <4> QED BY <2>0, <3>3, <4>2 DEF RowShown
      <3> QED BY <3>4, <3>5
    <2> QED BY <2>0, <2>1, <2>2, <2>3 DEF Starts
  <1>8. CASE ReadyLost
    <2>1. /\ held.op = "ver" /\ desk'.id = held.id /\ ver' = Set(ver, held.id, "failed") /\ qrp' = qrp
          /\ cut' = cut
      BY <1>8 DEF ReadyLost, Sess
    <2>2. desk.id[1] = "none" /\ held.id[1] = "ver"
      BY <1>0, <2>1, FreeType DEF HeldOK
    <2>3. LoginShown'
      BY <2>1, <2>2 DEF LoginShown
    <2>4. ReadyFewer
      BY <1>0, <1>a, <2>1, <2>2, RowsFewer
    <2>5. CASE cut
      BY <2>1, <2>3, <2>5 DEF RowShown
    <2>6. CASE ~cut
      BY <2>2, <2>3, <2>4, <2>6, NoRows, NoRowsLater
    <2> QED BY <2>5, <2>6
  <1>9. CASE VerificationUrl
    <2>1. HeldCompletes /\ desk' = desk /\ cut' = cut /\ qrp' = qrp
      BY <1>1, <1>9 DEF VerificationUrl, memory
    <2>2. held.acct \in Accounts
      BY <1>0, <1>9 DEF VerificationUrl, Starting, HeldOK, IInv, Core, UrlOK, Starts
    <2>3. ReadyFewer
      BY <1>0, <1>9, <2>2, RowsFewer DEF VerificationUrl
    <2> QED BY <2>1, <2>3, ShowsQuiet
  <1>10. CASE TokenGiven
    <2>1. held' = [held EXCEPT !.op = "resume", !.pc = "start"]
      BY <1>10 DEF TokenGiven
    <2>2. held'.op = "resume"
      BY <1>0, <2>1 DEF Helds
    <2>3. HeldCompletes
      BY <2>2 DEF HeldCompletes
    <2> QED BY <1>0, <1>10, <2>3, ShowsQuiet, RowsFewer DEF TokenGiven, memory
  <1>11. CASE SaveX5
    <2>1. held.op = "complete" /\ held.pc = "cas" /\ qrp' = qrp /\ cut' = cut
      BY <1>11 DEF SaveX5
    <2>2. desk.id[1] = "ver" /\ held.id[1] = "ver"
      BY <1>0, <2>1 DEF HeldOK
    <2>3. LoginShown'
      BY <2>1, <2>2 DEF LoginShown
    <2>4. ReadyFewer
      BY <1>0, <1>a, <1>11, <2>2, RowsFewer DEF SaveX5, EndsWith
    <2>5. CASE cut
      BY <2>1, <2>3, <2>5 DEF RowShown
    <2>6. CASE ~cut
      BY <2>1, <2>3, <2>4, <2>6, NoRows, NoRowsLater
    <2> QED BY <2>5, <2>6
  <1>12. CASE Resumed
    <2>1. /\ desk' = desk /\ cut' = cut /\ qrp' = qrp /\ held' = Free /\ held.op \in {"complete", "resume"}
      BY <1>12 DEF Resumed, memory, EndsWith
    <2>2. held.id[1] = "ver" /\ held.acct \in Accounts
      BY <1>0, <2>1 DEF HeldOK
    <2>3. ReadyFewer
      BY <1>0, <1>a, <1>12, <2>2, RowsFewer DEF Resumed, EndsWith
    <2> QED BY <2>1, <2>3, FreeShows, ShowsQuiet
  <1> QED BY <1>2, <1>3, <1>4, <1>5, <1>6, <1>7, <1>8, <1>9, <1>10, <1>11, <1>12 DEF HolderStep

LEMMA LoginShows ==
    ASSUME IInv, LoginShown, RowShown,
           \/ AskQr \/ StartQr \/ PollQr \/ FinalizePoll \/ FailPoll \/ CancelQr \/ DeleteQr \/ CleanupQr
           \/ \E c \in Callers : PrepareQr(c)
           \/ \E c \in DOMAIN call : SaveLogin(c)
    PROVE  LoginShown' /\ RowShown'
  <1>0. TypedData /\ HeldOK
    BY DEF IInv, Core
  <1>1. ASSUME UNCHANGED Around, ReadyFewer, qrp' = qrp \/ qrp' # "ready" \/ desk.id[1] = "qr"
        PROVE  LoginShown' /\ RowShown'
    <2>1. desk' = desk /\ cut' = cut /\ held' = held
      BY <1>1 DEF Around
    <2>2. LoginShown'
      BY <1>1, <2>1 DEF LoginShown
    <2>3. RowShown'
      BY <1>1, <2>1 DEF RowShown, ReadyFewer
    <2> QED BY <2>2, <2>3
  <1>2. ASSUME UNCHANGED Rest, qrp' # "ready", QrDesk PROVE LoginShown' /\ RowShown'
    <2>1. cut' = cut /\ held' = held /\ ver' = ver
      BY <1>2 DEF Rest, stored
    <2>2. ReadyFewer /\ HeldCompletes
      BY <1>0, <2>1, RowsFewer, FreeShows
    <2>3. CASE desk.id[1] # "qr"
      <3>1. desk' = desk
        BY <1>2, <2>3 DEF QrDesk, KeepsDesk
      <3> QED BY <1>2, <2>1, <2>2, <3>1, ShowsQuiet
    <2>4. CASE desk.id[1] = "qr"
      <3>1. LoginShown'
        BY <1>2 DEF LoginShown
      <3>2. CASE cut
        BY <2>1, <3>1, <3>2 DEF RowShown
      <3>3. CASE ~cut
        BY <2>2, <2>4, <3>1, <3>3, NoRows, NoRowsLater
      <3> QED BY <3>2, <3>3
    <2> QED BY <2>3, <2>4
  <1>3. CASE AskQr \/ PollQr \/ FinalizePoll \/ FailPoll \/ CleanupQr
    <2>1. UNCHANGED <<Around, qrp, ver>>
      BY <1>3 DEF AskQr, PollQr, FinalizePoll, FailPoll, CleanupQr, stored
    <2> QED BY <1>0, <1>1, <2>1, RowsFewer
  <1>4. CASE \E c \in Callers : PrepareQr(c)
    <2>1. UNCHANGED <<Around, ver>> /\ desk.id[1] = "qr"
      BY <1>4 DEF PrepareQr
    <2> QED BY <1>0, <1>1, <2>1, RowsFewer
  <1>5. CASE StartQr
    <2>1. held'.op = "qr"
      BY <1>5 DEF StartQr, Op
    <2>2. HeldCompletes
      BY <2>1 DEF HeldCompletes
    <2>3. desk' = desk /\ cut' = cut /\ ver' = ver /\ qrp' # "ready"
      BY <1>5 DEF StartQr, stored
    <2> QED BY <1>0, <2>2, <2>3, ShowsQuiet, RowsFewer
  <1>6. CASE CancelQr
    BY <1>2, <1>6 DEF CancelQr
  <1>7. CASE DeleteQr
    <2>1. CASE qr.st = "browser"
      BY <1>2, <1>7, <2>1 DEF DeleteQr
    <2>2. CASE qr.st # "browser"
      <3>1. desk' = desk /\ cut' = cut /\ ver' = ver /\ qrp' = qrp /\ held' = held
        BY <1>7, <2>2 DEF DeleteQr, KeepsDesk, Rest, stored
      <3> QED BY <1>0, <3>1, ShowsQuiet, RowsFewer, FreeShows
    <2> QED BY <2>1, <2>2
  <1>8. ASSUME NEW c \in DOMAIN call, SaveLogin(c) PROVE LoginShown' /\ RowShown'
    <2>1. CASE FinishQr(c)
      BY <1>2, <2>1 DEF FinishQr
    <2>2. CASE PersistRead(c) \/ CreateAccount(c) \/ PersistCas(c)
      <3>1. UNCHANGED <<Around, qrp, ver>>
        BY <2>2 DEF PersistRead, CreateAccount, PersistCas, stored
      <3> QED BY <1>0, <1>1, <3>1, RowsFewer
    <2>3. CASE RestoreQr(c)
      <3>1. UNCHANGED <<Around, ver>> /\ (qrp' = qrp \/ desk.id[1] = "qr")
        BY <2>3 DEF RestoreQr, stored
      <3> QED BY <1>0, <1>1, <3>1, RowsFewer
    <2>4. CASE StartRuntime(c)
      <3>1. UNCHANGED <<Around, qrp>>
        BY <2>4 DEF StartRuntime
      <3>2. ver' = ver \/ \E a \in Accounts : ver' = Recorded(a)
        BY <1>0, <2>4 DEF StartRuntime, TypedData
      <3>3. ReadyFewer
        BY <1>0, <3>2, RowsFewer
      <3> QED BY <1>1, <3>1, <3>3
    <2> QED BY <1>8, <2>1, <2>2, <2>3, <2>4 DEF SaveLogin
  <1> QED BY <1>3, <1>4, <1>5, <1>6, <1>7, <1>8

LEMMA OtherShows ==
    ASSUME IInv, LoginShown, RowShown,
           \/ ExpireDesk \/ Tick \/ IssueTicket \/ Crash
           \/ \E t \in tickets : ConsumeTicket(t)
           \/ \E n \in Browsers : CloseAccountBrowser(n) \/ ExpireAccount(n) \/ TouchAccountBrowser(n)
           \/ \E p \in Profiles : StopProfile(p)
           \/ \E a \in Accounts :
                \/ IdentityChange(a) \/ PrepareDeletion(a) \/ DeleteAccount(a) \/ ForgetBrowser(a)
                \/ StartAccountBrowser(a) \/ StartVerification(a) \/ CompleteVerification(a)
                \/ CancelVerification(a) \/ Edit(a) \/ Renew(a) \/ RiskDetected(a)
    PROVE  LoginShown' /\ RowShown'
  <1>0. TypedData /\ ver \in [Accounts -> Seq(Shows)] /\ desk.id \in Ids
    BY DEF IInv, Core, TypedCore, Sessions, TypedData
  <1>a. {"expired", "cancelled", "completing", "starting"} \subseteq Shows
    BY DEF Shows, Ends
  <1>b. ASSUME desk'.id = desk.id, UNCHANGED <<cut, qrp>>, ReadyFewer, HeldCompletes PROVE LoginShown' /\ RowShown'
    BY <1>b, ShowsQuiet
  <1>c. ASSUME cut' = TRUE PROVE LoginShown' /\ RowShown'
    BY <1>c DEF LoginShown, RowShown
  <1>d. ASSUME NEW n, NEW why, BeginClose(n, why) PROVE LoginShown' /\ RowShown'
    <2>1. UNCHANGED <<desk, cut, qrp, ver>> /\ \E got : held' = [Op("close", pool[n].id, pool[n].acct,
            pool[n].profile, pool[n].base, "check") EXCEPT !.got = got, !.why = why]
      BY <1>d DEF BeginClose
    <2>2. held'.op = "close"
      BY <2>1 DEF Op
    <2>3. HeldCompletes
      BY <2>2 DEF HeldCompletes
    <2> QED BY <1>0, <1>b, <2>1, <2>3, RowsFewer
  <1>e. ASSUME NEW st \in {"expired", "cancelled"}, DropDesk(st) PROVE LoginShown' /\ RowShown'
    <2>1. st \in Shows /\ st # "ready"
      BY <1>a
    <2>2. CASE DeskShows(st) /\ UNCHANGED cut
      BY <2>1, <2>2, DropShows
    <2>3. CASE cut' = TRUE
      BY <1>c, <2>3
    <2> QED BY <1>e, <2>2, <2>3, DropDeskCases
  <1>1. CASE ExpireDesk
    BY <1>1, <1>e DEF ExpireDesk
  <1>2. CASE Tick
    <2>1. TypedCore /\ UNCHANGED <<cut, qrp, ver>>
      BY <1>2 DEF IInv, Core, Tick, stored
    <2>2. desk'.id = desk.id /\ HeldStays(held')
      BY <1>2, <2>1, TickKeeps
    <2>3. HeldCompletes
      BY <2>2 DEF HeldCompletes, HeldStays
    <2> QED BY <1>0, <1>b, <2>1, <2>2, <2>3, RowsFewer
  <1>3. CASE \/ IssueTicket \/ \E t \in tickets : ConsumeTicket(t)
             \/ \E n \in Browsers : TouchAccountBrowser(n)
    <2>1. UNCHANGED <<desk, cut, qrp, ver, held>>
      BY <1>3 DEF IssueTicket, ConsumeTicket, TouchAccountBrowser, stored
    <2> QED BY <1>0, <1>b, <2>1, RowsFewer, FreeShows
  <1>4. CASE Crash
    BY <1>4, <1>c DEF Crash
  <1>5. ASSUME NEW n \in Browsers, CloseAccountBrowser(n) \/ ExpireAccount(n) PROVE LoginShown' /\ RowShown'
    BY <1>5, <1>d DEF CloseAccountBrowser, ExpireAccount
  <1>6. ASSUME NEW p \in Profiles, StopProfile(p) PROVE LoginShown' /\ RowShown'
    <2>1. CASE \E n \in DOMAIN pool : BeginClose(n, "stop")
      BY <2>1, <1>d
    <2>2. CASE DropDesk("cancelled")
      BY <1>e, <2>2
    <2>3. CASE UNCHANGED <<held, memory, stored, cut>>
      BY <1>0, <1>b, <2>3, RowsFewer, FreeShows DEF memory, stored
    <2> QED BY <1>6, <2>1, <2>2, <2>3 DEF StopProfile
  <1>7. ASSUME NEW a \in Accounts, IdentityChange(a) PROVE LoginShown' /\ RowShown'
    <2>1. CASE \E n \in OfAccount(a) : BeginClose(n, "identity")
      BY <2>1, <1>d
    <2>2. CASE cut' = TRUE
      BY <1>c, <2>2
    <2> QED BY <1>7, <2>1, <2>2 DEF IdentityChange
  <1>8. ASSUME NEW a \in Accounts, PrepareDeletion(a) PROVE LoginShown' /\ RowShown'
    <2>1. CASE \E n \in OfAccount(a) : BeginClose(n, "delete")
      BY <2>1, <1>d
    <2>2. CASE DropDesk("cancelled")
      BY <1>e, <2>2
    <2> QED BY <1>8, <2>1, <2>2 DEF PrepareDeletion
  <1>9. ASSUME NEW a \in Accounts, DeleteAccount(a) PROVE LoginShown' /\ RowShown'
    <2>1. UNCHANGED <<desk, cut, qrp, held>> /\ ver' = [ver EXCEPT ![a] = <<>>]
      BY <1>9 DEF DeleteAccount, memory
    <2>2. ReadyFewer
      BY <1>0, <2>1 DEF ReadyFewer
    <2> QED BY <1>b, <2>1, <2>2, FreeShows
  <1>10. ASSUME NEW a \in Accounts, ForgetBrowser(a) \/ Edit(a) \/ Renew(a) PROVE LoginShown' /\ RowShown'
    <2>1. UNCHANGED <<desk, cut, qrp, ver, held>>
      BY <1>10 DEF ForgetBrowser, Edit, Renew, Others, memory, stored
    <2> QED BY <1>0, <1>b, <2>1, RowsFewer, FreeShows
  <1>11. ASSUME NEW a \in Accounts, RiskDetected(a) PROVE LoginShown' /\ RowShown'
    <2>1. UNCHANGED <<desk, cut, qrp, held>> /\ ver' = Recorded(a)
      BY <1>11 DEF RiskDetected, Others, memory
    <2> QED BY <1>0, <1>b, <2>1, RowsFewer, FreeShows
  <1>12. ASSUME NEW a \in Accounts, StartAccountBrowser(a) PROVE LoginShown' /\ RowShown'
    <2>1. UNCHANGED <<desk, cut, qrp, ver>> /\ held'.op = "vnc"
      BY <1>12 DEF StartAccountBrowser, stored, Op
    <2>2. HeldCompletes
      BY <2>1 DEF HeldCompletes
    <2> QED BY <1>0, <1>b, <2>1, <2>2, RowsFewer
  <1>13. ASSUME NEW a \in Accounts, StartVerification(a) PROVE LoginShown' /\ RowShown'
    <2>1. desk = NoSess /\ UNCHANGED <<desk, cut, qrp>>
      BY <1>13 DEF StartVerification, memory
    <2>2. LoginShown'
      BY <2>1 DEF LoginShown
    <2>3. CASE cut
      BY <2>1, <2>2, <2>3 DEF RowShown
    <2>4. CASE ~cut
      <3>1. NoReady
        BY <2>1, <2>4, FreeType, NoRows
      <3>2. PICK f : /\ f = ver \/ f = Recorded(a)
                     /\ ver' = Set(f, <<"ver", a, Len(f[a])>>, "starting")
        BY <1>13 DEF StartVerification
      <3>3. /\ f \in [Accounts -> Seq(Shows)]
            /\ \A b \in Accounts : \A i \in 1..Len(f[b]) : f[b][i] # "ready"
        <4>1. CASE f = ver
          BY <1>0, <3>1, <4>1 DEF NoReady
        <4>2. CASE f = Recorded(a)
          <5>1. f \in [Accounts -> Seq(Shows)]
            BY <1>0, <4>2, RecordedType
          <5>2. \A b \in Accounts : \A i \in 1..Len(f[b]) :
                   f[b][i] # "required" => i \in 1..Len(ver[b]) /\ f[b][i] = ver[b][i]
            BY <1>0, <4>2, RecordedType
          <5>3. ASSUME NEW b \in Accounts, NEW i \in 1..Len(f[b]) PROVE f[b][i] # "ready"
            BY <3>1, <5>2 DEF NoReady
          <5> QED BY <5>1, <5>3
        <4> QED BY <3>2, <4>1, <4>2
      <3>4. <<"ver", a, Len(f[a])>> \in Ids /\ <<"ver", a, Len(f[a])>>[1] = "ver"
        BY <3>3 DEF Ids
      <3>5. PICK d \in Ids : d[1] = "ver" /\ ver' = Set(f, d, "starting")
        BY <3>2, <3>4
      <3>6. /\ \A b \in Accounts : Len(Set(f, d, "starting")[b]) = Len(f[b])
            /\ \A b \in Accounts : \A j \in 1..Len(f[b]) :
                Set(f, d, "starting")[b][j] = IF d = <<"ver", b, j>> THEN "starting" ELSE f[b][j]
        <4>1. PICK g, st : g \in [Accounts -> Seq(Shows)] /\ g = f /\ st = "starting" /\ st \in Shows
          BY <1>a, <3>3
        <4>2. d \in Ids /\ d[1] = "ver"
          BY <3>5
        <4>3. /\ \A b \in Accounts : Len(Set(g, d, st)[b]) = Len(g[b])
              /\ \A b \in Accounts : \A j \in 1..Len(g[b]) :
                  Set(g, d, st)[b][j] = IF d = <<"ver", b, j>> THEN st ELSE g[b][j]
          BY ONLY <4>1, <4>2, SetType
        <4> QED BY <4>1, <4>3
      <3>7. ASSUME NEW b \in Accounts, NEW i \in 1..Len(ver'[b]) PROVE ver'[b][i] # "ready"
        BY <3>3, <3>5, <3>6
      <3> QED BY <2>2, <3>7 DEF RowShown
    <2> QED BY <2>3, <2>4
  <1>14. ASSUME NEW a \in Accounts, CompleteVerification(a) PROVE LoginShown' /\ RowShown'
    <2>1. UNCHANGED <<desk, cut, qrp>> /\ ver' = Set(ver, desk.id, "completing") /\ desk.id[1] = "ver"
      BY <1>14 DEF CompleteVerification, memory
    <2>2. LoginShown'
      BY <2>1 DEF LoginShown
    <2>3. CASE cut
      BY <2>1, <2>2, <2>3 DEF RowShown
    <2>4. CASE ~cut
      <3>1. \A b \in Accounts : \A i \in 1..Len(ver'[b]) : ver'[b][i] # "ready"
        BY <1>a, <2>1, <2>4, DeskRow
      <3> QED BY <2>2, <3>1 DEF RowShown
    <2> QED BY <2>3, <2>4
  <1>f. ASSUME NEW a \in Accounts, CancelVerification(a), ~RowLost PROVE LoginShown' /\ RowShown'
    <2>1. PICK i \in DOMAIN ver[a] : /\ ver' = [ver EXCEPT ![a][i] = "cancelled"]
                                     /\ IF desk.id = <<"ver", a, i>> THEN ClosesDesk ELSE KeepsDesk
      BY <1>f DEF CancelVerification
    <2>2. UNCHANGED <<cut, qrp, held>>
      BY <1>f DEF CancelVerification
    <2>a. <<"ver", a, i>> \in Ids
      <3>1. ver[a] \in Seq(Shows)
        BY <1>0
      <3>2. i \in Nat
        BY <3>1
      <3> QED BY <3>2 DEF Ids
    <2>3. PICK d \in Ids : d = <<"ver", a, i>> /\ d[1] = "ver" /\ d[2] = a /\ d[3] = i
      BY <2>a
    <2>4. ver' = Set(ver, d, "cancelled")
      BY <2>1, <2>3 DEF Set
    <2>5. ReadyFewer
      BY <1>0, <1>a, <2>3, <2>4, RowsFewer
    <2>6. CASE desk.id # d
      <3>1. desk' = desk
        BY <2>1, <2>3, <2>6 DEF KeepsDesk
      <3> QED BY <1>b, <2>2, <2>5, <3>1, FreeShows
    <2>7. CASE desk.id = d
      <3>1. ver' = Set(ver, desk.id, "cancelled") /\ desk.id[1] = "ver"
        BY <2>3, <2>4, <2>7
      <3>2. LoginShown'
        BY <2>2, <3>1 DEF LoginShown
      <3>3. CASE cut
        BY <2>2, <3>2, <3>3 DEF RowShown
      <3>4. CASE ~cut
        <4>1. \A b \in Accounts : \A j \in 1..Len(ver'[b]) : ver'[b][j] # "ready"
          BY <1>a, <3>1, <3>4, DeskRow
        <4> QED BY <3>2, <4>1 DEF RowShown
      <3> QED BY <3>3, <3>4
    <2> QED BY <2>6, <2>7
  <1>15. ASSUME NEW a \in Accounts, CancelVerification(a) PROVE LoginShown' /\ RowShown'
    <2>1. RowLost => cut' = TRUE
      BY DEF RowLost
    <2> QED BY <1>15, <1>c, <1>f, <2>1
  <1> QED BY <1>1, <1>2, <1>3, <1>4, <1>5, <1>6, <1>7, <1>8, <1>9, <1>10, <1>11, <1>12, <1>13, <1>14, <1>15

(* No account browser becomes ready.                                       *)
PayFewer == \A n \in 1..Len(pay') : pay'[n] = "ready" => n \in 1..Len(pay) /\ pay[n] = "ready"
HeldCloses == held.op = "close" => held'.op = "close" /\ held'.id = held.id

LEMMA PayMarked ==
    ASSUME pay \in Seq(Shows), NEW i, NEW e \in Shows, pay' = [pay EXCEPT ![i] = e]
    PROVE  \A n \in 1..Len(pay') :
              n \in 1..Len(pay) /\ (n = i => pay'[n] = e) /\ (n # i => pay'[n] = pay[n])
  <1>1. PICK q : q = pay
    OBVIOUS
  <1>2. /\ Len([q EXCEPT ![i] = e]) = Len(q)
        /\ \A j \in 1..Len(q) : [q EXCEPT ![i] = e][j] = IF j = i THEN e ELSE q[j]
    <2>1. q \in Seq(Shows) /\ e \in Shows
      BY <1>1
    <2> QED BY ONLY <2>1, SeqExcept
  <1> QED BY <1>1, <1>2

LEMMA BrowsersStay ==
    ASSUME BrowserShown, PayFewer, DOMAIN pool \subseteq DOMAIN pool', HeldCloses
    PROVE  BrowserShown'
  <1>1. ASSUME NEW n \in 1..Len(pay'), pay'[n] = "ready"
        PROVE  n \in DOMAIN pool' \/ (held'.op = "close" /\ held'.id[3] = n)
    <2>1. n \in 1..Len(pay) /\ pay[n] = "ready"
      BY <1>1 DEF PayFewer
    <2>2. CASE n \in DOMAIN pool
      BY <2>2
    <2>3. CASE held.op = "close" /\ held.id[3] = n
      BY <2>3 DEF HeldCloses
    <2> QED BY <2>1, <2>2, <2>3 DEF BrowserShown
  <1> QED BY <1>1 DEF BrowserShown

LEMMA BrowsersQuiet ==
    ASSUME BrowserShown, pay' = pay, DOMAIN pool' = DOMAIN pool,
           held.op # "close" \/ held' = held \/ HeldStays(held')
    PROVE  BrowserShown'
  <1>1. PayFewer
    BY DEF PayFewer
  <1>2. HeldCloses
    BY DEF HeldCloses, HeldStays
  <1> QED BY <1>1, <1>2, BrowsersStay

LEMMA BrowserCloses ==
    ASSUME IInv, BrowserShown, NEW n, NEW why, BeginClose(n, why)
    PROVE  BrowserShown'
  <1>0. TypedCore /\ PoolOK /\ pay \in Seq(Shows) /\ "closing" \in Shows
    BY DEF IInv, Core, TypedCore, Shows
  <1>1. /\ held = Free /\ n \in DOMAIN pool /\ DOMAIN pool' = DOMAIN pool \ {n}
        /\ (pay' = pay \/ pay' = [pay EXCEPT ![n] = "closing"])
    BY DEF BeginClose
  <1>2. held.op = "free"
    BY <1>1, FreeType
  <1>3. held'.op = "close" /\ held'.id = pool[n].id
    BY DEF BeginClose, Op
  <1>4. pool[n].id[3] = n
    BY <1>0, <1>1 DEF PoolOK
  <1>5. PayFewer
    <2>1. CASE pay' = pay
      BY <2>1 DEF PayFewer
    <2>2. CASE pay' = [pay EXCEPT ![n] = "closing"]
      <3>1. \A m \in 1..Len(pay') :
              m \in 1..Len(pay) /\ (m = n => pay'[m] = "closing") /\ (m # n => pay'[m] = pay[m])
        BY <1>0, <2>2, PayMarked
      <3> QED BY <3>1 DEF PayFewer
    <2> QED BY <1>1, <2>1, <2>2
  <1>6. ASSUME NEW m \in 1..Len(pay'), pay'[m] = "ready"
        PROVE  m \in DOMAIN pool' \/ (held'.op = "close" /\ held'.id[3] = m)
    <2>1. m \in DOMAIN pool
      BY <1>2, <1>5, <1>6 DEF PayFewer, BrowserShown
    <2> QED BY <1>1, <1>3, <1>4, <2>1
  <1> QED BY <1>6 DEF BrowserShown

LEMMA HolderBrowser ==
    ASSUME IInv, BrowserShown, HolderStep
    PROVE  BrowserShown'
  <1>0. held \in Helds /\ HeldOK /\ pay \in Seq(Shows)
    BY DEF IInv, Core, TypedCore
  <1>a. {"failed", "closed", "expired", "ready"} \subseteq Shows
    BY DEF Shows, Ends
  <1>1. CASE CheckCookie \/ Latest \/ Persist \/ PersistLocal
    <2>1. UNCHANGED <<pay, pool>>
      BY <1>1 DEF CheckCookie, Latest, Persist, PersistLocal, Outside, memory
    <2>2. PICK c, x : held' = [held EXCEPT !.pc = x] \/ held' = [held EXCEPT !.mine = c, !.pc = x]
      BY <1>1 DEF CheckCookie, Latest, Persist, PersistLocal
    <2>3. HeldStays(held')
      <3>1. CASE held' = [held EXCEPT !.pc = x]
        BY <1>0, <3>1 DEF Helds, HeldStays
      <3>2. CASE held' = [held EXCEPT !.mine = c, !.pc = x]
        BY <1>0, <3>2 DEF Helds, HeldStays
      <3> QED BY <2>2, <3>1, <3>2
    <2> QED BY <2>1, <2>3, BrowsersQuiet
  <1>2. CASE Tell
    <2>1. PICK n, e : /\ n = held.id[3] /\ e \in {"closed", "expired"} /\ UNCHANGED pool
                      /\ IF pay[n] = "gone" THEN pay' = pay ELSE pay' = [pay EXCEPT ![n] = e]
      BY <1>2 DEF Tell
    <2>2. held.op = "close" /\ held.id[3] \in 1..Len(pay)
      BY <1>0, <1>2 DEF Tell, Inner, HeldOK
    <2>3. ASSUME NEW m \in 1..Len(pay'), pay'[m] = "ready"
          PROVE  m \in 1..Len(pay) /\ pay[m] = "ready" /\ m # n
      <3>1. CASE pay[n] = "gone"
        BY <2>1, <2>3, <3>1
      <3>2. CASE pay[n] # "gone"
        <4>1. pay' = [pay EXCEPT ![n] = e] /\ e \in Shows
          BY <1>a, <2>1, <3>2
        <4>2. m \in 1..Len(pay) /\ (m = n => pay'[m] = e) /\ (m # n => pay'[m] = pay[m])
          BY <1>0, <4>1, PayMarked
        <4> QED BY <2>1, <2>3, <4>2
      <3> QED BY <3>1, <3>2
    <2>4. \A m \in 1..Len(pay') : pay'[m] = "ready" => m \in DOMAIN pool
      BY <2>1, <2>3 DEF BrowserShown
    <2> QED BY <2>1, <2>4 DEF BrowserShown
  <1>3. CASE Launch \/ ReadyLost \/ VerificationUrl \/ TokenGiven
    <2>1. UNCHANGED <<pay, pool>> /\ held.op # "close"
      BY <1>3 DEF Launch, ReadyLost, VerificationUrl, TokenGiven, Starting, memory
    <2> QED BY <2>1, BrowsersQuiet
  <1>4. CASE SaveX5 \/ Resumed
    <2>1. UNCHANGED <<pay, pool>> /\ held.op # "close"
      BY <1>4 DEF SaveX5, Resumed, memory
    <2> QED BY <2>1, BrowsersQuiet
  <1>5. CASE StartFails
    <2>1. PICK n : /\ n = held.id[3] /\ UNCHANGED pool /\ held.op # "close"
                   /\ (pay' = pay \/ pay' = [pay EXCEPT ![n] = "failed"])
      BY <1>5 DEF StartFails, StartShows
    <2>2. PayFewer
      <3>1. CASE pay' = pay
        BY <3>1 DEF PayFewer
      <3>2. CASE pay' = [pay EXCEPT ![n] = "failed"]
        <4>1. \A m \in 1..Len(pay') :
              m \in 1..Len(pay) /\ (m = n => pay'[m] = "failed") /\ (m # n => pay'[m] = pay[m])
          BY <1>0, <1>a, <3>2, PayMarked
        <4> QED BY <4>1 DEF PayFewer
      <3> QED BY <2>1, <3>1, <3>2
    <2>3. HeldCloses
      BY <2>1 DEF HeldCloses
    <2> QED BY <2>1, <2>2, <2>3, BrowsersStay
  <1>6. CASE BrowserReady
    <2>1. held.op \in Starts
      BY <1>6 DEF BrowserReady, Starting, Starts
    <2>2. held.op # "close"
      BY <2>1 DEF Starts
    <2>3. CASE held.op # "vnc"
      <3>1. UNCHANGED <<pay, pool>>
        BY <1>6, <2>3 DEF BrowserReady, StartShows
      <3> QED BY <2>2, <3>1, BrowsersQuiet
    <2>4. CASE held.op = "vnc"
      <3>1. PICK n : n = held.id[3] /\ pay' = [pay EXCEPT ![n] = "ready"]
        BY <1>6, <2>4 DEF BrowserReady, StartShows
      <3>2. DOMAIN pool' = DOMAIN pool \cup {n}
        BY <1>6, <2>4, <3>1 DEF BrowserReady
      <3>3. \A m \in 1..Len(pay') :
              m \in 1..Len(pay) /\ (m = n => pay'[m] = "ready") /\ (m # n => pay'[m] = pay[m])
        BY <1>0, <1>a, <3>1, PayMarked
      <3>4. \A m \in 1..Len(pay') : pay'[m] = "ready" => m \in DOMAIN pool'
        BY <2>2, <3>2, <3>3 DEF BrowserShown
      <3> QED BY <3>4 DEF BrowserShown
    <2> QED BY <2>3, <2>4
  <1> QED BY <1>1, <1>2, <1>3, <1>4, <1>5, <1>6 DEF HolderStep

LEMMA LoginBrowser ==
    ASSUME BrowserShown,
           \/ AskQr \/ StartQr \/ PollQr \/ FinalizePoll \/ FailPoll \/ CancelQr \/ DeleteQr \/ CleanupQr
           \/ \E c \in Callers : PrepareQr(c)
           \/ \E c \in DOMAIN call : SaveLogin(c)
    PROVE  BrowserShown'
  <1>1. ASSUME UNCHANGED <<held, pool, pay>> PROVE BrowserShown'
    BY <1>1, BrowsersQuiet
  <1>2. CASE AskQr \/ PollQr \/ FinalizePoll \/ FailPoll \/ CleanupQr \/ \E c \in Callers : PrepareQr(c)
    BY <1>1, <1>2 DEF AskQr, PollQr, FinalizePoll, FailPoll, CleanupQr, PrepareQr, Around
  <1>3. CASE CancelQr \/ DeleteQr
    BY <1>1, <1>3 DEF CancelQr, DeleteQr, Rest
  <1>4. CASE StartQr
    <2>1. held.op = "free" /\ UNCHANGED <<pool, pay>>
      BY <1>4, FreeType DEF StartQr
    <2> QED BY <2>1, BrowsersQuiet
  <1>5. ASSUME NEW c, SaveLogin(c) PROVE BrowserShown'
    <2>1. CASE FinishQr(c)
      BY <1>1, <2>1 DEF FinishQr, Rest
    <2>2. CASE ~FinishQr(c)
      BY <1>1, <1>5, <2>2
         DEF SaveLogin, PersistRead, CreateAccount, PersistCas, StartRuntime, RestoreQr, Around
    <2> QED BY <2>1, <2>2
  <1> QED BY <1>2, <1>3, <1>4, <1>5

LEMMA OtherBrowser ==
    ASSUME IInv, BrowserShown,
           \/ ExpireDesk \/ Tick \/ IssueTicket \/ Crash
           \/ \E t \in tickets : ConsumeTicket(t)
           \/ \E n \in Browsers : CloseAccountBrowser(n) \/ ExpireAccount(n) \/ TouchAccountBrowser(n)
           \/ \E p \in Profiles : StopProfile(p)
           \/ \E a \in Accounts :
                \/ IdentityChange(a) \/ PrepareDeletion(a) \/ DeleteAccount(a) \/ ForgetBrowser(a)
                \/ StartAccountBrowser(a) \/ StartVerification(a) \/ CompleteVerification(a)
                \/ CancelVerification(a) \/ Edit(a) \/ Renew(a) \/ RiskDetected(a)
    PROVE  BrowserShown'
  <1>0. TypedCore /\ pay \in Seq(Shows) /\ "gone" \in Shows /\ Len(pay) \in Nat
    BY DEF IInv, Core, TypedCore, Shows
  <1>a. ASSUME UNCHANGED <<held, pay>>, DOMAIN pool' = DOMAIN pool PROVE BrowserShown'
    BY <1>a, BrowsersQuiet
  <1>1. CASE ExpireDesk
    BY <1>a, <1>1, DropDeskCases DEF ExpireDesk
  <1>2. CASE Tick
    <2>1. HeldStays(held') /\ DOMAIN pool' = DOMAIN pool
      BY <1>0, <1>2, TickKeeps
    <2>2. pay' = pay
      BY <1>2 DEF Tick
    <2> QED BY <2>1, <2>2, BrowsersQuiet
  <1>3. CASE IssueTicket
    <2>1. UNCHANGED <<held, pay>>
      BY <1>3 DEF IssueTicket
    <2>2. pool' = pool \/ \E n : pool' = [pool EXCEPT ![n] = Touched(@)]
      BY <1>3 DEF IssueTicket
    <2> QED BY <1>a, <2>1, <2>2
  <1>4. CASE Crash
    <2>1. pay' = [n \in 1..Len(pay) |-> "gone"]
      BY <1>0, <1>4 DEF Crash
    <2>2. Len(pay') = Len(pay) /\ \A n \in 1..Len(pay) : pay'[n] = "gone"
      BY <1>0, <2>1
    <2> QED BY <2>2 DEF BrowserShown
  <1>5. CASE \E t \in tickets : ConsumeTicket(t)
    BY <1>a, <1>5 DEF ConsumeTicket
  <1>6. ASSUME NEW n \in Browsers, CloseAccountBrowser(n) \/ ExpireAccount(n) PROVE BrowserShown'
    BY <1>6, BrowserCloses DEF CloseAccountBrowser, ExpireAccount
  <1>7. ASSUME NEW n \in Browsers, TouchAccountBrowser(n) PROVE BrowserShown'
    BY <1>a, <1>7 DEF TouchAccountBrowser
  <1>8. ASSUME NEW p \in Profiles, StopProfile(p) PROVE BrowserShown'
    <2>1. CASE \E n \in DOMAIN pool : BeginClose(n, "stop")
      BY <2>1, BrowserCloses
    <2>2. CASE DropDesk("cancelled")
      BY <1>a, <2>2, DropDeskCases
    <2>3. CASE UNCHANGED <<held, memory>>
      BY <1>a, <2>3 DEF memory
    <2> QED BY <1>8, <2>1, <2>2, <2>3 DEF StopProfile
  <1>9. ASSUME NEW a \in Accounts, IdentityChange(a) PROVE BrowserShown'
    <2>1. CASE \E n \in OfAccount(a) : BeginClose(n, "identity")
      BY <2>1, BrowserCloses
    <2>2. CASE UNCHANGED <<held, pool, pay>>
      BY <1>a, <2>2
    <2> QED BY <1>9, <2>1, <2>2 DEF IdentityChange
  <1>10. ASSUME NEW a \in Accounts, PrepareDeletion(a) PROVE BrowserShown'
    <2>1. CASE \E n \in OfAccount(a) : BeginClose(n, "delete")
      BY <2>1, BrowserCloses
    <2>2. CASE DropDesk("cancelled")
      BY <1>a, <2>2, DropDeskCases
    <2> QED BY <1>10, <2>1, <2>2 DEF PrepareDeletion
  <1>11. ASSUME NEW a \in Accounts, DeleteAccount(a) \/ Edit(a) \/ Renew(a) \/ RiskDetected(a) \/ CancelVerification(a)
         PROVE  BrowserShown'
    BY <1>a, <1>11 DEF DeleteAccount, Edit, Renew, RiskDetected, CancelVerification, Others, memory
  <1>12. ASSUME NEW a \in Accounts, ForgetBrowser(a) PROVE BrowserShown'
    <2>1. PICK n : pay' = [pay EXCEPT ![n] = "gone"] /\ UNCHANGED <<held, pool>>
      BY <1>12 DEF ForgetBrowser
    <2>2. \A m \in 1..Len(pay') :
              m \in 1..Len(pay) /\ (m = n => pay'[m] = "gone") /\ (m # n => pay'[m] = pay[m])
      BY <1>0, <2>1, PayMarked
    <2>3. PayFewer
      BY <2>2 DEF PayFewer
    <2>4. HeldCloses
      BY <2>1 DEF HeldCloses
    <2> QED BY <2>1, <2>3, <2>4, BrowsersStay
  <1>13. ASSUME NEW a \in Accounts, StartAccountBrowser(a) PROVE BrowserShown'
    <2>1. /\ UNCHANGED pool /\ held = Free
          /\ pay' = Append([m \in DOMAIN pay |-> IF m = by[a] THEN "gone" ELSE pay[m]], "starting")
      BY <1>13 DEF StartAccountBrowser
    <2>2. HeldCloses
      BY <2>1, FreeType DEF HeldCloses
    <2>3. PICK q : q = [m \in DOMAIN pay |-> IF m = by[a] THEN "gone" ELSE pay[m]]
      OBVIOUS
    <2>4. q \in [1..Len(pay) -> Shows]
      BY <1>0, <2>3
    <2>5. q \in Seq(Shows) /\ Len(q) = Len(pay)
      BY <1>0, <2>4
    <2>6. pay' = Append(q, "starting")
      BY <2>1, <2>3
    <2>7. ASSUME NEW m \in 1..Len(pay'), pay'[m] = "ready" PROVE m \in 1..Len(pay) /\ pay[m] = "ready"
      <3>1. Len(pay') = Len(pay) + 1 /\ pay'[Len(pay) + 1] = "starting"
        BY <2>5, <2>6
      <3>2. m \in 1..Len(pay)
        BY <1>0, <2>7, <3>1
      <3>3. pay'[m] = q[m]
        BY <2>5, <2>6, <3>2
      <3>4. DOMAIN pay = 1..Len(pay)
        BY <1>0
      <3> QED BY <2>3, <2>7, <3>2, <3>3, <3>4
    <2>8. PayFewer
      BY <2>7 DEF PayFewer
    <2> QED BY <2>1, <2>2, <2>8, BrowsersStay
  <1>14. ASSUME NEW a \in Accounts, StartVerification(a) \/ CompleteVerification(a) PROVE BrowserShown'
    <2>1. held = Free /\ UNCHANGED <<pool, pay>>
      BY <1>14 DEF StartVerification, CompleteVerification, memory
    <2> QED BY <2>1, FreeType, BrowsersQuiet
  <1> QED BY <1>1, <1>2, <1>3, <1>4, <1>5, <1>6, <1>7, <1>8, <1>9, <1>10, <1>11, <1>12, <1>13, <1>14

(* What is shown as ready is there: an account browser leaves the pool     *)
(* only in a close that then changes its status, a verification row says   *)
(* ready only while its session is on the reserved desktop and nobody      *)
(* completes it, and a login's entry says ready again only when its        *)
(* browser is still there (_close_active_locked, restore_qr_login_ready,   *)
(* set_im_verification_state). A crash, an identity change or a row that   *)
(* could not be written after the close is the exception.                  *)
THEOREM WhatIsShownIsThere == Spec => []ShownIsTrue
  <1>1. Init => Shown
    <2>1. ASSUME Init PROVE Shown
      <3>1. pay = <<>> /\ qrp = "none" /\ ver = [a \in Accounts |-> <<>>]
        BY <2>1 DEF Init
      <3>2. BrowserShown
        BY <3>1 DEF BrowserShown
      <3>3. LoginShown
        BY <3>1 DEF LoginShown
      <3>4. RowShown
        BY <3>1 DEF RowShown
      <3> QED BY <3>2, <3>3, <3>4 DEF Shown
    <2> QED BY <2>1
  <1>2. IInv /\ Shown /\ [Next]_vars => Shown'
    <2>1. ASSUME IInv, Shown, Next PROVE Shown'
      <3>1. BrowserShown /\ LoginShown /\ RowShown
        BY <2>1 DEF Shown
      <3>2. BrowserShown'
        BY <2>1, <3>1, HolderBrowser, LoginBrowser, OtherBrowser DEF Next
      <3>3. LoginShown' /\ RowShown'
        BY <2>1, <3>1, HolderShows, LoginShows, OtherShows DEF Next
      <3> QED BY <3>2, <3>3 DEF Shown
    <2>2. ASSUME Shown, UNCHANGED vars PROVE Shown'
      <3>1. UNCHANGED <<pay, pool, held, cut, qrp, desk, ver>>
        BY <2>2 DEF vars, memory, stored
      <3> QED BY <2>2, <3>1 DEF Shown, BrowserShown, LoginShown, RowShown
    <2> QED BY <2>1, <2>2
  <1>3. IInv /\ Shown => ShownIsTrue
    <2>1. ASSUME IInv, Shown, held = Free PROVE ShownIsTrue
      <3>1. held.op = "free"
        BY <2>1, FreeType
      <3>2. pay \in Seq(Shows) /\ \A a \in Accounts : ver[a] \in Seq(Shows)
        BY <2>1 DEF IInv, Core, TypedCore, TypedData
      <3>3. DOMAIN pay = 1..Len(pay) /\ \A a \in Accounts : DOMAIN ver[a] = 1..Len(ver[a])
        BY <3>2
      <3>4. \A n \in DOMAIN pay : pay[n] = "ready" => n \in DOMAIN pool
        BY <2>1, <3>1, <3>3 DEF Shown, BrowserShown
      <3>5. ~cut /\ qrp = "ready" => desk.id[1] = "qr"
        BY <2>1 DEF Shown, LoginShown
      <3>6. ~cut => \A a \in Accounts : \A i \in DOMAIN ver[a] :
                      ver[a][i] = "ready" => desk.id = <<"ver", a, i>>
        BY <2>1, <3>3 DEF Shown, RowShown
      <3> QED BY <3>4, <3>5, <3>6 DEF ShownIsTrue
    <2> QED BY <2>1 DEF ShownIsTrue
  <1> QED BY <1>1, <1>2, <1>3, Inductive, PTL DEF Spec
=============================================================================
