--------------------------- MODULE AccountProofs ---------------------------
(***************************************************************************)
(* Proofs about an account's cookie and its sessions, for any number of    *)
(* concurrent requests, attempts and crashes.                              *)
(*                                                                         *)
(* Of CookieRenewal: the operator's cookie is never replaced by an older   *)
(* line, without QR logins no attempt is left running in the history, and  *)
(* a login is asked for only after two failed checks.                      *)
(* Of AccountRuntime: a live session is heard, and a connected one is      *)
(* shown as online.                                                        *)
(***************************************************************************)
EXTENDS AccountRuntime, CookieRenewal, TLAPS

-----------------------------------------------------------------------------
(* Cookie renewal.                                                         *)

\* A cookie that equals the stored one descends from the operator's.
Sound ==
    {c \in [same : BOOLEAN, line : BOOLEAN, own : BOOLEAN] : c.same => c.line}

\* The inductive invariant of OperatorCookieKept: whoever may write the row
\* holds a cookie of the operator's line.
HoldersSound == kept = TRUE /\ holds \in [Holders -> Sound]

LEMMA SoundCookies ==
    /\ Nothing \in Sound /\ H(TRUE, TRUE) \in Sound
    /\ \A line, own \in BOOLEAN : Cookie(FALSE, line, own) \in Sound
    /\ \A c \in Sound : Cookie(FALSE, c.line, c.own) \in Sound
    /\ \A c \in Sound : H(c.same, c.line) \in Sound /\ Cookie(FALSE, c.line, TRUE) \in Sound
BY DEF Sound, Nothing, H, Cookie

LEMMA HolderNames ==
    /\ {"task", "keep", "sess", "conf", "live"} \subseteq Holders
    /\ Clients \subseteq Holders
BY DEF Holders, Tasks

\* A cookie read from the row is sound.
LEMMA StoredSound == HoldersSound => Stored \in Sound
BY SoundCookies DEF HoldersSound, Stored

LEMMA TakeSound ==
    ASSUME HoldersSound, NEW x \in Holders, NEW c \in Sound, Take(x, c)
    PROVE  holds' \in [Holders -> Sound]
BY DEF HoldersSound, Take

LEMMA DropSound ==
    ASSUME HoldersSound, NEW x \in Holders, Drop(x)
    PROVE  holds' \in [Holders -> Sound]
BY TakeSound, SoundCookies DEF Drop

LEMMA ReadSound ==
    ASSUME HoldersSound, NEW x \in Holders, Take(x, Stored)
    PROVE  holds' \in [Holders -> Sound]
BY TakeSound, StoredSound

\* A successful compare and set writes a cookie of the operator's line.
LEMMA SwapSound ==
    ASSUME HoldersSound, NEW x \in Holders, Swap(x)
    PROVE  HoldersSound'
<1>1. holds[x] \in Sound /\ holds[x].same
  BY DEF HoldersSound, Swap
<1>2. holds[x].line = TRUE
  BY <1>1 DEF Sound
<1>3. CASE Derived(x)
  <2>1. kept' = TRUE
    BY <1>2, <1>3 DEF Derived
  <2>2. H(TRUE, holds[x].line) \in Sound
    BY <1>2, SoundCookies
  <2>3. \A h \in Holders : Cookie(FALSE, holds[h].line, holds[h].own) \in Sound
    BY SoundCookies DEF HoldersSound
  <2> QED BY <1>3, <2>1, <2>2, <2>3 DEF Derived, HoldersSound
<1>4. CASE UNCHANGED <<kept, holds>>
  BY <1>4 DEF HoldersSound
<1> QED BY <1>3, <1>4 DEF Swap

LEMMA SuppliedSound ==
    ASSUME HoldersSound, NEW x \in Holders, Supplied(x)
    PROVE  HoldersSound'
<1>1. \A h \in Holders : Cookie(h = x, h = x, h # x /\ holds[h].own) \in Sound
  BY DEF Cookie, Sound
<1> QED BY <1>1 DEF Supplied, HoldersSound

LEMMA InstallSound ==
    ASSUME HoldersSound, NEW x \in Holders, NEW c \in Sound, Install(x, c)
    PROVE  holds' \in [Holders -> Sound]
BY SoundCookies, HolderNames DEF HoldersSound, Install

LEMMA ReplaceSound ==
    ASSUME HoldersSound, NEW x \in Holders, Replace(x)
    PROVE  holds' \in [Holders -> Sound]
<1>1. CASE on
  <2>1. PICK c \in {holds[x], Stored} : Install(x, c)
    BY <1>1 DEF Replace
  <2>2. c \in Sound
    BY StoredSound DEF HoldersSound
  <2> QED BY <2>1, <2>2, InstallSound
<1>2. CASE ~on
  BY <1>2, DropSound DEF Replace
<1> QED BY <1>1, <1>2

-----------------------------------------------------------------------------
LEMMA RenewalSound == ASSUME HoldersSound, RenewalStep PROVE HoldersSound'
<1> USE HolderNames
<1>1. CASE Begin
  BY <1>1 DEF Begin, HoldersSound, cookies
<1>2. CASE ReadAccount
  BY <1>2, ReadSound DEF ReadAccount, HoldersSound
<1>3. CASE RenewalFails
  BY <1>3, DropSound DEF RenewalFails, HoldersSound
<1>4. CASE Persist
  <2>1. \/ Swap("task")
        \/ Drop("task") /\ UNCHANGED kept
    BY <1>4 DEF Persist
  <2> QED BY <2>1, SwapSound, DropSound DEF HoldersSound
<1>5. CASE ApplyRenewed
  <2>1. UNCHANGED kept /\ (Replace("task") \/ Install("task", Stored))
    BY <1>5 DEF ApplyRenewed
  <2> QED BY <2>1, ReplaceSound, InstallSound, StoredSound DEF HoldersSound
<1>6. CASE FinishRenewal
  BY <1>6 DEF FinishRenewal, HoldersSound, cookies
<1> QED BY <1>1, <1>2, <1>3, <1>4, <1>5, <1>6 DEF RenewalStep

LEMMA ScanSound == ASSUME HoldersSound, ScanStep PROVE HoldersSound'
<1>1. CASE ScanReads
  BY <1>1 DEF ScanReads, HoldersSound, cookies
<1>2. CASE ScanReschedules
  BY <1>2 DEF ScanReschedules, HoldersSound, cookies
<1>3. CASE ScanTriggers
  BY <1>3 DEF ScanTriggers, HoldersSound, cookies
<1>4. CASE ScanKeepalive
  <2>1. UNCHANGED kept /\ (Take("keep", Stored) \/ UNCHANGED holds)
    BY <1>4 DEF ScanKeepalive
  <2> QED BY <2>1, ReadSound, HolderNames DEF HoldersSound
<1> QED BY <1>1, <1>2, <1>3, <1>4 DEF ScanStep

LEMMA KeepaliveSound == ASSUME HoldersSound, KeepaliveStep PROVE HoldersSound'
<1> USE HolderNames
<1>1. CASE KeepaliveFails
  BY <1>1, DropSound DEF KeepaliveFails, HoldersSound
<1>2. CASE KeepaliveWakes
  BY <1>2, ReadSound DEF KeepaliveWakes, HoldersSound
<1>3. CASE KeepalivePersists
  <2>1. \/ Swap("keep")
        \/ Drop("keep") /\ UNCHANGED kept
    BY <1>3 DEF KeepalivePersists
  <2> QED BY <2>1, SwapSound, DropSound DEF HoldersSound
<1>4. CASE KeepaliveApplies
  BY <1>4, ReplaceSound DEF KeepaliveApplies, HoldersSound
<1> QED BY <1>1, <1>2, <1>3, <1>4 DEF KeepaliveStep

\* The session reports the cookie it refreshed only if the one it started from
\* is still stored.
LEMMA SessionSound ==
    ASSUME HoldersSound, SessionRefreshes \/ SessionReports \/ ConflictApplies
    PROVE  HoldersSound'
<1> USE HolderNames
<1>1. CASE SessionRefreshes
  <2>1. /\ holds["live"] \in Sound /\ UNCHANGED kept
        /\ holds' = [holds EXCEPT !["sess"] = H(holds["live"].same, holds["live"].line),
                                  !["live"] = Cookie(FALSE, holds["live"].line, TRUE)]
    BY <1>1 DEF SessionRefreshes, HoldersSound
  <2>2. /\ H(holds["live"].same, holds["live"].line) \in Sound
        /\ Cookie(FALSE, holds["live"].line, TRUE) \in Sound
    BY <2>1, SoundCookies
  <2> QED BY <2>1, <2>2 DEF HoldersSound
<1>2. CASE SessionReports
  <2>1. CASE /\ holds["sess"].same
             /\ kept' = holds["sess"].line
             /\ holds' = [h \in Holders |->
                            IF h = "sess" THEN Nothing
                            ELSE IF h = "live" /\ holds[h].own THEN H(TRUE, holds["sess"].line)
                            ELSE Cookie(FALSE, holds[h].line, holds[h].own)]
    <3>1. holds["sess"].line = TRUE
      BY <2>1 DEF HoldersSound, Sound
    <3>2. \A h \in Holders : Cookie(FALSE, holds[h].line, holds[h].own) \in Sound
      BY SoundCookies DEF HoldersSound
    <3>3. H(TRUE, holds["sess"].line) \in Sound /\ Nothing \in Sound
      BY <3>1, SoundCookies
    <3> QED BY <2>1, <3>1, <3>2, <3>3 DEF HoldersSound
  <2>2. CASE /\ holds' = [holds EXCEPT !["conf"] = Stored, !["sess"] = Nothing]
             /\ UNCHANGED kept
    BY <2>2, StoredSound, SoundCookies DEF HoldersSound
  <2>3. CASE Drop("sess") /\ UNCHANGED kept
    BY <2>3, DropSound DEF HoldersSound
  <2> QED BY <1>2, <2>1, <2>2, <2>3 DEF SessionReports
<1>3. CASE ConflictApplies
  BY <1>3, ReplaceSound DEF ConflictApplies, HoldersSound
<1> QED BY <1>1, <1>2, <1>3

CallerStep(p) ==
    \/ LoginReads(p) \/ LoginPersists(p) \/ MarkLoginSuccess(p) \/ RereadAccount(p)
    \/ RequestRestart(p) \/ StartSessionFor(p)
    \/ UpdateCookie(p) \/ ReplaceOrStart(p)
    \/ MergeReads(p) \/ MergePersists(p) \/ ReloadReads(p) \/ ReloadApplies(p)

LEMMA CallerSound ==
    ASSUME HoldersSound, NEW p \in Clients, CallerStep(p)
    PROVE  HoldersSound'
<1>0. p \in Holders /\ holds[p] \in Sound
  BY HolderNames DEF HoldersSound
<1>1. CASE LoginReads(p) \/ RereadAccount(p) \/ RequestRestart(p) \/ MergeReads(p)
           \/ ReloadReads(p)
  <2>1. Take(p, Stored) /\ UNCHANGED kept
    BY <1>1 DEF LoginReads, RereadAccount, RequestRestart, MergeReads, ReloadReads
  <2> QED BY <1>0, <2>1, ReadSound DEF HoldersSound
<1>2. CASE LoginPersists(p)
  <2>1. Supplied(p) \/ (Drop(p) /\ UNCHANGED kept)
    BY <1>2 DEF LoginPersists
  <2> QED BY <1>0, <2>1, SuppliedSound, DropSound DEF HoldersSound
<1>3. CASE MarkLoginSuccess(p)
  BY <1>3 DEF MarkLoginSuccess, HoldersSound, cookies
<1>4. CASE StartSessionFor(p)
  BY <1>0, <1>4, InstallSound DEF StartSessionFor, HoldersSound
<1>5. CASE UpdateCookie(p)
  BY <1>0, <1>5, SuppliedSound DEF UpdateCookie
<1>6. CASE ReplaceOrStart(p)
  <2>1. UNCHANGED kept /\ (Replace(p) \/ Install(p, holds[p]))
    BY <1>6 DEF ReplaceOrStart
  <2> QED BY <1>0, <2>1, ReplaceSound, InstallSound DEF HoldersSound
<1>7. CASE MergePersists(p)
  <2>1. Swap(p) \/ (Drop(p) /\ UNCHANGED kept)
    BY <1>7 DEF MergePersists
  <2> QED BY <1>0, <2>1, SwapSound, DropSound DEF HoldersSound
<1>8. CASE ReloadApplies(p)
  BY <1>0, <1>8, ReplaceSound DEF ReloadApplies, HoldersSound
<1> QED BY <1>1, <1>2, <1>3, <1>4, <1>5, <1>6, <1>7, <1>8 DEF CallerStep

LEMMA HoldersStaySound == HoldersSound /\ [RenewalNext]_renewalVars => HoldersSound'
<1> SUFFICES ASSUME HoldersSound, [RenewalNext]_renewalVars PROVE HoldersSound'
  OBVIOUS
<1>1. CASE RenewalStep \/ ScanStep \/ KeepaliveStep
  BY <1>1, RenewalSound, ScanSound, KeepaliveSound
<1>2. CASE SessionRefreshes \/ SessionReports \/ ConflictApplies
  BY <1>2, SessionSound
<1>3. CASE \E p \in Clients : CallerStep(p)
  BY <1>3, CallerSound
<1>4. CASE RequestRenewal \/ ReportAuthFailure \/ SuccessAges \/ AttemptComesDue
           \/ RowGetsStale \/ KeepaliveComesDue
  <2>1. UNCHANGED <<kept, holds>>
    BY <1>4 DEF RequestRenewal, ReportAuthFailure, SuccessAges, AttemptComesDue,
                RowGetsStale, KeepaliveComesDue, cookies
  <2> QED BY <2>1 DEF HoldersSound
<1>5. CASE ApiCrash
  BY <1>5, SoundCookies DEF ApiCrash, HoldersSound
<1>6. CASE UNCHANGED renewalVars
  BY <1>6 DEF renewalVars, HoldersSound
<1> QED BY <1>1, <1>2, <1>3, <1>4, <1>5, <1>6 DEF RenewalNext, CallerStep

\* The stored cookie always descends from the one the operator supplied last,
\* whoever renews, validates, refreshes or merges cookies at the same time:
\* each of them compares the row's cookie with the one it started from.
THEOREM StoredCookieIsOperators == RenewalSpec => []OperatorCookieKept
<1>1. RenewalInit => HoldersSound
  BY SoundCookies DEF RenewalInit, HoldersSound
<1>2. HoldersSound => OperatorCookieKept
  BY DEF HoldersSound, OperatorCookieKept
<1> QED BY <1>1, <1>2, HoldersStaySound, PTL DEF RenewalSpec

-----------------------------------------------------------------------------
(* Attempts, in a system where nobody logs in by QR code.                  *)

\* The inductive invariant of AttemptsTracked: the only step that forgets the
\* active attempt without closing it comes after a login.
Tracked ==
    /\ open \subseteq {row.active} /\ "active" \in DOMAIN row
    /\ DOMAIN pc = Procs
    /\ \A p \in Clients : pc[p] \notin {"loginSwap", "mark"}

LEMMA CallersAreNoTasks ==
    \A p \in Clients : p \in Procs /\ p \notin {"task", "keep", "sess", "conf", "scan"}
BY ClientsAssumption DEF Tasks, Procs

\* What a step of anyone but a caller does to the callers.
LEMMA OthersMove ==
    ASSUME Tracked, NEW x \in Procs, NEW label, Enter(x, label),
           label \notin {"loginSwap", "mark"}
    PROVE  /\ DOMAIN pc' = Procs
           /\ \A p \in Clients : pc'[p] \notin {"loginSwap", "mark"}
BY CallersAreNoTasks DEF Tracked, Enter

\* Steps of the tasks and of the scheduler leave every caller where it is.
LEMMA TasksKeepCallers ==
    ASSUME Tracked, RenewalStep \/ ScanStep \/ KeepaliveStep
                    \/ SessionRefreshes \/ SessionReports \/ ConflictApplies
                    \/ RequestRenewal \/ ReportAuthFailure
    PROVE  DOMAIN pc' = Procs /\ \A p \in Clients : pc'[p] = pc[p]
<1> USE CallersAreNoTasks DEF Tracked, Enter
<1>1. CASE RenewalStep
  BY <1>1 DEF RenewalStep, Begin, ReadAccount, RenewalFails, Persist, ApplyRenewed,
              FinishRenewal, DiscardTask
<1>2. CASE ScanStep
  BY <1>2 DEF ScanStep, ScanReads, ScanReschedules, ScanTriggers, ScanKeepalive
<1>3. CASE KeepaliveStep
  BY <1>3 DEF KeepaliveStep, KeepaliveFails, KeepaliveWakes, KeepalivePersists,
              KeepaliveApplies, Confirm
<1>4. CASE SessionRefreshes \/ SessionReports \/ ConflictApplies
  BY <1>4 DEF SessionRefreshes, SessionReports, ConflictApplies
<1>5. CASE RequestRenewal \/ ReportAuthFailure
  BY <1>5 DEF RequestRenewal, ReportAuthFailure, Confirm
<1> QED BY <1>1, <1>2, <1>3, <1>4, <1>5

LEMMA TaskTracks ==
    ASSUME Tracked, RenewalStep \/ ScanStep \/ KeepaliveStep
                    \/ SessionRefreshes \/ SessionReports \/ ConflictApplies
                    \/ RequestRenewal \/ ReportAuthFailure
    PROVE  open' \subseteq {row'.active} /\ "active" \in DOMAIN row'
<1> USE DEF Tracked
<1>1. CASE Begin
  <2>1. PICK a \in AttemptIds : row' = Row("running", trig, a, "none", "none")
                                /\ open' = (open \ {row.active}) \cup {a}
    BY <1>1 DEF Begin
  <2> QED BY <2>1 DEF Row
<1>2. CASE RenewalFails
  BY <1>2 DEF RenewalFails, Row
<1>3. CASE Persist
  <2>1. CASE /\ open' = open \ {row.active}
             /\ row' = Row("conflict", row.trigger, NoAttempt, "other", "later")
    BY <2>1 DEF Row
  <2>2. CASE UNCHANGED open /\ \E next \in Future :
               row' = Row("applying", row.trigger, row.active, "none", next)
    BY <2>2 DEF Row
  <2> QED BY <1>3, <2>1, <2>2 DEF Persist
<1>4. CASE FinishRenewal
  BY <1>4 DEF FinishRenewal, Row
<1>5. CASE ScanReschedules
  <2>1. UNCHANGED open /\ \E next : row' = [row EXCEPT !.next = next, !.stale = FALSE]
    BY <1>5 DEF ScanReschedules
  <2> QED BY <2>1
<1>6. CASE KeepalivePersists
  <2>1. UNCHANGED open /\ row'.active = row.active /\ DOMAIN row' = DOMAIN row
    BY <1>6 DEF KeepalivePersists
  <2> QED BY <2>1
<1>7. CASE UNCHANGED <<row, open>>
  BY <1>7
<1>8. \/ Begin \/ RenewalFails \/ Persist \/ FinishRenewal \/ ScanReschedules
      \/ KeepalivePersists \/ UNCHANGED <<row, open>>
  BY DEF RenewalStep, ReadAccount, ApplyRenewed, ScanStep, ScanReads, ScanTriggers,
         ScanKeepalive, KeepaliveStep, KeepaliveFails, KeepaliveWakes, KeepaliveApplies,
         SessionRefreshes, SessionReports, ConflictApplies, RequestRenewal,
         ReportAuthFailure, renewal
<1> QED BY <1>1, <1>2, <1>3, <1>4, <1>5, <1>6, <1>7, <1>8

LEMMA CallerTracks ==
    ASSUME "login" \notin ops, Tracked, NEW p \in Clients, CallerStep(p)
    PROVE  Tracked'
<1> USE CallersAreNoTasks
<1>1. ~LoginReads(p) /\ ~LoginPersists(p) /\ ~MarkLoginSuccess(p)
  BY DEF Tracked, LoginReads, LoginPersists, MarkLoginSuccess
<1>2. \E label : Enter(p, label) /\ label \notin {"loginSwap", "mark"}
  BY <1>1 DEF CallerStep, RereadAccount, RequestRestart, StartSessionFor, UpdateCookie,
              ReplaceOrStart, MergeReads, MergePersists, ReloadReads, ReloadApplies
<1>3. UNCHANGED open /\ row'.active = row.active /\ "active" \in DOMAIN row'
  BY <1>1 DEF CallerStep, RereadAccount, RequestRestart, StartSessionFor, UpdateCookie,
              ReplaceOrStart, MergeReads, MergePersists, ReloadReads, ReloadApplies,
              renewal, Row, Tracked
<1> QED BY <1>2, <1>3, OthersMove DEF Tracked

LEMMA StaysTracked ==
    ASSUME "login" \notin ops, Tracked, [RenewalNext]_renewalVars
    PROVE  Tracked'
<1>1. CASE RenewalStep \/ ScanStep \/ KeepaliveStep
           \/ SessionRefreshes \/ SessionReports \/ ConflictApplies
           \/ RequestRenewal \/ ReportAuthFailure
  BY <1>1, TasksKeepCallers, TaskTracks DEF Tracked
<1>2. CASE \E p \in Clients : CallerStep(p)
  BY <1>2, CallerTracks
<1>3. CASE SuccessAges \/ AttemptComesDue \/ RowGetsStale \/ KeepaliveComesDue
  <2>1. /\ UNCHANGED <<open, pc>>
        /\ row'.active = row.active /\ "active" \in DOMAIN row'
    BY <1>3 DEF Tracked, SuccessAges, AttemptComesDue, RowGetsStale, KeepaliveComesDue
  <2> QED BY <2>1 DEF Tracked
<1>4. CASE ApiCrash
  BY <1>4, CallersAreNoTasks DEF ApiCrash, Tracked, renewal
<1>5. CASE UNCHANGED renewalVars
  BY <1>5 DEF renewalVars, Tracked
<1> QED BY <1>1, <1>2, <1>3, <1>4, <1>5 DEF RenewalNext, CallerStep

\* A behaviour keeps its scenario.
LEMMA OpsStay == [RenewalNext]_renewalVars => UNCHANGED ops
<1> SUFFICES ASSUME [RenewalNext]_renewalVars PROVE UNCHANGED ops
  OBVIOUS
<1> USE DEF env
<1>1. CASE RenewalStep
  BY <1>1 DEF RenewalStep, Begin, ReadAccount, RenewalFails, Persist, ApplyRenewed, FinishRenewal
<1>2. CASE ScanStep
  BY <1>2 DEF ScanStep, ScanReads, ScanReschedules, ScanTriggers, ScanKeepalive
<1>3. CASE KeepaliveStep
  BY <1>3 DEF KeepaliveStep, KeepaliveFails, KeepaliveWakes, KeepalivePersists, KeepaliveApplies
<1>4. CASE SessionRefreshes \/ SessionReports \/ ConflictApplies
  BY <1>4 DEF SessionRefreshes, SessionReports, ConflictApplies
<1>5. ASSUME NEW p \in Clients, CallerStep(p) PROVE UNCHANGED ops
  BY <1>5 DEF CallerStep, LoginReads, LoginPersists, MarkLoginSuccess, RereadAccount,
              RequestRestart, StartSessionFor, UpdateCookie, ReplaceOrStart, MergeReads,
              MergePersists, ReloadReads, ReloadApplies
<1>6. CASE \/ RequestRenewal \/ ReportAuthFailure \/ ApiCrash \/ SuccessAges
           \/ AttemptComesDue \/ RowGetsStale \/ KeepaliveComesDue \/ UNCHANGED renewalVars
  BY <1>6 DEF RequestRenewal, ReportAuthFailure, ApiCrash, SuccessAges, AttemptComesDue,
              RowGetsStale, KeepaliveComesDue, renewalVars
<1> QED BY <1>1, <1>2, <1>3, <1>4, <1>5, <1>6 DEF RenewalNext, CallerStep

\* Unless somebody logs in by QR code, the history never shows an attempt as
\* running that the renewal row does not refer to: beginning an attempt closes
\* the one it replaces, and every way to end one closes it, also after a crash.
THEOREM AttemptsAreTracked == RenewalSpec => []AttemptsTracked
<1> DEFINE Inv == "login" \notin ops => Tracked
<1>1. RenewalInit => Inv
  BY CallersAreNoTasks DEF RenewalInit, Tracked, Row
<1>2. Inv => AttemptsTracked
  BY DEF Tracked, AttemptsTracked
<1>3. Inv /\ [RenewalNext]_renewalVars => Inv'
  BY StaysTracked, OpsStay
<1> QED BY <1>1, <1>2, <1>3, PTL DEF RenewalSpec
-----------------------------------------------------------------------------
(* What the row and the renewal task conclude from failed checks.          *)

\* The inductive invariant of LoginNeedsTwoChecks: a suspicion, in the row or
\* remembered by the task, and a renewal that is to confirm one, each stand for
\* a check that has failed.
Evidenced ==
    /\ evidence \in 0..2
    /\ "err" \in DOMAIN row /\ "trigger" \in DOMAIN row
    /\ NeedsLogin => evidence = 2
    /\ row.err = "suspected" \/ prev = "suspected" => evidence >= 1
    /\ row.trigger = "auth_recovery" \/ trig = "auth_recovery" => evidence >= 1

\* All that steps other than a failed renewal do to these variables.
Bookkeeping ==
    /\ evidence' \in {evidence, Seen(1)}
    /\ "err" \in DOMAIN row' /\ "trigger" \in DOMAIN row'
    /\ row'.err \in {row.err, "none", "other"}
    /\ row'.trigger \in {row.trigger, trig, "none"}
    /\ prev' \in {prev, row.err, "none"}
    /\ \/ trig' \in {trig, row.trigger, "none", "manual", "scheduled"}
       \/ trig' = "auth_recovery" /\ evidence' = Seen(1)

LEMMA BookkeepingIsEvidenced == ASSUME Evidenced, Bookkeeping PROVE Evidenced'
<1>1. evidence' \in 0..2 /\ evidence' >= evidence
  BY DEF Evidenced, Bookkeeping, Seen
<1>2. trig' = "auth_recovery" => evidence' >= 1
  BY <1>1 DEF Evidenced, Bookkeeping, Seen
<1>3. row'.err = "expired" => evidence' = 2
  BY <1>1 DEF Evidenced, Bookkeeping, NeedsLogin
<1>4. row'.err = "suspected" \/ prev' = "suspected" => evidence' >= 1
  BY <1>1 DEF Evidenced, Bookkeeping
<1>5. row'.trigger = "auth_recovery" => evidence' >= 1
  BY <1>1 DEF Evidenced, Bookkeeping
<1> QED BY <1>1, <1>2, <1>3, <1>4, <1>5 DEF Evidenced, Bookkeeping, NeedsLogin

\* A renewal is final only when a check failed before it.
LEMMA FailureIsEvidenced == ASSUME Evidenced, RenewalFails PROVE Evidenced'
<1>1. PICK candidate \in BOOLEAN :
        /\ \E next : row' = Row("failed", row.trigger, NoAttempt, ErrorKind(candidate), next)
        /\ evidence' = Seen(IF candidate THEN 1 ELSE 0)
  BY DEF RenewalFails
<1>2. /\ "err" \in DOMAIN row' /\ "trigger" \in DOMAIN row'
      /\ row'.err = ErrorKind(candidate) /\ row'.trigger = row.trigger
  BY <1>1 DEF Row
<1>3. trig' = "none" /\ prev' = "none"
  BY DEF RenewalFails, DiscardTask
<1>4. evidence' \in 0..2 /\ evidence' >= evidence
  BY <1>1 DEF Evidenced, Seen
<1>5. row'.err = "expired" => evidence' = 2
  BY <1>1, <1>2 DEF Evidenced, ErrorKind, Seen
<1>6. row'.err = "suspected" => evidence' >= 1
  BY <1>1, <1>2 DEF Evidenced, ErrorKind, Seen
<1> QED BY <1>2, <1>3, <1>4, <1>5, <1>6 DEF Evidenced, NeedsLogin

LEMMA ConfirmKeepsBooks ==
    ASSUME NEW pc1, Confirm(pc1)
    PROVE  /\ evidence' = Seen(1)
           /\ trig' \in {trig, "auth_recovery"} /\ prev' \in {prev, row.err}
BY DEF Confirm, Trigger

LEMMA RenewalKeepsBooks ==
    ASSUME Evidenced, RenewalStep, ~RenewalFails PROVE Bookkeeping
<1> USE DEF Evidenced, Bookkeeping
<1>1. CASE Begin
  <2>1. PICK a : row' = Row("running", trig, a, "none", "none")
    BY <1>1 DEF Begin
  <2> QED BY <1>1, <2>1 DEF Begin, Row, checks
<1>2. CASE ReadAccount
  BY <1>2 DEF ReadAccount, renewal, checks
<1>3. CASE Persist
  <2>1. /\ \E state, active, err, next :
             row' = Row(state, row.trigger, active, err, next) /\ err \in {"none", "other"}
        /\ trig' \in {trig, "none"} /\ prev' \in {prev, "none"} /\ UNCHANGED evidence
    BY <1>3 DEF Persist, DiscardTask, checks
  <2> QED BY <2>1 DEF Row
<1>4. CASE ApplyRenewed
  BY <1>4 DEF ApplyRenewed, renewal, checks
<1>5. CASE FinishRenewal
  BY <1>5 DEF FinishRenewal, DiscardTask, Row, checks
<1> QED BY <1>1, <1>2, <1>3, <1>4, <1>5 DEF RenewalStep

LEMMA ScanKeepsBooks == ASSUME Evidenced, ScanStep PROVE Bookkeeping
<1> USE DEF Evidenced, Bookkeeping
<1>1. CASE ScanReads
  BY <1>1 DEF ScanReads, renewal, checks
<1>2. CASE ScanReschedules
  <2>1. /\ \E next : row' = [row EXCEPT !.next = next, !.stale = FALSE]
        /\ UNCHANGED <<trig, prev, evidence>>
    BY <1>2 DEF ScanReschedules, checks
  <2> QED BY <2>1
<1>3. CASE ScanTriggers
  BY <1>3 DEF ScanTriggers, Trigger, renewal, checks
<1>4. CASE ScanKeepalive
  BY <1>4 DEF ScanKeepalive, checks
<1> QED BY <1>1, <1>2, <1>3, <1>4 DEF ScanStep

LEMMA KeepaliveKeepsBooks == ASSUME Evidenced, KeepaliveStep PROVE Bookkeeping
<1> USE DEF Evidenced, Bookkeeping
<1>1. CASE KeepaliveFails
  <2>1. UNCHANGED row
    BY <1>1 DEF KeepaliveFails, renewal
  <2>2. \/ UNCHANGED <<trig, prev>> /\ evidence' \in {evidence, Seen(1)}
        \/ Confirm([pc EXCEPT !["keep"] = "idle"])
    BY <1>1 DEF KeepaliveFails
  <2> QED BY <2>1, <2>2, ConfirmKeepsBooks
<1>2. CASE KeepaliveWakes
  BY <1>2 DEF KeepaliveWakes, renewal, checks
<1>3. CASE KeepalivePersists
  <2>1. UNCHANGED <<trig, prev, evidence>>
    BY <1>3 DEF KeepalivePersists, checks
  <2>2. /\ DOMAIN row' = DOMAIN row
        /\ row'.trigger = row.trigger /\ row'.err \in {row.err, "none"}
    BY <1>3 DEF KeepalivePersists
  <2> QED BY <2>1, <2>2
<1>4. CASE KeepaliveApplies
  BY <1>4 DEF KeepaliveApplies, renewal, checks
<1> QED BY <1>1, <1>2, <1>3, <1>4 DEF KeepaliveStep

LEMMA CallerKeepsBooks ==
    ASSUME Evidenced, NEW p \in Clients, CallerStep(p)
    PROVE  Bookkeeping
<1>1. UNCHANGED <<trig, prev, evidence>>
  BY DEF CallerStep, LoginReads, LoginPersists, MarkLoginSuccess, RereadAccount,
         RequestRestart, StartSessionFor, UpdateCookie, ReplaceOrStart, MergeReads,
         MergePersists, ReloadReads, ReloadApplies, checks
<1>2. \/ UNCHANGED row
      \/ \E active, next : row' = Row("idle", "none", active, "none", next)
  BY DEF CallerStep, LoginReads, LoginPersists, MarkLoginSuccess, RereadAccount,
         RequestRestart, StartSessionFor, UpdateCookie, ReplaceOrStart, MergeReads,
         MergePersists, ReloadReads, ReloadApplies, renewal
<1> QED BY <1>1, <1>2 DEF Evidenced, Bookkeeping, Row

LEMMA StaysEvidenced == Evidenced /\ [RenewalNext]_renewalVars => Evidenced'
<1> SUFFICES ASSUME Evidenced, [RenewalNext]_renewalVars PROVE Evidenced'
  OBVIOUS
<1>1. CASE RenewalFails
  BY <1>1, FailureIsEvidenced
<1>2. CASE RenewalStep /\ ~RenewalFails
  BY <1>2, RenewalKeepsBooks, BookkeepingIsEvidenced
<1>3. CASE ScanStep \/ KeepaliveStep
  BY <1>3, ScanKeepsBooks, KeepaliveKeepsBooks, BookkeepingIsEvidenced
<1>4. CASE SessionRefreshes \/ SessionReports \/ ConflictApplies \/ ApiCrash
           \/ SuccessAges \/ KeepaliveComesDue \/ UNCHANGED renewalVars
  <2>1. /\ UNCHANGED <<row, evidence>>
        /\ trig' \in {trig, "none"} /\ prev' \in {prev, "none"}
    BY <1>4 DEF SessionRefreshes, SessionReports, ConflictApplies, ApiCrash, SuccessAges,
                KeepaliveComesDue, renewalVars, renewal, checks
  <2> QED BY <2>1, BookkeepingIsEvidenced DEF Evidenced, Bookkeeping
<1>5. CASE \E p \in Clients : CallerStep(p)
  BY <1>5, CallerKeepsBooks, BookkeepingIsEvidenced
<1>6. CASE RequestRenewal
  <2>1. /\ UNCHANGED <<row, evidence>>
        /\ trig' = "manual" /\ prev' = row.err
    BY <1>6 DEF RequestRenewal, Trigger, renewal, checks
  <2> QED BY <2>1, BookkeepingIsEvidenced DEF Evidenced, Bookkeeping
<1>7. CASE ReportAuthFailure
  <2>1. UNCHANGED row /\ Confirm(pc)
    BY <1>7 DEF ReportAuthFailure, renewal
  <2> QED BY <2>1, ConfirmKeepsBooks, BookkeepingIsEvidenced DEF Evidenced, Bookkeeping
<1>8. CASE AttemptComesDue \/ RowGetsStale
  <2>1. /\ UNCHANGED <<trig, prev, evidence>>
        /\ DOMAIN row' = DOMAIN row
        /\ row'.err = row.err /\ row'.trigger = row.trigger
    BY <1>8 DEF Evidenced, AttemptComesDue, RowGetsStale, checks
  <2> QED BY <2>1, BookkeepingIsEvidenced DEF Evidenced, Bookkeeping
<1> QED BY <1>1, <1>2, <1>3, <1>4, <1>5, <1>6, <1>7, <1>8 DEF RenewalNext, CallerStep

\* An operator is asked to log in only after two checks of the cookie have
\* failed: the renewal that says so either confirms a check that failed in a
\* keepalive or a platform call, or follows a renewal that failed.
THEOREM LoginsAreNeeded == RenewalSpec => []LoginNeedsTwoChecks
<1>1. RenewalInit => Evidenced
  BY DEF RenewalInit, Evidenced, NeedsLogin, Row
<1>2. Evidenced => LoginNeedsTwoChecks
  BY DEF Evidenced, LoginNeedsTwoChecks
<1> QED BY <1>1, <1>2, StaysEvidenced, PTL DEF RenewalSpec

-----------------------------------------------------------------------------
(* The account runtime.                                                    *)

Requests == [pc : {"idle", "lock", "shown"} \cup Locked,
             op : AllOps \cup {"none", "recover"},
             terminal : BOOLEAN, fresh : BOOLEAN]

Sessions == [pc : {"none", "new", "connecting", "up", "dropping", "ending", "dead"},
             online : BOOLEAN, current : BOOLEAN, stopping : BOOLEAN]

Typed ==
    /\ enabled \in BOOLEAN /\ desired \in BOOLEAN /\ fenced \in BOOLEAN
    /\ req \in [Callers -> Requests]
    /\ sess \in Sessions

(* The lock of the account admits one request.                             *)
Mutex ==
    \A p, q \in Callers : req[p].pc \in Locked /\ req[q].pc \in Locked => p = q

(* The holder of the lock is the only one to take a generation, so the one *)
(* it captured is still current when it hands it to the new session, but   *)
(* for prepare_delete, which does not wait for the lock.                   *)
Captured == \A p \in Callers : req[p].pc = "restop" => req[p].fresh \/ fenced

RunningIsCurrent == Running /\ ~fenced => sess.current

Fenced == Typed /\ Mutex /\ Captured /\ RunningIsCurrent

USE OpsAssumption, CallersAssumption DEF AllOps, Locked

LEMMA FencedInit == Init => Fenced
  <1> SUFFICES ASSUME Init PROVE Fenced
    OBVIOUS
  <1>1. IdleReq \in Requests /\ IdleReq.pc = "idle"
    BY DEF IdleReq, Req, Requests
  <1>2. NoSession \in Sessions /\ NoSession.pc = "none"
    BY DEF NoSession, Sess, Sessions
  <1>3. \A p \in Callers : req[p] = IdleReq
    BY DEF Init
  <1>4. Typed
    BY <1>1, <1>2 DEF Init, Typed
  <1>5. Mutex /\ Captured
    BY <1>1, <1>3 DEF Mutex, Captured
  <1>6. RunningIsCurrent
    BY <1>2 DEF Init, RunningIsCurrent, Running
  <1> QED BY <1>4, <1>5, <1>6 DEF Fenced

\* A step of one request that does not touch the session: it gets the lock
\* only when it is free, and does not invent a generation.
LEMMA RequestStep ==
    ASSUME Fenced, NEW p \in Callers, NEW r \in Requests,
           req' = [req EXCEPT ![p] = r],
           r.pc \in Locked => req[p].pc \in Locked \/ LockFree,
           r.pc # "restop",
           UNCHANGED <<sess, fenced>>, enabled' \in BOOLEAN, desired' \in BOOLEAN
    PROVE  Fenced'
  <1>1. Typed'
    BY DEF Fenced, Typed
  <1>2. Mutex'
    BY DEF Fenced, Typed, Mutex, LockFree
  <1>3. Captured' /\ RunningIsCurrent'
    BY DEF Fenced, Typed, Captured, RunningIsCurrent, Running
  <1> QED BY <1>1, <1>2, <1>3 DEF Fenced

\* A step of the session task keeps its generation.
LEMMA SessionStepKeeps ==
    ASSUME Fenced, NEW s \in Sessions, sess' = s, s.current = sess.current,
           s.stopping = sess.stopping, sess.pc \notin {"none", "dead"},
           UNCHANGED <<enabled, req, fenced>>, desired' \in BOOLEAN
    PROVE  Fenced'
  <1>1. Typed'
    BY DEF Fenced, Typed
  <1>2. Mutex' /\ Captured'
    BY DEF Fenced, Mutex, Captured
  <1>3. RunningIsCurrent'
    BY DEF Fenced, RunningIsCurrent, Running
  <1> QED BY <1>1, <1>2, <1>3 DEF Fenced

\* A bump of the generation by the holder of the lock: it stops the session
\* first, and no other request holds a generation it could outdate.
LEMMA BumpKeeps ==
    ASSUME Fenced, NEW p \in Callers, NEW r \in Requests,
           req[p].pc \in Locked \/ LockFree,
           r.pc = "restop" => r.fresh,
           req' = [q \in Callers |-> IF q = p THEN r ELSE Outdated(req[q])],
           sess' = Popped(sess), UNCHANGED enabled, desired' \in BOOLEAN, fenced' \in BOOLEAN
    PROVE  Fenced'
  <1>0. /\ sess \in Sessions
        /\ \A q \in Callers : req[q] \in Requests
    BY DEF Fenced, Typed
  <1>1. \A q \in Callers : Outdated(req[q]) \in Requests /\ Outdated(req[q]).pc = req[q].pc
    BY <1>0 DEF Outdated, Req, Requests
  <1>2. sess' \in Sessions /\ ~Running'
    BY <1>0 DEF Popped, Sess, Sessions, Running
  <1>3. Typed'
    BY <1>1, <1>2 DEF Fenced, Typed
  <1>4. \A q \in Callers : q # p => req[q].pc \notin Locked
    BY DEF Fenced, Mutex, LockFree
  <1>5. Mutex' /\ Captured'
    BY <1>1, <1>4 DEF Mutex, Captured
  <1> QED BY <1>2, <1>3, <1>5 DEF Fenced, RunningIsCurrent

\* Every step keeps the fence.
LEMMA FencedStep ==
    ASSUME Fenced, [Next]_vars
    PROVE  Fenced'
  <1>0. /\ enabled \in BOOLEAN /\ desired \in BOOLEAN /\ fenced \in BOOLEAN /\ sess \in Sessions
        /\ \A q \in Callers : req[q] \in Requests
    BY DEF Fenced, Typed
  <1>a. \A p \in Callers : IdleReq \in Requests /\ IdleReq.pc = "idle"
    BY DEF IdleReq, Req, Requests
  <1>b. \A p \in Callers : \A at \in Locked \cup {"shown"} :
           Step(p, at) \in Requests /\ Step(p, at).pc = at
    BY <1>0 DEF Step, Req, Requests
  <1>1. ASSUME NEW p \in Callers, RequestStart(p) PROVE Fenced'
    <2>1. PICK op \in AllOps : req' = [req EXCEPT ![p] = Req("lock", op, rstate \in Terminal, FALSE)]
      BY <1>1 DEF RequestStart, history
    <2>2. UNCHANGED <<sess, fenced>> /\ enabled' \in BOOLEAN /\ desired' \in BOOLEAN
      BY <1>0, <1>1 DEF RequestStart, history
    <2> DEFINE r == Req("lock", op, rstate \in Terminal, FALSE)
    <2>3. r \in Requests /\ r.pc = "lock"
      BY DEF Req, Requests
    <2>4. req' = [req EXCEPT ![p] = r]
      BY <2>1
    <2> HIDE DEF r
    <2> QED BY <2>2, <2>3, <2>4, RequestStep
  <1>2. ASSUME NEW p \in Callers, RequestEnable(p) PROVE Fenced'
    <2> DEFINE r == Req("lock", "enable", FALSE, FALSE)
    <2>1. req' = [req EXCEPT ![p] = r] /\ UNCHANGED <<sess, fenced>>
          /\ enabled' \in BOOLEAN /\ desired' \in BOOLEAN
      BY <1>0, <1>2 DEF RequestEnable, history
    <2>2. r \in Requests /\ r.pc = "lock"
      BY DEF Req, Requests
    <2> HIDE DEF r
    <2> QED BY <2>1, <2>2, RequestStep
  <1>3. ASSUME NEW p \in Callers, RequestStop(p) PROVE Fenced'
    <2>1. PICK op \in AllOps : req' = [req EXCEPT ![p] = Req("lock", op, FALSE, FALSE)]
      BY <1>3 DEF RequestStop, history
    <2>2. UNCHANGED <<sess, fenced>> /\ enabled' \in BOOLEAN /\ desired' \in BOOLEAN
      BY <1>0, <1>3 DEF RequestStop, history
    <2> DEFINE r == Req("lock", op, FALSE, FALSE)
    <2>3. r \in Requests /\ r.pc = "lock"
      BY DEF Req, Requests
    <2>4. req' = [req EXCEPT ![p] = r]
      BY <2>1
    <2> HIDE DEF r
    <2> QED BY <2>2, <2>3, <2>4, RequestStep
  <1>4. CASE WatchdogScan
    <2> DEFINE r == Req("lock", "recover", FALSE, FALSE)
    <2>1. req' = [req EXCEPT ![Watchdog] = r] /\ UNCHANGED <<sess, fenced>>
          /\ enabled' \in BOOLEAN /\ desired' \in BOOLEAN
      BY <1>0, <1>4 DEF WatchdogScan, history
    <2>2. r \in Requests /\ r.pc = "lock"
      BY DEF Req, Requests
    <2> HIDE DEF r
    <2> QED BY <2>1, <2>2, RequestStep
  <1>5. ASSUME NEW p \in Callers, LockToStart(p) PROVE Fenced'
    <2>1. UNCHANGED <<sess, fenced>> /\ enabled' \in BOOLEAN /\ desired' \in BOOLEAN /\ LockFree
      BY <1>0, <1>5 DEF LockToStart, history
    <2>2. Done(p) \/ Goto(p, "final") \/ Goto(p, "connecting")
      BY <1>5 DEF LockToStart, history
    <2>3. CASE Done(p)
      BY <1>a, <2>1, <2>3, RequestStep DEF Done
    <2>4. CASE Goto(p, "final")
      BY <1>b, <2>1, <2>4, RequestStep DEF Goto
    <2>5. CASE Goto(p, "connecting")
      BY <1>b, <2>1, <2>5, RequestStep DEF Goto
    <2> QED BY <2>2, <2>3, <2>4, <2>5
  <1>6. ASSUME NEW p \in Callers, TakeGeneration(p) PROVE Fenced'
    <2> DEFINE r == Req("restop", req[p].op, FALSE, TRUE)
    <2>1. r \in Requests /\ r.pc = "restop" /\ r.fresh
      BY <1>0 DEF Req, Requests
    <2> QED BY <1>0, <1>6, <2>1, BumpKeeps DEF TakeGeneration
  <1>7. ASSUME NEW p \in Callers, LockToStop(p) PROVE Fenced'
    <2> DEFINE r == Req("stopping", req[p].op, FALSE, FALSE)
    <2>1. r \in Requests /\ r.pc = "stopping"
      BY <1>0 DEF Req, Requests
    <2> QED BY <1>0, <1>7, <2>1, BumpKeeps DEF LockToStop, history
  <1>8. ASSUME NEW p \in Callers, StartSession(p) PROVE Fenced'
    <2>1. (req[p].fresh \/ fenced) /\ req[p].pc \in Locked
      BY <1>8 DEF StartSession, Fenced, Captured
    <2>2. /\ sess' = Sess("new", FALSE, req[p].fresh, FALSE)
          /\ req' = [req EXCEPT ![p] = Step(p, "wait")]
          /\ UNCHANGED <<enabled, desired, fenced>>
      BY <1>8 DEF StartSession, Goto, history
    <2>3. sess' \in Sessions /\ sess'.current = req[p].fresh
      BY <1>0, <2>2 DEF Sess, Sessions, Requests
    <2>4. Typed'
      BY <1>0, <1>b, <2>2, <2>3 DEF Fenced, Typed
    <2>5. Mutex' /\ Captured'
      BY <1>b, <2>1, <2>2 DEF Fenced, Typed, Mutex, Captured
    <2>6. RunningIsCurrent'
      BY <2>1, <2>2, <2>3 DEF RunningIsCurrent
    <2> QED BY <2>4, <2>5, <2>6 DEF Fenced
  <1>9. ASSUME NEW p \in Callers, StartFails(p) \/ SessionStopped(p) PROVE Fenced'
    <2>1. /\ sess' = NoSession /\ req' = [req EXCEPT ![p] = Step(p, "final")]
          /\ req[p].pc \in Locked /\ UNCHANGED <<enabled, desired, fenced>>
      BY <1>9 DEF StartFails, SessionStopped, Goto, history
    <2>2. sess' \in Sessions /\ ~Running'
      BY <2>1 DEF NoSession, Sess, Sessions, Running
    <2>3. Typed'
      BY <1>0, <1>b, <2>1, <2>2 DEF Fenced, Typed
    <2>4. Mutex' /\ Captured'
      BY <1>b, <2>1 DEF Fenced, Typed, Mutex, Captured
    <2> QED BY <2>2, <2>3, <2>4 DEF Fenced, RunningIsCurrent
  <1>10. ASSUME NEW p \in Callers, WaitEnds(p) PROVE Fenced'
    <2>1. UNCHANGED <<sess, fenced>> /\ enabled' \in BOOLEAN /\ desired' \in BOOLEAN /\ req[p].pc \in Locked
      BY <1>0, <1>10 DEF WaitEnds, history
    <2> DEFINE r == Req("decide", req[p].op, rstate \in Terminal, req[p].fresh)
    <2>2. r \in Requests /\ r.pc = "decide"
      BY <1>0 DEF Req, Requests
    <2>3. Done(p) \/ req' = [req EXCEPT ![p] = r]
      BY <1>10 DEF WaitEnds, history
    <2>4. CASE Done(p)
      BY <1>a, <2>1, <2>4, RequestStep DEF Done
    <2>5. CASE req' = [req EXCEPT ![p] = r]
      BY <2>1, <2>2, <2>5, RequestStep
    <2> QED BY <2>3, <2>4, <2>5
  <1>11. ASSUME NEW p \in Callers, DecideState(p) \/ Finish(p) \/ Shown(p) PROVE Fenced'
    <2>1. /\ UNCHANGED <<sess, fenced>> /\ enabled' \in BOOLEAN /\ desired' \in BOOLEAN
          /\ req[p].pc \in Locked \cup {"shown"}
      BY <1>0, <1>11 DEF DecideState, Finish, Shown, history
    <2>2. Done(p) \/ Goto(p, "shown") \/ (Goto(p, "final") /\ req[p].pc \in Locked)
      BY <1>11 DEF DecideState, Finish, Shown
    <2>3. CASE Done(p)
      BY <1>a, <2>1, <2>3, RequestStep DEF Done
    <2>4. CASE Goto(p, "shown")
      BY <1>b, <2>1, <2>4, RequestStep DEF Goto
    <2>5. CASE Goto(p, "final") /\ req[p].pc \in Locked
      BY <1>b, <2>1, <2>5, RequestStep DEF Goto
    <2> QED BY <2>2, <2>3, <2>4, <2>5
  <1>12. ASSUME NEW p \in Callers, RequestDelete(p) PROVE Fenced'
    <2> DEFINE r == Req("lock", "delete", FALSE, FALSE)
    <2>1. /\ req' = [q \in Callers |-> IF q = p THEN r ELSE Outdated(req[q])]
          /\ sess' = Muted(sess) /\ desired' = FALSE /\ fenced' = TRUE /\ enabled' = enabled
          /\ req[p].pc = "idle"
      BY <1>12 DEF RequestDelete
    <2>2. r \in Requests /\ r.pc = "lock"
      BY DEF Req, Requests
    <2>3. \A q \in Callers : Outdated(req[q]) \in Requests /\ Outdated(req[q]).pc = req[q].pc
      BY <1>0 DEF Outdated, Req, Requests
    <2>4. Muted(sess) \in Sessions
      BY <1>0 DEF Muted, Sess, Sessions
    <2> HIDE DEF r
    <2>5. Typed'
      BY <1>0, <2>1, <2>2, <2>3, <2>4 DEF Typed
    <2>6. \A q \in Callers : req'[q].pc \in Locked => req[q].pc \in Locked
      BY <2>1, <2>2, <2>3
    <2>7. Mutex'
      BY <2>6 DEF Fenced, Mutex
    <2> QED BY <2>1, <2>5, <2>7 DEF Fenced, Captured, RunningIsCurrent
  <1>13. ASSUME NEW p \in Callers, DeleteTimesOut(p) PROVE Fenced'
    <2>1. /\ req[p].op = "delete" /\ req[p].pc \in {"lock", "stopping"}
          /\ req' = [req EXCEPT ![p] = Step(p, "shown")]
          /\ sess' = sess \/ sess' = NoSession
          /\ UNCHANGED <<enabled, desired, fenced>>
      BY <1>13 DEF DeleteTimesOut, Goto, history
    <2>2. CASE sess' = sess
      <3> DEFINE r == Step(p, "shown")
      <3>1. r \in Requests /\ r.pc = "shown"
        BY <1>b
      <3>2. /\ req' = [req EXCEPT ![p] = r] /\ fenced' = fenced
            /\ enabled' \in BOOLEAN /\ desired' \in BOOLEAN
        BY <1>0, <2>1
      <3> HIDE DEF r
      <3> QED BY <2>2, <3>1, <3>2, RequestStep
    <2>3. CASE sess' = NoSession
      <3>1. sess' \in Sessions /\ ~Running'
        BY <2>3 DEF NoSession, Sess, Sessions, Running
      <3>2. Typed'
        BY <1>0, <1>b, <2>1, <3>1 DEF Fenced, Typed
      <3>3. Mutex' /\ Captured'
        BY <1>b, <2>1 DEF Fenced, Typed, Mutex, Captured
      <3> QED BY <3>1, <3>2, <3>3 DEF Fenced, RunningIsCurrent
    <2> QED BY <2>1, <2>2, <2>3
  <1>14. ASSUME NEW froms \in SUBSET {"new", "connecting", "up", "dropping"},
                NEW to \in {"connecting", "up", "dropping", "ending"},
                NEW online \in BOOLEAN, NEW state, SessionStep(froms, to, online, state)
         PROVE  Fenced'
    <2>1. /\ sess' = Sess(to, online, sess.current, FALSE) /\ sess.stopping = FALSE
          /\ sess.pc \notin {"none", "dead"} /\ UNCHANGED <<enabled, req, fenced>>
          /\ desired' \in BOOLEAN
      BY <1>0, <1>14 DEF SessionStep, Alive, Report, Sessions, history
    <2>2. /\ Sess(to, online, sess.current, FALSE) \in Sessions
          /\ Sess(to, online, sess.current, FALSE).current = sess.current
          /\ Sess(to, online, sess.current, FALSE).stopping = FALSE
      BY <1>0 DEF Sess, Sessions
    <2> QED BY <2>1, <2>2, SessionStepKeeps
  <1>15. CASE SessionConnects \/ SessionOnline \/ SessionDrops \/ SessionRetries \/ SessionRefused
    <2>1. sess.online \in BOOLEAN
      BY <1>0 DEF Sessions
    <2> QED BY <1>14, <1>15, <2>1 DEF SessionConnects, SessionOnline, SessionDrops,
                                      SessionRetries, SessionRefused
  <1>16. CASE SessionEnds \/ ReportFails
    <2>1. CASE UNCHANGED sess
      <3>1. UNCHANGED <<enabled, desired, req, fenced>>
        BY <1>16 DEF SessionEnds, ReportFails, history
      <3> QED BY <2>1, <3>1 DEF Fenced, Typed, Mutex, Captured, RunningIsCurrent, Running
    <2>2. CASE sess' # sess
      <3>1. /\ UNCHANGED <<enabled, desired, req, fenced>> /\ sess.stopping = FALSE
            /\ \/ sess' = Sess("dead", FALSE, sess.current, FALSE)
               \/ /\ sess' = Sess("dropping", sess.online, sess.current, FALSE)
                  /\ sess.pc \in {"connecting", "up"}
        BY <1>0, <1>16 DEF SessionEnds, ReportFails, Alive, Sessions, history
      <3>2. Typed'
        <4>a. sess.online \in BOOLEAN /\ sess.current \in BOOLEAN
          BY <1>0 DEF Sessions
        <4>b. /\ Sess("dead", FALSE, sess.current, FALSE) \in Sessions
              /\ Sess("dropping", sess.online, sess.current, FALSE) \in Sessions
          BY <4>a DEF Sess, Sessions
        <4>1. sess' \in Sessions
          BY <3>1, <4>b
        <4> QED BY <3>1, <4>1 DEF Fenced, Typed
      <3>3. Mutex' /\ Captured'
        BY <3>1 DEF Fenced, Mutex, Captured
      <3>4. RunningIsCurrent'
        BY <1>0, <3>1 DEF Fenced, RunningIsCurrent, Running, Sess, Sessions
      <3> QED BY <3>2, <3>3, <3>4 DEF Fenced
    <2> QED BY <2>1, <2>2
  <1>17. CASE WriteDone \/ UNCHANGED vars
    <2>1. UNCHANGED <<enabled, desired, req, sess, fenced>>
      BY <1>17 DEF WriteDone, vars, history
    <2> QED BY <2>1 DEF Fenced, Typed, Mutex, Captured, RunningIsCurrent, Running
  <1> QED BY <1>1, <1>2, <1>3, <1>4, <1>5, <1>6, <1>7, <1>8, <1>9, <1>10, <1>11,
             <1>12, <1>13, <1>15, <1>16, <1>17 DEF Next, Proceed

\* A live session that no deletion has fenced always has the current
\* generation, so that _handle_message, _handle_state and the cookie callbacks
\* of a running connection are never ignored.
THEOREM LiveSessionsAreHeard == Spec => []NeverMuted
  <1>1. Fenced => NeverMuted
    BY DEF Fenced, RunningIsCurrent, NeverMuted
  <1>2. Fenced /\ [Next]_vars => Fenced'
    BY FencedStep
  <1> QED BY <1>1, <1>2, FencedInit, PTL DEF Spec

-----------------------------------------------------------------------------
(* What the row will show once the queue of writes is empty.               *)

Entries == [state : States, who : Callers \cup {"session", "late"}]
LastWord == IF writes = <<>> THEN rstate ELSE writes[Len(writes)].state

\* What may be shown of a connected session, as in OnlineShown.
Fine == {"online", "disabled", "deleting", "stopped"}

Undisturbed == \A p \in Callers : req[p].pc # "connecting"

\* The inductive invariant of OnlineShown: a session that is connected, and
\* that no start is about to replace, has had the last word, or the word after
\* it is one of a stop.
Reported == Running /\ ~fenced /\ sess.pc = "up" /\ Undisturbed => LastWord \in Fine

Shows ==
    /\ writes \in Seq(Entries)
    /\ sess.pc = "up" => sess.online
    /\ Reported

LEMMA LastOfAppend ==
    ASSUME writes \in Seq(Entries), NEW e \in Entries, writes' = Append(writes, e)
    PROVE  writes' \in Seq(Entries) /\ LastWord' = e.state
  BY DEF LastWord

LEMMA EntriesMade ==
    \A state \in States : \A who \in Callers \cup {"session", "late"} :
       /\ [state |-> state, who |-> who] \in Entries
       /\ [state |-> state, who |-> who].state = state
  BY DEF Entries

\* Taking the waiting write of a session out leaves a queue.
LEMMA CancelledIsQueue == ASSUME writes \in Seq(Entries) PROVE Cancelled \in Seq(Entries)
  <1>1. CASE Waiting("session") /\ Head(writes).who # "session"
    <2> DEFINE i == CHOOSE i \in 1..Len(writes) : writes[i].who = "session"
    <2>1. i \in 1..Len(writes)
      BY <1>1 DEF Waiting
    <2>2. Cancelled = SubSeq(writes, 1, i - 1) \o SubSeq(writes, i + 1, Len(writes))
      BY <1>1 DEF Cancelled
    <2> HIDE DEF i
    <2>3. /\ SubSeq(writes, 1, i - 1) \in Seq(Entries)
          /\ SubSeq(writes, i + 1, Len(writes)) \in Seq(Entries)
      BY <2>1
    <2> QED BY <2>2, <2>3
  <1>2. CASE ~(Waiting("session") /\ Head(writes).who # "session")
    BY <1>2 DEF Cancelled
  <1> QED BY <1>1, <1>2

\* Who belonged to the session is renamed when its stop is given up.
LEMMA LateIsQueue ==
    ASSUME writes \in Seq(Entries), NEW c
    PROVE  [i \in 1..Len(writes) |-> IF c /\ writes[i].who = "session"
                                     THEN [writes[i] EXCEPT !.who = "late"] ELSE writes[i]]
             \in Seq(Entries)
  <1> DEFINE f(i) == IF c /\ writes[i].who = "session"
                     THEN [writes[i] EXCEPT !.who = "late"] ELSE writes[i]
  <1>1. \A i \in 1..Len(writes) : writes[i] \in Entries
    OBVIOUS
  <1>2. \A i \in 1..Len(writes) : f(i) \in Entries
    BY <1>1 DEF Entries
  <1> HIDE DEF f
  <1>3. [i \in 1..Len(writes) |-> f(i)] \in Seq(Entries)
    BY <1>2
  <1> QED BY <1>3 DEF f

\* A step without the session: what it adds to the queue may be shown.
LEMMA RequestShows ==
    ASSUME Fenced, Shows, NEW p \in Callers, NEW r, req' = [req EXCEPT ![p] = r],
           req[p].pc # "connecting", UNCHANGED <<sess, fenced, rstate>>,
           \/ UNCHANGED writes
           \/ \E e \in Entries : e.state \in Fine /\ writes' = Append(writes, e)
    PROVE  Shows'
  <1>1. Undisturbed' => Undisturbed
    BY DEF Fenced, Typed, Undisturbed
  <1>2. CASE UNCHANGED writes
    BY <1>1, <1>2 DEF Shows, Reported, Running, LastWord
  <1>3. CASE \E e \in Entries : e.state \in Fine /\ writes' = Append(writes, e)
    BY <1>3, LastOfAppend DEF Shows, Reported
  <1> QED BY <1>2, <1>3

\* A step after which there is no connected session to show.
LEMMA NothingToShow ==
    ASSUME writes' \in Seq(Entries), sess'.pc = "up" => sess'.online,
           ~Running' \/ fenced' \/ sess'.pc # "up" \/ ~Undisturbed'
    PROVE  Shows'
  BY DEF Shows, Reported

LEMMA ShowsInit == Init => Shows
  BY DEF Init, Shows, Reported, Running, NoSession, Sess

LEMMA RequestsShow ==
    ASSUME Fenced, Shows, NEW p \in Callers,
           RequestStart(p) \/ RequestEnable(p) \/ RequestStop(p) \/ WaitEnds(p) \/ Shown(p)
    PROVE  Shows'
  <1>1. \E r : req' = [req EXCEPT ![p] = r]
    BY DEF RequestStart, RequestEnable, RequestStop, WaitEnds, Shown, Done
  <1>2. req[p].pc # "connecting" /\ UNCHANGED <<sess, fenced, rstate, writes>>
    BY DEF RequestStart, RequestEnable, RequestStop, WaitEnds, Shown, history
  <1> QED BY <1>1, <1>2, RequestShows

LEMMA LockToStartShows ==
    ASSUME Fenced, Shows, NEW p \in Callers, LockToStart(p) PROVE Shows'
  <1>1. req[p].pc # "connecting" /\ UNCHANGED <<sess, fenced, rstate>>
    BY DEF LockToStart, history
  <1>2. CASE Done(p) /\ UNCHANGED writes
    BY <1>1, <1>2, RequestShows DEF Done
  <1>3. CASE writes' = Write("online", p) /\ Goto(p, "final")
    <2>1. \E e \in Entries : e.state \in Fine /\ writes' = Append(writes, e)
      BY <1>3, EntriesMade DEF Write, Fine, States
    <2> QED BY <1>1, <1>3, <2>1, RequestShows DEF Goto
  <1>4. CASE writes' = Write("connecting", p) /\ Goto(p, "connecting")
    <2>1. [state |-> "connecting", who |-> p] \in Entries
      BY EntriesMade DEF States
    <2>2. writes' \in Seq(Entries)
      BY <1>4, <2>1 DEF Write, Shows
    <2>3. req'[p].pc = "connecting"
      BY <1>4 DEF Goto, Step, Req, Fenced, Typed
    <2>4. sess'.pc = "up" => sess'.online
      BY <1>1 DEF Shows
    <2> QED BY <2>2, <2>3, <2>4, NothingToShow DEF Undisturbed
  <1> QED BY <1>2, <1>3, <1>4 DEF LockToStart

LEMMA DecideShows ==
    ASSUME Fenced, Shows, NEW p \in Callers, DecideState(p) PROVE Shows'
  <1>1. req[p].pc # "connecting" /\ UNCHANGED <<sess, fenced, rstate>>
    BY DEF DecideState, history
  <1>2. CASE Done(p) /\ UNCHANGED writes
    BY <1>1, <1>2, RequestShows DEF Done
  <1>3. CASE writes' = Write("online", p) /\ Goto(p, "final")
    <2>1. \E e \in Entries : e.state \in Fine /\ writes' = Append(writes, e)
      BY <1>3, EntriesMade DEF Write, Fine, States
    <2> QED BY <1>1, <1>3, <2>1, RequestShows DEF Goto
  <1>4. CASE ~Online /\ writes' = Write("reconnecting", p)
    <2>1. [state |-> "reconnecting", who |-> p] \in Entries
      BY EntriesMade DEF States
    <2>2. writes' \in Seq(Entries)
      BY <1>4, <2>1 DEF Write, Shows
    <2>3. sess.pc = "up" => sess.online
      BY DEF Shows
    <2>4. ~Running \/ sess.pc # "up"
      BY <1>4, <2>3 DEF Online, Running
    <2>5. ~Running' \/ sess'.pc # "up"
      BY <1>1, <2>4 DEF Running
    <2> QED BY <1>1, <2>2, <2>3, <2>5, NothingToShow
  <1> QED BY <1>2, <1>3, <1>4 DEF DecideState

LEMMA FinishShows ==
    ASSUME Fenced, Shows, NEW p \in Callers, Finish(p) PROVE Shows'
  <1>1. req[p].pc # "connecting" /\ UNCHANGED <<sess, fenced, rstate>>
    BY DEF Finish
  <1>2. \E r : req' = [req EXCEPT ![p] = r]
    BY DEF Finish, Done, Goto
  <1>3. \/ UNCHANGED writes
        \/ \E state \in {"disabled", "deleting"} : writes' = Write(state, p)
    BY DEF Finish
  <1>4. \/ UNCHANGED writes
        \/ \E e \in Entries : e.state \in Fine /\ writes' = Append(writes, e)
    BY <1>3, EntriesMade DEF Write, Fine, States
  <1> QED BY <1>1, <1>2, <1>4, RequestShows

\* The steps that stop a session or make a new one.
LEMMA ReplacingShows ==
    ASSUME Fenced, Shows, NEW p \in Callers,
           \/ TakeGeneration(p) \/ LockToStop(p) \/ StartSession(p) \/ StartFails(p)
           \/ SessionStopped(p) \/ RequestDelete(p)
    PROVE  Shows'
  <1>0. sess \in Sessions /\ writes \in Seq(Entries)
    BY DEF Fenced, Typed, Shows
  <1>1. CASE TakeGeneration(p) \/ LockToStop(p)
    <2>1. sess' = Popped(sess) /\ writes' = Cancelled
      BY <1>1 DEF TakeGeneration, LockToStop
    <2>2. writes' \in Seq(Entries)
      BY <1>0, <2>1, CancelledIsQueue
    <2>3. ~Running' /\ sess'.pc = sess.pc /\ sess'.online = sess.online
      BY <1>0, <2>1 DEF Running, Popped, Sess, Sessions
    <2> QED BY <2>2, <2>3, NothingToShow DEF Shows
  <1>2. CASE StartSession(p)
    <2>1. sess'.pc = "new" /\ UNCHANGED writes
      BY <1>2 DEF StartSession, Sess
    <2> QED BY <1>0, <2>1, NothingToShow
  <1>3. CASE StartFails(p) \/ SessionStopped(p)
    <2>1. sess'.pc = "none"
      BY <1>3 DEF StartFails, SessionStopped, NoSession, Sess
    <2>2. \E state \in States : writes' = Write(state, p)
      BY <1>3 DEF StartFails, SessionStopped, States
    <2>3. writes' \in Seq(Entries)
      BY <1>0, <2>2, EntriesMade DEF Write
    <2> QED BY <2>1, <2>3, NothingToShow
  <1>4. CASE RequestDelete(p)
    <2>1. fenced' /\ sess' = Muted(sess) /\ UNCHANGED writes
      BY <1>4 DEF RequestDelete
    <2>2. sess'.pc = sess.pc /\ sess'.online = sess.online
      BY <2>1 DEF Muted, Sess
    <2> QED BY <1>0, <2>1, <2>2, NothingToShow DEF Shows
  <1> QED BY <1>1, <1>2, <1>3, <1>4

\* A deletion that gives up waiting: "stopped" is the last word.
LEMMA TimeOutShows ==
    ASSUME Fenced, Shows, NEW p \in Callers, DeleteTimesOut(p) PROVE Shows'
  <1> DEFINE c == req[p].pc = "stopping"
             late == [i \in 1..Len(writes) |-> IF c /\ writes[i].who = "session"
                        THEN [writes[i] EXCEPT !.who = "late"] ELSE writes[i]]
             e == [state |-> "stopped", who |-> p]
  <1>1. writes' = Append(late, e)
    BY DEF DeleteTimesOut
  <1>2. late \in Seq(Entries)
    BY LateIsQueue DEF Shows
  <1>3. e \in Entries /\ e.state \in Fine
    BY EntriesMade DEF Fine, States
  <1>4. sess' = sess \/ sess'.pc = "none"
    BY DEF DeleteTimesOut, NoSession, Sess
  <1> HIDE DEF late, e
  <1>5. writes' \in Seq(Entries) /\ LastWord' = e.state
    BY <1>1, <1>2, <1>3 DEF LastWord
  <1> QED BY <1>3, <1>4, <1>5 DEF Shows, Reported

\* A report of the session, which is heard unless a deletion has fenced it.
LEMMA ReportShows ==
    ASSUME Fenced, Shows,
           NEW froms \in SUBSET {"new", "connecting", "up", "dropping"},
           NEW to \in {"connecting", "up", "dropping", "ending"}, NEW online,
           NEW state \in States, SessionStep(froms, to, online, state),
           to = "up" => online = TRUE /\ state \in Fine
    PROVE  Shows'
  <1> DEFINE e == [state |-> state, who |-> "session"]
  <1>1. /\ sess'.pc = to /\ sess'.online = online
        /\ Running /\ UNCHANGED fenced
        /\ writes' = IF sess.current THEN Append(writes, e) ELSE writes
    BY DEF SessionStep, Sess, Alive, Running, Report, Write, history
  <1>2. e \in Entries /\ e.state = state
    BY EntriesMade
  <1> HIDE DEF e
  <1>3. writes' \in Seq(Entries) /\ (sess.current => LastWord' = state)
    BY <1>1, <1>2, LastOfAppend DEF Shows
  <1>4. ~fenced' => sess.current
    BY <1>1 DEF Fenced, RunningIsCurrent
  <1>5. CASE to = "up"
    BY <1>1, <1>3, <1>4, <1>5 DEF Shows, Reported
  <1>6. CASE to # "up"
    BY <1>1, <1>3, <1>6, NothingToShow
  <1> QED BY <1>5, <1>6

LEMMA SessionShows ==
    ASSUME Fenced, Shows,
           \/ SessionConnects \/ SessionOnline \/ SessionDrops \/ SessionRetries
           \/ SessionRefused \/ SessionEnds
    PROVE  Shows'
  <1> USE DEF States, Terminal, Fine
  <1>1. CASE SessionConnects
    BY <1>1, ReportShows DEF SessionConnects
  <1>2. CASE SessionOnline
    BY <1>2, ReportShows DEF SessionOnline
  <1>3. CASE SessionDrops
    BY <1>3, ReportShows DEF SessionDrops
  <1>4. CASE SessionRetries
    BY <1>4, ReportShows DEF SessionRetries
  <1>5. CASE SessionRefused
    BY <1>5, ReportShows DEF SessionRefused
  <1>6. CASE SessionEnds
    <2>1. sess'.pc = "dead" /\ UNCHANGED writes
      BY <1>6 DEF SessionEnds, Sess
    <2> QED BY <2>1, NothingToShow DEF Shows
  <1> QED BY <1>1, <1>2, <1>3, <1>4, <1>5, <1>6

LEMMA DatabaseShows ==
    ASSUME Fenced, Shows, WriteDone \/ ReportFails PROVE Shows'
  <1>0. writes \in Seq(Entries) /\ writes # <<>>
    BY DEF Shows, WriteDone, ReportFails
  <1>1. Tail(writes) \in Seq(Entries)
    BY <1>0
  <1>2. CASE WriteDone
    <2>1. /\ rstate' = Head(writes).state /\ writes' = Tail(writes)
          /\ UNCHANGED <<sess, req, fenced>>
      BY <1>2 DEF WriteDone, history
    <2>2. CASE Tail(writes) = <<>>
      <3>a. Len(Tail(writes)) = Len(writes) - 1 /\ Len(writes) \in Nat
        BY <1>0
      <3>b. Len(<<>>) = 0
        OBVIOUS
      <3>c. Len(Tail(writes)) = 0
        BY <2>2, <3>b, Zenon
      <3>1. Len(writes) = 1
        BY <3>a, <3>c
      <3> QED BY <1>0, <2>1, <2>2, <3>1 DEF Shows, Reported, Running, Undisturbed, LastWord
    <2>3. CASE Tail(writes) # <<>>
      <3>1. /\ Len(writes) \in Nat /\ Len(writes) > 1 /\ Len(Tail(writes)) = Len(writes) - 1
            /\ Tail(writes)[Len(writes) - 1] = writes[Len(writes)]
        BY <1>0, <2>3
      <3>2. LastWord' = LastWord
        BY <1>0, <2>1, <2>3, <3>1 DEF LastWord
      <3> QED BY <1>1, <2>1, <3>2 DEF Shows, Reported, Running, Undisturbed
    <2> QED BY <2>2, <2>3
  <1>3. CASE ReportFails
    <2>1. sess'.pc \in {"dropping", "dead"}
      BY <1>3 DEF ReportFails, Sess
    <2>2. \/ writes' = Tail(writes)
          \/ writes' = Append(Tail(writes), [state |-> "reconnecting", who |-> "session"])
      BY <1>3 DEF ReportFails
    <2>3. [state |-> "reconnecting", who |-> "session"] \in Entries
      BY EntriesMade DEF States
    <2>4. writes' \in Seq(Entries)
      BY <1>1, <2>2, <2>3
    <2> QED BY <2>1, <2>4, NothingToShow
  <1> QED BY <1>2, <1>3

LEMMA ShowsStep == ASSUME Fenced, Shows, [Next]_vars PROVE Shows'
  <1>1. ASSUME NEW p \in Callers,
               RequestStart(p) \/ RequestEnable(p) \/ RequestStop(p) \/ WaitEnds(p) \/ Shown(p)
        PROVE  Shows'
    BY <1>1, RequestsShow
  <1>2. ASSUME NEW p \in Callers, LockToStart(p) \/ DecideState(p) \/ Finish(p) PROVE Shows'
    BY <1>2, LockToStartShows, DecideShows, FinishShows
  <1>3. ASSUME NEW p \in Callers,
               \/ TakeGeneration(p) \/ LockToStop(p) \/ StartSession(p) \/ StartFails(p)
               \/ SessionStopped(p) \/ RequestDelete(p) \/ DeleteTimesOut(p)
        PROVE  Shows'
    BY <1>3, ReplacingShows, TimeOutShows
  <1>4. CASE WatchdogScan
    <2>1. /\ \E r : req' = [req EXCEPT ![Watchdog] = r]
          /\ req[Watchdog].pc # "connecting" /\ UNCHANGED <<sess, fenced, rstate, writes>>
      BY <1>4 DEF WatchdogScan, history
    <2> QED BY <2>1, RequestShows
  <1>5. CASE SessionConnects \/ SessionOnline \/ SessionDrops \/ SessionRetries
             \/ SessionRefused \/ SessionEnds
    BY <1>5, SessionShows
  <1>6. CASE WriteDone \/ ReportFails
    BY <1>6, DatabaseShows
  <1>7. CASE UNCHANGED vars
    BY <1>7 DEF vars, Shows, Reported, Running, Undisturbed, LastWord
  <1> QED BY <1>1, <1>2, <1>3, <1>4, <1>5, <1>6, <1>7 DEF Next, Proceed

\* Once the writes are done a connected session is shown as online, unless a
\* disable or a deletion wrote after it: no start that timed out and no earlier
\* attempt has the last word over the report of the session.
THEOREM ConnectionsAreShown == Spec => []OnlineShown
  <1>1. Shows => OnlineShown
    BY DEF Shows, Reported, OnlineShown, Settled, Undisturbed, LastWord, Fine
  <1>2. Fenced /\ Shows /\ [Next]_vars => (Fenced /\ Shows)'
    BY FencedStep, ShowsStep
  <1> QED BY <1>1, <1>2, FencedInit, ShowsInit, PTL DEF Spec
=============================================================================
