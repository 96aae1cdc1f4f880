---------------------------- MODULE OrderActions ----------------------------
(***************************************************************************)
(* The actions an operator performs on one order of a seller (shipping,    *)
(* closing, rating the buyer, refusing a refund): OrderActionService and   *)
(* its repository, MtopOrderActions, and the others that write the row of  *)
(* the order meanwhile: refreshes asked for in the UI, the refresh         *)
(* scheduler, the order list sync of the worker and order messages.        *)
(*                                                                         *)
(* The platform answers from the state the order has there at that moment; *)
(* the answer is applied to the row in a later step.                       *)
(***************************************************************************)
EXTENDS Naturals, FiniteSets

CONSTANTS
    Requests,  \* concurrent calls of the operations endpoint
    Keys,      \* idempotency keys
    Scenarios  \* who is at work on what kind of order, and how much may fail

Shipping   == {"confirm_shipping", "offline_shipping", "free_shipping"}
AllActions == Shipping \cup {"close_order", "rate_buyer", "refuse_refund"}
AllWriters == {"ui", "sched", "list", "message"}
AllMoves   == {"pay", "deliver", "receive", "cancel", "claim", "agree"}
Open       == {"pending_payment", "paid_waiting_delivery"}
Trade      == Open \cup {"shipped", "completed", "closed"}
Capability == {"LOGISTICS_SEND", "GROUPON_FREE_SHIPPING", "CLOSE_ORDER", "RATE",
               "DEAL_REFUND", "VIEW_REFUND"}
Procs      == Requests \cup {"ui", "sched", "list"}
Nobody     == "nobody"
NoKey      == "no key"

ASSUME RequestsAssumption == {"ui", "sched", "list", Nobody} \cap Requests = {}
ASSUME KeysAssumption == NoKey \notin Keys
\* calls: the operations asked for; writers: the other writers of the row that
\* are at work; moves: what buyer, seller and platform do outside the program;
\* conversation: the order has a conversation and an item; bargain: the only
\* kind free_shipping is for; unreadable: the platform shows texts that the
\* program does not know; faults, crashes: bounds on lost answers, failed calls
\* and cookie merges, and on restarts of the API process.
ASSUME ScenariosAssumption ==
    Scenarios \subseteq
       [calls : SUBSET (Requests \X AllActions \X Keys), writers : SUBSET AllWriters,
        moves : SUBSET AllMoves, conversation : BOOLEAN, bargain : BOOLEAN,
        unreadable : BOOLEAN, faults : Nat, crashes : Nat]

VARIABLES
    plat,   \* the order on the platform
    row,    \* the order's row
    ops,    \* [Keys -> the operation row with that idempotency key]
    lock,   \* who holds the order's lock of _ORDER_LOCKS
    loc,    \* [Procs -> where it is, the answer it got, the row it read]
    req,    \* [Requests -> the action and the key]
    late,   \* keys whose write is on its way to the platform
    sent,   \* history: how often the write of a key was sent
    took,   \* history: what the platform did with the write of a key
    was,    \* history: [Requests -> the order on the platform since it began]
    faults, crashes,
    scn     \* the scenario

vars == <<plat, row, ops, lock, loc, req, late, sent, took, was, faults, crashes, scn>>

Order(status, refund, rated) == [status |-> status, refund |-> refund, rated |-> rated]

\* methods: a shipping method is offered; refusable: REFUSE_REFUND is among the
\* refund actions; reasons: reasons to refuse are known; head and listed: the
\* row was confirmed by headinfo, by the list of sold orders.
Row(o, head, listed) ==
    [status |-> o.status, refund |-> o.refund, rated |-> o.rated, caps |-> {},
     methods |-> FALSE, refusable |-> FALSE, reasons |-> FALSE,
     head |-> head, listed |-> listed]

NewOrder == Order("pending_payment", "none", FALSE)
NoAnswer == [text |-> "none", is |-> NewOrder]
NoView   == Row(NewOrder, FALSE, FALSE)

Loc(pc, seen, view) == [pc |-> pc, seen |-> seen, view |-> view]
Idle    == Loc("idle", NoAnswer, NoView)
Op(act, status) == [act |-> act, status |-> status]
NoOp    == Op("none", "none")
Call(act, key)  == [act |-> act, key |-> key]
NoCall  == Call("none", NoKey)

Init ==
    /\ scn \in Scenarios
    /\ \E s \in Open : plat = Order(s, "none", FALSE)
    /\ \E head, listed \in BOOLEAN :
          /\ head => scn.conversation
          /\ row = Row(plat, head, listed)
    /\ ops = [k \in Keys |-> NoOp]
    /\ lock = Nobody
    /\ loc = [p \in Procs |-> Idle]
    /\ req = [r \in Requests |-> NoCall]
    /\ late = {}
    /\ sent = [k \in Keys |-> 0]
    /\ took = [k \in Keys |-> "no"]
    /\ was = [r \in Requests |-> {}]
    /\ faults = 0 /\ crashes = 0

-----------------------------------------------------------------------------
(* The platform.                                                           *)

\* The buttons of headinfo.
Caps(o) ==
    (IF o.status = "paid_waiting_delivery" THEN {"LOGISTICS_SEND"} ELSE {})
    \cup (IF o.status = "paid_waiting_delivery" /\ scn.bargain
          THEN {"GROUPON_FREE_SHIPPING"} ELSE {})
    \cup (IF o.status \in Open THEN {"CLOSE_ORDER"} ELSE {})
    \cup (IF o.status = "completed" /\ ~o.rated THEN {"RATE"} ELSE {})
    \cup (IF o.refund = "pending" THEN {"DEAL_REFUND"} ELSE {})
    \cup (IF o.refund # "none" THEN {"VIEW_REFUND"} ELSE {})

TradeGrants(o, act) ==
    CASE act \in Shipping      -> o.status = "paid_waiting_delivery"
      [] act = "close_order"   -> o.status \in Open
      [] act = "rate_buyer"    -> o.status = "completed" /\ ~o.rated
      [] act = "refuse_refund" -> TRUE
RefundGrants(o, act) ==
    CASE act = "close_order"   -> o.refund # "pending"
      [] act = "refuse_refund" -> o.refund = "pending"
      [] OTHER                 -> TRUE
Grants(o, act) == TradeGrants(o, act) /\ RefundGrants(o, act)

AlreadyShipped(o, act) == act \in Shipping /\ o.status \in {"shipped", "completed"}

\* What a write does to the order; _finish_sync does the same to the row.
Effect(o, act) ==
    CASE act \in Shipping      -> [o EXCEPT !.status = "shipped"]
      [] act = "close_order"   -> [o EXCEPT !.status = "closed"]
      [] act = "rate_buyer"    -> [o EXCEPT !.rated = TRUE]
      [] act = "refuse_refund" -> [o EXCEPT !.refund = "rejected"]

Witness(o) ==
    was' = [r \in Requests |-> IF was[r] = {} THEN {} ELSE was[r] \cup {o}]

Move(o, move) ==
    CASE move = "pay"     -> [o EXCEPT !.status = "paid_waiting_delivery"]
      [] move = "deliver" -> [o EXCEPT !.status = "shipped"]
      [] move = "receive" -> [o EXCEPT !.status = "completed"]
      [] move = "cancel"  -> [o EXCEPT !.status = "closed"]
      [] move = "claim"   -> [o EXCEPT !.refund = "pending"]
      [] move = "agree"   -> [o EXCEPT !.status = "closed", !.refund = "refunded"]

CanMove(o, move) ==
    CASE move = "pay"     -> o.status = "pending_payment"
      [] move = "deliver" -> o.status = "paid_waiting_delivery"
      [] move = "receive" -> o.status = "shipped" /\ o.refund # "pending"
      [] move = "cancel"  -> o.status \in Open /\ o.refund # "pending"
      [] move = "claim"   -> /\ o.status \in {"paid_waiting_delivery", "shipped"}
                             /\ o.refund \in {"none", "rejected"}
      [] move = "agree"   -> o.refund = "pending"

PlatformMoves ==
    /\ \E move \in scn.moves : CanMove(plat, move) /\ plat' = Move(plat, move)
    /\ Witness(plat')
    /\ UNCHANGED <<row, ops, lock, loc, req, late, sent, took, faults, crashes, scn>>

-----------------------------------------------------------------------------
Goto(p, pc) == loc' = [loc EXCEPT ![p] = Loc(pc, NoAnswer, loc[p].view)]
Released(p) == IF lock = p THEN Nobody ELSE lock
Cleared(f, p, v) == [r \in Requests |-> IF r = p THEN v ELSE f[r]]

\* The call returns or raises: the lock is released.
End(p) ==
    /\ loc' = [loc EXCEPT ![p] = Idle]
    /\ lock' = Released(p)
    /\ req' = Cleared(req, p, NoCall)
    /\ was' = Cleared(was, p, {})

Fault == faults < scn.faults /\ faults' = faults + 1

\* _refresh_platform_state asks for headinfo if it can; headinfo that fails
\* is fatal unless the row is known only from the list.
HeadRequired == ~row.listed \/ row.head
FirstStage ==
    CASE scn.conversation /\ HeadRequired  -> "head"
      [] scn.conversation /\ ~HeadRequired -> "headOptional"
      [] ~scn.conversation /\ ~HeadRequired -> "detail"
      [] OTHER -> "idle"

\* Mutant: an operation that did not succeed may be tried again with its key.
MutRetryAllowed(k) == ops[k].status \in {"processing", "succeeded"}

\* An operation with this key exists: it is returned and nothing is done.
Existing(k) == ops[k].status # "none"

Submit(r) ==
    /\ loc[r].pc = "idle"
    /\ \E act \in AllActions, k \in Keys :
          <<r, act, k>> \in scn.calls /\ req' = [req EXCEPT ![r] = Call(act, k)]
    /\ Goto(r, "wait")
    /\ UNCHANGED <<plat, row, ops, lock, late, sent, took, was, faults, crashes, scn>>

Begin(r) ==
    /\ loc[r].pc = "wait" /\ lock = Nobody
    /\ IF Existing(req[r].key) \/ FirstStage = "idle"
       THEN End(r)
       ELSE /\ lock' = r
            /\ Goto(r, FirstStage)
            /\ was' = [was EXCEPT ![r] = {plat}]
            /\ UNCHANGED req
    /\ UNCHANGED <<plat, row, ops, late, sent, took, faults, crashes, scn>>

\* sync_order and preview refresh without the lock; refresh_scheduled gives up
\* at once if the lock is taken.
Refresh ==
    /\ "ui" \in scn.writers /\ loc["ui"].pc = "idle" /\ FirstStage # "idle"
    /\ Goto("ui", FirstStage)
    /\ UNCHANGED <<plat, row, ops, lock, req, late, sent, took, was, faults, crashes, scn>>

Active == row.status \in Open \cup {"shipped"} \/ row.refund = "pending"
RefreshScheduled ==
    /\ "sched" \in scn.writers /\ loc["sched"].pc = "idle" /\ FirstStage # "idle"
    /\ Active /\ lock = Nobody
    /\ lock' = "sched"
    /\ Goto("sched", FirstStage)
    /\ UNCHANGED <<plat, row, ops, req, late, sent, took, was, faults, crashes, scn>>

-----------------------------------------------------------------------------
(* _refresh_platform_state: ask, apply, read back, decide what to ask next. *)

Asks  == {"head", "headOptional", "detail", "ship", "refund", "options", "check"}
Reads == {"readDetail", "readShipping", "readRefund", "readOptions"}
Answered(p) == loc[p].seen # NoAnswer

\* What the answer shows as the order's status: the text may not be known to
\* the program, and the detail may show the refund in place of the trade.
Texts(stage) ==
    {plat.status}
    \cup (IF stage \in {"head", "headOptional", "detail"} /\ scn.unreadable
          THEN {"unknown"} ELSE {})
    \cup (IF stage = "detail" /\ plat.refund = "pending" THEN {"refunding"} ELSE {})
    \cup (IF stage = "detail" /\ plat.refund = "refunded" THEN {"refunded"} ELSE {})

Answers(p) ==
    /\ loc[p].pc \in Asks /\ ~Answered(p)
    /\ \E text \in Texts(loc[p].pc) :
          loc' = [loc EXCEPT ![p] = Loc(loc[p].pc, [text |-> text, is |-> plat], loc[p].view)]
    /\ UNCHANGED <<plat, row, ops, lock, req, late, sent, took, was, faults, crashes, scn>>

\* A call fails, or the cookies it returned cannot be merged: the refresh
\* ends, but goes on to the detail if headinfo is optional.
Fails(p) ==
    /\ Fault
    /\ \/ loc[p].pc = "headOptional" /\ Goto(p, "detail") /\ UNCHANGED <<lock, req, was>>
       \/ loc[p].pc \in Asks \ {"headOptional"} /\ End(p)
    /\ UNCHANGED <<plat, row, ops, late, sent, took, crashes, scn>>

\* An older state does not replace shipped, completed or closed.
StaleDowngrade(now, text) == now \in {"shipped", "completed", "closed"} /\ text \in Open

HeadRow(s) ==
    [row EXCEPT
       !.status = IF s.text = "unknown" \/ row.listed \/ StaleDowngrade(row.status, s.text)
                  THEN @ ELSE s.text,
       !.refund = IF s.is.refund = "pending" THEN "pending"
                  ELSE IF s.text # "unknown" /\ s.is.refund = "none" /\ @ = "pending"
                       THEN "none" ELSE @,
       !.caps = Caps(s.is),
       !.head = TRUE]

\* The row is committed before the cookies are merged.
HeadApplies(p) ==
    /\ loc[p].pc \in {"head", "headOptional"} /\ Answered(p)
    /\ row' = HeadRow(loc[p].seen)
    /\ \/ Goto(p, "detail") /\ UNCHANGED <<lock, req, was, faults>>
       \/ Fault /\ loc[p].pc = "head" /\ End(p)
    /\ UNCHANGED <<plat, ops, late, sent, took, crashes, scn>>

DetailRow(text) ==
    IF text = "unknown" \/ StaleDowngrade(row.status, text) THEN row
    ELSE [row EXCEPT !.status = text]

DetailApplies(p) ==
    /\ loc[p].pc = "detail" /\ Answered(p)
    /\ row' = DetailRow(loc[p].seen.text)
    /\ Goto(p, "readDetail")
    /\ UNCHANGED <<plat, ops, lock, req, late, sent, took, was, faults, crashes, scn>>

\* Without LOGISTICS_SEND the methods are cleared and nothing is asked.
ShippingApplies(p) ==
    /\ \/ /\ loc[p].pc = "ship" /\ Answered(p)
          /\ row' = [row EXCEPT !.methods =
                        loc[p].seen.is.status = "paid_waiting_delivery"]
       \/ /\ loc[p].pc = "clear"
          /\ row' = [row EXCEPT !.methods = FALSE]
    /\ Goto(p, "readShipping")
    /\ UNCHANGED <<plat, ops, lock, req, late, sent, took, was, faults, crashes, scn>>

RefundRow(o) ==
    LET refusable == o.refund = "pending" IN
    [row EXCEPT !.refund = IF o.refund = "none" THEN @ ELSE o.refund,
                !.refusable = refusable,
                !.reasons = @ /\ refusable]

RefundApplies(p) ==
    /\ loc[p].pc = "refund" /\ Answered(p)
    /\ row' = RefundRow(loc[p].seen.is)
    /\ Goto(p, "readRefund")
    /\ UNCHANGED <<plat, ops, lock, req, late, sent, took, was, faults, crashes, scn>>

OptionsApply(p) ==
    /\ loc[p].pc = "options" /\ Answered(p)
    /\ row' = [row EXCEPT !.reasons = loc[p].seen.is.refund = "pending"]
    /\ Goto(p, "readOptions")
    /\ UNCHANGED <<plat, ops, lock, req, late, sent, took, was, faults, crashes, scn>>

\* The capabilities the branches use are those read after the detail.
Branch(p) ==
    CASE loc[p].pc = "readDetail" ->
            IF "LOGISTICS_SEND" \in row.caps THEN "ship" ELSE "clear"
      [] loc[p].pc = "readShipping" ->
            IF \/ loc[p].view.caps \cap {"DEAL_REFUND", "VIEW_REFUND"} # {}
               \/ row.refund = "pending"
            THEN "refund" ELSE "refreshed"
      [] loc[p].pc = "readRefund" -> IF row.refusable THEN "options" ELSE "refreshed"
      [] loc[p].pc = "readOptions" -> "refreshed"

Merges(p) ==
    \/ loc[p].pc = "readShipping" /\ "LOGISTICS_SEND" \in loc[p].view.caps
    \/ loc[p].pc = "readRefund" /\ ~row.refusable
    \/ loc[p].pc = "readOptions"

ReadRow(p) ==
    /\ loc[p].pc \in Reads
    /\ \/ /\ loc' = [loc EXCEPT ![p] = Loc(Branch(p), NoAnswer, row)]
          /\ UNCHANGED <<lock, req, was, faults>>
       \/ Fault /\ Merges(p) /\ End(p)
    /\ UNCHANGED <<plat, row, ops, late, sent, took, crashes, scn>>

-----------------------------------------------------------------------------
(* execute: decide, record, write, record the outcome.                     *)

RequiredCapability(act) ==
    CASE act \in {"confirm_shipping", "offline_shipping"} -> {"LOGISTICS_SEND"}
      [] act = "free_shipping" -> {"GROUPON_FREE_SHIPPING"}
      [] act = "close_order"   -> {"CLOSE_ORDER"}
      [] act = "rate_buyer"    -> {"RATE"}
      [] act = "refuse_refund" -> {}

\* Mutant: a refund in progress does not stop the order from being closed.
MutCloseInRefund(o, act) ==
    /\ o.head => RequiredCapability(act) \subseteq o.caps
    /\ CASE act \in Shipping -> o.status = "paid_waiting_delivery" /\ o.methods
         [] act = "close_order" -> o.status \in Open
         [] act = "rate_buyer" -> o.status = "completed" /\ ~o.rated
         [] act = "refuse_refund" -> o.refusable /\ o.refund = "pending"

Available(o, act) ==
    /\ o.head => RequiredCapability(act) \subseteq o.caps
    /\ CASE act \in Shipping ->
              /\ o.refund # "refunded"
              /\ o.status = "paid_waiting_delivery"
              /\ IF act = "free_shipping" THEN scn.bargain ELSE o.methods
         [] act = "close_order" -> o.refund # "pending" /\ o.status \in Open
         [] act = "rate_buyer" -> o.status = "completed" /\ ~o.rated
         [] act = "refuse_refund" -> o.refusable /\ o.refund = "pending" /\ o.reasons

\* A shipment without a tracking number, a refusal without its reason or proof.
Incomplete == {"offline_shipping", "refuse_refund"}

\* The end of a refresh, of the readback of a request that has succeeded, or
\* of the preflight.
Preflight(p) == p \in Requests /\ ~Existing(req[p].key)
Decide(p) ==
    /\ loc[p].pc = "refreshed"
    /\ IF Preflight(p) /\ Available(loc[p].view, req[p].act)
       THEN \/ /\ loc' = [loc EXCEPT ![p] = Loc(IF req[p].act = "refuse_refund" THEN "check"
                                               ELSE "create", NoAnswer, NoView)]
               /\ UNCHANGED <<lock, req, was>>
            \/ req[p].act \in Incomplete /\ End(p)
       ELSE End(p)
    /\ UNCHANGED <<plat, row, ops, late, sent, took, faults, crashes, scn>>

ValidateRefuse(r) ==
    /\ loc[r].pc = "check" /\ Answered(r)
    /\ \/ Goto(r, "create") /\ UNCHANGED <<lock, req, was>>
       \/ End(r)
    /\ UNCHANGED <<plat, row, ops, late, sent, took, faults, crashes, scn>>

Create(r) ==
    /\ loc[r].pc = "create"
    /\ IF Existing(req[r].key) \/ \E k \in Keys : ops[k].status = "processing"
       THEN End(r) /\ UNCHANGED ops
       ELSE /\ ops' = [ops EXCEPT ![req[r].key] = Op(req[r].act, "processing")]
            /\ Goto(r, "write")
            /\ UNCHANGED <<lock, req, was>>
    /\ UNCHANGED <<plat, row, late, sent, took, faults, crashes, scn>>

\* A write answered with an expired token is sent once more: the first one
\* was not taken, so this is one write. Without a token nothing is sent.
Write(r) ==
    /\ loc[r].pc = "write"
    /\ \/ /\ late' = late \cup {req[r].key}
          /\ sent' = [sent EXCEPT ![req[r].key] = @ + 1]
          /\ Goto(r, "sent")
          /\ UNCHANGED faults
       \/ Fault /\ Goto(r, "bad") /\ UNCHANGED <<late, sent>>
    /\ UNCHANGED <<plat, row, ops, lock, req, took, was, crashes, scn>>

\* The answer reaches the request that waits for it, if it still does, or it
\* is lost.
Reply(k, pc) ==
    \/ /\ loc' = [p \in Procs |->
                    IF p \in Requests /\ loc[p].pc = "sent" /\ req[p].key = k
                    THEN Loc(pc, NoAnswer, NoView) ELSE loc[p]]
       /\ UNCHANGED faults
    \/ Fault /\ UNCHANGED loc

PlatformTakes(k) ==
    /\ k \in late /\ Grants(plat, ops[k].act)
    /\ late' = late \ {k}
    /\ plat' = Effect(plat, ops[k].act)
    /\ Witness(plat')
    /\ took' = [took EXCEPT ![k] = "yes"]
    /\ Reply(k, "ok")
    /\ UNCHANGED <<row, ops, lock, req, sent, crashes, scn>>

\* The platform says that the order is shipped already.
PlatformKnows(k) ==
    /\ k \in late /\ AlreadyShipped(plat, ops[k].act)
    /\ late' = late \ {k}
    /\ took' = [took EXCEPT ![k] = "already"]
    /\ Reply(k, "ok")
    /\ UNCHANGED <<plat, row, ops, lock, req, sent, was, crashes, scn>>

\* The platform rejects the action, the login or the risk of the call; or the
\* write never arrives.
PlatformRejects(k) ==
    /\ k \in late
    /\ ~AlreadyShipped(plat, ops[k].act)
    /\ late' = late \ {k}
    /\ \/ ~Grants(plat, ops[k].act) /\ Reply(k, "bad")
       \/ Fault /\ UNCHANGED loc
    /\ UNCHANGED <<plat, row, ops, lock, req, sent, took, was, crashes, scn>>

\* Mutant: a request that times out is taken for a rejected one.
MutTimeoutIsFailure(r) ==
    /\ loc[r].pc = "sent"
    /\ IF req[r].key \in late THEN Fault ELSE UNCHANGED faults
    /\ Goto(r, "bad")
    /\ UNCHANGED <<plat, row, ops, lock, req, late, sent, took, was, crashes, scn>>

TimesOut(r) ==
    /\ loc[r].pc = "sent"
    /\ IF req[r].key \in late THEN Fault ELSE UNCHANGED faults
    /\ Goto(r, "unsure")
    /\ UNCHANGED <<plat, row, ops, lock, req, late, sent, took, was, crashes, scn>>

Finished(k, status) == ops' = [ops EXCEPT ![k] = Op(ops[k].act, status)]

\* Mutant: the row is left to the refresh that follows.
MutRowAfter(act) == row

\* _finish_sync applies the action to the row.
RowAfter(act) ==
    CASE act \in Shipping      -> [row EXCEPT !.status = "shipped"]
      [] act = "close_order"   -> [row EXCEPT !.status = "closed"]
      [] act = "rate_buyer"    -> [row EXCEPT !.rated = TRUE]
      [] act = "refuse_refund" -> [row EXCEPT !.refund = "rejected",
                                              !.refusable = FALSE, !.reasons = FALSE]

\* The cookies are merged and the success recorded; then the order is read back.
\* (Here and where a snapshot is applied, one transaction reads and writes the row
\* without a lock on it, which is one step.)
FinishSucceeded(r) ==
    /\ loc[r].pc = "ok"
    /\ Finished(req[r].key, "succeeded")
    /\ row' = RowAfter(req[r].act)
    /\ IF FirstStage = "idle" THEN End(r)
       ELSE Goto(r, FirstStage) /\ UNCHANGED <<lock, req, was>>
    /\ UNCHANGED <<plat, late, sent, took, faults, crashes, scn>>

\* The merge fails after the write was taken.
FinishBroken(r) ==
    /\ loc[r].pc = "ok" /\ Fault
    /\ Finished(req[r].key, "uncertain")
    /\ End(r)
    /\ UNCHANGED <<plat, row, late, sent, took, crashes, scn>>

FinishError(r) ==
    /\ loc[r].pc \in {"bad", "unsure"}
    /\ Finished(req[r].key, IF loc[r].pc = "bad" THEN "failed" ELSE "uncertain")
    /\ End(r)
    /\ UNCHANGED <<plat, row, late, sent, took, faults, crashes, scn>>

\* The merge in the handler of the error raises: the operation is not finished.
MergeRaises(r) ==
    /\ loc[r].pc \in {"bad", "unsure"} /\ Fault
    /\ End(r)
    /\ UNCHANGED <<plat, row, ops, late, sent, took, crashes, scn>>

Crash ==
    /\ crashes < scn.crashes
    /\ crashes' = crashes + 1
    /\ loc' = [p \in Procs |-> IF p = "list" THEN loc[p] ELSE Idle]
    /\ req' = [r \in Requests |-> NoCall]
    /\ was' = [r \in Requests |-> {}]
    /\ lock' = Nobody
    /\ UNCHANGED <<plat, row, ops, late, sent, took, faults, scn>>

-----------------------------------------------------------------------------
(* Writers that know nothing of the lock.                                  *)

\* A text that is not known, or one of a refund in progress, is "unknown".
ListTexts ==
    {plat.status}
    \cup (IF scn.unreadable \/ plat.refund = "pending" THEN {"unknown"} ELSE {})

\* The worker fetches a page of sold orders and applies it later.
ListReads ==
    /\ "list" \in scn.writers /\ loc["list"].pc = "idle"
    /\ \E text \in ListTexts :
          loc' = [loc EXCEPT !["list"] = Loc("list", [text |-> text, is |-> plat], NoView)]
    /\ UNCHANGED <<plat, row, ops, lock, req, late, sent, took, was, faults, crashes, scn>>

\* The list knows of no refused refunds.
ListRow(s) ==
    [row EXCEPT !.status = s.text,
                !.refund = IF s.is.refund = "rejected" THEN "none" ELSE s.is.refund,
                !.rated = @ \/ s.is.rated,
                !.listed = TRUE]

ListApplies ==
    /\ loc["list"].pc = "list"
    /\ row' = ListRow(loc["list"].seen)
    /\ loc' = [loc EXCEPT !["list"] = Idle]
    /\ UNCHANGED <<plat, ops, lock, req, late, sent, took, was, faults, crashes, scn>>

\* Messages are delivered late and repeatedly.
Before(status) ==
    CASE status = "pending_payment" -> {"pending_payment"}
      [] status \in {"paid_waiting_delivery", "closed"} -> Open \cup {status}
      [] status = "shipped" -> Open \cup {"shipped"}
      [] status = "completed" -> Open \cup {"shipped", "completed"}

Refund(o) ==
    (IF o.refund # "none" THEN {"refunding"} ELSE {})
    \cup (IF o.refund = "refunded" THEN {"refunded"} ELSE {})

\* A row that shows a refund keeps it until another refund message.
MessageArrives ==
    /\ "message" \in scn.writers
    /\ \E status \in Refund(plat) \cup Before(plat.status) :
          /\ row.status \in {"refunding", "refunded"} => status \in Refund(plat)
          /\ row' = [row EXCEPT !.status = status]
    /\ UNCHANGED <<plat, ops, lock, loc, req, late, sent, took, was, faults, crashes, scn>>

-----------------------------------------------------------------------------
Refreshing(p) ==
    \/ Answers(p) \/ Fails(p) \/ HeadApplies(p) \/ DetailApplies(p)
    \/ ShippingApplies(p) \/ RefundApplies(p) \/ OptionsApply(p)
    \/ ReadRow(p) \/ Decide(p)
Executing(r) ==
    \/ ValidateRefuse(r) \/ Create(r) \/ Write(r) \/ TimesOut(r)
    \/ FinishSucceeded(r) \/ FinishBroken(r) \/ FinishError(r) \/ MergeRaises(r)
Platform(k) == PlatformTakes(k) \/ PlatformKnows(k) \/ PlatformRejects(k)

Next ==
    \/ PlatformMoves \/ Refresh \/ RefreshScheduled \/ ListReads \/ ListApplies
    \/ MessageArrives \/ Crash
    \/ \E r \in Requests : Submit(r) \/ Begin(r) \/ Executing(r)
    \/ \E p \in Procs : Refreshing(p)
    \/ \E k \in Keys : Platform(k)

Spec == Init /\ [][Next]_vars

-----------------------------------------------------------------------------
(* Properties.                                                             *)

Rows == [status : Trade \cup {"refunding", "refunded", "unknown"},
         refund : {"none", "pending", "refunded", "rejected"}, rated : BOOLEAN,
         caps : SUBSET Capability, methods : BOOLEAN, refusable : BOOLEAN,
         reasons : BOOLEAN, head : BOOLEAN, listed : BOOLEAN]
Orders == [status : Trade, refund : {"none", "pending", "refunded", "rejected"},
           rated : BOOLEAN]
Writing == {"write", "sent", "ok", "bad", "unsure"}

\* Every variable keeps its range.
TypeOK ==
    /\ plat \in Orders /\ row \in Rows
    /\ ops \in [Keys -> [act : AllActions \cup {"none"},
                         status : {"none", "processing", "succeeded", "failed", "uncertain"}]]
    /\ lock \in Procs \cup {Nobody}
    /\ loc \in [Procs -> [pc : {"idle", "wait", "clear", "refreshed", "create", "list"}
                               \cup Asks \cup Reads \cup Writing,
                          seen : [text : Trade \cup {"none", "unknown", "refunding", "refunded"},
                                  is : Orders],
                          view : Rows]]
    /\ req \in [Requests -> [act : AllActions \cup {"none"}, key : Keys \cup {NoKey}]]
    /\ late \subseteq Keys /\ sent \in [Keys -> Nat]
    /\ took \in [Keys -> {"no", "yes", "already"}]
    /\ was \in [Requests -> SUBSET Orders]
    /\ scn \in Scenarios /\ faults \in 0..scn.faults /\ crashes \in 0..scn.crashes

\* One idempotency key, one write: whatever is retried, times out or crashes,
\* the write of an operation is sent to the platform at most once.
OneWritePerKey == \A k \in Keys : sent[k] <= 1

\* A recorded outcome is true: what succeeded was done by the platform (or the
\* order was shipped already), and what failed was not done and never will be.
OutcomeHonest ==
    \A k \in Keys :
       /\ ops[k].status = "succeeded" => took[k] # "no"
       /\ ops[k].status = "failed" => took[k] = "no" /\ k \notin late

\* An order recorded as shipped or closed by an operation is not shown as
\* waiting again by a refresh, of the UI or of the scheduler, that asked the
\* platform before. (The list sync and order messages compare nothing; and once
\* a refund is shown in place of the trade, the comparison lets an older answer
\* of a refresh without the lock pass.)
SuccessStaysShown ==
    \A k \in Keys :
       ( /\ ops[k].status = "succeeded" /\ ops[k].act \in Shipping \cup {"close_order"}
         /\ scn.writers \subseteq {"ui", "sched"}
         /\ "claim" \in scn.moves => "ui" \notin scn.writers )
          => row.status \notin Open

\* What the policy says of an action is true of the platform: it is sent only if
\* the trade was in a state that grants it, and the refund in one that grants
\* it, at some time since the request began to refresh the order.
PreflightRespected ==
    \A r \in Requests :
       loc[r].pc = "write" =>
          /\ \E o \in was[r] : TradeGrants(o, req[r].act)
          /\ \E o \in was[r] : RefundGrants(o, req[r].act)

-----------------------------------------------------------------------------
(* What messages of the code say and does not hold: see README.md.         *)

\* What the conflict says when a second operation is refused: an operation of
\* the order is being executed.
ProcessingIsExecuted ==
    \A k \in Keys :
       ops[k].status = "processing" =>
          \E r \in Requests : req[r].key = k /\ loc[r].pc \in Writing

\* What the error of an unknown result says: an action whose result is unknown
\* is not repeated while its write may still be taken.
UnknownNotRepeated ==
    \A j, k \in late : ops[j].act = ops[k].act => j = k
=============================================================================
