------------------------- MODULE OrderActionsProofs -------------------------
(***************************************************************************)
(* Proofs about OrderActions: one write per idempotency key, outcomes that *)
(* are true, an order that is not shown as open again, and preflights that *)
(* are respected, for any number of requests, keys, faults and crashes.    *)
(***************************************************************************)
EXTENDS OrderActions, TLAPS

Acts == AllActions \cup {"none"}
OpStatus == {"none", "processing", "succeeded", "failed", "uncertain"}
Entered(r) == loc[r].pc \notin {"idle", "wait"}

\* The ranges that the argument needs.
Types ==
    /\ ops \in [Keys -> [act : Acts, status : OpStatus]]
    /\ DOMAIN loc = Procs
    /\ req \in [Requests -> [act : Acts, key : Keys \cup {NoKey}]]
    /\ late \subseteq Keys
    /\ sent \in [Keys -> Nat]
    /\ took \in [Keys -> {"no", "yes", "already"}]

\* A request past the lock holds it, so there is one, and its key is a key.
Locking ==
    \A r \in Requests :
       /\ Entered(r) => lock = r
       /\ loc[r].pc # "idle" => req[r].key \in Keys

\* Nothing was sent for a key without an operation, nor for the operation of
\* a request that is about to write.
Unsent(k) == sent[k] = 0 /\ k \notin late /\ took[k] = "no"
Operations ==
    \A r \in Requests :
       /\ loc[r].pc \in Writing => ops[req[r].key].status = "processing"
       /\ loc[r].pc = "write" => Unsent(req[r].key)
       /\ loc[r].pc = "ok" => took[req[r].key] # "no"
       /\ loc[r].pc = "bad" => took[req[r].key] = "no" /\ req[r].key \notin late

Records ==
    \A k \in Keys :
       /\ ops[k].status = "none" => Unsent(k)
       /\ k \in late => took[k] = "no"
       /\ sent[k] <= 1

IInv == Types /\ Locking /\ Operations /\ Records /\ OutcomeHonest

USE RequestsAssumption, KeysAssumption

-----------------------------------------------------------------------------
\* Nothing was asked for and nothing sent.
LEMMA InitIInv == Init => IInv
<1> SUFFICES ASSUME Init PROVE IInv
  OBVIOUS
<1> USE DEF Init, Procs
<1>1. Types
  BY DEF Types, NoOp, Op, Acts, OpStatus, NoCall, Call
<1>2. \A r \in Requests : loc[r].pc = "idle"
  BY DEF Idle, Loc
<1>3. Locking
  BY <1>2 DEF Locking, Entered
<1>4. Operations
  BY <1>2 DEF Operations, Writing
<1>5. Records
  BY DEF Records, Unsent
<1>6. OutcomeHonest
  BY DEF OutcomeHonest, NoOp, Op
<1> QED
  BY <1>1, <1>3, <1>4, <1>5, <1>6 DEF IInv

\* A step that records and sends nothing, after which the requests at the
\* writing stages are ones that were there, preserves the invariant.
LEMMA QuietStep ==
    ASSUME IInv, UNCHANGED <<ops, late, sent, took>>,
           DOMAIN loc' = Procs,
           req' \in [Requests -> [act : Acts, key : Keys \cup {NoKey}]],
           \A r \in Requests :
              /\ loc'[r].pc \in Writing => loc'[r].pc = loc[r].pc /\ req'[r] = req[r]
              /\ Entered(r)' => lock' = r
              /\ loc'[r].pc # "idle" => req'[r].key \in Keys
    PROVE  IInv'
<1>1. Types'
  BY DEF IInv, Types
<1>2. Locking'
  BY DEF Locking
<1>3. Operations'
  BY DEF IInv, Operations, Unsent, Writing
<1>4. Records'
  BY DEF IInv, Records, Unsent
<1>5. OutcomeHonest'
  BY DEF IInv, OutcomeHonest
<1> QED
  BY <1>1, <1>2, <1>3, <1>4, <1>5 DEF IInv

\* One process goes to another stage before the writing ones; the lock stays.
LEMMA QuietGoto ==
    ASSUME IInv, NEW p \in Procs, NEW l,
           loc' = [loc EXCEPT ![p] = l],
           l.pc \notin Writing, l.pc # "idle",
           p \in Requests => loc[p].pc # "idle" /\ (l.pc # "wait" => lock = p),
           UNCHANGED <<ops, late, sent, took, lock, req>>
    PROVE  IInv'
<1> USE DEF IInv, Types, Locking, Entered
<1>1. DOMAIN loc' = Procs
  OBVIOUS
<1>2. req' \in [Requests -> [act : Acts, key : Keys \cup {NoKey}]]
  OBVIOUS
<1>3. ASSUME NEW r \in Requests
      PROVE  /\ loc'[r].pc \in Writing => loc'[r].pc = loc[r].pc /\ req'[r] = req[r]
             /\ loc'[r].pc \notin {"idle", "wait"} => lock' = r
             /\ loc'[r].pc # "idle" => req'[r].key \in Keys
  <2> r \in Procs
    BY DEF Procs
  <2>1. CASE r = p
    BY <2>1
  <2>2. CASE r # p
    BY <2>2
  <2> QED
    BY <2>1, <2>2
<1> HIDE DEF IInv, Types, Locking
<1> QED
  BY <1>1, <1>2, <1>3, QuietStep

\* A process leaves without recording anything.
LEMMA QuietEnd ==
    ASSUME IInv, NEW p \in Procs, End(p), UNCHANGED <<ops, late, sent, took>>
    PROVE  IInv'
<1> USE DEF IInv, Types, Locking, Entered
<1>1. DOMAIN loc' = Procs
  BY DEF End
<1>2. req' \in [Requests -> [act : Acts, key : Keys \cup {NoKey}]]
  BY DEF End, Cleared, NoCall, Call, Acts
<1>3. ASSUME NEW r \in Requests
      PROVE  /\ loc'[r].pc \in Writing => loc'[r].pc = loc[r].pc /\ req'[r] = req[r]
             /\ loc'[r].pc \notin {"idle", "wait"} => lock' = r
             /\ loc'[r].pc # "idle" => req'[r].key \in Keys
  <2> r \in Procs
    BY DEF Procs
  <2>1. CASE r = p
    <3>1. loc'[r].pc = "idle"
      BY <2>1 DEF End, Idle, Loc
    <3> QED
      BY <3>1 DEF Writing
  <2>2. CASE r # p
    <3>1. loc'[r] = loc[r] /\ req'[r] = req[r]
      BY <2>2 DEF End, Cleared
    <3>2. lock = r => lock' = r
      BY <2>2 DEF End, Released
    <3> QED
      BY <3>1, <3>2
  <2> QED
    BY <2>1, <2>2
<1> HIDE DEF IInv, Types, Locking
<1> QED
  BY <1>1, <1>2, <1>3, QuietStep

-----------------------------------------------------------------------------
\* A refresh begins with headinfo or the detail, or does not begin.
LEMMA FirstStageNotWriting ==
    FirstStage \in {"head", "headOptional", "detail", "idle"}
BY DEF FirstStage

\* A process past the lock, or one that needs none, goes on.
LEMMA QuietMove ==
    ASSUME IInv, NEW p \in Procs, NEW pc, NEW s, NEW v,
           loc' = [loc EXCEPT ![p] = Loc(pc, s, v)],
           pc \notin Writing \cup {"idle", "wait"},
           loc[p].pc \notin {"idle", "wait"},
           UNCHANGED <<ops, late, sent, took, lock, req>>
    PROVE  IInv'
<1> DEFINE l == Loc(pc, s, v)
<1>1. l.pc = pc
  BY DEF Loc
<1>2. p \in Requests => loc[p].pc # "idle" /\ lock = p
  BY DEF IInv, Locking, Entered
<1>3. loc' = [loc EXCEPT ![p] = l]
  OBVIOUS
<1> HIDE DEF l
<1> QED
  BY <1>1, <1>2, <1>3, QuietGoto DEF Writing

\* The stages of a refresh, for whoever runs it.
LEMMA RefreshingPreserves ==
    ASSUME IInv, NEW p \in Procs, Refreshing(p)
    PROVE  IInv'
<1>1. CASE Answers(p)
  <2>1. PICK text \in Texts(loc[p].pc) :
           loc' = [loc EXCEPT ![p] = Loc(loc[p].pc, [text |-> text, is |-> plat], loc[p].view)]
    BY <1>1 DEF Answers
  <2>2. loc[p].pc \notin Writing \cup {"idle", "wait"}
    BY <1>1 DEF Answers, Asks, Writing
  <2>3. UNCHANGED <<ops, late, sent, took, lock, req>>
    BY <1>1 DEF Answers
  <2> QED
    BY <2>1, <2>2, <2>3, QuietMove
<1>2. CASE Fails(p)
  <2>1. CASE loc[p].pc = "headOptional" /\ Goto(p, "detail") /\ UNCHANGED <<lock, req, was>>
    <3>1. loc' = [loc EXCEPT ![p] = Loc("detail", NoAnswer, loc[p].view)]
      BY <2>1 DEF Goto
    <3>2. UNCHANGED <<ops, late, sent, took, lock, req>>
      BY <1>2, <2>1 DEF Fails
    <3> QED
      BY <2>1, <3>1, <3>2, QuietMove DEF Writing
  <2>2. CASE loc[p].pc \in Asks \ {"headOptional"} /\ End(p)
    BY <1>2, <2>2, QuietEnd DEF Fails
  <2> QED
    BY <1>2, <2>1, <2>2 DEF Fails
<1>3. CASE HeadApplies(p)
  <2>1. CASE Goto(p, "detail") /\ UNCHANGED <<lock, req, was, faults>>
    <3>1. loc' = [loc EXCEPT ![p] = Loc("detail", NoAnswer, loc[p].view)]
      BY <2>1 DEF Goto
    <3>2. UNCHANGED <<ops, late, sent, took, lock, req>>
      BY <1>3, <2>1 DEF HeadApplies
    <3>3. loc[p].pc \notin {"idle", "wait"}
      BY <1>3 DEF HeadApplies
    <3> QED
      BY <3>1, <3>2, <3>3, QuietMove DEF Writing
  <2>2. CASE End(p)
    BY <1>3, <2>2, QuietEnd DEF HeadApplies
  <2> QED
    BY <1>3, <2>1, <2>2 DEF HeadApplies
<1>4. CASE DetailApplies(p)
  <2>1. loc[p].pc \notin {"idle", "wait"}
    BY <1>4 DEF DetailApplies
  <2>2. loc' = [loc EXCEPT ![p] = Loc("readDetail", NoAnswer, loc[p].view)]
    BY <1>4 DEF DetailApplies, Goto
  <2>3. UNCHANGED <<ops, late, sent, took, lock, req>>
    BY <1>4 DEF DetailApplies
  <2> QED
    BY <2>1, <2>2, <2>3, QuietMove DEF Writing
<1>5. CASE ShippingApplies(p)
  <2>1. loc[p].pc \notin {"idle", "wait"}
    BY <1>5 DEF ShippingApplies
  <2>2. loc' = [loc EXCEPT ![p] = Loc("readShipping", NoAnswer, loc[p].view)]
    BY <1>5 DEF ShippingApplies, Goto
  <2>3. UNCHANGED <<ops, late, sent, took, lock, req>>
    BY <1>5 DEF ShippingApplies
  <2> QED
    BY <2>1, <2>2, <2>3, QuietMove DEF Writing
<1>6. CASE RefundApplies(p)
  <2>1. loc[p].pc \notin {"idle", "wait"}
    BY <1>6 DEF RefundApplies
  <2>2. loc' = [loc EXCEPT ![p] = Loc("readRefund", NoAnswer, loc[p].view)]
    BY <1>6 DEF RefundApplies, Goto
  <2>3. UNCHANGED <<ops, late, sent, took, lock, req>>
    BY <1>6 DEF RefundApplies
  <2> QED
    BY <2>1, <2>2, <2>3, QuietMove DEF Writing
<1>7. CASE OptionsApply(p)
  <2>1. loc[p].pc \notin {"idle", "wait"}
    BY <1>7 DEF OptionsApply
  <2>2. loc' = [loc EXCEPT ![p] = Loc("readOptions", NoAnswer, loc[p].view)]
    BY <1>7 DEF OptionsApply, Goto
  <2>3. UNCHANGED <<ops, late, sent, took, lock, req>>
    BY <1>7 DEF OptionsApply
  <2> QED
    BY <2>1, <2>2, <2>3, QuietMove DEF Writing
<1>8. CASE ReadRow(p)
  <2>1. CASE /\ loc' = [loc EXCEPT ![p] = Loc(Branch(p), NoAnswer, row)]
             /\ UNCHANGED <<lock, req, was, faults>>
    <3>1. Branch(p) \in {"ship", "clear", "refund", "refreshed", "options"}
      BY <1>8 DEF ReadRow, Reads, Branch
    <3>2. Branch(p) \notin Writing \cup {"idle", "wait"}
      BY <3>1 DEF Writing
    <3>3. loc[p].pc \notin {"idle", "wait"}
      BY <1>8 DEF ReadRow, Reads
    <3>4. UNCHANGED <<ops, late, sent, took, lock, req>>
      BY <1>8, <2>1 DEF ReadRow
    <3> QED
      BY <2>1, <3>2, <3>3, <3>4, QuietMove
  <2>2. CASE End(p)
    BY <1>8, <2>2, QuietEnd DEF ReadRow
  <2> QED
    BY <1>8, <2>1, <2>2 DEF ReadRow
<1>9. CASE Decide(p)
  <2> DEFINE pc == IF req[p].act = "refuse_refund" THEN "check" ELSE "create"
  <2>1. CASE /\ loc' = [loc EXCEPT ![p] = Loc(pc, NoAnswer, NoView)]
             /\ UNCHANGED <<lock, req, was>>
    <3>1. pc \notin Writing \cup {"idle", "wait"}
      BY DEF Writing
    <3>2. loc[p].pc \notin {"idle", "wait"}
      BY <1>9 DEF Decide
    <3>3. UNCHANGED <<ops, late, sent, took, lock, req>>
      BY <1>9, <2>1 DEF Decide
    <3> HIDE DEF pc
    <3> QED
      BY <2>1, <3>1, <3>2, <3>3, QuietMove
  <2>2. CASE End(p)
    BY <1>9, <2>2, QuietEnd DEF Decide
  <2> QED
    BY <1>9, <2>1, <2>2 DEF Decide
<1> QED
  BY <1>1, <1>2, <1>3, <1>4, <1>5, <1>6, <1>7, <1>8, <1>9 DEF Refreshing

-----------------------------------------------------------------------------
\* While a request is past the lock, the others are not.
LEMMA OneEntered ==
    ASSUME IInv, NEW r \in Requests, Entered(r), NEW q \in Requests, q # r
    PROVE  loc[q].pc \in {"idle", "wait"}
BY DEF IInv, Locking, Entered

\* A request past the lock goes on: what is left to show is about the
\* records and about that request.
LEMMA SoleStep ==
    ASSUME IInv, NEW r \in Requests, Entered(r), NEW pc, NEW s, NEW v,
           loc' = [loc EXCEPT ![r] = Loc(pc, s, v)],
           pc \notin {"idle", "wait"},
           UNCHANGED <<lock, req>>,
           ops' \in [Keys -> [act : Acts, status : OpStatus]],
           late' \subseteq Keys, sent' \in [Keys -> Nat],
           took' \in [Keys -> {"no", "yes", "already"}],
           pc \in Writing => ops'[req[r].key].status = "processing",
           pc = "write" => Unsent(req[r].key)',
           pc = "ok" => took'[req[r].key] # "no",
           pc = "bad" => took'[req[r].key] = "no" /\ req[r].key \notin late',
           Records', OutcomeHonest'
    PROVE  IInv'
<1>1. DOMAIN loc = Procs /\ r \in Procs /\ Requests \subseteq Procs
  BY DEF IInv, Types, Procs
<1>2. loc'[r].pc = pc /\ DOMAIN loc' = Procs
  BY <1>1 DEF Loc
<1>3. ASSUME NEW q \in Requests, q # r
      PROVE  loc'[q] = loc[q] /\ loc[q].pc \in {"idle", "wait"}
  BY <1>1, <1>3, OneEntered
<1>4. Types'
  BY <1>2 DEF IInv, Types
<1>5. Locking'
  <2>1. lock = r /\ req[r].key \in Keys
    BY DEF IInv, Locking, Entered
  <2>2. ASSUME NEW q \in Requests
        PROVE  /\ loc'[q].pc \notin {"idle", "wait"} => lock' = q
               /\ loc'[q].pc # "idle" => req'[q].key \in Keys
    BY <1>2, <1>3, <2>1 DEF IInv, Locking
  <2> QED
    BY <2>2 DEF Locking, Entered
<1>6. Operations'
  <2>1. ASSUME NEW q \in Requests
        PROVE  /\ loc'[q].pc \in Writing => ops'[req'[q].key].status = "processing"
               /\ loc'[q].pc = "write" => Unsent(req[q].key)'
               /\ loc'[q].pc = "ok" => took'[req'[q].key] # "no"
               /\ loc'[q].pc = "bad" => took'[req'[q].key] = "no" /\ req'[q].key \notin late'
    <3>1. CASE q = r
      BY <1>2, <3>1 DEF Unsent
    <3>2. CASE q # r
      <4>1. loc'[q].pc \in {"idle", "wait"}
        BY <1>3, <3>2
      <4> QED
        BY <4>1 DEF Writing
    <3> QED
      BY <3>1, <3>2
  <2> QED
    BY <2>1 DEF Operations, Unsent
<1> QED
  BY <1>4, <1>5, <1>6 DEF IInv

\* A request at the writing stages records an outcome and returns.
LEMMA FinishAndEnd ==
    ASSUME IInv, NEW r \in Requests, loc[r].pc \in Writing,
           NEW status \in {"succeeded", "failed", "uncertain"},
           status = "succeeded" => loc[r].pc = "ok",
           status = "failed" => loc[r].pc = "bad",
           Finished(req[r].key, status), End(r), UNCHANGED <<late, sent, took>>
    PROVE  IInv'
<1> DEFINE k == req[r].key
<1>1. Entered(r) /\ k \in Keys
  BY DEF IInv, Locking, Entered, Writing
<1>2. Requests \subseteq Procs /\ DOMAIN loc = Procs
  BY DEF IInv, Types, Procs
<1>3. ops[k].status = "processing" /\ ops[k].act \in Acts
  BY <1>1 DEF IInv, Operations, Types
<1>4. /\ ops' \in [Keys -> [act : Acts, status : OpStatus]]
      /\ ops'[k].status = status
      /\ \A j \in Keys : j # k => ops'[j] = ops[j]
  BY <1>1, <1>3 DEF Finished, Op, IInv, Types, OpStatus
<1>5. \A q \in Requests : loc'[q].pc \in {"idle", "wait"}
  <2>1. ASSUME NEW q \in Requests, q # r PROVE loc'[q].pc \in {"idle", "wait"}
    BY <1>1, <1>2, <2>1, OneEntered DEF End
  <2>2. loc'[r].pc = "idle"
    BY <1>2 DEF End, Idle, Loc
  <2> QED
    BY <2>1, <2>2
<1>6. Types'
  BY <1>2, <1>4 DEF IInv, Types, End, Cleared, NoCall, Call, Acts
<1>7. Locking'
  <2>1. ASSUME NEW q \in Requests, loc'[q].pc # "idle" PROVE req'[q].key \in Keys
    <3>1. q # r
      BY <1>2, <2>1 DEF End, Idle, Loc
    <3> QED
      BY <1>2, <2>1, <3>1 DEF End, Cleared, IInv, Locking
  <2> QED
    BY <1>5, <2>1 DEF Locking, Entered
<1>8. Operations'
  BY <1>5 DEF Operations, Writing
<1>9. Records'
  BY <1>3, <1>4 DEF IInv, Records, Unsent
<1>10. OutcomeHonest'
  <2>1. /\ status = "failed" => took[k] = "no" /\ k \notin late
        /\ status = "succeeded" => took[k] # "no"
    BY DEF IInv, Operations
  <2> QED
    BY <1>4, <2>1 DEF IInv, OutcomeHonest
<1> QED
  BY <1>6, <1>7, <1>8, <1>9, <1>10 DEF IInv

\* The stages of execute.
LEMMA ExecutingPreserves ==
    ASSUME IInv, NEW r \in Requests, Executing(r)
    PROVE  IInv'
<1> DEFINE k == req[r].key
<1>0. r \in Procs
  BY DEF Procs
<1>00. ASSUME loc[r].pc \notin {"idle", "wait"}
       PROVE  Entered(r) /\ k \in Keys
  BY <1>00 DEF IInv, Locking, Entered
<1>t. /\ ops \in [Keys -> [act : Acts, status : OpStatus]] /\ late \subseteq Keys
      /\ sent \in [Keys -> Nat] /\ took \in [Keys -> {"no", "yes", "already"}]
      /\ req[r].act \in Acts
  BY DEF IInv, Types
<1>1. CASE ValidateRefuse(r)
  <2>1. CASE Goto(r, "create") /\ UNCHANGED <<lock, req, was>>
    <3>1. loc' = [loc EXCEPT ![r] = Loc("create", NoAnswer, loc[r].view)]
      BY <2>1 DEF Goto
    <3>2. UNCHANGED <<ops, late, sent, took, lock, req>>
      BY <1>1, <2>1 DEF ValidateRefuse
    <3>3. loc[r].pc \notin {"idle", "wait"}
      BY <1>1 DEF ValidateRefuse
    <3> QED
      BY <1>0, <3>1, <3>2, <3>3, QuietMove DEF Writing
  <2>2. CASE End(r)
    BY <1>0, <1>1, <2>2, QuietEnd DEF ValidateRefuse
  <2> QED
    BY <1>1, <2>1, <2>2 DEF ValidateRefuse
<1>2. CASE Create(r)
  <2>1. CASE End(r) /\ UNCHANGED ops
    BY <1>0, <1>2, <2>1, QuietEnd DEF Create
  <2>2. CASE /\ ~Existing(k)
             /\ ops' = [ops EXCEPT ![k] = Op(req[r].act, "processing")]
             /\ Goto(r, "write")
             /\ UNCHANGED <<lock, req, was>>
    <3>1. Entered(r) /\ k \in Keys
      BY <1>2, <1>00 DEF Create
    <3>2. loc' = [loc EXCEPT ![r] = Loc("write", NoAnswer, loc[r].view)]
      BY <2>2 DEF Goto
    <3>3. /\ ops' \in [Keys -> [act : Acts, status : OpStatus]]
          /\ ops'[k].status = "processing"
          /\ \A j \in Keys : j # k => ops'[j] = ops[j]
      BY <1>t, <2>2, <3>1 DEF Op, OpStatus
    <3>4. UNCHANGED <<late, sent, took>>
      BY <1>2 DEF Create
    <3>5. Unsent(k)
      BY <2>2, <3>1 DEF Existing, IInv, Records
    <3>6. Unsent(req[r].key)'
      BY <2>2, <3>4, <3>5 DEF Unsent
    <3>7. Records'
      BY <3>3, <3>4 DEF IInv, Records, Unsent
    <3>8. OutcomeHonest'
      BY <3>3, <3>4 DEF IInv, OutcomeHonest
    <3> DEFINE pc == "write"
    <3>9. /\ pc \notin {"idle", "wait"}
          /\ loc' = [loc EXCEPT ![r] = Loc(pc, NoAnswer, loc[r].view)]
          /\ pc \in Writing => ops'[req[r].key].status = "processing"
          /\ pc = "write" => Unsent(req[r].key)'
          /\ pc = "ok" => took'[req[r].key] # "no"
          /\ pc = "bad" => took'[req[r].key] = "no" /\ req[r].key \notin late'
      BY <3>2, <3>3, <3>6
    <3>10. /\ ops' \in [Keys -> [act : Acts, status : OpStatus]]
          /\ late' \subseteq Keys /\ sent' \in [Keys -> Nat]
          /\ took' \in [Keys -> {"no", "yes", "already"}]
          /\ UNCHANGED <<lock, req>>
      BY <1>t, <2>2, <3>3, <3>4
    <3> HIDE DEF pc
    <3> QED
      BY <3>1, <3>7, <3>8, <3>9, <3>10, SoleStep
  <2> QED
    BY <1>2, <2>1, <2>2 DEF Create
<1>3. CASE Write(r)
  <2>0. /\ Entered(r) /\ k \in Keys
        /\ Unsent(k) /\ ops[k].status = "processing"
    BY <1>3, <1>00 DEF Write, IInv, Operations, Writing
  <2>00. UNCHANGED <<ops, took, lock, req>>
    BY <1>3 DEF Write
  <2>1. CASE late' = late \cup {k} /\ sent' = [sent EXCEPT ![k] = @ + 1] /\ Goto(r, "sent")
    <3>1. loc' = [loc EXCEPT ![r] = Loc("sent", NoAnswer, loc[r].view)]
      BY <2>1 DEF Goto
    <3>2. /\ late' \subseteq Keys /\ sent' \in [Keys -> Nat]
          /\ sent'[k] = 1 /\ \A j \in Keys : j # k => sent'[j] = sent[j]
      BY <1>t, <2>0, <2>1 DEF Unsent
    <3>3. Records'
      BY <2>0, <2>00, <2>1, <3>2 DEF IInv, Records, Unsent
    <3>4. OutcomeHonest'
      BY <2>0, <2>00, <2>1 DEF IInv, OutcomeHonest
    <3> DEFINE pc == "sent"
    <3>5. /\ pc \notin {"idle", "wait"}
          /\ loc' = [loc EXCEPT ![r] = Loc(pc, NoAnswer, loc[r].view)]
          /\ pc \in Writing => ops'[req[r].key].status = "processing"
          /\ pc = "write" => Unsent(req[r].key)'
          /\ pc = "ok" => took'[req[r].key] # "no"
          /\ pc = "bad" => took'[req[r].key] = "no" /\ req[r].key \notin late'
      BY <2>0, <2>00, <3>1
    <3>6. /\ ops' \in [Keys -> [act : Acts, status : OpStatus]]
          /\ late' \subseteq Keys /\ sent' \in [Keys -> Nat]
          /\ took' \in [Keys -> {"no", "yes", "already"}]
          /\ UNCHANGED <<lock, req>>
      BY <1>t, <2>00, <3>2
    <3> HIDE DEF pc
    <3> QED
      BY <2>0, <3>3, <3>4, <3>5, <3>6, SoleStep
  <2>2. CASE Goto(r, "bad") /\ UNCHANGED <<late, sent>>
    <3>1. loc' = [loc EXCEPT ![r] = Loc("bad", NoAnswer, loc[r].view)]
      BY <2>2 DEF Goto
    <3>2. took'[k] = "no" /\ k \notin late'
      BY <2>0, <2>00, <2>2 DEF Unsent
    <3>3. Records'
      BY <2>00, <2>2 DEF IInv, Records, Unsent
    <3>4. OutcomeHonest'
      BY <2>00, <2>2 DEF IInv, OutcomeHonest
    <3> DEFINE pc == "bad"
    <3>5. /\ pc \notin {"idle", "wait"}
          /\ loc' = [loc EXCEPT ![r] = Loc(pc, NoAnswer, loc[r].view)]
          /\ pc \in Writing => ops'[req[r].key].status = "processing"
          /\ pc = "write" => Unsent(req[r].key)'
          /\ pc = "ok" => took'[req[r].key] # "no"
          /\ pc = "bad" => took'[req[r].key] = "no" /\ req[r].key \notin late'
      BY <2>0, <2>00, <3>1, <3>2
    <3>6. /\ ops' \in [Keys -> [act : Acts, status : OpStatus]]
          /\ late' \subseteq Keys /\ sent' \in [Keys -> Nat]
          /\ took' \in [Keys -> {"no", "yes", "already"}]
          /\ UNCHANGED <<lock, req>>
      BY <1>t, <2>00, <2>2
    <3> HIDE DEF pc
    <3> QED
      BY <2>0, <3>3, <3>4, <3>5, <3>6, SoleStep
  <2> QED
    BY <1>3, <2>1, <2>2 DEF Write
<1>4. CASE TimesOut(r)
  <2>0. Entered(r) /\ k \in Keys /\ ops[k].status = "processing"
    BY <1>4, <1>00 DEF TimesOut, IInv, Operations, Writing
  <2>1. UNCHANGED <<ops, late, sent, took, lock, req>>
    BY <1>4 DEF TimesOut
  <2>2. loc' = [loc EXCEPT ![r] = Loc("unsure", NoAnswer, loc[r].view)]
    BY <1>4 DEF TimesOut, Goto
  <2>3. Records'
    BY <2>1 DEF IInv, Records, Unsent
  <2>4. OutcomeHonest'
    BY <2>1 DEF IInv, OutcomeHonest
  <2> DEFINE pc == "unsure"
  <2>5. /\ pc \notin {"idle", "wait"}
        /\ loc' = [loc EXCEPT ![r] = Loc(pc, NoAnswer, loc[r].view)]
        /\ pc \in Writing => ops'[req[r].key].status = "processing"
        /\ pc = "write" => Unsent(req[r].key)'
        /\ pc = "ok" => took'[req[r].key] # "no"
        /\ pc = "bad" => took'[req[r].key] = "no" /\ req[r].key \notin late'
    BY <2>0, <2>1, <2>2
  <2>6. /\ ops' \in [Keys -> [act : Acts, status : OpStatus]]
        /\ late' \subseteq Keys /\ sent' \in [Keys -> Nat]
        /\ took' \in [Keys -> {"no", "yes", "already"}]
        /\ UNCHANGED <<lock, req>>
    BY <1>t, <2>1
  <2> HIDE DEF pc
  <2> QED
    BY <2>0, <2>3, <2>4, <2>5, <2>6, SoleStep
<1>5. CASE FinishSucceeded(r)
  <2>0. /\ Entered(r) /\ k \in Keys /\ ops[k].status = "processing"
        /\ took[k] # "no" /\ ops[k].act \in Acts
    BY <1>5, <1>00, <1>t DEF FinishSucceeded, IInv, Operations, Writing
  <2>1. Finished(k, "succeeded") /\ UNCHANGED <<late, sent, took>>
    BY <1>5 DEF FinishSucceeded
  <2>2. CASE End(r)
    BY <1>5, <2>1, <2>2, FinishAndEnd DEF FinishSucceeded, Writing
  <2>3. CASE FirstStage # "idle" /\ Goto(r, FirstStage) /\ UNCHANGED <<lock, req, was>>
    <3>1. FirstStage \notin Writing \cup {"idle", "wait"}
      BY <2>3, FirstStageNotWriting DEF Writing
    <3>2. loc' = [loc EXCEPT ![r] = Loc(FirstStage, NoAnswer, loc[r].view)]
      BY <2>3 DEF Goto
    <3>3. /\ ops' \in [Keys -> [act : Acts, status : OpStatus]]
          /\ ops'[k].status = "succeeded"
          /\ \A j \in Keys : j # k => ops'[j] = ops[j]
      BY <1>t, <2>0, <2>1 DEF Finished, Op, OpStatus
    <3>4. Records'
      BY <2>1, <3>3 DEF IInv, Records, Unsent
    <3>5. OutcomeHonest'
      BY <2>0, <2>1, <3>3 DEF IInv, OutcomeHonest
    <3> DEFINE pc == FirstStage
    <3>6. /\ pc \notin Writing \cup {"idle", "wait", "write", "ok", "bad"}
          /\ loc' = [loc EXCEPT ![r] = Loc(pc, NoAnswer, loc[r].view)]
      BY <3>1, <3>2 DEF Writing
    <3> HIDE DEF pc
    <3>7. /\ pc \in Writing => ops'[req[r].key].status = "processing"
          /\ pc = "write" => Unsent(req[r].key)'
          /\ pc = "ok" => took'[req[r].key] # "no"
          /\ pc = "bad" => took'[req[r].key] = "no" /\ req[r].key \notin late'
      BY <3>6
    <3>8. /\ late' \subseteq Keys /\ sent' \in [Keys -> Nat]
          /\ took' \in [Keys -> {"no", "yes", "already"}]
          /\ UNCHANGED <<lock, req>>
      BY <1>t, <2>1, <2>3
    <3> QED
      BY <2>0, <3>3, <3>4, <3>5, <3>6, <3>7, <3>8, SoleStep
  <2> QED
    BY <1>5, <2>2, <2>3 DEF FinishSucceeded
<1>6. CASE FinishBroken(r)
  <2>1. /\ loc[r].pc \in Writing /\ Finished(k, "uncertain") /\ End(r)
        /\ UNCHANGED <<late, sent, took>>
    BY <1>6 DEF FinishBroken, Writing
  <2> QED
    BY <2>1, FinishAndEnd
<1>7. CASE FinishError(r)
  <2> DEFINE st == IF loc[r].pc = "bad" THEN "failed" ELSE "uncertain"
  <2>1. /\ loc[r].pc \in Writing /\ Finished(k, st) /\ End(r)
        /\ UNCHANGED <<late, sent, took>>
    BY <1>7 DEF FinishError, Writing
  <2>2. st \in {"failed", "uncertain"} /\ (st = "failed" => loc[r].pc = "bad")
    OBVIOUS
  <2> HIDE DEF st
  <2> QED
    BY <2>1, <2>2, FinishAndEnd
<1>8. CASE MergeRaises(r)
  BY <1>0, <1>8, QuietEnd DEF MergeRaises
<1> QED
  BY <1>1, <1>2, <1>3, <1>4, <1>5, <1>6, <1>7, <1>8 DEF Executing

\* The platform deals with the write of a key: it is no longer on its way, and
\* the request that waits for it, if any, learns what was done or nothing.
LEMMA ReplyPreserves ==
    ASSUME IInv, NEW k \in late, NEW pc \in {"ok", "bad"}, NEW done,
           late' = late \ {k},
           took' = [took EXCEPT ![k] = done],
           done \in {"no", "yes", "already"},
           (pc = "ok") <=> (done # "no"),
           Reply(k, pc), UNCHANGED <<ops, lock, req, sent>>
    PROVE  IInv'
<1>1. /\ k \in Keys /\ Requests \subseteq Procs /\ DOMAIN loc = Procs
      /\ took \in [Keys -> {"no", "yes", "already"}] /\ late \subseteq Keys
  BY DEF IInv, Types, Procs
<1>2. took'[k] = done /\ \A j \in Keys : j # k => took'[j] = took[j]
  BY <1>1
<1>3. ASSUME NEW q \in Requests
      PROVE  \/ loc'[q] = loc[q]
             \/ loc[q].pc = "sent" /\ loc'[q].pc = pc /\ req[q].key = k
  BY <1>1, <1>3 DEF Reply, Loc
<1>4. Types'
  <2>1. DOMAIN loc' = Procs
    BY <1>1 DEF Reply
  <2>2. late' \subseteq Keys /\ took' \in [Keys -> {"no", "yes", "already"}]
    BY <1>1
  <2> QED
    BY <2>1, <2>2 DEF IInv, Types
<1>5. Locking'
  <2>1. ASSUME NEW q \in Requests
        PROVE  /\ loc'[q].pc \notin {"idle", "wait"} => lock' = q
               /\ loc'[q].pc # "idle" => req'[q].key \in Keys
    BY <1>3 DEF IInv, Locking, Entered
  <2> QED
    BY <2>1 DEF Locking, Entered
<1>6. Operations'
  <2>1. ASSUME NEW q \in Requests
        PROVE  /\ loc'[q].pc \in Writing => ops'[req'[q].key].status = "processing"
               /\ loc'[q].pc = "write" => Unsent(req[q].key)'
               /\ loc'[q].pc = "ok" => took'[req'[q].key] # "no"
               /\ loc'[q].pc = "bad" => took'[req'[q].key] = "no" /\ req'[q].key \notin late'
    <3>1. CASE loc[q].pc = "sent" /\ loc'[q].pc = pc /\ req[q].key = k
      <4>1. ops[k].status = "processing"
        BY <3>1 DEF IInv, Operations, Writing
      <4> QED
        BY <1>2, <3>1, <4>1 DEF Writing
    <3>2. CASE loc'[q] = loc[q]
      <4>1. loc[q].pc # "idle" => req[q].key \in Keys
        BY DEF IInv, Locking
      <4>2. loc[q].pc = "write" => Unsent(req[q].key)
        BY DEF IInv, Operations
      <4>3. loc[q].pc = "ok" => took[req[q].key] # "no" /\ req[q].key # k
        BY DEF IInv, Operations, Records, Types
      <4>4. loc[q].pc = "bad" => took[req[q].key] = "no" /\ req[q].key \notin late
        BY DEF IInv, Operations
      <4>5. loc[q].pc \in Writing => ops[req[q].key].status = "processing"
        BY DEF IInv, Operations
      <4>6. loc[q].pc = "write" => Unsent(req[q].key)'
        BY <1>2, <4>1, <4>2 DEF Unsent
      <4>7. loc[q].pc = "ok" => took'[req'[q].key] # "no"
        BY <1>2, <4>1, <4>3
      <4>8. loc[q].pc = "bad" => took'[req'[q].key] = "no" /\ req'[q].key \notin late'
        BY <1>2, <4>1, <4>4
      <4> QED
        BY <3>2, <4>5, <4>6, <4>7, <4>8
    <3> QED
      BY <1>3, <3>1, <3>2
  <2> QED
    BY <2>1 DEF Operations
<1>7. Records'
  <2>1. ASSUME NEW j \in Keys
        PROVE  /\ ops'[j].status = "none" => Unsent(j)'
               /\ j \in late' => took'[j] = "no"
               /\ sent'[j] <= 1
    BY <1>2 DEF IInv, Records, Unsent
  <2> QED
    BY <2>1 DEF Records
<1>8. OutcomeHonest'
  <2>1. ops[k].status # "failed"
    BY <1>1 DEF IInv, OutcomeHonest
  <2>2. took[k] = "no"
    BY <1>1 DEF IInv, Records
  <2>3. ops[k].status # "succeeded"
    BY <1>1, <2>2 DEF IInv, OutcomeHonest
  <2> QED
    BY <1>1, <1>2, <2>1, <2>3 DEF IInv, OutcomeHonest
<1> QED
  BY <1>4, <1>5, <1>6, <1>7, <1>8 DEF IInv

\* What the platform does with a write that reaches it.
LEMMA PlatformPreserves ==
    ASSUME IInv, NEW k \in Keys, Platform(k)
    PROVE  IInv'
<1>1. CASE PlatformTakes(k)
  BY <1>1, ReplyPreserves DEF PlatformTakes
<1>2. CASE PlatformKnows(k)
  BY <1>2, ReplyPreserves DEF PlatformKnows
<1>3. CASE PlatformRejects(k)
  <2>1. took[k] = "no"
    BY <1>3 DEF PlatformRejects, IInv, Records
  <2>2. took' = [took EXCEPT ![k] = "no"]
    BY <1>3, <2>1 DEF PlatformRejects, IInv, Types
  <2>3. Reply(k, "bad")
    BY <1>3 DEF PlatformRejects, Reply
  <2> QED
    BY <1>3, <2>2, <2>3, ReplyPreserves DEF PlatformRejects
<1> QED
  BY <1>1, <1>2, <1>3 DEF Platform

\* Requests that arrive or take the lock, the other writers and crashes.
LEMMA OthersPreserve ==
    ASSUME IInv,
           \/ PlatformMoves \/ Refresh \/ RefreshScheduled \/ ListReads \/ ListApplies
           \/ MessageArrives \/ Crash \/ UNCHANGED vars
           \/ \E r \in Requests : Submit(r) \/ Begin(r)
    PROVE  IInv'
<1> USE DEF Writing
<1>t. /\ Requests \subseteq Procs /\ {"ui", "sched", "list"} \subseteq Procs
      /\ DOMAIN loc = Procs
      /\ req \in [Requests -> [act : Acts, key : Keys \cup {NoKey}]]
  BY DEF IInv, Types, Procs
<1>l. \A r \in Requests :
         /\ loc[r].pc \notin {"idle", "wait"} => lock = r
         /\ loc[r].pc # "idle" => req[r].key \in Keys
  BY DEF IInv, Locking, Entered
<1>1. CASE PlatformMoves \/ MessageArrives \/ UNCHANGED vars
  BY <1>1, <1>t, <1>l, QuietStep DEF PlatformMoves, MessageArrives, vars, Entered
<1>2. CASE Refresh \/ ListReads \/ ListApplies
  <2>1. UNCHANGED <<ops, late, sent, took, lock, req>>
    BY <1>2 DEF Refresh, ListReads, ListApplies
  <2>2. DOMAIN loc' = Procs
    BY <1>2, <1>t DEF Refresh, ListReads, ListApplies, Goto
  <2>3. ASSUME NEW r \in Requests PROVE loc'[r] = loc[r]
    BY <1>2, <1>t DEF Refresh, ListReads, ListApplies, Goto
  <2> QED
    BY <1>t, <1>l, <2>1, <2>2, <2>3, QuietStep DEF Entered
<1>3. CASE RefreshScheduled
  <2>1. UNCHANGED <<ops, late, sent, took, req>> /\ lock = Nobody
    BY <1>3 DEF RefreshScheduled
  <2>2. DOMAIN loc' = Procs
    BY <1>3, <1>t DEF RefreshScheduled, Goto
  <2>3. ASSUME NEW r \in Requests PROVE loc'[r] = loc[r] /\ loc[r].pc \in {"idle", "wait"}
    <3>1. r # Nobody /\ r # "sched"
      OBVIOUS
    <3> QED
      BY <1>3, <1>t, <1>l, <2>1, <3>1 DEF RefreshScheduled, Goto
  <2> QED
    BY <1>t, <1>l, <2>1, <2>2, <2>3, QuietStep DEF Entered
<1>4. CASE Crash
  <2>1. UNCHANGED <<ops, late, sent, took>>
    BY <1>4 DEF Crash
  <2>2. DOMAIN loc' = Procs
    BY <1>4 DEF Crash
  <2>3. ASSUME NEW r \in Requests PROVE loc'[r].pc = "idle"
    BY <1>4, <1>t DEF Crash, Idle, Loc
  <2>4. req' \in [Requests -> [act : Acts, key : Keys \cup {NoKey}]]
    BY <1>4 DEF Crash, NoCall, Call, Acts
  <2> QED
    BY <2>1, <2>2, <2>3, <2>4, QuietStep DEF Entered
<1>5. ASSUME NEW r \in Requests, Submit(r) PROVE IInv'
  <2>1. PICK act \in AllActions, k \in Keys : req' = [req EXCEPT ![r] = Call(act, k)]
    BY <1>5 DEF Submit
  <2>2. req' \in [Requests -> [act : Acts, key : Keys \cup {NoKey}]] /\ req'[r].key \in Keys
    BY <1>t, <2>1 DEF Call, Acts
  <2>3. UNCHANGED <<ops, late, sent, took, lock>>
    BY <1>5 DEF Submit
  <2>4. DOMAIN loc' = Procs /\ loc'[r].pc = "wait"
    BY <1>5, <1>t DEF Submit, Goto, Loc
  <2>5. ASSUME NEW q \in Requests, q # r PROVE loc'[q] = loc[q] /\ req'[q] = req[q]
    BY <1>5, <1>t, <2>1, <2>5 DEF Submit, Goto
  <2>6. ASSUME NEW q \in Requests
        PROVE  /\ loc'[q].pc \in Writing => loc'[q].pc = loc[q].pc /\ req'[q] = req[q]
               /\ loc'[q].pc \notin {"idle", "wait"} => lock' = q
               /\ loc'[q].pc # "idle" => req'[q].key \in Keys
    BY <1>l, <2>2, <2>3, <2>4, <2>5
  <2> QED
    BY <2>2, <2>3, <2>4, <2>6, QuietStep DEF Entered
<1>6. ASSUME NEW r \in Requests, Begin(r) PROVE IInv'
  <2>1. CASE End(r)
    BY <1>t, <1>6, <2>1, QuietEnd DEF Begin
  <2>2. CASE FirstStage # "idle" /\ lock' = r /\ Goto(r, FirstStage) /\ UNCHANGED req
    <3>1. UNCHANGED <<ops, late, sent, took, req>> /\ lock = Nobody
      BY <1>6, <2>2 DEF Begin
    <3>2. DOMAIN loc' = Procs /\ loc'[r].pc \in {"head", "headOptional", "detail"}
      BY <1>t, <2>2, FirstStageNotWriting DEF Goto, Loc
    <3>3. ASSUME NEW q \in Requests, q # r
          PROVE  loc'[q] = loc[q] /\ loc[q].pc \in {"idle", "wait"}
      BY <1>t, <1>l, <2>2, <3>1, <3>3 DEF Goto
    <3>4. loc[r].pc = "wait"
      BY <1>6 DEF Begin
    <3>5. ASSUME NEW q \in Requests
          PROVE  /\ loc'[q].pc \in Writing => loc'[q].pc = loc[q].pc /\ req'[q] = req[q]
                 /\ loc'[q].pc \notin {"idle", "wait"} => lock' = q
                 /\ loc'[q].pc # "idle" => req'[q].key \in Keys
      <4>1. CASE q = r
        BY <1>l, <2>2, <3>1, <3>2, <3>4, <4>1
      <4>2. CASE q # r
        BY <1>l, <3>1, <3>3, <4>2
      <4> QED
        BY <4>1, <4>2
    <3> QED
      BY <1>t, <3>1, <3>2, <3>5, QuietStep DEF Entered
  <2> QED
    BY <1>6, <2>1, <2>2 DEF Begin
<1> QED
  BY <1>1, <1>2, <1>3, <1>4, <1>5, <1>6

\* The invariant is inductive.
LEMMA NextPreserves == IInv /\ [Next]_vars => IInv'
<1> SUFFICES ASSUME IInv, [Next]_vars PROVE IInv'
  OBVIOUS
<1>1. ASSUME NEW r \in Requests, Executing(r) PROVE IInv'
  BY <1>1, ExecutingPreserves
<1>2. ASSUME NEW p \in Procs, Refreshing(p) PROVE IInv'
  BY <1>2, RefreshingPreserves
<1>3. ASSUME NEW k \in Keys, Platform(k) PROVE IInv'
  BY <1>3, PlatformPreserves
<1> QED
  BY <1>1, <1>2, <1>3, OthersPreserve DEF Next

\* Whatever is retried, times out or crashes, the write of an operation is sent
\* at most once: the idempotency key is looked up under the order's lock and the
\* operation is committed before its write is sent.
THEOREM WritesAreSentOnce == Spec => []OneWritePerKey
<1>1. IInv => OneWritePerKey
  BY DEF IInv, Records, OneWritePerKey
<1> QED
  BY <1>1, InitIInv, NextPreserves, PTL DEF Spec

\* For any number of requests, lost answers and crashes, an operation recorded
\* as succeeded was done by the platform and one recorded as failed was not.
THEOREM OutcomesAreHonest == Spec => []OutcomeHonest
<1>1. IInv => OutcomeHonest
  BY DEF IInv
<1> QED
  BY <1>1, InitIInv, NextPreserves, PTL DEF Spec
-----------------------------------------------------------------------------
(* What the row shows after a success.                                     *)

Goals == Shipping \cup {"close_order"}
Final == {"shipped", "completed", "closed"}
RefundTexts == {"refunding", "refunded"}
SomeDone == \E k \in Keys : ops[k].status = "succeeded" /\ ops[k].act \in Goals

\* An operation is that of its request, and its action a known one.
Shape ==
    /\ plat \in Orders /\ "status" \in DOMAIN row
    /\ \A r \in Requests : loc[r].pc # "idle" => req[r].act \in AllActions
    /\ \A k \in Keys : ops[k].status # "none" => ops[k].act \in AllActions
    /\ \A r \in Requests : loc[r].pc \in Writing => ops[req[r].key].act = req[r].act

\* What was shipped or closed is never open again on the platform.
Effective == \A k \in Keys : took[k] # "no" /\ ops[k].act \in Goals => plat.status \notin Open

\* Who waits for nothing has no answer.
Heard ==
    \A p \in Procs :
       /\ loc[p].seen = NoAnswer \/ loc[p].seen.text \in Trade \cup {"unknown"} \cup RefundTexts
       /\ loc[p].pc \in {"idle", "wait"} => loc[p].seen = NoAnswer

\* The scheduler works under the lock, and who is not among the writers rests.
Resting ==
    /\ loc["sched"].pc # "idle" => lock = "sched"
    /\ \A p \in {"ui", "list"} : p \notin scn.writers => loc[p].pc = "idle"

\* Nobody hears of a refund that is never claimed.
NoRefund ==
    "claim" \notin scn.moves =>
       plat.refund = "none" /\ \A p \in Procs : loc[p].seen.text \notin RefundTexts

Frame == Shape /\ Effective /\ Heard /\ Resting /\ NoRefund

\* The row is not open, and stays so: either it is in a state that an older
\* answer does not replace, or all answers were given after the success.
Comparing ==
    /\ scn.writers \subseteq {"ui", "sched"}
    /\ "claim" \in scn.moves => "ui" \notin scn.writers
Kept ==
    SomeDone /\ Comparing =>
       /\ row.status \notin Open
       /\ "claim" \notin scn.moves => row.status \in Final
       /\ "ui" \notin scn.writers => \A p \in Procs : loc[p].seen.text \notin Open

LEMMA ProcNames ==
    /\ Requests \subseteq Procs /\ {"ui", "sched", "list"} \subseteq Procs
    /\ \A r \in Requests : r \notin {"ui", "sched", "list", Nobody}
BY DEF Procs

LEMMA NoAnswerText == NoAnswer.text = "none" /\ "none" \notin Open \cup RefundTexts
BY DEF NoAnswer, Open, RefundTexts

\* A step of one process that has entered, to a stage before the writing ones
\* or back to a refresh: the operations and the platform are not concerned.
LEMMA FrameGoto ==
    ASSUME IInv, Frame, NEW p \in Procs, NEW pc, NEW s, NEW v,
           loc' = [loc EXCEPT ![p] = Loc(pc, s, v)],
           loc[p].pc \notin {"idle", "wait"}, pc \notin {"idle", "wait"},
           \/ s = NoAnswer
           \/ /\ s.text \in Trade \cup {"unknown"} \cup RefundTexts
              /\ "claim" \notin scn.moves => s.text \notin RefundTexts,
           pc \in Writing => loc[p].pc \in Writing,
           "status" \in DOMAIN row',
           \A k \in Keys : ops'[k].act = ops[k].act /\ (ops'[k].status # "none" => ops[k].status # "none"),
           UNCHANGED <<plat, took, scn, req, lock>>
    PROVE  Frame'
<1> USE ProcNames
<1>1. /\ DOMAIN loc = Procs
      /\ loc'[p] = Loc(pc, s, v) /\ \A q \in Procs : q # p => loc'[q] = loc[q]
  BY DEF IInv, Types
<1>2. loc'[p].pc = pc /\ loc'[p].seen = s
  BY <1>1 DEF Loc
<1>3. Shape'
  <2>1. \A r \in Requests : loc[r].pc \in Writing => req[r].key \in Keys
    BY DEF IInv, Locking, Writing
  <2> QED BY <1>1, <1>2, <2>1 DEF Frame, Shape
<1>4. Effective'
  BY DEF Frame, Effective
<1>5. Heard'
  BY <1>1, <1>2 DEF Frame, Heard
<1>6. Resting'
  BY <1>1, <1>2 DEF Frame, Resting
<1>7. NoRefund'
  BY <1>1, <1>2, NoAnswerText DEF Frame, NoRefund
<1> QED BY <1>3, <1>4, <1>5, <1>6, <1>7 DEF Frame

\* A process returns. Its operation keeps its action.
LEMMA FrameEnd ==
    ASSUME IInv, Frame, NEW p \in Procs, End(p), "status" \in DOMAIN row',
           \A k \in Keys : ops'[k].act = ops[k].act /\ (ops'[k].status # "none" => ops[k].status # "none"),
           UNCHANGED <<plat, took, scn>>
    PROVE  Frame'
<1> USE ProcNames
<1>1. /\ DOMAIN loc = Procs
      /\ loc'[p] = Idle /\ \A q \in Procs : q # p => loc'[q] = loc[q]
  BY DEF IInv, Types, End
<1>2. loc'[p].pc = "idle" /\ loc'[p].seen = NoAnswer
  BY <1>1 DEF Idle, Loc
<1>3. \A r \in Requests : r # p => req'[r] = req[r]
  BY DEF End, Cleared
<1>4. Shape'
  <2>1. \A r \in Requests : loc[r].pc \in Writing => req[r].key \in Keys
    BY DEF IInv, Locking, Writing
  <2>2. ASSUME NEW r \in Requests, loc'[r].pc # "idle"
        PROVE  req'[r].act \in AllActions /\ (loc'[r].pc \in Writing => ops'[req'[r].key].act = req'[r].act)
    <3>1. r # p
      BY <1>2, <2>2
    <3> QED BY <1>1, <1>3, <2>1, <2>2, <3>1 DEF Frame, Shape
  <2>3. \A r \in Requests : loc'[r].pc \in Writing => loc'[r].pc # "idle"
    BY DEF Writing
  <2>4. \A k \in Keys : ops'[k].status # "none" => ops'[k].act \in AllActions
    BY DEF Frame, Shape
  <2> QED BY <2>2, <2>3, <2>4 DEF Frame, Shape
<1>5. Effective'
  BY DEF Frame, Effective
<1>6. Heard'
  BY <1>1, <1>2 DEF Frame, Heard
<1>7. Resting'
  <2>1. lock = "sched" /\ p # "sched" => lock' = "sched"
    BY DEF End, Released
  <2> QED BY <1>1, <1>2, <2>1 DEF Frame, Resting
<1>8. NoRefund'
  BY <1>1, <1>2, NoAnswerText DEF Frame, NoRefund
<1> QED BY <1>4, <1>5, <1>6, <1>7, <1>8 DEF Frame

\* Nothing is learnt, recorded or shown.
LEMMA KeptQuietly ==
    ASSUME Kept, UNCHANGED scn, SomeDone' => SomeDone, row'.status = row.status,
           \A p \in Procs : loc'[p].seen \in {loc[p].seen, NoAnswer}
    PROVE  Kept'
BY NoAnswerText DEF Kept, Comparing

LEMMA EndForgets ==
    ASSUME IInv, NEW p \in Procs, End(p)
    PROVE  \A q \in Procs : loc'[q].seen \in {loc[q].seen, NoAnswer}
BY DEF IInv, Types, End, Idle, Loc

LEMMA MoveForgets ==
    ASSUME IInv, NEW p \in Procs, NEW pc, NEW v, loc' = [loc EXCEPT ![p] = Loc(pc, NoAnswer, v)]
    PROVE  \A q \in Procs : loc'[q].seen \in {loc[q].seen, NoAnswer}
BY DEF IInv, Types, Loc

\* What a refresh writes: the text of its answer, unless that is unknown or
\* older than what the row shows.
LEMMA KeptByText ==
    ASSUME Frame, Kept, NEW p \in Procs, Answered(p), NEW kept \in BOOLEAN,
           row'.status = IF loc[p].seen.text = "unknown" \/ kept
                            \/ StaleDowngrade(row.status, loc[p].seen.text)
                         THEN row.status ELSE loc[p].seen.text,
           \A q \in Procs : loc'[q].seen \in {loc[q].seen, NoAnswer},
           UNCHANGED <<scn, ops>>
    PROVE  Kept'
<1> SUFFICES ASSUME SomeDone, Comparing
             PROVE  /\ row'.status \notin Open
                    /\ "claim" \notin scn.moves => row'.status \in Final
                    /\ "ui" \notin scn.writers => \A q \in Procs : loc'[q].seen.text \notin Open
  BY DEF Kept, SomeDone, Comparing
<1>1. /\ row.status \notin Open
      /\ "claim" \notin scn.moves => row.status \in Final
      /\ "ui" \notin scn.writers => \A q \in Procs : loc[q].seen.text \notin Open
  BY DEF Kept
<1>2. loc[p].seen.text \in Trade \cup {"unknown"} \cup RefundTexts
  BY DEF Frame, Heard, Answered
<1>3. "claim" \notin scn.moves => loc[p].seen.text \notin RefundTexts
  BY DEF Frame, NoRefund
<1>4. "claim" \notin scn.moves => row'.status \in Final
  BY <1>1, <1>2, <1>3 DEF StaleDowngrade, Trade, Open, Final
<1>5. row'.status \notin Open
  <2>1. CASE "claim" \notin scn.moves
    BY <1>4, <2>1 DEF Final, Open
  <2>2. CASE "ui" \notin scn.writers
    BY <1>1, <2>2
  <2> QED BY <2>1, <2>2 DEF Comparing
<1> QED BY <1>1, <1>4, <1>5, NoAnswerText

LEMMA RefreshingKeeps ==
    ASSUME IInv, Frame, Kept, NEW p \in Procs, Refreshing(p)
    PROVE  Frame' /\ Kept'
<1> USE ProcNames
<1>s. "status" \in DOMAIN row
  BY DEF Frame, Shape
<1>0. UNCHANGED <<plat, ops, took, scn>>
  BY DEF Refreshing, Answers, Fails, HeadApplies, DetailApplies, ShippingApplies,
         RefundApplies, OptionsApply, ReadRow, Decide
<1>d. SomeDone' => SomeDone
  BY <1>0 DEF SomeDone
<1>e. ASSUME End(p), "status" \in DOMAIN row' PROVE Frame'
  BY <1>0, <1>e, FrameEnd
<1>g. ASSUME NEW pc \in Asks \cup Reads \cup {"clear", "refreshed", "create"}, NEW v,
             loc' = [loc EXCEPT ![p] = Loc(pc, NoAnswer, v)],
             loc[p].pc \notin {"idle", "wait"}, UNCHANGED <<lock, req>>, "status" \in DOMAIN row'
      PROVE  Frame'
  <2>1. pc \notin {"idle", "wait"} /\ pc \notin Writing
    BY <1>g DEF Asks, Reads, Writing
  <2> QED BY <1>0, <1>g, <2>1, FrameGoto
<1>1. CASE Answers(p)
  <2>1. PICK text \in Texts(loc[p].pc) :
           loc' = [loc EXCEPT ![p] = Loc(loc[p].pc, [text |-> text, is |-> plat], loc[p].view)]
    BY <1>1 DEF Answers
  <2>2. UNCHANGED <<row, lock, req>> /\ loc[p].pc \in Asks
    BY <1>1 DEF Answers
  <2>3. loc[p].pc \notin {"idle", "wait"}
    BY <2>2 DEF Asks
  <2>4. plat \in Orders /\ plat.status \in Trade
    BY DEF Frame, Shape, Orders
  <2>5. text \in {plat.status, "unknown"} \cup RefundTexts
    BY DEF Texts, RefundTexts
  <2>6. "claim" \notin scn.moves => text \in {plat.status, "unknown"}
    BY DEF Texts, Frame, NoRefund
  <2> DEFINE s == [text |-> text, is |-> plat]
  <2>7. s.text = text
    OBVIOUS
  <2>8. plat.status \notin RefundTexts /\ "unknown" \notin RefundTexts
    BY <2>4 DEF RefundTexts, Trade, Open
  <2>9. loc' = [loc EXCEPT ![p] = Loc(loc[p].pc, s, loc[p].view)]
    BY <2>1
  <2> HIDE DEF s
  <2>10. /\ s.text \in Trade \cup {"unknown"} \cup RefundTexts
         /\ "claim" \notin scn.moves => s.text \notin RefundTexts
    BY <2>4, <2>5, <2>6, <2>7, <2>8
  <2>11. Frame'
    BY <1>0, <1>s, <2>2, <2>3, <2>9, <2>10, FrameGoto
  <2>12. Kept'
    <3> SUFFICES ASSUME SomeDone, Comparing
                 PROVE  /\ row'.status \notin Open
                        /\ "claim" \notin scn.moves => row'.status \in Final
                        /\ "ui" \notin scn.writers => \A q \in Procs : loc'[q].seen.text \notin Open
      BY <1>0 DEF Kept, SomeDone, Comparing
    <3>1. PICK k \in Keys : ops[k].status = "succeeded" /\ ops[k].act \in Goals
      BY DEF SomeDone
    <3>2. took[k] # "no"
      BY <3>1 DEF IInv, OutcomeHonest
    <3>3. plat.status \notin Open
      BY <3>1, <3>2 DEF Frame, Effective
    <3>4. text \notin Open
      BY <2>5, <3>3 DEF RefundTexts, Open
    <3>5. loc'[p].seen = s /\ \A q \in Procs : q # p => loc'[q] = loc[q]
      BY <2>9 DEF Loc, IInv, Types
    <3> QED BY <2>2, <2>7, <3>4, <3>5 DEF Kept
  <2> QED BY <2>11, <2>12
<1>2. CASE Fails(p)
  <2>0. UNCHANGED row
    BY <1>2 DEF Fails
  <2>1. CASE loc[p].pc = "headOptional" /\ Goto(p, "detail") /\ UNCHANGED <<lock, req, was>>
    <3>1. loc' = [loc EXCEPT ![p] = Loc("detail", NoAnswer, loc[p].view)]
      BY <2>1 DEF Goto
    <3>2. Frame'
      BY <1>g, <1>s, <2>0, <2>1, <3>1 DEF Asks
    <3> QED BY <1>0, <1>d, <2>0, <3>1, <3>2, MoveForgets, KeptQuietly
  <2>2. CASE End(p)
    BY <1>0, <1>d, <1>e, <1>s, <2>0, <2>2, EndForgets, KeptQuietly
  <2> QED BY <1>2, <2>1, <2>2 DEF Fails
<1>3. CASE HeadApplies(p)
  <2>1. /\ "status" \in DOMAIN row' /\ Answered(p) /\ loc[p].pc \notin {"idle", "wait"}
        /\ row'.status = IF loc[p].seen.text = "unknown" \/ row.listed
                            \/ StaleDowngrade(row.status, loc[p].seen.text)
                         THEN row.status ELSE loc[p].seen.text
    BY <1>3, <1>s DEF HeadApplies, HeadRow
  <2> DEFINE listed == IF row.listed THEN TRUE ELSE FALSE
  <2>2. /\ listed \in BOOLEAN
        /\ row'.status = IF loc[p].seen.text = "unknown" \/ listed
                            \/ StaleDowngrade(row.status, loc[p].seen.text)
                         THEN row.status ELSE loc[p].seen.text
    BY <2>1
  <2> HIDE DEF listed
  <2>3. CASE Goto(p, "detail") /\ UNCHANGED <<lock, req, was, faults>>
    <3>1. loc' = [loc EXCEPT ![p] = Loc("detail", NoAnswer, loc[p].view)]
      BY <2>3 DEF Goto
    <3>2. Frame'
      BY <1>g, <2>1, <2>3, <3>1 DEF Asks
    <3> QED BY <1>0, <2>1, <2>2, <3>1, <3>2, MoveForgets, KeptByText
  <2>4. CASE End(p)
    BY <1>0, <1>e, <2>1, <2>2, <2>4, EndForgets, KeptByText
  <2> QED BY <1>3, <2>3, <2>4 DEF HeadApplies
<1>4. CASE DetailApplies(p)
  <2>1. /\ "status" \in DOMAIN row' /\ Answered(p) /\ loc[p].pc \notin {"idle", "wait"}
        /\ row'.status = IF loc[p].seen.text = "unknown" \/ FALSE
                            \/ StaleDowngrade(row.status, loc[p].seen.text)
                         THEN row.status ELSE loc[p].seen.text
        /\ UNCHANGED <<lock, req>>
    BY <1>4, <1>s DEF DetailApplies, DetailRow
  <2>2. loc' = [loc EXCEPT ![p] = Loc("readDetail", NoAnswer, loc[p].view)]
    BY <1>4 DEF DetailApplies, Goto
  <2>3. Frame'
    BY <1>g, <2>1, <2>2 DEF Reads
  <2> QED BY <1>0, <2>1, <2>2, <2>3, MoveForgets, KeptByText
<1>5. CASE ShippingApplies(p) \/ RefundApplies(p) \/ OptionsApply(p)
  <2>1. /\ "status" \in DOMAIN row' /\ row'.status = row.status /\ UNCHANGED <<lock, req>>
        /\ loc[p].pc \notin {"idle", "wait"}
    BY <1>5, <1>s DEF ShippingApplies, RefundApplies, OptionsApply, RefundRow
  <2>2. PICK pc \in Reads : loc' = [loc EXCEPT ![p] = Loc(pc, NoAnswer, loc[p].view)]
    BY <1>5 DEF ShippingApplies, RefundApplies, OptionsApply, Goto, Reads
  <2>3. Frame'
    BY <1>g, <2>1, <2>2
  <2> QED BY <1>0, <1>d, <2>1, <2>2, <2>3, MoveForgets, KeptQuietly
<1>6. CASE ReadRow(p)
  <2>0. UNCHANGED row
    BY <1>6 DEF ReadRow
  <2>1. CASE /\ loc' = [loc EXCEPT ![p] = Loc(Branch(p), NoAnswer, row)]
             /\ UNCHANGED <<lock, req, was, faults>>
    <3>1. Branch(p) \in {"ship", "clear", "refund", "refreshed", "options"}
      BY <1>6 DEF ReadRow, Reads, Branch
    <3>2. loc[p].pc \notin {"idle", "wait"}
      BY <1>6 DEF ReadRow, Reads
    <3>3. Branch(p) \in Asks \cup Reads \cup {"clear", "refreshed", "create"}
      BY <3>1 DEF Asks
    <3>4. Frame'
      BY <1>g, <1>s, <2>0, <2>1, <3>2, <3>3
    <3> QED BY <1>0, <1>d, <2>0, <2>1, <3>4, MoveForgets, KeptQuietly
  <2>2. CASE End(p)
    BY <1>0, <1>d, <1>e, <1>s, <2>0, <2>2, EndForgets, KeptQuietly
  <2> QED BY <1>6, <2>1, <2>2 DEF ReadRow
<1>7. CASE Decide(p)
  <2>0. UNCHANGED row /\ loc[p].pc \notin {"idle", "wait"}
    BY <1>7 DEF Decide
  <2>1. CASE /\ UNCHANGED <<lock, req, was>>
             /\ \E pc \in {"check", "create"} : loc' = [loc EXCEPT ![p] = Loc(pc, NoAnswer, NoView)]
    <3>1. PICK pc \in {"check", "create"} : loc' = [loc EXCEPT ![p] = Loc(pc, NoAnswer, NoView)]
      BY <2>1
    <3>2. Frame'
      BY <1>g, <1>s, <2>0, <2>1, <3>1 DEF Asks
    <3> QED BY <1>0, <1>d, <2>0, <3>1, <3>2, MoveForgets, KeptQuietly
  <2>2. CASE End(p)
    BY <1>0, <1>d, <1>e, <1>s, <2>0, <2>2, EndForgets, KeptQuietly
  <2> QED BY <1>7, <2>1, <2>2 DEF Decide
<1> QED BY <1>1, <1>2, <1>3, <1>4, <1>5, <1>6, <1>7 DEF Refreshing

LEMMA ExecutingKeeps ==
    ASSUME IInv, Frame, Kept, NEW r \in Requests, Executing(r)
    PROVE  Frame' /\ Kept'
<1> DEFINE k == req[r].key
<1> USE ProcNames
<1>s. "status" \in DOMAIN row
  BY DEF Frame, Shape
<1>0. UNCHANGED <<plat, took, scn>>
  BY DEF Executing, ValidateRefuse, Create, Write, TimesOut, FinishSucceeded, FinishBroken,
         FinishError, MergeRaises
<1>t. /\ loc[r].pc \notin {"idle", "wait"} /\ Entered(r) /\ lock = r
      /\ k \in Keys /\ req[r].act \in AllActions
      /\ ops \in [Keys -> [act : Acts, status : OpStatus]] /\ DOMAIN loc = Procs
  BY DEF Executing, ValidateRefuse, Create, Write, TimesOut, FinishSucceeded, FinishBroken,
         FinishError, MergeRaises, IInv, Locking, Entered, Types, Frame, Shape
<1>f. ASSUME NEW status \in OpStatus, Finished(k, status), loc[r].pc \in Writing
      PROVE  /\ \A j \in Keys : ops'[j].act = ops[j].act
                                /\ (ops'[j].status # "none" => ops[j].status # "none")
             /\ ops'[k].status = status /\ \A j \in Keys : j # k => ops'[j] = ops[j]
  <2>1. ops[k].status = "processing"
    BY <1>f DEF IInv, Operations
  <2> QED BY <1>t, <1>f, <2>1 DEF Finished, Op
<1>1. CASE UNCHANGED <<row, ops>> /\ End(r)
  <2>1. SomeDone' => SomeDone
    BY <1>1 DEF SomeDone
  <2> QED BY <1>0, <1>1, <1>s, <2>1, FrameEnd, EndForgets, KeptQuietly
<1>2. CASE /\ UNCHANGED <<row, ops, lock, req>>
           /\ \E pc \in {"create", "sent", "bad", "unsure"} :
                 Goto(r, pc) /\ (pc # "create" => loc[r].pc \in Writing)
  <2>1. PICK pc \in {"create", "sent", "bad", "unsure"} :
           /\ loc' = [loc EXCEPT ![r] = Loc(pc, NoAnswer, loc[r].view)]
           /\ pc # "create" => loc[r].pc \in Writing
    BY <1>2 DEF Goto
  <2>2. pc \in Writing => loc[r].pc \in Writing
    BY <2>1 DEF Writing
  <2>3. Frame'
    BY <1>0, <1>2, <1>s, <1>t, <2>1, <2>2, FrameGoto
  <2>4. SomeDone' => SomeDone
    BY <1>2 DEF SomeDone
  <2> QED BY <1>0, <1>2, <2>1, <2>3, <2>4, MoveForgets, KeptQuietly
<1>3. CASE ValidateRefuse(r)
  BY <1>1, <1>2, <1>3 DEF ValidateRefuse
<1>4. CASE Create(r)
  <2>1. CASE End(r) /\ UNCHANGED ops
    BY <1>1, <1>4, <2>1 DEF Create
  <2>2. CASE /\ ~Existing(k)
             /\ ops' = [ops EXCEPT ![k] = Op(req[r].act, "processing")]
             /\ Goto(r, "write")
             /\ UNCHANGED <<lock, req, was>>
    <3>1. /\ ops'[k].act = req[r].act /\ ops'[k].status = "processing"
          /\ \A j \in Keys : j # k => ops'[j] = ops[j]
      BY <1>t, <2>2 DEF Op
    <3>2. loc' = [loc EXCEPT ![r] = Loc("write", NoAnswer, loc[r].view)]
      BY <2>2 DEF Goto
    <3>3. /\ loc'[r].pc = "write" /\ loc'[r].seen = NoAnswer
          /\ \A q \in Procs : q # r => loc'[q] = loc[q]
      BY <1>t, <3>2 DEF Loc
    <3>4. UNCHANGED row
      BY <1>4 DEF Create
    <3>5. \A q \in Requests : q # r => loc[q].pc \in {"idle", "wait"}
      BY <1>t, OneEntered
    <3>6. Shape'
      BY <1>0, <1>t, <2>2, <3>1, <3>3, <3>4, <3>5 DEF Frame, Shape, Writing
    <3>7. took[k] = "no"
      BY <1>t, <2>2 DEF Existing, IInv, Records, Unsent
    <3>8. Effective'
      BY <1>0, <3>1, <3>7 DEF Frame, Effective
    <3>9. Heard' /\ Resting'
      BY <1>0, <2>2, <3>3 DEF Frame, Heard, Resting
    <3>10. NoRefund'
      BY <1>0, <3>3, NoAnswerText DEF Frame, NoRefund
    <3>11. SomeDone' => SomeDone
      BY <3>1 DEF SomeDone
    <3> QED BY <1>0, <3>2, <3>4, <3>6, <3>8, <3>9, <3>10, <3>11, MoveForgets, KeptQuietly
            DEF Frame
  <2> QED BY <1>4, <2>1, <2>2 DEF Create
<1>5. CASE Write(r) \/ TimesOut(r)
  BY <1>2, <1>5 DEF Write, TimesOut, Writing
<1>6. CASE FinishSucceeded(r)
  <2>1. Finished(k, "succeeded") /\ loc[r].pc = "ok" /\ row' = RowAfter(req[r].act)
    BY <1>6 DEF FinishSucceeded
  <2>2. loc[r].pc \in Writing
    BY <2>1 DEF Writing
  <2>3. /\ \A j \in Keys : ops'[j].act = ops[j].act
                           /\ (ops'[j].status # "none" => ops[j].status # "none")
        /\ \A j \in Keys : j # k => ops'[j] = ops[j]
    BY <1>f, <2>1, <2>2 DEF OpStatus
  <2>4. "status" \in DOMAIN row' /\ row'.status = IF req[r].act \in Goals
                                                  THEN row'.status ELSE row.status
    BY <1>s, <1>t, <2>1 DEF RowAfter, AllActions, Goals
  <2>5. req[r].act \in Goals => row'.status \in Final
    BY <1>s, <2>1 DEF RowAfter, Shipping, Goals, Final
  <2>6. Frame' /\ loc'[r].seen = NoAnswer /\ \A q \in Procs : q # r => loc'[q] = loc[q]
    <3>1. CASE End(r)
      BY <1>0, <1>t, <2>3, <2>4, <3>1, FrameEnd DEF End, Idle, Loc
    <3>2. CASE FirstStage # "idle" /\ Goto(r, FirstStage) /\ UNCHANGED <<lock, req, was>>
      <4>1. FirstStage \notin {"idle", "wait"} /\ FirstStage \notin Writing
        BY <3>2, FirstStageNotWriting DEF Writing
      <4>2. PICK pc : pc = FirstStage
        OBVIOUS
      <4>3. loc' = [loc EXCEPT ![r] = Loc(pc, NoAnswer, loc[r].view)]
        BY <3>2, <4>2 DEF Goto
      <4>4. Frame'
        BY <1>0, <1>t, <2>3, <2>4, <3>2, <4>1, <4>2, <4>3, FrameGoto
      <4> QED BY <1>t, <4>3, <4>4 DEF Loc
    <3> QED BY <1>6, <3>1, <3>2 DEF FinishSucceeded
  <2>7. Kept'
    <3> SUFFICES ASSUME SomeDone', Comparing
                 PROVE  /\ row'.status \notin Open
                        /\ "claim" \notin scn.moves => row'.status \in Final
                        /\ "ui" \notin scn.writers => \A q \in Procs : loc'[q].seen.text \notin Open
      BY <1>0 DEF Kept, Comparing
    <3>1. ASSUME "ui" \notin scn.writers, NEW q \in Procs PROVE loc'[q].seen.text \notin Open
      <4>1. CASE q = r
        BY <2>6, <4>1, NoAnswerText
      <4>2. CASE q \in Requests /\ q # r
        <5>1. loc[q].pc \in {"idle", "wait"}
          BY <1>t, <4>2, OneEntered
        <5> QED BY <2>6, <4>2, <5>1, NoAnswerText DEF Frame, Heard
      <4>3. CASE q \in {"ui", "sched", "list"}
        <5>1. loc[q].pc = "idle"
          BY <1>t, <3>1, <4>3 DEF Frame, Resting, Comparing
        <5> QED BY <2>6, <4>3, <5>1, NoAnswerText DEF Frame, Heard
      <4> QED BY <4>1, <4>2, <4>3 DEF Procs
    <3>2. CASE req[r].act \in Goals
      BY <2>5, <3>1, <3>2 DEF Final, Open
    <3>3. CASE req[r].act \notin Goals
      <4>1. ops[k].act = req[r].act
        BY <2>2 DEF Frame, Shape
      <4>2. SomeDone
        BY <2>3, <3>3, <4>1 DEF SomeDone
      <4> QED BY <2>4, <3>1, <3>3, <4>2 DEF Kept
    <3> QED BY <3>2, <3>3
  <2> QED BY <2>6, <2>7
<1>7. CASE FinishBroken(r) \/ FinishError(r)
  <2>1. PICK status \in {"failed", "uncertain"} : Finished(k, status)
    BY <1>7 DEF FinishBroken, FinishError
  <2>2. loc[r].pc \in Writing /\ End(r) /\ UNCHANGED row
    BY <1>7 DEF FinishBroken, FinishError, Writing
  <2>3. /\ \A j \in Keys : ops'[j].act = ops[j].act
                           /\ (ops'[j].status # "none" => ops[j].status # "none")
        /\ ops'[k].status = status /\ \A j \in Keys : j # k => ops'[j] = ops[j]
    BY <1>f, <2>1, <2>2 DEF OpStatus
  <2>4. SomeDone' => SomeDone
    BY <2>3 DEF SomeDone
  <2> QED BY <1>0, <1>s, <2>2, <2>3, <2>4, FrameEnd, EndForgets, KeptQuietly
<1>8. CASE MergeRaises(r)
  BY <1>1, <1>8 DEF MergeRaises
<1> QED BY <1>3, <1>4, <1>5, <1>6, <1>7, <1>8 DEF Executing

\* The platform changes the order, and answers those who wait for their write.
LEMMA PlatformKeeps ==
    ASSUME IInv, Frame, Kept, NEW k \in Keys, Platform(k)
    PROVE  Frame' /\ Kept'
<1> USE ProcNames
<1>0. UNCHANGED <<row, ops, lock, req, scn>> /\ k \in late
  BY DEF Platform, PlatformTakes, PlatformKnows, PlatformRejects
<1>1. PICK pc \in {"ok", "bad"} : Reply(k, pc)
  BY DEF Platform, PlatformTakes, PlatformKnows, PlatformRejects, Reply
<1>2. ASSUME NEW p \in Procs
      PROVE  \/ loc'[p] = loc[p]
             \/ /\ p \in Requests /\ loc[p].pc = "sent"
                /\ loc'[p].pc = pc /\ loc'[p].seen = NoAnswer
  BY <1>1 DEF Reply, Loc, IInv, Types
<1>3. plat \in Orders /\ took \in [Keys -> {"no", "yes", "already"}]
  BY DEF Frame, Shape, IInv, Types
<1>4. ops[k].act \in AllActions
  BY <1>0 DEF IInv, Records, Unsent, Frame, Shape
<1>5. /\ plat' \in Orders
      /\ plat.status \notin Open => plat'.status \notin Open
      /\ plat.refund = "none" => plat'.refund = "none"
      /\ took'[k] # "no" /\ ops[k].act \in Goals => plat'.status \notin Open
      /\ \A j \in Keys : j # k => took'[j] = took[j]
  <2>1. CASE PlatformTakes(k)
    <3>1. plat' = Effect(plat, ops[k].act) /\ Grants(plat, ops[k].act)
          /\ took' = [took EXCEPT ![k] = "yes"]
      BY <2>1 DEF PlatformTakes
    <3>2. CASE ops[k].act \in Shipping
      BY <1>3, <3>1, <3>2 DEF Effect, Orders, Trade, Open, Shipping, Goals
    <3>3. CASE ops[k].act = "close_order"
      BY <1>3, <3>1, <3>3 DEF Effect, Orders, Trade, Open, Shipping, Goals
    <3>4. CASE ops[k].act = "rate_buyer"
      BY <1>3, <3>1, <3>4 DEF Effect, Orders, Trade, Open, Shipping, Goals
    <3>5. CASE ops[k].act = "refuse_refund"
      <4>1. plat.refund = "pending"
        BY <3>1, <3>5 DEF Grants, RefundGrants, Shipping
      <4> QED BY <1>3, <3>1, <3>5, <4>1 DEF Effect, Orders, Trade, Open, Shipping, Goals
    <3> QED BY <1>4, <3>2, <3>3, <3>4, <3>5 DEF AllActions
  <2>2. CASE PlatformKnows(k)
    BY <1>3, <2>2 DEF PlatformKnows, AlreadyShipped, Open
  <2>3. CASE PlatformRejects(k)
    BY <1>0, <1>3, <2>3 DEF PlatformRejects, IInv, Records
  <2> QED BY <2>1, <2>2, <2>3 DEF Platform
<1>6. Shape'
  <2>1. ASSUME NEW r \in Requests, loc'[r].pc # "idle"
        PROVE  req'[r].act \in AllActions /\ (loc'[r].pc \in Writing => ops'[req'[r].key].act = req'[r].act)
    BY <1>0, <1>2, <2>1 DEF Frame, Shape, Writing
  <2>2. \A r \in Requests : loc'[r].pc \in Writing => loc'[r].pc # "idle"
    BY DEF Writing
  <2> QED BY <1>0, <1>5, <2>1, <2>2 DEF Frame, Shape
<1>7. Effective'
  BY <1>0, <1>5 DEF Frame, Effective
<1>8. Heard'
  BY <1>2 DEF Frame, Heard
<1>9. Resting'
  BY <1>0, <1>2 DEF Frame, Resting
<1>10. NoRefund'
  BY <1>0, <1>2, <1>5, NoAnswerText DEF Frame, NoRefund
<1>11. \A p \in Procs : loc'[p].seen \in {loc[p].seen, NoAnswer}
  BY <1>2
<1>12. SomeDone' => SomeDone
  BY <1>0 DEF SomeDone
<1> QED BY <1>0, <1>6, <1>7, <1>8, <1>9, <1>10, <1>11, <1>12, KeptQuietly DEF Frame

\* The order moves on the platform: what is not open stays so, and without a
\* claim there is no refund.
LEMMA MoveIsForward ==
    ASSUME plat \in Orders, NEW move \in AllMoves, CanMove(plat, move), plat' = Move(plat, move)
    PROVE  /\ plat' \in Orders
           /\ plat.status \notin Open => plat'.status \notin Open
           /\ plat.refund = "none" /\ move # "claim" => plat'.refund = "none"
<1> USE DEF Orders, Trade, Open
<1>1. CASE move = "pay"
  BY <1>1 DEF CanMove, Move
<1>2. CASE move = "deliver"
  BY <1>2 DEF CanMove, Move
<1>3. CASE move = "receive"
  BY <1>3 DEF CanMove, Move
<1>4. CASE move = "cancel"
  BY <1>4 DEF CanMove, Move
<1>5. CASE move = "claim"
  BY <1>5 DEF CanMove, Move
<1>6. CASE move = "agree"
  BY <1>6 DEF CanMove, Move
<1> QED BY <1>1, <1>2, <1>3, <1>4, <1>5, <1>6 DEF AllMoves

LEMMA OthersKeep ==
    ASSUME IInv, Frame, Kept, scn \in Scenarios,
           \/ PlatformMoves \/ Refresh \/ RefreshScheduled \/ ListReads \/ ListApplies
           \/ MessageArrives \/ Crash \/ UNCHANGED vars
           \/ \E r \in Requests : Submit(r) \/ Begin(r)
    PROVE  Frame' /\ Kept'
<1> USE ProcNames
<1>t. /\ DOMAIN loc = Procs /\ "status" \in DOMAIN row
      /\ plat \in Orders /\ plat.status \in Trade
  BY DEF IInv, Types, Frame, Shape, Orders
<1>1. CASE PlatformMoves
  <2>1. PICK move \in AllMoves :
           move \in scn.moves /\ CanMove(plat, move) /\ plat' = Move(plat, move)
    BY <1>1, ScenariosAssumption DEF PlatformMoves
  <2>2. UNCHANGED <<row, ops, lock, loc, req, took, scn>>
    BY <1>1 DEF PlatformMoves
  <2>3. /\ plat' \in Orders
        /\ plat.status \notin Open => plat'.status \notin Open
        /\ "claim" \notin scn.moves /\ plat.refund = "none" => plat'.refund = "none"
    BY <1>t, <2>1, MoveIsForward
  <2>4. Shape' /\ Effective' /\ Heard' /\ Resting' /\ NoRefund'
    BY <2>2, <2>3 DEF Frame, Shape, Effective, Heard, Resting, NoRefund
  <2> QED BY <2>2, <2>4 DEF Frame, Kept, SomeDone, Comparing
<1>2. CASE UNCHANGED vars
  BY <1>2 DEF vars, Frame, Shape, Effective, Heard, Resting, NoRefund, Kept, SomeDone, Comparing
<1>3. CASE MessageArrives
  <2>1. UNCHANGED <<plat, ops, lock, loc, req, took, scn>> /\ "message" \in scn.writers
    BY <1>3 DEF MessageArrives
  <2>2. "status" \in DOMAIN row'
    BY <1>3, <1>t DEF MessageArrives
  <2>3. Shape' /\ Effective' /\ Heard' /\ Resting' /\ NoRefund'
    BY <2>1, <2>2 DEF Frame, Shape, Effective, Heard, Resting, NoRefund
  <2>4. ~Comparing'
    BY <2>1 DEF Comparing
  <2> QED BY <2>3, <2>4 DEF Frame, Kept
<1>4. CASE ListReads \/ ListApplies
  <2>1. UNCHANGED <<plat, ops, lock, req, took, scn>>
    BY <1>4 DEF ListReads, ListApplies
  <2>2. "status" \in DOMAIN row'
    BY <1>4, <1>t DEF ListReads, ListApplies, ListRow
  <2>3. "list" \in scn.writers
    BY <1>4 DEF ListReads, ListApplies, Frame, Resting
  <2>4. PICK l : loc' = [loc EXCEPT !["list"] = l]
    BY <1>4 DEF ListReads, ListApplies
  <2>5. /\ l.seen = NoAnswer \/ (l.pc = "list" /\ l.seen.text \in {plat.status, "unknown"})
    <3>1. CASE ListReads
      <4>1. PICK text \in ListTexts :
               loc' = [loc EXCEPT !["list"] = Loc("list", [text |-> text, is |-> plat], NoView)]
        BY <3>1 DEF ListReads
      <4>2. loc'["list"] = l /\ loc'["list"] = Loc("list", [text |-> text, is |-> plat], NoView)
        BY <1>t, <2>4, <4>1
      <4>3. text \in {plat.status, "unknown"}
        BY DEF ListTexts
      <4> QED BY <4>2, <4>3 DEF Loc
    <3>2. CASE ListApplies
      <4>1. loc'["list"] = l /\ loc'["list"] = Idle
        BY <1>t, <2>4, <3>2 DEF ListApplies
      <4> QED BY <4>1 DEF Idle, Loc
    <3> QED BY <1>4, <3>1, <3>2
  <2>6. loc'["list"] = l /\ \A p \in Procs : p # "list" => loc'[p] = loc[p]
    BY <1>t, <2>4
  <2>7. l.seen.text \notin RefundTexts
    BY <1>t, <2>5, NoAnswerText DEF RefundTexts, Trade, Open
  <2>8. Shape' /\ Effective'
    BY <2>1, <2>2, <2>6 DEF Frame, Shape, Effective
  <2>9. Heard' /\ Resting'
    BY <1>t, <2>1, <2>3, <2>5, <2>6 DEF Frame, Heard, Resting
  <2>10. NoRefund'
    BY <2>1, <2>6, <2>7 DEF Frame, NoRefund
  <2>11. ~Comparing'
    BY <2>1, <2>3 DEF Comparing
  <2> QED BY <2>8, <2>9, <2>10, <2>11 DEF Frame, Kept
<1>5. CASE Crash
  <2>1. UNCHANGED <<plat, row, ops, took, scn>>
    BY <1>5 DEF Crash
  <2>2. \A p \in Procs : loc'[p] = IF p = "list" THEN loc[p] ELSE Idle
    BY <1>5 DEF Crash
  <2>3. Idle.pc = "idle" /\ Idle.seen = NoAnswer
    BY DEF Idle, Loc
  <2>4. Shape' /\ Effective'
    BY <2>1, <2>2, <2>3 DEF Frame, Shape, Effective, Writing
  <2>5. Heard' /\ Resting'
    BY <2>1, <2>2, <2>3 DEF Frame, Heard, Resting
  <2>6. NoRefund'
    BY <2>1, <2>2, <2>3, NoAnswerText DEF Frame, NoRefund
  <2>7. SomeDone' => SomeDone
    BY <2>1 DEF SomeDone
  <2> QED BY <2>1, <2>2, <2>3, <2>4, <2>5, <2>6, <2>7, KeptQuietly DEF Frame
<1>6. ASSUME NEW p \in Procs, NEW pc \in {"wait", "head", "headOptional", "detail"}, NEW v,
             loc' = [loc EXCEPT ![p] = Loc(pc, NoAnswer, v)],
             p = "sched" => lock' = "sched", lock = "sched" => lock' = "sched",
             p \in {"ui", "list"} => p \in scn.writers,
             p \in Requests => req'[p].act \in AllActions,
             \A q \in Requests : q # p => req'[q] = req[q],
             UNCHANGED <<plat, row, ops, took, scn>>
      PROVE  Frame' /\ Kept'
  <2>1. /\ loc'[p].pc = pc /\ loc'[p].seen = NoAnswer
        /\ \A q \in Procs : q # p => loc'[q] = loc[q]
    BY <1>t, <1>6 DEF Loc
  <2>2. pc \notin Writing /\ pc # "idle"
    BY <1>6 DEF Writing
  <2>3. Shape' /\ Effective'
    BY <1>6, <2>1, <2>2 DEF Frame, Shape, Effective
  <2>4. Heard' /\ Resting'
    BY <1>6, <2>1, <2>2 DEF Frame, Heard, Resting
  <2>5. NoRefund'
    BY <1>6, <2>1, NoAnswerText DEF Frame, NoRefund
  <2>6. SomeDone' => SomeDone
    BY <1>6 DEF SomeDone
  <2> QED BY <1>6, <2>1, <2>3, <2>4, <2>5, <2>6, KeptQuietly DEF Frame
<1>7. CASE Refresh \/ RefreshScheduled
  <2>1. PICK p \in {"ui", "sched"} :
           /\ loc' = [loc EXCEPT ![p] = Loc(FirstStage, NoAnswer, loc[p].view)]
           /\ p = "sched" => lock' = "sched"
           /\ p = "ui" => "ui" \in scn.writers /\ UNCHANGED lock
    BY <1>7 DEF Refresh, RefreshScheduled, Goto
  <2>2. FirstStage # "idle" /\ UNCHANGED <<plat, row, ops, req, took, scn>>
    BY <1>7 DEF Refresh, RefreshScheduled
  <2>3. PICK pc \in {"wait", "head", "headOptional", "detail"} : pc = FirstStage
    BY <2>2, FirstStageNotWriting
  <2> QED BY <1>6, <2>1, <2>2, <2>3
<1>8. ASSUME NEW r \in Requests, Submit(r) PROVE Frame' /\ Kept'
  <2>1. PICK act \in AllActions, k \in Keys : req' = [req EXCEPT ![r] = Call(act, k)]
    BY <1>8 DEF Submit
  <2>2. req'[r].act \in AllActions /\ \A q \in Requests : q # r => req'[q] = req[q]
    BY <2>1 DEF Call, IInv, Types
  <2>3. /\ loc' = [loc EXCEPT ![r] = Loc("wait", NoAnswer, loc[r].view)]
        /\ UNCHANGED <<plat, row, ops, lock, took, scn>>
    BY <1>8 DEF Submit, Goto
  <2> QED BY <1>6, <2>2, <2>3
<1>9. ASSUME NEW r \in Requests, Begin(r) PROVE Frame' /\ Kept'
  <2>0. UNCHANGED <<plat, row, ops, took, scn>> /\ lock = Nobody /\ loc[r].pc = "wait"
    BY <1>9 DEF Begin
  <2>1. CASE End(r)
    <3>1. SomeDone' => SomeDone
      BY <2>0 DEF SomeDone
    <3> QED BY <1>t, <2>0, <2>1, <3>1, FrameEnd, EndForgets, KeptQuietly
  <2>2. CASE FirstStage # "idle" /\ Goto(r, FirstStage) /\ UNCHANGED req
    <3>1. loc' = [loc EXCEPT ![r] = Loc(FirstStage, NoAnswer, loc[r].view)]
      BY <2>2 DEF Goto
    <3>2. PICK pc \in {"wait", "head", "headOptional", "detail"} : pc = FirstStage
      BY <2>2, FirstStageNotWriting
    <3>3. req[r].act \in AllActions
      BY <2>0 DEF Frame, Shape
    <3>4. lock # "sched"
      BY <2>0 DEF Nobody
    <3> QED BY <1>6, <2>0, <2>2, <3>1, <3>2, <3>3, <3>4
  <2> QED BY <1>9, <2>1, <2>2 DEF Begin
<1> QED BY <1>1, <1>2, <1>3, <1>4, <1>5, <1>7, <1>8, <1>9

LEMMA InitKeeps == Init => Frame /\ Kept /\ scn \in Scenarios
<1> SUFFICES ASSUME Init PROVE Frame /\ Kept /\ scn \in Scenarios
  OBVIOUS
<1> USE ProcNames
<1>1. \A p \in Procs : loc[p].pc = "idle" /\ loc[p].seen = NoAnswer
  BY DEF Init, Idle, Loc
<1>2. \A k \in Keys : ops[k].status = "none" /\ took[k] = "no"
  BY DEF Init, NoOp, Op
<1>3. plat \in Orders /\ plat.refund = "none"
  BY DEF Init, Order, Orders, Trade, Open
<1>4. "status" \in DOMAIN row
  BY DEF Init, Row
<1>5. Shape /\ Effective
  BY <1>1, <1>2, <1>3, <1>4 DEF Shape, Effective, Writing
<1>6. Heard /\ Resting
  BY <1>1 DEF Heard, Resting
<1>7. NoRefund
  BY <1>1, <1>3, NoAnswerText DEF NoRefund
<1>8. Kept
  BY <1>2 DEF Kept, SomeDone
<1> QED BY <1>5, <1>6, <1>7, <1>8 DEF Frame, Init

\* A behaviour keeps its scenario.
LEMMA ScenarioStays == [Next]_vars => UNCHANGED scn
<1> SUFFICES ASSUME [Next]_vars PROVE UNCHANGED scn
  OBVIOUS
<1>1. ASSUME NEW r \in Requests, Submit(r) \/ Begin(r) \/ Executing(r) PROVE UNCHANGED scn
  BY <1>1 DEF Submit, Begin, Executing, ValidateRefuse, Create, Write, TimesOut,
              FinishSucceeded, FinishBroken, FinishError, MergeRaises
<1>2. ASSUME NEW p \in Procs, Refreshing(p) PROVE UNCHANGED scn
  BY <1>2 DEF Refreshing, Answers, Fails, HeadApplies, DetailApplies, ShippingApplies,
              RefundApplies, OptionsApply, ReadRow, Decide
<1>3. ASSUME NEW k \in Keys, Platform(k) PROVE UNCHANGED scn
  BY <1>3 DEF Platform, PlatformTakes, PlatformKnows, PlatformRejects
<1>4. CASE PlatformMoves \/ Refresh \/ RefreshScheduled \/ ListReads \/ ListApplies
           \/ MessageArrives \/ Crash \/ UNCHANGED vars
  BY <1>4 DEF PlatformMoves, Refresh, RefreshScheduled, ListReads, ListApplies,
              MessageArrives, Crash, vars
<1> QED BY <1>1, <1>2, <1>3, <1>4 DEF Next

LEMMA NextKeeps ==
    IInv /\ Frame /\ Kept /\ scn \in Scenarios /\ [Next]_vars
       => Frame' /\ Kept' /\ (scn \in Scenarios)'
<1> SUFFICES ASSUME IInv, Frame, Kept, scn \in Scenarios, [Next]_vars
             PROVE  Frame' /\ Kept'
  BY ScenarioStays
<1>1. ASSUME NEW r \in Requests, Executing(r) PROVE Frame' /\ Kept'
  BY <1>1, ExecutingKeeps
<1>2. ASSUME NEW p \in Procs, Refreshing(p) PROVE Frame' /\ Kept'
  BY <1>2, RefreshingKeeps
<1>3. ASSUME NEW k \in Keys, Platform(k) PROVE Frame' /\ Kept'
  BY <1>3, PlatformKeeps
<1> QED BY <1>1, <1>2, <1>3, OthersKeep DEF Next

\* After an operation has shipped or closed the order, no refresh shows it as
\* waiting again: a shipped, completed or closed row is not replaced by an older
\* answer, and under the lock there is no older answer.
THEOREM SuccessesStayShown == Spec => []SuccessStaysShown
<1>1. IInv /\ Kept => SuccessStaysShown
  BY DEF Kept, SomeDone, Comparing, Goals, SuccessStaysShown
<1>2. Init => IInv /\ Frame /\ Kept /\ scn \in Scenarios
  BY InitIInv, InitKeeps
<1>3. /\ IInv /\ Frame /\ Kept /\ scn \in Scenarios
      /\ [Next]_vars
      => (IInv /\ Frame /\ Kept /\ scn \in Scenarios)'
  BY NextPreserves, NextKeeps
<1> QED BY <1>1, <1>2, <1>3, PTL DEF Spec

-----------------------------------------------------------------------------
(* What a preflight knows of the order.                                    *)

\* An order that is looked at only under its lock, of which headinfo is known or
\* is asked for and answered, and whose texts the program can read.
Attended ==
    /\ scn.writers \subseteq {"sched"} /\ ~scn.unreadable
    /\ row.head \/ (scn.conversation /\ scn.faults = 0)

RowFields == {"status", "refund", "caps", "refusable", "head"}
AfterDetail == {"readDetail", "ship", "clear", "readShipping", "refund", "readRefund",
                "options", "readOptions"}
AfterHead == AfterDetail \cup {"detail"}
AfterRefund == {"readRefund", "options", "readOptions"}

\* What a row that was written from answers in W says of the order.
HeadSays(o, W) ==
    /\ o.head
    /\ "RATE" \in o.caps => \E w \in W : w.status = "completed" /\ ~w.rated
    /\ o.refund # "pending" => \E w \in W : w.refund # "pending"
DetailSays(o, W) ==
    /\ o.status = "paid_waiting_delivery" => \E w \in W : w.status = "paid_waiting_delivery"
    /\ o.status \in Open => \E w \in W : w.status \in Open
RefundSays(o, W) == o.refusable => \E w \in W : w.refund = "pending"
Granted(act, W) == (\E w \in W : TradeGrants(w, act)) /\ (\E w \in W : RefundGrants(w, act))

\* A request that has the lock knows the order from answers since it began.
Looks(r) ==
    Entered(r) =>
       /\ plat \in was[r]
       /\ loc[r].pc = "headOptional" => scn.faults = 0
       /\ loc[r].pc \in Asks /\ Answered(r) =>
             /\ loc[r].seen.is \in was[r]
             /\ loc[r].seen.text \in Open => loc[r].seen.text = loc[r].seen.is.status
             /\ loc[r].seen.text # "unknown"
       /\ loc[r].pc \in AfterHead => HeadSays(row, was[r])
       /\ loc[r].pc \in AfterDetail => DetailSays(row, was[r])
       /\ loc[r].pc \in AfterRefund => RefundSays(row, was[r])
       /\ loc[r].pc = "refreshed" =>
             /\ HeadSays(loc[r].view, was[r]) /\ DetailSays(loc[r].view, was[r])
             /\ loc[r].view.refund = "pending" => RefundSays(loc[r].view, was[r])
       /\ loc[r].pc \in {"check", "create", "write"} => Granted(req[r].act, was[r])
Looking ==
    /\ RowFields \subseteq DOMAIN row /\ faults \in Nat /\ DOMAIN was = Requests
    /\ \A r \in Requests : Looks(r)

\* What the policy concludes from such a row is true of the order.
LEMMA PolicyIsTrue ==
    ASSUME NEW o, NEW W, NEW act \in AllActions, NEW now \in W,
           HeadSays(o, W), DetailSays(o, W), o.refund = "pending" => RefundSays(o, W),
           Available(o, act)
    PROVE  Granted(act, W)
<1>1. CASE act \in Shipping
  <2>1. o.status = "paid_waiting_delivery"
    BY <1>1 DEF Available, Shipping
  <2>2. PICK w \in W : w.status = "paid_waiting_delivery"
    BY <2>1 DEF DetailSays
  <2>3. TradeGrants(w, act) /\ RefundGrants(w, act)
    BY <1>1, <2>2 DEF TradeGrants, RefundGrants, Shipping
  <2> QED BY <2>3 DEF Granted
<1>2. CASE act = "close_order"
  <2>1. o.refund # "pending" /\ o.status \in Open
    BY <1>2 DEF Available, Shipping
  <2>2. PICK w \in W : w.status \in Open
    BY <2>1 DEF DetailSays
  <2>3. PICK v \in W : v.refund # "pending"
    BY <2>1 DEF HeadSays
  <2>4. TradeGrants(w, act) /\ RefundGrants(v, act)
    BY <1>2, <2>2, <2>3 DEF TradeGrants, RefundGrants, Shipping
  <2> QED BY <2>4 DEF Granted
<1>3. CASE act = "rate_buyer"
  <2>0. RequiredCapability(act) = {"RATE"}
    BY <1>3 DEF RequiredCapability
  <2>1. "RATE" \in o.caps
    <3>1. RequiredCapability(act) \subseteq o.caps
      BY DEF Available, HeadSays
    <3> QED BY <2>0, <3>1
  <2>2. PICK w \in W : w.status = "completed" /\ ~w.rated
    BY <2>1 DEF HeadSays
  <2>3. TradeGrants(w, act) /\ RefundGrants(w, act)
    BY <1>3, <2>2 DEF TradeGrants, RefundGrants, Shipping
  <2> QED BY <2>3 DEF Granted
<1>4. CASE act = "refuse_refund"
  <2>1. o.refusable /\ o.refund = "pending"
    BY <1>4 DEF Available, Shipping
  <2>2. PICK w \in W : w.refund = "pending"
    BY <2>1 DEF RefundSays
  <2>3. TradeGrants(w, act) /\ RefundGrants(w, act)
    BY <1>4, <2>2 DEF TradeGrants, RefundGrants, Shipping
  <2> QED BY <2>3 DEF Granted
<1> QED BY <1>1, <1>2, <1>3, <1>4 DEF AllActions

\* The first thing that is asked is headinfo, and it is answered.
LEMMA HeadFirst ==
    ASSUME Attended, FirstStage # "idle"
    PROVE  FirstStage \in {"head", "headOptional"} /\ (FirstStage = "headOptional" => scn.faults = 0)
BY DEF Attended, FirstStage, HeadRequired

\* The order is at more states on the platform, and all else is as it was.
LEMMA LooksWider ==
    ASSUME NEW r \in Requests, Looks(r), UNCHANGED <<row, scn>>,
           loc'[r] = loc[r], req'[r] = req[r],
           Entered(r) => was[r] \subseteq was'[r] /\ plat' \in was'[r]
    PROVE  Looks(r)'
<1> SUFFICES ASSUME Entered(r) PROVE Looks(r)'
  BY DEF Looks, Entered
<1>1. was[r] \subseteq was'[r] /\ plat' \in was'[r]
  OBVIOUS
<1>2. \A o : /\ HeadSays(o, was[r]) => HeadSays(o, was'[r])
             /\ DetailSays(o, was[r]) => DetailSays(o, was'[r])
             /\ RefundSays(o, was[r]) => RefundSays(o, was'[r])
  BY <1>1 DEF HeadSays, DetailSays, RefundSays
<1>3. \A a : Granted(a, was[r]) => Granted(a, was'[r])
  BY <1>1 DEF Granted
<1> QED BY <1>1, <1>2, <1>3 DEF Looks, Answered

\* Who waits for the lock or for nothing knows nothing.
LEMMA LooksNowhere ==
    ASSUME NEW r \in Requests, ~Entered(r), loc'[r] = loc[r] \/ loc'[r].pc \in {"idle", "wait"}
    PROVE  Looks(r)'
BY DEF Looks, Entered

LEMMA FaultsCounted ==
    ASSUME faults \in Nat, [Next]_vars
    PROVE  faults' \in Nat
<1>1. ASSUME NEW r \in Requests, Submit(r) \/ Begin(r) \/ Executing(r) PROVE faults' \in Nat
  BY <1>1 DEF Submit, Begin, Executing, ValidateRefuse, Create, Write, TimesOut, Fault,
              FinishSucceeded, FinishBroken, FinishError, MergeRaises
<1>2. ASSUME NEW p \in Procs, Refreshing(p) PROVE faults' \in Nat
  BY <1>2 DEF Refreshing, Answers, Fails, HeadApplies, DetailApplies, ShippingApplies,
              RefundApplies, OptionsApply, ReadRow, Decide, Fault
<1>3. ASSUME NEW k \in Keys, Platform(k) PROVE faults' \in Nat
  BY <1>3 DEF Platform, PlatformTakes, PlatformKnows, PlatformRejects, Reply, Fault
<1>4. CASE PlatformMoves \/ Refresh \/ RefreshScheduled \/ ListReads \/ ListApplies
           \/ MessageArrives \/ Crash \/ UNCHANGED vars
  BY <1>4 DEF PlatformMoves, Refresh, RefreshScheduled, ListReads, ListApplies,
              MessageArrives, Crash, vars
<1> QED BY <1>1, <1>2, <1>3, <1>4 DEF Next

\* A step of the one who has the lock: the others know nothing.
LEMMA OnlyHolderLooks ==
    ASSUME IInv, Looking, NEW p \in Procs, lock = p,
           \A q \in Procs : q # p => loc'[q] = loc[q],
           RowFields \subseteq DOMAIN row', faults' \in Nat, DOMAIN was' = Requests,
           p \in Requests => Looks(p)'
    PROVE  Looking'
<1>1. ASSUME NEW r \in Requests, r # p PROVE Looks(r)'
  <2>1. ~Entered(r)
    BY <1>1 DEF IInv, Locking
  <2>2. loc'[r] = loc[r]
    BY <1>1, ProcNames
  <2> QED BY <2>1, <2>2, LooksNowhere
<1> QED BY <1>1 DEF Looking

LEMMA EndLooks ==
    ASSUME IInv, Looking, NEW p \in Procs, lock = p, End(p),
           RowFields \subseteq DOMAIN row', faults' \in Nat
    PROVE  Looking'
<1>1. loc'[p].pc = "idle" /\ \A q \in Procs : q # p => loc'[q] = loc[q]
  BY DEF IInv, Types, End, Idle, Loc
<1>2. Looks(p)'
  BY <1>1 DEF Looks, Entered
<1>3. DOMAIN was' = Requests
  BY DEF End, Cleared
<1> QED BY <1>1, <1>2, <1>3, OnlyHolderLooks

LEMMA GotoLooks ==
    ASSUME IInv, Looking, NEW p \in Procs, lock = p, NEW pc, NEW s, NEW v,
           loc' = [loc EXCEPT ![p] = Loc(pc, s, v)],
           RowFields \subseteq DOMAIN row', faults' \in Nat, UNCHANGED <<was, plat, scn, req>>,
           p \in Requests =>
             /\ plat \in was[p]
             /\ pc = "headOptional" => scn.faults = 0
             /\ pc \in Asks /\ s # NoAnswer =>
                   s.is \in was[p] /\ (s.text \in Open => s.text = s.is.status) /\ s.text # "unknown"
             /\ pc \in AfterHead => HeadSays(row', was[p])
             /\ pc \in AfterDetail => DetailSays(row', was[p])
             /\ pc \in AfterRefund => RefundSays(row', was[p])
             /\ pc = "refreshed" =>
                   /\ HeadSays(v, was[p]) /\ DetailSays(v, was[p])
                   /\ v.refund = "pending" => RefundSays(v, was[p])
             /\ pc \in {"check", "create", "write"} => Granted(req[p].act, was[p])
    PROVE  Looking'
<1>1. loc'[p] = Loc(pc, s, v) /\ \A q \in Procs : q # p => loc'[q] = loc[q]
  BY DEF IInv, Types
<1>2. loc'[p].pc = pc /\ loc'[p].seen = s /\ loc'[p].view = v
  BY <1>1 DEF Loc
<1>3. p \in Requests => Looks(p)'
  BY <1>2 DEF Looks, Answered
<1> QED BY <1>1, <1>3, OnlyHolderLooks DEF Looking

LEMMA RefreshingLooks ==
    ASSUME IInv, Frame, Attended, Looking, NEW p \in Procs, Refreshing(p), faults' \in Nat
    PROVE  Looking' /\ Attended'
<1> USE ProcNames
<1>0. UNCHANGED <<plat, scn>> /\ loc[p].pc \notin {"idle", "wait"}
  BY DEF Refreshing, Answers, Fails, HeadApplies, DetailApplies, ShippingApplies,
         RefundApplies, OptionsApply, ReadRow, Decide, Asks, Reads
<1>1. lock = p
  <2>1. CASE p \in Requests
    BY <1>0, <2>1 DEF IInv, Locking, Entered
  <2>2. CASE p \in {"ui", "sched", "list"}
    BY <1>0, <2>2 DEF Frame, Resting, Attended
  <2> QED BY <2>1, <2>2 DEF Procs
<1>2. RowFields \subseteq DOMAIN row /\ DOMAIN was = Requests
  BY DEF Looking
<1>3. p \in Requests => Entered(p) /\ plat \in was[p]
  BY <1>0 DEF Looking, Looks, Entered
<1> DEFINE W == was[p]
<1>4. ASSUME p \in Requests, loc[p].pc \in Asks, Answered(p)
      PROVE  /\ loc[p].seen.is \in W /\ loc[p].seen.text # "unknown"
             /\ loc[p].seen.text \in Open => loc[p].seen.text = loc[p].seen.is.status
  BY <1>3, <1>4 DEF Looking, Looks
<1>5. p \in Requests =>
         /\ loc[p].pc \in AfterHead => HeadSays(row, W)
         /\ loc[p].pc \in AfterDetail => DetailSays(row, W)
         /\ loc[p].pc \in AfterRefund => RefundSays(row, W)
  BY <1>3 DEF Looking, Looks
<1>6. UNCHANGED row => Attended'
  BY <1>0 DEF Attended
<1>7. CASE Answers(p)
  <2>1. PICK text \in Texts(loc[p].pc) :
           loc' = [loc EXCEPT ![p] = Loc(loc[p].pc, [text |-> text, is |-> plat], loc[p].view)]
    BY <1>7 DEF Answers
  <2> DEFINE s == [text |-> text, is |-> plat]
  <2>2. UNCHANGED <<row, lock, req, was>> /\ loc[p].pc \in Asks
    BY <1>7 DEF Answers
  <2>3. plat.status \in Trade
    BY DEF Frame, Shape, Orders
  <2>4. s.is = plat /\ s.text # "unknown" /\ (s.text \in Open => s.text = plat.status)
    BY <2>3 DEF Texts, Attended, Open, Trade
  <2>5. loc' = [loc EXCEPT ![p] = Loc(loc[p].pc, s, loc[p].view)]
    BY <2>1
  <2> HIDE DEF s
  <2>6. p \in Requests => (loc[p].pc = "headOptional" => scn.faults = 0)
                          /\ loc[p].pc # "refreshed"
                          /\ (loc[p].pc \in {"check", "create", "write"} => Granted(req[p].act, W))
    BY <1>3, <2>2 DEF Looking, Looks, Asks
  <2>7. Looking'
    BY <1>0, <1>1, <1>2, <1>3, <1>5, <2>2, <2>4, <2>5, <2>6, GotoLooks
  <2> QED BY <1>6, <2>2, <2>7
<1>8. CASE Fails(p)
  <2>1. UNCHANGED row /\ Fault
    BY <1>8 DEF Fails
  <2>2. CASE loc[p].pc = "headOptional" /\ Goto(p, "detail") /\ UNCHANGED <<lock, req, was>>
    <3>1. ~(p \in Requests)
      BY <1>3, <2>1, <2>2 DEF Looking, Looks, Fault
    <3>2. loc' = [loc EXCEPT ![p] = Loc("detail", NoAnswer, loc[p].view)]
      BY <2>2 DEF Goto
    <3>3. Looking'
      BY <1>0, <1>1, <1>2, <2>1, <2>2, <3>1, <3>2, GotoLooks
    <3> QED BY <1>6, <2>1, <3>3
  <2>3. CASE End(p)
    BY <1>1, <1>2, <1>6, <2>1, <2>3, EndLooks
  <2> QED BY <1>8, <2>2, <2>3 DEF Fails
<1>9. CASE HeadApplies(p)
  <2> DEFINE s == loc[p].seen
  <2>1. loc[p].pc \in Asks /\ Answered(p) /\ row' = HeadRow(s)
    BY <1>9 DEF HeadApplies, Asks
  <2>2. /\ RowFields \subseteq DOMAIN row' /\ row'.head /\ row'.caps = Caps(s.is)
        /\ s.is.refund = "pending" => row'.refund = "pending"
    BY <1>2, <2>1 DEF HeadRow, RowFields
  <2>3. Attended'
    BY <1>0, <2>2 DEF Attended
  <2>4. CASE Goto(p, "detail") /\ UNCHANGED <<lock, req, was, faults>>
    <3>1. loc' = [loc EXCEPT ![p] = Loc("detail", NoAnswer, loc[p].view)]
      BY <2>4 DEF Goto
    <3>2. "RATE" \in Caps(s.is) => s.is.status = "completed" /\ ~s.is.rated
      BY DEF Caps
    <3>3. p \in Requests => HeadSays(row', W)
      BY <1>4, <2>1, <2>2, <3>2 DEF HeadSays
    <3>4. "detail" \notin AfterDetail \cup AfterRefund
      BY DEF AfterDetail, AfterRefund
    <3>5. Looking'
      BY <1>0, <1>1, <1>3, <2>2, <2>4, <3>1, <3>3, <3>4, GotoLooks
    <3> QED BY <2>3, <3>5
  <2>5. CASE End(p)
    BY <1>1, <2>2, <2>3, <2>5, EndLooks
  <2> QED BY <1>9, <2>4, <2>5 DEF HeadApplies
<1>10. CASE DetailApplies(p)
  <2> DEFINE s == loc[p].seen
  <2>1. /\ loc[p].pc = "detail" /\ loc[p].pc \in Asks /\ Answered(p) /\ row' = DetailRow(s.text)
        /\ UNCHANGED <<lock, req, was>>
    BY <1>10 DEF DetailApplies, Asks
  <2>2. /\ RowFields \subseteq DOMAIN row' /\ row'.head = row.head /\ row'.caps = row.caps
        /\ row'.refund = row.refund
        /\ row'.status = IF s.text = "unknown" \/ StaleDowngrade(row.status, s.text)
                         THEN row.status ELSE s.text
    BY <1>2, <2>1 DEF DetailRow, RowFields
  <2>3. loc' = [loc EXCEPT ![p] = Loc("readDetail", NoAnswer, loc[p].view)]
    BY <1>10 DEF DetailApplies, Goto
  <2>4. p \in Requests => HeadSays(row', W)
    BY <1>5, <2>1, <2>2 DEF HeadSays, AfterHead
  <2>5. p \in Requests => DetailSays(row', W)
    <3>1. p \in Requests /\ row'.status \in Open => row'.status = s.is.status /\ s.is \in W
      BY <1>4, <2>1, <2>2 DEF StaleDowngrade, Open
    <3> QED BY <3>1 DEF DetailSays, Open
  <2>6. "readDetail" \notin AfterRefund /\ "readDetail" \notin Asks
    BY DEF AfterRefund, Asks
  <2>7. Looking'
    BY <1>0, <1>1, <1>3, <2>1, <2>2, <2>3, <2>4, <2>5, <2>6, GotoLooks
  <2> QED BY <1>0, <2>2, <2>7 DEF Attended
<1>11. CASE ShippingApplies(p) \/ OptionsApply(p)
  <2>1. /\ RowFields \subseteq DOMAIN row' /\ row'.head = row.head /\ row'.caps = row.caps
        /\ row'.refund = row.refund /\ row'.status = row.status
        /\ row'.refusable = row.refusable
        /\ UNCHANGED <<lock, req, was>>
    BY <1>2, <1>11 DEF ShippingApplies, OptionsApply, RowFields
  <2>2. \A U : /\ HeadSays(row, U) => HeadSays(row', U)
               /\ DetailSays(row, U) => DetailSays(row', U)
               /\ RefundSays(row, U) => RefundSays(row', U)
    BY <2>1 DEF HeadSays, DetailSays, RefundSays
  <2>3. PICK pc \in {"readShipping", "readOptions"} :
           /\ loc' = [loc EXCEPT ![p] = Loc(pc, NoAnswer, loc[p].view)]
           /\ loc[p].pc \in AfterHead \cap AfterDetail
           /\ pc \in AfterRefund => loc[p].pc \in AfterRefund
    BY <1>11 DEF ShippingApplies, OptionsApply, Goto, AfterHead, AfterDetail, AfterRefund
  <2>4. pc \notin {"headOptional", "refreshed", "check", "create", "write"}
    BY <2>3
  <2>5. Looking'
    BY <1>0, <1>1, <1>3, <1>5, <2>1, <2>2, <2>3, <2>4, GotoLooks
  <2> QED BY <1>0, <2>1, <2>5 DEF Attended
<1>12. CASE RefundApplies(p)
  <2> DEFINE s == loc[p].seen
  <2>1. /\ loc[p].pc = "refund" /\ loc[p].pc \in Asks /\ Answered(p) /\ row' = RefundRow(s.is)
        /\ UNCHANGED <<lock, req, was>>
    BY <1>12 DEF RefundApplies, Asks
  <2>2. /\ RowFields \subseteq DOMAIN row' /\ row'.head = row.head /\ row'.caps = row.caps
        /\ row'.status = row.status
        /\ row'.refund = IF s.is.refund = "none" THEN row.refund ELSE s.is.refund
        /\ row'.refusable = (s.is.refund = "pending")
    BY <1>2, <2>1 DEF RefundRow, RowFields
  <2>3. loc' = [loc EXCEPT ![p] = Loc("readRefund", NoAnswer, loc[p].view)]
    BY <1>12 DEF RefundApplies, Goto
  <2>4. p \in Requests => HeadSays(row, W) /\ DetailSays(row, W)
    BY <1>5, <2>1 DEF AfterHead, AfterDetail
  <2>5. p \in Requests => HeadSays(row', W)
    BY <1>4, <2>1, <2>2, <2>4 DEF HeadSays
  <2>6. p \in Requests => DetailSays(row', W)
    BY <2>2, <2>4 DEF DetailSays
  <2>7. p \in Requests => RefundSays(row', W)
    BY <1>4, <2>1, <2>2 DEF RefundSays
  <2>8. Looking'
    BY <1>0, <1>1, <1>3, <2>1, <2>2, <2>3, <2>5, <2>6, <2>7, GotoLooks
  <2> QED BY <1>0, <2>2, <2>8 DEF Attended
<1>13. CASE ReadRow(p)
  <2>1. UNCHANGED row /\ loc[p].pc \in Reads
    BY <1>13 DEF ReadRow
  <2>2. CASE /\ loc' = [loc EXCEPT ![p] = Loc(Branch(p), NoAnswer, row)]
             /\ UNCHANGED <<lock, req, was, faults>>
    <3>1. PICK pc \in {"ship", "clear", "refund", "refreshed", "options"} : pc = Branch(p)
      BY <2>1 DEF Reads, Branch
    <3>2. pc \in AfterRefund => loc[p].pc \in AfterRefund
      BY <2>1, <3>1 DEF AfterRefund, Branch, Reads
    <3>3. loc[p].pc \in AfterHead \cap AfterDetail
      BY <2>1 DEF Reads, AfterHead, AfterDetail
    <3>4. pc = "refreshed" /\ row.refund = "pending" => loc[p].pc \in AfterRefund
      BY <2>1, <3>1 DEF Branch, Reads, AfterRefund
    <3>5. pc \notin {"headOptional", "check", "create", "write"}
      BY <3>1
    <3>6. loc' = [loc EXCEPT ![p] = Loc(pc, NoAnswer, row)]
      BY <2>2, <3>1
    <3>7. PICK v : v = row
      OBVIOUS
    <3>8. loc' = [loc EXCEPT ![p] = Loc(pc, NoAnswer, v)]
      BY <3>6, <3>7
    <3>9. p \in Requests =>
             /\ HeadSays(v, W) /\ DetailSays(v, W) /\ HeadSays(row', W) /\ DetailSays(row', W)
             /\ pc = "refreshed" /\ v.refund = "pending" => RefundSays(v, W)
             /\ pc \in AfterRefund => RefundSays(row', W)
      BY <1>5, <2>1, <3>2, <3>3, <3>4, <3>7
    <3>10. RowFields \subseteq DOMAIN row' /\ UNCHANGED <<was, plat, scn, req>>
      BY <1>0, <1>2, <2>1, <2>2
    <3>11. Looking'
      BY <1>1, <1>3, <3>5, <3>8, <3>9, <3>10, GotoLooks
    <3> QED BY <1>6, <2>1, <3>11
  <2>3. CASE End(p)
    BY <1>1, <1>2, <1>6, <2>1, <2>3, EndLooks
  <2> QED BY <1>13, <2>2, <2>3 DEF ReadRow
<1>14. CASE Decide(p)
  <2>1. UNCHANGED row /\ loc[p].pc = "refreshed"
    BY <1>14 DEF Decide
  <2>2. CASE /\ Preflight(p) /\ Available(loc[p].view, req[p].act) /\ UNCHANGED <<lock, req, was>>
             /\ \E pc \in {"check", "create"} : loc' = [loc EXCEPT ![p] = Loc(pc, NoAnswer, NoView)]
    <3>1. PICK pc \in {"check", "create"} : loc' = [loc EXCEPT ![p] = Loc(pc, NoAnswer, NoView)]
      BY <2>2
    <3>2. p \in Requests
      BY <2>2 DEF Preflight
    <3>3. PICK v : v = loc[p].view
      OBVIOUS
    <3>4. /\ HeadSays(v, W) /\ DetailSays(v, W)
          /\ v.refund = "pending" => RefundSays(v, W)
      BY <1>3, <2>1, <3>2, <3>3 DEF Looking, Looks
    <3>5. req[p].act \in AllActions
      BY <1>0, <3>2 DEF Frame, Shape
    <3>6. Available(v, req[p].act)
      BY <2>2, <3>3
    <3>7. Granted(req[p].act, W)
      <4>1. PICK a, U : a = req[p].act /\ U = W
        BY <3>5
      <4>2. /\ a \in AllActions /\ plat \in U /\ Available(v, a)
            /\ HeadSays(v, U) /\ DetailSays(v, U)
            /\ v.refund = "pending" => RefundSays(v, U)
        BY <1>3, <3>2, <3>4, <3>5, <3>6, <4>1
      <4>3. Granted(a, U)
        BY <4>2, PolicyIsTrue
      <4> QED BY <4>1, <4>3
    <3>8. pc \notin AfterHead \cup AfterDetail \cup AfterRefund \cup {"headOptional", "refreshed"}
      BY <3>1 DEF AfterHead, AfterDetail, AfterRefund
    <3>9. Looking'
      BY <1>0, <1>1, <1>2, <1>3, <2>1, <2>2, <3>1, <3>2, <3>7, <3>8, GotoLooks
    <3> QED BY <1>6, <2>1, <3>9
  <2>3. CASE End(p)
    BY <1>1, <1>2, <1>6, <2>1, <2>3, EndLooks
  <2> QED BY <1>14, <2>2, <2>3 DEF Decide
<1> QED BY <1>7, <1>8, <1>9, <1>10, <1>11, <1>12, <1>13, <1>14 DEF Refreshing

LEMMA ExecutingLooks ==
    ASSUME IInv, Frame, Attended, Looking, NEW r \in Requests, Executing(r), faults' \in Nat
    PROVE  Looking' /\ Attended'
<1> USE ProcNames
<1>0. UNCHANGED <<plat, scn>> /\ Entered(r)
  BY DEF Executing, ValidateRefuse, Create, Write, TimesOut, FinishSucceeded, FinishBroken,
         FinishError, MergeRaises, Entered
<1>1. lock = r
  BY <1>0 DEF IInv, Locking
<1>2. RowFields \subseteq DOMAIN row /\ plat \in was[r]
  BY <1>0 DEF Looking, Looks
<1>3. UNCHANGED row => Attended'
  BY <1>0 DEF Attended
<1>4. CASE UNCHANGED row /\ End(r)
  BY <1>1, <1>2, <1>3, <1>4, EndLooks
<1>5. CASE /\ UNCHANGED <<row, req, was>>
           /\ \E pc \in {"create", "write", "sent", "bad", "unsure"} :
                 Goto(r, pc) /\ (pc \in {"create", "write"} => loc[r].pc \in {"check", "create"})
  <2>1. PICK pc \in {"create", "write", "sent", "bad", "unsure"} :
           /\ loc' = [loc EXCEPT ![r] = Loc(pc, NoAnswer, loc[r].view)]
           /\ pc \in {"create", "write"} => loc[r].pc \in {"check", "create"}
    BY <1>5 DEF Goto
  <2>2. /\ pc \notin AfterHead \cup AfterDetail \cup AfterRefund
        /\ pc \notin {"headOptional", "refreshed", "check"}
    BY <2>1 DEF AfterHead, AfterDetail, AfterRefund
  <2>3. pc \in {"create", "write"} => Granted(req[r].act, was[r])
    BY <1>0, <2>1 DEF Looking, Looks
  <2>4. Looking'
    BY <1>0, <1>1, <1>2, <1>5, <2>1, <2>2, <2>3, GotoLooks
  <2> QED BY <1>3, <1>5, <2>4
<1>6. CASE ValidateRefuse(r)
  BY <1>4, <1>5, <1>6 DEF ValidateRefuse
<1>7. CASE Create(r)
  BY <1>4, <1>5, <1>7 DEF Create
<1>8. CASE Write(r) \/ TimesOut(r)
  BY <1>5, <1>8 DEF Write, TimesOut
<1>9. CASE FinishSucceeded(r)
  <2>1. req[r].act \in AllActions /\ row' = RowAfter(req[r].act)
    BY <1>0, <1>9 DEF FinishSucceeded, Frame, Shape, Entered
  <2>2. RowFields \subseteq DOMAIN row' /\ row'.head = row.head
    BY <1>2, <2>1 DEF RowAfter, RowFields, AllActions
  <2>3. CASE End(r)
    BY <1>0, <1>1, <2>2, <2>3, EndLooks DEF Attended
  <2>4. CASE FirstStage # "idle" /\ Goto(r, FirstStage) /\ UNCHANGED <<lock, req, was>>
    <3>1. PICK pc \in {"head", "headOptional"} :
             /\ loc' = [loc EXCEPT ![r] = Loc(pc, NoAnswer, loc[r].view)]
             /\ pc = "headOptional" => scn.faults = 0
      BY <2>4, HeadFirst DEF Goto
    <3>2. /\ pc \notin AfterHead \cup AfterDetail \cup AfterRefund
          /\ pc \notin {"refreshed", "check", "create", "write"}
      BY <3>1 DEF AfterHead, AfterDetail, AfterRefund
    <3>3. Looking'
      BY <1>0, <1>1, <1>2, <2>2, <2>4, <3>1, <3>2, GotoLooks
    <3> QED BY <1>0, <2>2, <3>3 DEF Attended
  <2> QED BY <1>9, <2>3, <2>4 DEF FinishSucceeded
<1>10. CASE FinishBroken(r) \/ FinishError(r) \/ MergeRaises(r)
  BY <1>4, <1>10 DEF FinishBroken, FinishError, MergeRaises
<1> QED BY <1>6, <1>7, <1>8, <1>9, <1>10 DEF Executing

LEMMA PlatformLooks ==
    ASSUME IInv, Frame, Attended, Looking, NEW k \in Keys, Platform(k), faults' \in Nat
    PROVE  Looking' /\ Attended'
<1> USE ProcNames
<1>0. UNCHANGED <<row, ops, lock, req, scn>>
  BY DEF Platform, PlatformTakes, PlatformKnows, PlatformRejects
<1>1. PICK pc \in {"ok", "bad"} : Reply(k, pc)
  BY DEF Platform, PlatformTakes, PlatformKnows, PlatformRejects, Reply
<1>2. ASSUME NEW p \in Requests
      PROVE  loc'[p] = loc[p] \/ (loc[p].pc = "sent" /\ loc'[p].pc = pc)
  BY <1>1 DEF Reply, Loc, IInv, Types
<1>3. Witness(plat') \/ UNCHANGED <<plat, was>>
  BY DEF Platform, PlatformTakes, PlatformKnows, PlatformRejects
<1>4. DOMAIN was' = Requests
  BY <1>3 DEF Witness, Looking
<1>5. ASSUME NEW r \in Requests, Entered(r)
      PROVE  was[r] \subseteq was'[r] /\ plat' \in was'[r]
  <2>1. plat \in was[r]
    BY <1>5 DEF Looking, Looks
  <2> QED BY <1>3, <2>1 DEF Witness
<1>6. ASSUME NEW r \in Requests PROVE Looks(r)'
  <2>1. CASE loc'[r] = loc[r]
    BY <1>0, <1>5, <2>1, LooksWider DEF Looking
  <2>2. CASE loc[r].pc = "sent" /\ loc'[r].pc = pc
    <3>1. plat' \in was'[r]
      BY <1>5, <2>2 DEF Entered
    <3>2. pc \notin AfterHead \cup AfterDetail \cup AfterRefund \cup Asks
      BY DEF AfterHead, AfterDetail, AfterRefund, Asks
    <3> QED BY <1>1, <2>2, <3>1, <3>2 DEF Looks
  <2> QED BY <1>2, <2>1, <2>2
<1>7. Looking'
  BY <1>0, <1>4, <1>6 DEF Looking
<1> QED BY <1>0, <1>7 DEF Attended

LEMMA OthersLook ==
    ASSUME IInv, Frame, Attended, Looking, faults' \in Nat,
           \/ PlatformMoves \/ Refresh \/ RefreshScheduled \/ ListReads \/ ListApplies
           \/ MessageArrives \/ Crash \/ UNCHANGED vars
           \/ \E r \in Requests : Submit(r) \/ Begin(r)
    PROVE  Looking' /\ Attended'
<1> USE ProcNames
<1>t. DOMAIN loc = Procs /\ RowFields \subseteq DOMAIN row /\ DOMAIN was = Requests
  BY DEF IInv, Types, Looking
<1>1. CASE PlatformMoves \/ UNCHANGED vars
  <2>1. UNCHANGED <<row, loc, req, scn>>
    BY <1>1 DEF PlatformMoves, vars
  <2>2. Witness(plat') \/ UNCHANGED <<plat, was>>
    BY <1>1 DEF PlatformMoves, vars
  <2>3. DOMAIN was' = Requests
    BY <1>t, <2>2 DEF Witness
  <2>4. ASSUME NEW r \in Requests PROVE Looks(r)'
    <3>1. Entered(r) => was[r] \subseteq was'[r] /\ plat' \in was'[r]
      BY <2>2 DEF Witness, Looking, Looks
    <3> QED BY <2>1, <3>1, LooksWider DEF Looking
  <2>5. Looking'
    BY <1>t, <2>1, <2>3, <2>4 DEF Looking
  <2> QED BY <2>1, <2>5 DEF Attended
<1>2. CASE Refresh \/ ListReads \/ ListApplies \/ MessageArrives
  <2>1. scn.writers \cap {"ui", "list", "message"} # {}
    BY <1>2 DEF Refresh, ListReads, ListApplies, MessageArrives, Frame, Resting
  <2> QED BY <2>1 DEF Attended
<1>3. CASE Crash
  <2>1. UNCHANGED <<row, scn>> /\ DOMAIN was' = Requests
    BY <1>3 DEF Crash
  <2>2. \A r \in Requests : loc'[r].pc = "idle"
    BY <1>3 DEF Crash, Idle, Loc
  <2>3. \A r \in Requests : Looks(r)'
    BY <2>2 DEF Looks, Entered
  <2>4. Looking'
    BY <1>t, <2>1, <2>3 DEF Looking
  <2> QED BY <2>1, <2>4 DEF Attended
<1>4. CASE RefreshScheduled
  <2>1. UNCHANGED <<plat, row, req, was, scn>> /\ \A r \in Requests : loc'[r] = loc[r]
    BY <1>4, <1>t DEF RefreshScheduled, Goto
  <2>2. ASSUME NEW r \in Requests PROVE Looks(r)'
    <3>1. Entered(r) => plat \in was[r]
      BY DEF Looking, Looks
    <3> QED BY <2>1, <3>1, LooksWider DEF Looking
  <2>3. Looking'
    BY <1>t, <2>1, <2>2 DEF Looking
  <2> QED BY <2>1, <2>3 DEF Attended
<1>5. ASSUME NEW r \in Requests, Submit(r) PROVE Looking' /\ Attended'
  <2>1. /\ UNCHANGED <<plat, row, was, scn>> /\ loc'[r].pc = "wait"
        /\ \A q \in Requests : q # r => loc'[q] = loc[q] /\ req'[q] = req[q]
    BY <1>5, <1>t DEF Submit, Goto, Loc, IInv, Types
  <2>2. Looks(r)'
    BY <2>1 DEF Looks, Entered
  <2>3. ASSUME NEW q \in Requests, q # r PROVE Looks(q)'
    <3>1. Entered(q) => plat \in was[q]
      BY DEF Looking, Looks
    <3> QED BY <2>1, <2>3, <3>1, LooksWider DEF Looking
  <2>4. Looking'
    BY <1>t, <2>1, <2>2, <2>3 DEF Looking
  <2> QED BY <2>1, <2>4 DEF Attended
<1>6. ASSUME NEW r \in Requests, Begin(r) PROVE Looking' /\ Attended'
  <2>0. UNCHANGED <<plat, row, scn>> /\ lock = Nobody
    BY <1>6 DEF Begin
  <2>1. \A q \in Requests : ~Entered(q)
    BY <2>0 DEF IInv, Locking
  <2>2. CASE End(r)
    <3>1. /\ DOMAIN was' = Requests /\ loc'[r].pc = "idle"
          /\ \A q \in Requests : q # r => loc'[q] = loc[q]
      BY <1>t, <2>2 DEF End, Cleared, Idle, Loc
    <3>2. \A q \in Requests : Looks(q)'
      BY <2>1, <3>1, LooksNowhere
    <3>3. Looking'
      BY <1>t, <2>0, <3>1, <3>2 DEF Looking
    <3> QED BY <2>0, <3>3 DEF Attended
  <2>3. CASE /\ FirstStage # "idle" /\ Goto(r, FirstStage) /\ UNCHANGED req
             /\ was' = [was EXCEPT ![r] = {plat}]
    <3>1. PICK pc \in {"head", "headOptional"} :
             /\ loc' = [loc EXCEPT ![r] = Loc(pc, NoAnswer, loc[r].view)]
             /\ pc = "headOptional" => scn.faults = 0
      BY <2>3, HeadFirst DEF Goto
    <3>2. /\ pc \notin AfterHead \cup AfterDetail \cup AfterRefund
          /\ pc \notin {"refreshed", "check", "create", "write"}
      BY <3>1 DEF AfterHead, AfterDetail, AfterRefund
    <3>3. /\ loc'[r].pc = pc /\ loc'[r].seen = NoAnswer
          /\ \A q \in Requests : q # r => loc'[q] = loc[q]
      BY <1>t, <3>1 DEF Loc
    <3>4. plat' \in was'[r] /\ DOMAIN was' = Requests
      BY <1>t, <2>0, <2>3
    <3>5. Looks(r)'
      BY <2>0, <3>1, <3>2, <3>3, <3>4 DEF Looks, Answered
    <3>6. \A q \in Requests : q # r => Looks(q)'
      BY <2>1, <3>3, LooksNowhere
    <3>7. Looking'
      BY <1>t, <2>0, <3>4, <3>5, <3>6 DEF Looking
    <3> QED BY <2>0, <3>7 DEF Attended
  <2> QED BY <1>6, <2>2, <2>3 DEF Begin
<1> QED BY <1>1, <1>2, <1>3, <1>4, <1>5, <1>6

LEMMA NextLooks ==
    IInv /\ Frame /\ Attended /\ Looking /\ [Next]_vars => Looking' /\ Attended'
<1> SUFFICES ASSUME IInv, Frame, Attended, Looking, [Next]_vars PROVE Looking' /\ Attended'
  OBVIOUS
<1>0. faults' \in Nat
  BY FaultsCounted DEF Looking
<1>1. ASSUME NEW r \in Requests, Executing(r) PROVE Looking' /\ Attended'
  BY <1>0, <1>1, ExecutingLooks
<1>2. ASSUME NEW p \in Procs, Refreshing(p) PROVE Looking' /\ Attended'
  BY <1>0, <1>2, RefreshingLooks
<1>3. ASSUME NEW k \in Keys, Platform(k) PROVE Looking' /\ Attended'
  BY <1>0, <1>3, PlatformLooks
<1> QED BY <1>0, <1>1, <1>2, <1>3, OthersLook DEF Next

\* An action is sent only if, since the request began to refresh the order, the
\* trade was in a state that grants it and the refund in one that grants it:
\* for an order that is refreshed under its lock, that headinfo tells about and
\* whose texts are known, with any number of requests, failed calls and crashes.
THEOREM PreflightsAreRespected == Spec /\ Attended => []PreflightRespected
<1>1. Init => Looking
  <2>1. Init => /\ RowFields \subseteq DOMAIN row /\ faults \in Nat /\ DOMAIN was = Requests
                /\ \A r \in Requests : loc[r].pc = "idle"
    BY ProcNames DEF Init, Row, RowFields, Idle, Loc
  <2> QED BY <2>1 DEF Looking, Looks, Entered
<1>2. Looking => PreflightRespected
  BY DEF Looking, Looks, Entered, Granted, PreflightRespected
<1>3. Init => IInv /\ Frame /\ Kept /\ scn \in Scenarios
  BY InitIInv, InitKeeps
<1>4. /\ IInv /\ Frame /\ Kept /\ scn \in Scenarios /\ Attended /\ Looking
      /\ [Next]_vars
      => (IInv /\ Frame /\ Kept /\ scn \in Scenarios /\ Attended /\ Looking)'
  BY NextPreserves, NextKeeps, NextLooks
<1> QED BY <1>1, <1>2, <1>3, <1>4, PTL DEF Spec
=============================================================================
