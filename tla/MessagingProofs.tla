-------------------------- MODULE MessagingProofs --------------------------
(***************************************************************************)
(* Proofs about what goes to the buyer, for any number of messages,        *)
(* requests, records, cards and orders, every size of the queues, and any  *)
(* number of faults, restarts and crashes.                                 *)
(*                                                                         *)
(* Messages: what the table says of a message happened, what the user has  *)
(* not read stays unread, an automatic reply does not go out once a person *)
(* is at it, the replies implement ReplyOnce, and pushes in any order mark *)
(* the conversation as it is.  Delivery: records and tasks are honest, and *)
(* generation is guarded.                                                  *)
(***************************************************************************)
EXTENDS Delivery, Messages, FiniteSetTheorems, SequenceTheorems, WellFoundedInduction, TLAPS

(* The inductive invariant, one part for each group of variables.          *)

Message == [dir : {"in", "out"}, type : {"text", "audio"},
            by : Senders \cup {<<"peer", 0>>, <<"device", 0>>}, recalled : BOOLEAN]

\* The log and what is on its way: the platform has a message of each sender at
\* most once, answers with its place, and none that it has is on its way.
PlatOK ==
    /\ scen \in Scenarios
    /\ plat \in Seq(Message) /\ Len(plat) <= MaxMsgs
    /\ wire \subseteq Senders
    /\ answer \in [Senders -> 0..Len(plat)]
    /\ \A s \in Senders : CountBy(s) = IF answer[s] = 0 THEN 0 ELSE 1
    /\ \A s \in wire : answer[s] = 0

\* What is queued or fetched is in the log.
FramesOK ==
    /\ pushq \in Seq(1..Len(plat)) /\ work \subseteq 1..Len(plat)
    /\ retry \in [Ids -> Nat] /\ \A k \in Ids : retry[k] > 0 => k <= Len(plat)
    /\ hist \in [on : BOOLEAN, left : SUBSET (1..Len(plat))]
    /\ side \in Seq(1..Len(plat))

RowSet == [id : Nat, dir : {"in", "out", None}, type : {"text", "image", "audio", None},
           at : Nat, status : {None, "sending", "sent", "failed"}, recalled : BOOLEAN]

\* A row names the message of its key: its own, the answer to its request, or,
\* where nothing was answered, none.
RowOK(p) ==
    /\ rows[p].id <= Len(plat)
    /\ ~Known(p) => rows[p].id = 0 /\ rows[p].status = None
    /\ p[1] = "m" /\ Known(p) => rows[p].id = p[2]
    /\ p[1] \in {"p", "a"} => rows[p].id = 0
    /\ p[1] = "q" => /\ rows[p].id # 0 => rows[p].id = answer[p]
                     /\ rows[p].status = "sent" => answer[p] # 0
                     /\ ~Known(p) => answer[p] = 0 /\ p \notin wire
    /\ rows[p].recalled => rows[p].id # 0 /\ plat[rows[p].id].recalled

RowsOK == rows \in [Pks -> RowSet] /\ \A p \in Pks : RowOK(p)

CallSet == [pc : {"idle", "send", "wait", "complete", "recall", "recalled"},
            by : Pks \cup {<<"q", 0>>}, type : {"text", "image", None}, id : Nat, ok : BOOLEAN]

Outbound(c) == call[c].pc \in {"send", "wait", "complete"}

\* A request in progress works for a message that no other one works for; what
\* it concluded is what the platform answered.
CallOK(c) ==
    /\ Outbound(c) => /\ call[c].by \in {"q", "p"} \X Reqs
                      /\ call[c].by[1] = "q" => Known(call[c].by) /\ rows[call[c].by].id = 0
                      /\ \A d \in Callers : Outbound(d) /\ call[d].by = call[c].by => d = c
    /\ call[c].pc = "send" => answer[call[c].by] = 0 /\ call[c].by \notin wire
    /\ call[c].pc = "complete" => /\ call[c].id # 0 => call[c].id = answer[call[c].by]
                                  /\ call[c].ok => call[c].id # 0
    /\ call[c].pc \in {"recall", "recalled"} =>
          call[c].by \in Pks /\ call[c].id # 0 /\ rows[call[c].by].id = call[c].id
    /\ call[c].pc = "recalled" => plat[call[c].id].recalled

CallsOK == call \in [Callers -> CallSet] /\ \A c \in Callers : CallOK(c)

ArSet == [pc : {"idle", "decide", "claim", "ai", "check", "send", "wait", "record", "finish"},
          k : Nat, ai : BOOLEAN, id : Nat, ok : BOOLEAN]

\* The reply in progress has taken its message; before it is sent, and for a
\* message nobody took, nothing of it is on its way.
ReplyOK ==
    /\ ar \in ArSet /\ log \in [Ids -> {"open", "taken", "answered", "given_up"}]
    /\ ar.pc # "idle" => ar.k \in Ids
    /\ ar.pc \notin {"idle", "decide", "claim"} => log[ar.k] = "taken"
    /\ ar.pc \in {"ai", "check", "send"} => answer[<<"a", ar.k>>] = 0 /\ <<"a", ar.k>> \notin wire
    /\ ar.pc \in {"idle", "decide", "claim", "ai", "check", "send", "wait"} => ~ar.ok /\ ar.id = 0
    /\ ar.ok => answer[<<"a", ar.k>>] # 0
    /\ ar.pc = "record" /\ ar.id # 0 => ar.id = answer[<<"a", ar.k>>]
    /\ \A k \in Ids : log[k] = "open" => answer[<<"a", k>>] = 0 /\ <<"a", k>> \notin wire
    /\ \A k \in Ids : log[k] = "answered" => answer[<<"a", k>>] # 0

\* Nobody had the message in hand when the reply was checked.
BarredOK == ar.pc = "send" => ar.k \notin barred

IInv == PlatOK /\ FramesOK /\ RowsOK /\ CallsOK /\ ReplyOK /\ BarredOK

USE ScenariosAssumption, BoundAssumption

-----------------------------------------------------------------------------
(* The platform's log.                                                     *)

LEMMA SeqOfMore ==
    ASSUME NEW S, NEW T, S \subseteq T, NEW s \in Seq(S)
    PROVE  s \in Seq(T)
  OBVIOUS

LEMMA TailInSeq ==
    ASSUME NEW S, NEW s \in Seq(S), s # <<>>
    PROVE  Tail(s) \in Seq(S) /\ Head(s) \in S
  OBVIOUS

LEMMA CountType == ASSUME PlatOK, NEW s PROVE
    /\ IsFiniteSet({k \in 1..Len(plat) : plat[k].by = s}) /\ CountBy(s) \in Nat
  <1>1. Len(plat) \in Nat
    BY DEF PlatOK
  <1>2. IsFiniteSet(1..Len(plat))
    BY <1>1, FS_Interval
  <1>3. IsFiniteSet({k \in 1..Len(plat) : plat[k].by = s})
    BY <1>2, FS_Subset
  <1> QED BY <1>3, FS_CardinalityType DEF CountBy

\* A message more counts for its sender.
LEMMA CountAppend ==
    ASSUME PlatOK, NEW m \in Message, plat' = Append(plat, m), NEW s
    PROVE  CountBy(s)' = IF m.by = s THEN CountBy(s) + 1 ELSE CountBy(s)
  <1> DEFINE K == {k \in 1..Len(plat) : plat[k].by = s}
             N == {k \in 1..Len(plat') : plat'[k].by = s}
             n == Len(plat) + 1
  <1>1. /\ plat \in Seq(Message) /\ Len(plat) \in Nat /\ Len(plat') = n /\ plat'[n] = m
        /\ \A k \in 1..Len(plat) : plat'[k] = plat[k]
    BY DEF PlatOK
  <1>2. n \notin K
    BY <1>1
  <1>5. IsFiniteSet(K)
    BY CountType
  <1>3. N = IF m.by = s THEN K \cup {n} ELSE K
    <2>1. 1..Len(plat') = 1..Len(plat) \cup {n}
      BY <1>1
    <2>2. \A k \in 1..Len(plat) : plat'[k].by = plat[k].by
      BY <1>1
    <2>3. plat'[n].by = m.by
      BY <1>1
    <2> HIDE DEF n
    <2> QED BY <2>1, <2>2, <2>3
  <1>4. Cardinality(K \cup {n}) = Cardinality(K) + 1
    BY <1>2, <1>5, FS_AddElement
  <1> QED BY <1>3, <1>4 DEF CountBy

\* A recall does not change who sent the messages.
LEMMA CountRecall ==
    ASSUME PlatOK, NEW i \in 1..Len(plat), plat' = [plat EXCEPT ![i].recalled = TRUE]
    PROVE  (\A s : CountBy(s)' = CountBy(s)) /\ Len(plat') = Len(plat) /\ plat' \in Seq(Message)
  <1>1. plat \in Seq(Message) /\ [plat[i] EXCEPT !.recalled = TRUE] \in Message
    <2>1. plat \in Seq(Message) /\ plat[i] \in Message
      BY DEF PlatOK
    <2> QED BY <2>1 DEF Message
  <1>2. plat' = [plat EXCEPT ![i] = [plat[i] EXCEPT !.recalled = TRUE]]
    OBVIOUS
  <1>3. plat' \in Seq(Message) /\ Len(plat') = Len(plat)
    BY <1>1, <1>2, ExceptSeq
  <1>4. \A k \in 1..Len(plat) :
           plat'[k] = IF k = i THEN [plat[i] EXCEPT !.recalled = TRUE] ELSE plat[k]
    BY <1>1, <1>2, ExceptSeq
  <1>5. \A k \in 1..Len(plat) : plat'[k].by = plat[k].by
    BY <1>1, <1>4 DEF Message
  <1> QED BY <1>3, <1>5 DEF CountBy

\* What the platform has said stays said.
Later ==
    /\ Len(plat) <= Len(plat')
    /\ \A k \in 1..Len(plat) : plat[k].recalled => plat'[k].recalled
    /\ \A s \in Senders : answer[s] # 0 => answer'[s] = answer[s]
    /\ \A s \in Senders : answer'[s] # answer[s] => s \in wire

LEMMA PlatSame ==
    ASSUME PlatOK, UNCHANGED <<scen, platform>>
    PROVE  PlatOK' /\ Later
  <1>1. Len(plat) \in Nat
    BY DEF PlatOK
  <1> QED BY <1>1 DEF PlatOK, CountBy, platform, Later

LEMMA PlatAppend ==
    ASSUME PlatOK, UNCHANGED scen, NEW m \in Message, Appended(m),
           \/ m.by \notin Senders /\ UNCHANGED <<wire, answer>>
           \/ /\ m.by \in wire /\ wire' = wire \ {m.by}
              /\ answer' = [answer EXCEPT ![m.by] = Len(plat) + 1]
    PROVE  PlatOK' /\ Later /\ Len(plat') = Len(plat) + 1 /\ wire' \subseteq wire
  <1>1. /\ plat \in Seq(Message) /\ Len(plat) \in Nat /\ plat' = Append(plat, m)
        /\ plat' \in Seq(Message) /\ Len(plat') = Len(plat) + 1
        /\ \A k \in 1..Len(plat) : plat'[k] = plat[k]
    BY DEF PlatOK, Appended
  <1>2. Len(plat') <= MaxMsgs
    <2>1. scen.max \in 1..MaxMsgs /\ Len(plat) < scen.max
      BY DEF PlatOK, Appended
    <2> QED BY <1>1, <2>1
  <1>3. \A s \in Senders : CountBy(s)' = IF m.by = s THEN CountBy(s) + 1 ELSE CountBy(s)
    BY <1>1, CountAppend
  <1>4. wire' \subseteq wire /\ wire \subseteq Senders
    BY DEF PlatOK
  <1>5. answer' \in [Senders -> 0..Len(plat')]
    BY <1>1, <1>4 DEF PlatOK
  <1>6. \A s \in Senders : CountBy(s)' = IF answer'[s] = 0 THEN 0 ELSE 1
    BY <1>1, <1>3, <1>4 DEF PlatOK
  <1>7. \A s \in wire' : answer'[s] = 0
    BY <1>4 DEF PlatOK
  <1>8. Later
    BY <1>1, <1>4 DEF PlatOK, Later
  <1> QED BY <1>1, <1>2, <1>4, <1>5, <1>6, <1>7, <1>8 DEF PlatOK

LEMMA PlatRecall ==
    ASSUME PlatOK, UNCHANGED <<scen, wire, answer>>, NEW i \in 1..Len(plat),
           plat' = [plat EXCEPT ![i].recalled = TRUE]
    PROVE  PlatOK' /\ Later /\ Len(plat') = Len(plat) /\ plat'[i].recalled
  <1>2. (\A s : CountBy(s)' = CountBy(s)) /\ Len(plat') = Len(plat) /\ plat' \in Seq(Message)
    BY CountRecall
  <1>1. plat' \in Seq(Message) /\ Len(plat') = Len(plat) /\ Len(plat) \in Nat
    BY <1>2 DEF PlatOK
  <1>3. plat \in Seq(Message) /\ plat[i] \in Message
    BY DEF PlatOK
  <1>4. \A k \in 1..Len(plat) : plat[k].recalled => plat'[k].recalled
    BY <1>3 DEF Message
  <1>5. plat'[i].recalled
    BY <1>3 DEF Message
  <1>6. PlatOK'
    BY <1>1, <1>2 DEF PlatOK
  <1>7. Later
    BY <1>1, <1>4 DEF Later
  <1> QED BY <1>1, <1>5, <1>6, <1>7

\* A sender the platform has not answered puts its message on its way, or is
\* refused.
LEMMA PlatWire ==
    ASSUME PlatOK, UNCHANGED <<scen, plat, answer>>, NEW s \in Senders,
           \/ wire' = wire \cup {s} /\ answer[s] = 0
           \/ wire' = wire \ {s}
    PROVE  PlatOK' /\ Later
  <1>1. Len(plat) \in Nat
    BY DEF PlatOK
  <1>2. \A t : CountBy(t)' = CountBy(t)
    BY DEF CountBy
  <1>3. wire' \subseteq Senders /\ \A t \in wire' : answer'[t] = 0
    BY DEF PlatOK
  <1>4. PlatOK'
    BY <1>2, <1>3 DEF PlatOK
  <1> QED BY <1>1, <1>4 DEF Later

-----------------------------------------------------------------------------
(* The table.                                                              *)

\* A row keeps the message it names, and the row of a request gets it only
\* from the request.
Kept(p) ==
    /\ Known(p) => Known(p)'
    /\ rows[p].id # 0 => rows'[p].id = rows[p].id
    /\ p[1] = "q" /\ Known(p) => rows'[p].id = rows[p].id
RowsKept == \A p \in Pks : Kept(p)

LEMMA KnownType == ASSUME RowsOK, NEW p \in Pks PROVE
    rows[p] \in RowSet /\ Known(p) \in BOOLEAN /\ RowOK(p)
  BY DEF RowsOK, Known

LEMMA RowsSame ==
    ASSUME PlatOK, RowsOK, Later, UNCHANGED rows, PlatOK',
           \A s \in wire' \ wire : s[1] = "q" => Known(s)
    PROVE  RowsOK' /\ RowsKept
  <1>1. RowsKept
    BY DEF RowsKept, Kept, Known
  <1>2. ASSUME NEW p \in Pks PROVE RowOK(p)'
    <2>1. rows[p] \in RowSet /\ RowOK(p) /\ UNCHANGED rows[p] /\ Known(p)' = Known(p)
      BY DEF RowsOK, Known
    <2>2. Len(plat) \in Nat /\ Len(plat') \in Nat /\ Len(plat) <= Len(plat')
      BY DEF PlatOK, Later
    <2>3. rows[p].id \in Nat
      BY <2>1 DEF RowSet
    <2>4. p[1] = "q" => p \in Senders
      BY DEF Pks, Senders
    <2>5. rows[p].recalled => rows[p].id \in 1..Len(plat) /\ plat'[rows[p].id].recalled
      BY <2>1, <2>2, <2>3 DEF RowOK, Later
    <2>6. /\ p[1] = "q" /\ answer[p] # 0 => answer'[p] = answer[p]
          /\ p[1] = "q" /\ answer'[p] # answer[p] => p \in wire
      BY <2>4 DEF Later
    <2>7. answer' \in [Senders -> 0..Len(plat')] /\ answer \in [Senders -> 0..Len(plat)]
      BY DEF PlatOK
    <2> QED BY <2>1, <2>2, <2>3, <2>4, <2>5, <2>6, <2>7 DEF RowOK
  <1> QED BY <1>1, <1>2 DEF RowsOK

\* One row is written: a known one keeps what it names, a new one names its
\* message.
LEMMA RowWrite ==
    ASSUME PlatOK, RowsOK, UNCHANGED platform, NEW p \in Pks, NEW r \in RowSet,
           rows' = [rows EXCEPT ![p] = r], r.dir # None, r.id <= Len(plat),
           p[1] = "m" => r.id = p[2],
           p[1] \in {"p", "a"} => r.id = 0,
           p[1] = "q" => /\ r.id # 0 => r.id = answer[p]
                         /\ r.status = "sent" => answer[p] # 0,
           r.recalled => r.id # 0 /\ plat[r.id].recalled
    PROVE  RowsOK'
  <1>1. rows' \in [Pks -> RowSet] /\ rows'[p] = r /\ \A q \in Pks \ {p} : rows'[q] = rows[q]
    BY DEF RowsOK
  <1>2. UNCHANGED <<plat, wire, answer>>
    BY DEF platform
  <1>3. RowOK(p)'
    BY <1>1, <1>2 DEF RowOK, Known
  <1>4. ASSUME NEW q \in Pks \ {p} PROVE RowOK(q)'
    BY <1>1, <1>2, <1>4 DEF RowOK, Known, RowsOK
  <1> QED BY <1>1, <1>3, <1>4 DEF RowsOK

\* The two writes of record_message.
LEMMA UpdateKeeps ==
    ASSUME PlatOK, RowsOK, UNCHANGED platform, NEW id, NEW p \in RowsOf(id), NEW at \in Nat,
           NEW st \in {None, "sent", "failed"}, Update(p, at, st)
    PROVE  RowsOK' /\ RowsKept
  <1> DEFINE r == [rows[p] EXCEPT !.at = IF at # 0 THEN at ELSE @,
                                  !.status = IF st # None THEN st ELSE @]
  <1>1. p \in Pks /\ Known(p) /\ rows[p].id # 0 /\ rows[p] \in RowSet /\ RowOK(p)
    BY DEF RowsOf, RowsOK
  <1>2. /\ r \in RowSet /\ r.dir = rows[p].dir /\ r.id = rows[p].id /\ r.recalled = rows[p].recalled
        /\ r.status = IF st # None THEN st ELSE rows[p].status
    BY <1>1 DEF RowSet
  <1>3. rows' = [rows EXCEPT ![p] = r]
    BY DEF Update
  <1>4. RowsOK'
    <2>1. r.dir # None /\ r.id <= Len(plat)
      BY <1>1, <1>2 DEF Known, RowOK
    <2>2. /\ p[1] = "m" => r.id = p[2]
          /\ p[1] \in {"p", "a"} => r.id = 0
          /\ p[1] = "q" => /\ r.id # 0 => r.id = answer[p]
                           /\ r.status = "sent" => answer[p] # 0
          /\ r.recalled => r.id # 0 /\ plat[r.id].recalled
      BY <1>1, <1>2 DEF RowOK
    <2> HIDE DEF r
    <2> QED BY <1>1, <1>2, <1>3, <2>1, <2>2, RowWrite
  <1>5. RowsKept
    <2>1. rows'[p] = r /\ \A q \in Pks \ {p} : rows'[q] = rows[q]
      BY <1>1, <1>3 DEF RowsOK
    <2> HIDE DEF r
    <2> QED BY <1>1, <1>2, <2>1 DEF RowsKept, Kept, Known
  <1> QED BY <1>4, <1>5

LEMMA InsertKeeps ==
    ASSUME PlatOK, RowsOK, UNCHANGED platform, NEW p \in Pks, NEW row \in RowSet, NEW count,
           Insert(p, row, count), row.dir # None, ~row.recalled, row.id <= Len(plat),
           \/ p[1] = "m" /\ ~Known(p) /\ row.id = p[2]
           \/ p[1] \in {"p", "a"} /\ row.id = 0
    PROVE  RowsOK' /\ RowsKept
  <1>1. rows' = [rows EXCEPT ![p] = row]
    BY DEF Insert
  <1>2. RowsOK'
    BY <1>1, RowWrite
  <1>3. rows[p].id = 0 /\ p[1] # "q"
    BY DEF RowsOK, RowOK
  <1>4. rows'[p] = row /\ \A q \in Pks \ {p} : rows'[q] = rows[q]
    BY <1>1 DEF RowsOK
  <1>5. RowsKept
    BY <1>3, <1>4 DEF RowsKept, Kept, Known
  <1> QED BY <1>2, <1>5

LEMMA EventKeeps ==
    ASSUME PlatOK, RowsOK, UNCHANGED platform, NEW k \in 1..Len(plat), NEW live,
           RecordEvent(k, live)
    PROVE  RowsOK' /\ RowsKept
  <1>1. plat \in Seq(Message) /\ Len(plat) \in Nat /\ Len(plat) <= MaxMsgs /\ MaxMsgs \in Nat
    BY DEF PlatOK
  <1>2. plat[k] \in Message /\ k \in Nat /\ k # 0 /\ <<"m", k>> \in Pks
    BY <1>1 DEF Pks, Ids
  <1>3. CASE IsNew(k)
    <2> DEFINE row == Row(k, plat[k].dir, plat[k].type, 2 * k, None)
    <2>1. row \in RowSet /\ row.id = k /\ row.dir # None /\ ~row.recalled
      BY <1>2 DEF Row, RowSet, Message, None
    <2>2. ~Known(<<"m", k>>)
      BY <1>2, <1>3 DEF IsNew, RowsOf, RowsOK, RowOK
    <2>3. Insert(<<"m", k>>, row, live /\ plat[k].dir = "in")
      BY <1>3 DEF RecordEvent
    <2>4. <<"m", k>>[1] = "m" /\ <<"m", k>>[2] = k
      OBVIOUS
    <2> HIDE DEF row
    <2> QED BY <1>1, <1>2, <2>1, <2>2, <2>3, <2>4, InsertKeeps
  <1>4. CASE ~IsNew(k)
    <2>1. PICK p \in RowsOf(k) : Update(p, 2 * k, None)
      BY <1>4 DEF RecordEvent
    <2> QED BY <1>2, <2>1, UpdateKeeps
  <1> QED BY <1>3, <1>4

LEMMA SentKeeps ==
    ASSUME PlatOK, RowsOK, UNCHANGED platform,
           NEW by \in ({"p"} \X Reqs) \cup ({"a"} \X Ids), NEW id \in 0..Len(plat), NEW ok,
           RecordSent(by, id, ok)
    PROVE  RowsOK' /\ RowsKept
  <1> DEFINE st == IF ok THEN "sent" ELSE "failed"
             p == IF id # 0 THEN <<"m", id>> ELSE by
             row == Row(id, "out", "text", Now, st)
  <1>1. Len(plat) \in Nat /\ Len(plat) <= MaxMsgs /\ MaxMsgs \in Nat /\ Now \in Nat /\ id \in Nat
    BY DEF PlatOK, Now
  <1>2. by \in Pks /\ by[1] \in {"p", "a"} /\ (id # 0 => <<"m", id>> \in Pks)
    BY <1>1 DEF Pks, Ids
  <1>3. CASE RowsOf(id) = {}
    <2>1. row \in RowSet /\ row.id = id /\ row.dir # None /\ ~row.recalled
      BY <1>1 DEF Row, RowSet, None
    <2>2. id # 0 => ~Known(<<"m", id>>)
      BY <1>1, <1>2, <1>3 DEF RowsOf, RowsOK, RowOK
    <2>3. Insert(p, row, FALSE)
      BY <1>3 DEF RecordSent
    <2>4. p \in Pks /\ \/ p[1] = "m" /\ ~Known(p) /\ id = p[2]
                       \/ p[1] \in {"p", "a"} /\ id = 0
      BY <1>2, <2>2
    <2>5. row.id <= Len(plat)
      BY <1>1, <2>1
    <2> HIDE DEF row, p
    <2> QED BY <2>1, <2>3, <2>4, <2>5, InsertKeeps
  <1>4. CASE RowsOf(id) # {}
    <2>1. PICK q \in RowsOf(id) : Update(q, 0, st)
      BY <1>4 DEF RecordSent
    <2>2. st \in {None, "sent", "failed"}
      OBVIOUS
    <2> QED BY <2>1, <2>2, UpdateKeeps
  <1> QED BY <1>3, <1>4

-----------------------------------------------------------------------------
(* The parts that a step leaves alone.                                     *)

LEMMA FramesSame ==
    ASSUME PlatOK, PlatOK', FramesOK, Later, UNCHANGED <<frames, hist, side>>
    PROVE  FramesOK'
  <1>1. Len(plat) \in Nat /\ Len(plat') \in Nat /\ Len(plat) <= Len(plat')
    BY DEF PlatOK, Later
  <1>2. 1..Len(plat) \subseteq 1..Len(plat')
    BY <1>1
  <1>3. pushq' \in Seq(1..Len(plat')) /\ side' \in Seq(1..Len(plat'))
    BY <1>2, SeqOfMore DEF FramesOK, frames
  <1>4. \A k \in Ids : retry'[k] > 0 => k <= Len(plat')
    BY <1>1 DEF FramesOK, frames, Ids
  <1> QED BY <1>2, <1>3, <1>4 DEF FramesOK, frames

LEMMA ReplySame ==
    ASSUME PlatOK, PlatOK', ReplyOK, Later, UNCHANGED <<ar, log>>,
           \A s \in wire' \ wire : s[1] # "a"
    PROVE  ReplyOK'
  <1>1. \A k \in Ids : <<"a", k>> \in Senders
    BY DEF Senders
  <1>2. \A k \in Ids : <<"a", k>>[1] = "a"
    OBVIOUS
  <1>3. \A k \in Ids : <<"a", k>> \notin wire =>
           <<"a", k>> \notin wire' /\ answer'[<<"a", k>>] = answer[<<"a", k>>]
    BY <1>1, <1>2 DEF Later
  <1>4. \A k \in Ids : answer[<<"a", k>>] # 0 => answer'[<<"a", k>>] = answer[<<"a", k>>]
    BY <1>1 DEF Later
  <1>5. ar.pc # "idle" => ar.k \in Ids
    BY DEF ReplyOK
  <1>6. ar.ok => ar.pc # "idle"
    BY DEF ReplyOK
  <1>7. (ar.pc = "record" /\ ar.id # 0 => ar.id = answer[<<"a", ar.k>>])'
    <2> SUFFICES ASSUME ar.pc = "record", ar.id # 0 PROVE ar.id = answer'[<<"a", ar.k>>]
      OBVIOUS
    <2>1. ar.id = answer[<<"a", ar.k>>]
      BY DEF ReplyOK
    <2> QED BY <1>4, <1>5, <2>1
  <1> QED BY <1>3, <1>4, <1>5, <1>6, <1>7 DEF ReplyOK

LEMMA BarredSame == ASSUME BarredOK, ReplyOK, UNCHANGED ar, Track PROVE BarredOK'
  BY DEF BarredOK, ReplyOK, Track, PastCheck

\* Only request c changes what a row names, its own, and only it sends.
Answers(c) ==
    /\ \A p \in Pks : \/ Kept(p)
                      \/ Outbound(c) /\ p = call[c].by /\ rows[p].id = 0 /\ Known(p)'
    /\ \A s \in wire' \ wire : Outbound(c) /\ s = call[c].by

\* A request makes a step: it answers for its own row, the rows of the others
\* are kept, and nothing that they have not sent goes out for them.
LEMMA CallWrite ==
    ASSUME PlatOK, RowsOK, CallsOK, Later, NEW c \in Callers, NEW v \in CallSet,
           call' = [call EXCEPT ![c] = v], CallOK(c)', Answers(c)
    PROVE  CallsOK'
  <1>1. call' \in [Callers -> CallSet] /\ call'[c] = v
    BY DEF CallsOK
  <1>2. ASSUME NEW d \in Callers \ {c} PROVE CallOK(d)'
    <2>1. call'[d] = call[d] /\ CallOK(d) /\ CallOK(c) /\ call[d] \in CallSet /\ Outbound(d)' = Outbound(d)
      BY DEF CallsOK, Outbound
    <2>2. Outbound(d) => call[d].by \in {"q", "p"} \X Reqs /\ call[d].by \in Senders /\ call[d].by \in Pks
      BY <2>1 DEF CallOK, Senders, Pks
    <2>3. ASSUME Outbound(d)
          PROVE  /\ call[d].by[1] = "q" => Known(call[d].by)' /\ rows'[call[d].by].id = 0
                 /\ \A e \in Callers : Outbound(e)' /\ call'[e].by = call[d].by => e = d
                 /\ Outbound(c) => call[d].by # call[c].by
      <3>1. Outbound(c) => call[d].by # call[c].by
        BY <2>1, <2>3 DEF CallOK
      <3>2. Kept(call[d].by)
        BY <2>2, <2>3, <3>1 DEF Answers
      <3>3. ASSUME NEW e \in Callers, Outbound(e)', call'[e].by = call[d].by PROVE e = d
        <4>1. CASE e = c
          BY <2>1, <2>3, <3>3, <4>1 DEF CallOK
        <4>2. CASE e # c
          BY <2>1, <2>3, <3>3, <4>2 DEF CallsOK, CallOK, Outbound
        <4> QED BY <4>1, <4>2
      <3> QED BY <2>1, <2>3, <3>1, <3>2, <3>3 DEF CallOK, Kept
    <2>4. call[d].pc = "send" => answer'[call[d].by] = 0 /\ call[d].by \notin wire'
      BY <2>1, <2>2, <2>3 DEF CallOK, Outbound, Later, Answers
    <2>5. call[d].pc = "complete" => /\ call[d].id # 0 => call[d].id = answer'[call[d].by]
                                     /\ call[d].ok => call[d].id # 0
      BY <2>1, <2>2 DEF CallOK, Outbound, Later
    <2>6. ASSUME call[d].pc \in {"recall", "recalled"}
          PROVE  /\ call[d].by \in Pks /\ call[d].id # 0 /\ rows'[call[d].by].id = call[d].id
                 /\ call[d].id \in 1..Len(plat)
      <3>1. call[d].by \in Pks /\ call[d].id # 0 /\ rows[call[d].by].id = call[d].id
        BY <2>1, <2>6 DEF CallOK
      <3>2. Kept(call[d].by)
        BY <2>1, <3>1 DEF Answers
      <3>3. rows[call[d].by].id <= Len(plat) /\ Len(plat) \in Nat /\ call[d].id \in Nat
        BY <2>1, <3>1 DEF RowsOK, RowOK, PlatOK, CallSet
      <3> QED BY <3>1, <3>2, <3>3 DEF Kept
    <2>7. call[d].pc = "recalled" => plat'[call[d].id].recalled
      BY <2>1, <2>6 DEF CallOK, Later
    <2> QED BY <2>1, <2>2, <2>3, <2>4, <2>5, <2>6, <2>7 DEF CallOK, Outbound
  <1> QED BY <1>1, <1>2 DEF CallsOK

\* The same where no request makes a step.
LEMMA CallsSame ==
    ASSUME PlatOK, RowsOK, CallsOK, Later, RowsKept, UNCHANGED call,
           \A s \in wire' \ wire : s[1] = "a"
    PROVE  CallsOK'
  <1>1. ASSUME NEW c \in Callers PROVE CallOK(c)'
    <2>1. CallOK(c) /\ call[c] \in CallSet /\ UNCHANGED call[c] /\ \A d \in Callers : Outbound(d)' = Outbound(d)
      BY DEF CallsOK, Outbound
    <2>2. Outbound(c) => call[c].by \in {"q", "p"} \X Reqs /\ call[c].by \in Senders /\ call[c].by \in Pks
      BY <2>1 DEF CallOK, Senders, Pks
    <2>3. ASSUME Outbound(c)
          PROVE  /\ call[c].by[1] = "q" => Known(call[c].by)' /\ rows'[call[c].by].id = 0
                 /\ \A e \in Callers : Outbound(e)' /\ call'[e].by = call[c].by => e = c
      BY <2>1, <2>2, <2>3 DEF CallOK, RowsKept, Kept
    <2>4. call[c].pc = "send" => answer'[call[c].by] = 0 /\ call[c].by \notin wire'
      BY <2>1, <2>2 DEF CallOK, Outbound, Later
    <2>5. call[c].pc = "complete" => /\ call[c].id # 0 => call[c].id = answer'[call[c].by]
                                     /\ call[c].ok => call[c].id # 0
      BY <2>1, <2>2 DEF CallOK, Outbound, Later
    <2>6. ASSUME call[c].pc \in {"recall", "recalled"}
          PROVE  /\ call[c].by \in Pks /\ call[c].id # 0 /\ rows'[call[c].by].id = call[c].id
                 /\ call[c].id \in 1..Len(plat)
      <3>1. call[c].by \in Pks /\ call[c].id # 0 /\ rows[call[c].by].id = call[c].id
        BY <2>1, <2>6 DEF CallOK
      <3>2. rows[call[c].by].id <= Len(plat) /\ Len(plat) \in Nat /\ call[c].id \in Nat
        BY <2>1, <3>1 DEF RowsOK, RowOK, PlatOK, CallSet
      <3> QED BY <3>1, <3>2 DEF RowsKept, Kept
    <2>7. call[c].pc = "recalled" => plat'[call[c].id].recalled
      BY <2>1, <2>6 DEF CallOK, Later
    <2> QED BY <2>1, <2>2, <2>3, <2>4, <2>5, <2>6, <2>7 DEF CallOK, Outbound
  <1> QED BY <1>1 DEF CallsOK

-----------------------------------------------------------------------------
(* The steps.                                                              *)

\* The log does not change and no request or reply makes a step.
LEMMA StoreStep ==
    ASSUME IInv, UNCHANGED <<scen, platform, call, ar, log>>, FramesOK', RowsOK', RowsKept, Track
    PROVE  IInv'
  <1>1. PlatOK /\ PlatOK' /\ Later /\ UNCHANGED wire
    BY PlatSame DEF IInv, platform
  <1>2. CallsOK'
    BY <1>1, CallsSame DEF IInv
  <1>3. ReplyOK' /\ BarredOK'
    BY <1>1, ReplySame, BarredSame DEF IInv
  <1> QED BY <1>1, <1>2, <1>3 DEF IInv

\* The log grows.
LEMMA LogStep ==
    ASSUME IInv, UNCHANGED <<call, ar, log, rows>>, PlatOK', Later, wire' \subseteq wire,
           FramesOK', Track
    PROVE  IInv'
  <1>1. RowsOK' /\ RowsKept
    BY RowsSame DEF IInv
  <1>2. CallsOK'
    BY <1>1, CallsSame DEF IInv
  <1>3. ReplyOK' /\ BarredOK'
    BY ReplySame, BarredSame DEF IInv
  <1> QED BY <1>1, <1>2, <1>3 DEF IInv

LEMMA PushedType ==
    ASSUME NEW n \in Nat, pushq \in Seq(1..n), NEW k \in 1..n
    PROVE  Pushed(k) \in Seq(1..n)
  <1>1. CASE Len(pushq) = PushCapacity
    <2>1. pushq # <<>>
      BY <1>1
    <2>2. Tail(pushq) \in Seq(1..n)
      BY <2>1, TailInSeq
    <2> QED BY <1>1, <2>2 DEF Pushed
  <1>2. CASE Len(pushq) # PushCapacity
    BY <1>2 DEF Pushed
  <1> QED BY <1>1, <1>2

LEMMA AppendedFrames ==
    ASSUME PlatOK, FramesOK, NEW m, Appended(m), Len(plat') = Len(plat) + 1,
           UNCHANGED <<work, retry, syncs, side>>
    PROVE  FramesOK'
  <1>1. Len(plat) \in Nat /\ 1..Len(plat) \subseteq 1..Len(plat')
    BY DEF PlatOK
  <1>2. pushq \in Seq(1..Len(plat')) /\ side' \in Seq(1..Len(plat'))
    BY <1>1, SeqOfMore DEF FramesOK
  <1>3. pushq' \in Seq(1..Len(plat'))
    BY <1>1, <1>2, PushedType DEF Appended
  <1>4. \A k \in Ids : retry'[k] > 0 => k <= Len(plat')
    BY <1>1 DEF FramesOK, Ids
  <1>5. hist' \in [on : BOOLEAN, left : SUBSET (1..Len(plat'))]
    BY <1>1 DEF FramesOK, syncs
  <1> QED BY <1>1, <1>2, <1>3, <1>4, <1>5 DEF FramesOK

LEMMA WorldStep == ASSUME IInv, World PROVE IInv'
  <1>1. CASE PeerSends
    <2>1. PICK t \in scen.types : Appended(Msg("in", t, <<"peer", 0>>))
      BY <1>1 DEF PeerSends
    <2> DEFINE m == Msg("in", t, <<"peer", 0>>)
    <2>2. m \in Message /\ m.by = <<"peer", 0>>
      BY DEF IInv, PlatOK, Msg, Message
    <2>3. m.by \notin Senders
      BY <2>2 DEF Senders
    <2>4. UNCHANGED <<scen, wire, answer, work, retry, syncs, side, call, ar, log, rows>> /\ Track
      BY <1>1 DEF PeerSends, table, replier
    <2> HIDE DEF m
    <2>5. PlatOK' /\ Later /\ Len(plat') = Len(plat) + 1
      BY <2>1, <2>2, <2>3, <2>4, PlatAppend DEF IInv, m
    <2>6. FramesOK'
      BY <2>1, <2>4, <2>5, AppendedFrames DEF IInv
    <2> QED BY <2>4, <2>5, <2>6, LogStep
  <1>2. CASE DeviceSends
    <2> DEFINE m == Msg("out", "text", <<"device", 0>>)
    <2>2. m \in Message /\ m.by = <<"device", 0>>
      BY DEF Msg, Message
    <2>3. m.by \notin Senders
      BY <2>2 DEF Senders
    <2>4. /\ UNCHANGED <<scen, wire, answer, work, retry, syncs, side, call, ar, log, rows>>
          /\ Track /\ Appended(m)
      BY <1>2 DEF DeviceSends, table, replier
    <2> HIDE DEF m
    <2>5. PlatOK' /\ Later /\ Len(plat') = Len(plat) + 1
      BY <2>2, <2>3, <2>4, PlatAppend DEF IInv
    <2>6. FramesOK'
      BY <2>4, <2>5, AppendedFrames DEF IInv
    <2> QED BY <2>4, <2>5, <2>6, LogStep
  <1>3. ASSUME NEW s \in Senders, MessageArrives(s) PROVE IInv'
    <2> DEFINE m == Msg("out", "text", s)
    <2>2. m \in Message /\ m.by = s
      BY DEF Msg, Message
    <2>4. /\ UNCHANGED <<scen, work, retry, syncs, side, call, ar, log, rows>>
          /\ Track /\ Appended(m) /\ s \in wire /\ wire' = wire \ {s}
          /\ answer' = [answer EXCEPT ![s] = Len(plat) + 1]
      BY <1>3 DEF MessageArrives, table, replier
    <2> HIDE DEF m
    <2>5. PlatOK' /\ Later /\ Len(plat') = Len(plat) + 1 /\ wire' \subseteq wire
      BY <2>2, <2>4, PlatAppend DEF IInv
    <2>6. FramesOK'
      BY <2>4, <2>5, AppendedFrames DEF IInv
    <2> QED BY <2>4, <2>5, <2>6, LogStep
  <1>4. CASE Redelivers
    <2>1. PICK k \in 1..Len(plat) : pushq' = Pushed(k)
      BY <1>4 DEF Redelivers
    <2>2. Len(plat) \in Nat /\ pushq' \in Seq(1..Len(plat))
      BY <2>1, PushedType DEF IInv, PlatOK, FramesOK
    <2>3. UNCHANGED <<scen, platform, work, retry, hist, side, call, ar, log, rows>> /\ Track
      BY <1>4 DEF Redelivers, table, syncs, replier
    <2>4. FramesOK'
      BY <2>2, <2>3 DEF IInv, FramesOK, platform
    <2>5. RowsOK' /\ RowsKept
      BY <2>3, RowsSame, PlatSame DEF IInv, platform
    <2> QED BY <2>3, <2>4, <2>5, StoreStep
  <1> QED BY <1>1, <1>2, <1>3, <1>4 DEF World

LEMMA RowsUntouched ==
    ASSUME IInv, UNCHANGED <<scen, platform, rows>>
    PROVE  RowsOK' /\ RowsKept
  <1>1. PlatOK' /\ Later /\ UNCHANGED wire
    BY PlatSame DEF IInv, platform
  <1> QED BY <1>1, RowsSame DEF IInv

LEMMA SideType ==
    ASSUME FramesOK, NEW k \in 1..Len(plat), AfterPersisted(k)
    PROVE  side' \in Seq(1..Len(plat))
  <1>1. side \in Seq(1..Len(plat)) /\ Append(side, k) \in Seq(1..Len(plat))
    BY DEF FramesOK
  <1> QED BY <1>1 DEF AfterPersisted

LEMMA FramesStep == ASSUME IInv, Frames PROVE IInv'
  <1> USE DEF IInv, platform
  <1>0. Len(plat) \in Nat
    BY DEF PlatOK
  <1>1. CASE TakeFrame
    <2>1. /\ UNCHANGED <<scen, platform, rows, call, ar, log, hist, side, retry>> /\ Track
          /\ pushq # <<>> /\ work' = work \cup {Head(pushq)} /\ pushq' = Tail(pushq)
      BY <1>1 DEF TakeFrame, table, syncs, replier
    <2>2. Tail(pushq) \in Seq(1..Len(plat)) /\ Head(pushq) \in 1..Len(plat)
      BY <2>1, TailInSeq DEF FramesOK
    <2>3. FramesOK'
      BY <2>1, <2>2 DEF FramesOK
    <2> QED BY <2>1, <2>3, RowsUntouched, StoreStep
  <1>2. ASSUME NEW k \in Ids, HandleMessage(k) PROVE IInv'
    <2>1. /\ UNCHANGED <<scen, platform, call, ar, log, hist, pushq, retry>> /\ Track
          /\ k \in work /\ work' = work \ {k} /\ RecordEvent(k, TRUE) /\ AfterPersisted(k)
      BY <1>2 DEF HandleMessage, syncs
    <2>2. k \in 1..Len(plat)
      BY <2>1 DEF FramesOK
    <2>3. FramesOK'
      BY <2>1, <2>2, SideType DEF FramesOK
    <2>4. RowsOK' /\ RowsKept
      BY <2>1, <2>2, EventKeeps
    <2> QED BY <2>1, <2>3, <2>4, StoreStep
  <1>3. ASSUME NEW k \in Ids, HandleFails(k) PROVE IInv'
    <2>1. /\ UNCHANGED <<scen, platform, rows, call, ar, log, hist, pushq, side>> /\ Track
          /\ k \in work /\ work' = work \ {k} /\ retry' = [retry EXCEPT ![k] = 3]
      BY <1>3 DEF HandleFails, table, syncs, replier
    <2>2. k \in 1..Len(plat)
      BY <2>1 DEF FramesOK
    <2>3. FramesOK'
      BY <1>0, <2>1, <2>2 DEF FramesOK, Ids
    <2> QED BY <2>1, <2>3, RowsUntouched, StoreStep
  <1>4. ASSUME NEW k \in Ids, RetryPersistence(k) PROVE IInv'
    <2>1. UNCHANGED <<scen, platform, call, ar, log, hist, pushq, work>> /\ Track /\ retry[k] > 0
      BY <1>4 DEF RetryPersistence, syncs
    <2>2. k \in 1..Len(plat)
      BY <1>0, <2>1 DEF FramesOK, Ids
    <2>3. CASE retry' = [retry EXCEPT ![k] = 0] /\ RecordEvent(k, TRUE) /\ AfterPersisted(k)
      <3>1. FramesOK'
        BY <2>1, <2>2, <2>3, SideType DEF FramesOK
      <3>2. RowsOK' /\ RowsKept
        BY <2>1, <2>2, <2>3, EventKeeps
      <3> QED BY <2>1, <3>1, <3>2, StoreStep
    <2>4. CASE retry' = [retry EXCEPT ![k] = @ - 1] /\ UNCHANGED <<table, side>>
      <3>1. retry' \in [Ids -> Nat] /\ \A j \in Ids : retry'[j] > 0 => retry[j] > 0
        BY <2>1, <2>4 DEF FramesOK
      <3>2. FramesOK'
        BY <2>1, <2>4, <3>1 DEF FramesOK
      <3> QED BY <2>1, <2>4, <3>2, RowsUntouched, StoreStep DEF table
    <2> QED BY <1>4, <2>3, <2>4 DEF RetryPersistence
  <1> QED BY <1>1, <1>2, <1>3, <1>4 DEF Frames

LEMMA SyncStep == ASSUME IInv, Sync PROVE IInv'
  <1> USE DEF IInv, platform
  <1>0. Len(plat) \in Nat
    BY DEF PlatOK
  <1>1. ASSUME NEW s \in Syncs, FetchConversations(s) \/ UpsertConversations(s) PROVE IInv'
    <2>1. UNCHANGED <<scen, platform, rows, call, ar, log, frames, hist, side>> /\ Track
      BY <1>1 DEF FetchConversations, UpsertConversations, table, replier
    <2>2. FramesOK'
      BY <2>1 DEF FramesOK, frames
    <2> QED BY <2>1, <2>2, RowsUntouched, StoreStep
  <1>2. CASE FetchMessages \/ Reconcile
    <2>1. UNCHANGED <<scen, platform, rows, call, ar, log, frames, side>> /\ Track
      BY <1>2 DEF FetchMessages, Reconcile, table, replier
    <2>2. hist' \in [on : BOOLEAN, left : SUBSET (1..Len(plat))]
      <3>1. hist' = [on |-> TRUE, left |-> 1..Len(plat)] \/ hist' = [on |-> FALSE, left |-> {}]
        BY <1>2 DEF FetchMessages, Reconcile, NoHist
      <3>2. 1..Len(plat) \in SUBSET (1..Len(plat)) /\ {} \in SUBSET (1..Len(plat))
        OBVIOUS
      <3>3. ASSUME NEW x \in SUBSET (1..Len(plat)), NEW b \in BOOLEAN
            PROVE  [on |-> b, left |-> x] \in [on : BOOLEAN, left : SUBSET (1..Len(plat))]
        OBVIOUS
      <3> QED BY <3>1, <3>2, <3>3
    <2>3. FramesOK'
      BY <2>1, <2>2 DEF FramesOK, frames
    <2> QED BY <2>1, <2>3, RowsUntouched, StoreStep
  <1>3. ASSUME NEW k \in Ids, RecordHistory(k) PROVE IInv'
    <2>1. /\ UNCHANGED <<scen, platform, call, ar, log, frames, side>> /\ Track
          /\ k \in hist.left /\ hist' = [hist EXCEPT !.left = @ \ {k}] /\ RecordEvent(k, FALSE)
      BY <1>3 DEF RecordHistory, replier
    <2>2. k \in 1..Len(plat) /\ hist' \in [on : BOOLEAN, left : SUBSET (1..Len(plat))]
      BY <2>1 DEF FramesOK
    <2>3. FramesOK'
      BY <2>1, <2>2 DEF FramesOK, frames
    <2>4. RowsOK' /\ RowsKept
      BY <2>1, <2>2, EventKeeps
    <2> QED BY <2>1, <2>3, <2>4, StoreStep
  <1> QED BY <1>1, <1>2, <1>3 DEF Sync

LEMMA OperateStep == ASSUME IInv, Operate PROVE IInv'
  <1>1. UNCHANGED <<scen, platform, rows, call, ar, log, frames, hist, side>> /\ Track
    BY DEF Operate, MarkRead, MarkReadShared, SetTakeover, DisableAutoReply, table, replier, syncs
  <1>2. FramesOK'
    BY <1>1 DEF IInv, FramesOK, frames, platform
  <1> QED BY <1>1, <1>2, RowsUntouched, StoreStep

LEMMA ReplacedStep == ASSUME IInv, SessionReplaced PROVE IInv'
  <1>1. UNCHANGED <<scen, platform, rows, call, ar, log, hist, side>> /\ Track
    BY DEF SessionReplaced, table, replier, syncs
  <1>2. FramesOK'
    BY <1>1 DEF IInv, FramesOK, platform, SessionReplaced
  <1> QED BY <1>1, <1>2, RowsUntouched, StoreStep

LEMMA RestartStep == ASSUME IInv, ProcessRestarts PROVE IInv'
  <1>1. UNCHANGED <<scen, platform, rows, log>> /\ call' = [c \in Callers |-> NoCall] /\ ar' = Idle
    BY DEF ProcessRestarts, table
  <1>2. PlatOK' /\ Later /\ UNCHANGED <<plat, wire, answer>>
    BY <1>1, PlatSame DEF IInv, platform
  <1>3. FramesOK'
    BY <1>1 DEF IInv, FramesOK, platform, ProcessRestarts
  <1>4. RowsOK'
    BY <1>1, RowsUntouched
  <1>5. CallsOK'
    <2>1. NoCall \in CallSet /\ NoCall.pc = "idle"
      BY DEF NoCall, Call, CallSet, None
    <2> QED BY <1>1, <2>1 DEF CallsOK, CallOK, Outbound
  <1>6. ReplyOK' /\ BarredOK'
    <2>1. Idle \in ArSet /\ Idle.pc = "idle" /\ ~Idle.ok /\ Idle.id = 0
      BY DEF Idle, ArSet
    <2> QED BY <1>1, <1>2, <2>1 DEF IInv, ReplyOK, BarredOK
  <1> QED BY <1>2, <1>3, <1>4, <1>5, <1>6 DEF IInv

\* A request makes a step.
LEMMA CallStep ==
    ASSUME IInv, UNCHANGED <<scen, frames, hist, side, ar, log>>, Track, PlatOK', Later, RowsOK',
           NEW c \in Callers, NEW v \in CallSet,
           call' = [call EXCEPT ![c] = v], CallOK(c)', Answers(c)
    PROVE  IInv'
  <1>1. CallsOK'
    BY CallWrite DEF IInv
  <1>2. \A s \in wire' \ wire : s[1] # "a"
    BY DEF IInv, CallsOK, CallOK, Answers
  <1>3. FramesOK'
    BY FramesSame DEF IInv
  <1>4. ReplyOK' /\ BarredOK'
    BY <1>2, ReplySame, BarredSame DEF IInv
  <1> QED BY <1>1, <1>3, <1>4 DEF IInv

\* The same where it keeps the rows and sends nothing.
LEMMA CallStepKeeps ==
    ASSUME IInv, UNCHANGED <<scen, frames, hist, side, ar, log>>, Track, PlatOK', Later, RowsOK',
           NEW c \in Callers, NEW v \in CallSet,
           call' = [call EXCEPT ![c] = v], CallOK(c)', RowsKept, wire' \subseteq wire
    PROVE  IInv'
  <1>1. Answers(c)
    BY DEF Answers, RowsKept
  <1> QED BY <1>1, CallStep

\* A request that is over.
LEMMA NoCallOK ==
    ASSUME CallsOK, NEW c \in Callers, call' = [call EXCEPT ![c] = NoCall]
    PROVE  NoCall \in CallSet /\ CallOK(c)'
  <1>1. NoCall \in CallSet /\ NoCall.pc = "idle"
    BY DEF NoCall, Call, CallSet, None
  <1>2. call'[c] = NoCall
    BY DEF CallsOK
  <1> QED BY <1>1, <1>2 DEF CallOK, Outbound

\* A request that goes on with its message.
LEMMA GoesOn ==
    ASSUME PlatOK', CallsOK, RowsOK, UNCHANGED <<rows, answer>>, NEW c \in Callers, Outbound(c),
           NEW v \in CallSet, v.by = call[c].by, v.pc \in {"wait", "complete"},
           v.pc = "complete" => /\ v.id # 0 => v.id = answer[v.by]
                                /\ v.ok => v.id # 0,
           call' = [call EXCEPT ![c] = v]
    PROVE  CallOK(c)'
  <1>1. call'[c] = v /\ CallOK(c) /\ \A d \in Callers \ {c} : call'[d] = call[d]
    BY DEF CallsOK
  <1>2. \A d \in Callers : Outbound(d)' /\ call'[d].by = v.by => d = c
    BY <1>1 DEF CallOK, Outbound
  <1>3. Known(call[c].by)' = Known(call[c].by)
    BY DEF Known
  <1> QED BY <1>1, <1>2, <1>3 DEF CallOK, Outbound

\* A request starts.
LEMMA Starts ==
    ASSUME PlatOK, UNCHANGED <<answer, wire>>, CallsOK, NEW c \in Callers,
           NEW v \in CallSet, v.pc = "send", v.by \in {"q", "p"} \X Reqs,
           v.by[1] = "q" => Known(v.by)' /\ rows'[v.by].id = 0,
           answer[v.by] = 0, v.by \notin wire,
           \A d \in Callers \ {c} : Outbound(d) => call[d].by # v.by,
           call' = [call EXCEPT ![c] = v]
    PROVE  CallOK(c)'
  <1>1. call'[c] = v /\ \A d \in Callers \ {c} : call'[d] = call[d]
    BY DEF CallsOK
  <1>2. \A d \in Callers : Outbound(d)' /\ call'[d].by = v.by => d = c
    BY <1>1 DEF Outbound
  <1> QED BY <1>1, <1>2 DEF CallOK, Outbound

LEMMA BeginStep ==
    ASSUME IInv, NEW c \in Callers, NEW r \in Reqs, NEW t \in {"text", "image"}, Begin(c, r, t)
    PROVE  IInv'
  <1> DEFINE p == <<"q", r>>
             v == Call("send", p, t, 0, FALSE)
             row == Row(0, "out", t, Now, "sending")
  <1> USE DEF IInv
  <1>1. /\ UNCHANGED <<scen, platform, frames, hist, side, ar, log>> /\ Track
        /\ rows' = [rows EXCEPT ![p] = row] /\ call' = [call EXCEPT ![c] = v] /\ ~Known(p)
    BY DEF Begin, Quiet, syncs, replier
  <1>2. PlatOK' /\ Later /\ UNCHANGED <<plat, wire, answer>>
    BY <1>1, PlatSame DEF platform
  <1>3. p \in Pks /\ p[1] = "q" /\ p \in {"q", "p"} \X Reqs
    BY DEF Pks
  <1>4. row \in RowSet /\ row.dir # None /\ row.id = 0 /\ row.status = "sending" /\ ~row.recalled
    BY DEF Row, RowSet, None, Now, PlatOK
  <1>5. v \in CallSet /\ v.pc = "send" /\ v.by = p
    BY <1>3 DEF Call, CallSet, None
  <1>6. RowOK(p) /\ rows[p].id = 0 /\ answer[p] = 0 /\ p \notin wire
    BY <1>1, <1>3 DEF RowsOK, RowOK
  <1> HIDE DEF row, v
  <1>7. RowsOK'
    <2>1. row.id <= Len(plat)
      BY <1>4 DEF PlatOK
    <2> HIDE DEF p
    <2> QED BY <1>1, <1>3, <1>4, <2>1, RowWrite
  <1>8. rows'[p] = row /\ \A q \in Pks \ {p} : rows'[q] = rows[q]
    BY <1>1, <1>3 DEF RowsOK
  <1>9. RowsKept
    BY <1>1, <1>4, <1>6, <1>8 DEF RowsKept, Kept, Known
  <1>10. \A d \in Callers \ {c} : Outbound(d) => call[d].by # p
    BY <1>1, <1>3 DEF CallsOK, CallOK
  <1>11. CallOK(c)'
    <2>1. Known(p)' /\ rows'[p].id = 0
      BY <1>4, <1>8 DEF Known
    <2> HIDE DEF p
    <2> QED BY <1>1, <1>2, <1>3, <1>5, <1>6, <1>10, <2>1, Starts
  <1> QED BY <1>1, <1>2, <1>5, <1>7, <1>9, <1>11, CallStepKeeps

LEMMA BeginPlainStep ==
    ASSUME IInv, NEW c \in Callers, NEW r \in Reqs, BeginPlain(c, r)
    PROVE  IInv'
  <1> DEFINE p == <<"p", r>>
             v == Call("send", p, "text", 0, FALSE)
  <1> USE DEF IInv
  <1>1. /\ UNCHANGED <<scen, platform, rows, frames, hist, side, ar, log>> /\ Track
        /\ call' = [call EXCEPT ![c] = v] /\ answer[p] = 0 /\ p \notin wire
        /\ \A d \in Callers : call[d].by # p
    BY DEF BeginPlain, Quiet, syncs, replier, table
  <1>2. PlatOK' /\ Later /\ UNCHANGED <<plat, wire, answer>>
    BY <1>1, PlatSame DEF platform
  <1>3. p[1] = "p" /\ p \in {"q", "p"} \X Reqs
    OBVIOUS
  <1>5. v \in CallSet /\ v.pc = "send" /\ v.by = p
    BY DEF Call, CallSet, None, Pks
  <1> HIDE DEF v, p
  <1>6. CallOK(c)'
    BY <1>1, <1>2, <1>3, <1>5, Starts
  <1>7. RowsOK' /\ RowsKept
    BY <1>1, RowsUntouched
  <1> QED BY <1>1, <1>2, <1>5, <1>6, <1>7, CallStepKeeps

\* NotSent, Answered, Timeout: the request has an answer, or knows none.
LEMMA ConcludeStep ==
    ASSUME IInv, NEW c \in Callers, NotSent(c) \/ Answered(c) \/ Timeout(c)
    PROVE  IInv'
  <1> USE DEF IInv
  <1>1. /\ UNCHANGED <<scen, platform, rows, frames, hist, side, ar, log>> /\ Track
        /\ call[c].pc \in {"send", "wait"}
    BY DEF NotSent, Answered, Timeout, Quiet, syncs, replier, table
  <1>2. PICK id, ok : /\ Became(c, "complete", id, ok)
                      /\ \/ id = 0 /\ ok = FALSE
                         \/ id = answer[call[c].by] /\ ok = TRUE /\ id # 0
    BY DEF NotSent, Answered, Timeout
  <1> DEFINE v == [call[c] EXCEPT !.pc = "complete", !.id = id, !.ok = ok]
  <1>3. Outbound(c) /\ call[c] \in CallSet /\ call[c].by \in Senders
    BY <1>1 DEF Outbound, CallsOK, CallOK, Senders
  <1>4. id \in Nat /\ ok \in BOOLEAN
    <2>1. answer[call[c].by] \in Nat
      BY <1>3 DEF PlatOK
    <2>2. id \in Nat
      BY <1>2, <2>1
    <2>3. ok \in BOOLEAN
      BY <1>2
    <2> QED BY <2>2, <2>3
  <1>5. v \in CallSet /\ v.pc = "complete" /\ v.by = call[c].by /\ v.id = id /\ v.ok = ok
    BY <1>3, <1>4 DEF CallSet
  <1>6. call' = [call EXCEPT ![c] = v]
    BY <1>2 DEF Became
  <1>7. PlatOK' /\ Later /\ UNCHANGED <<plat, wire, answer>>
    BY <1>1, PlatSame DEF platform
  <1> HIDE DEF v
  <1>8. CallOK(c)'
    BY <1>1, <1>2, <1>3, <1>5, <1>6, <1>7, GoesOn
  <1>9. RowsOK' /\ RowsKept
    BY <1>1, RowsUntouched
  <1> QED BY <1>1, <1>5, <1>6, <1>7, <1>8, <1>9, CallStepKeeps

LEMMA SendStep ==
    ASSUME IInv, NEW c \in Callers, Send(c) \/ Refused(c)
    PROVE  IInv'
  <1> USE DEF IInv
  <1>1. UNCHANGED <<scen, plat, answer, rows, frames, hist, side, ar, log>> /\ Track
    BY DEF Send, Refused, Quiet, syncs, replier, table
  <1>2. Outbound(c) /\ CallOK(c) /\ call[c] \in CallSet /\ call[c].by \in Senders
    BY DEF Send, Refused, Outbound, CallsOK, CallOK, Senders
  <1>3. PICK v \in CallSet : /\ call' = [call EXCEPT ![c] = v] /\ v.by = call[c].by
                             /\ \/ v.pc = "wait"
                                \/ v.pc = "complete" /\ v.id = 0 /\ ~v.ok
    <2>1. CASE Send(c)
      <3> DEFINE v == [call[c] EXCEPT !.pc = "wait"]
      <3>1. v \in CallSet /\ v.pc = "wait" /\ v.by = call[c].by
        BY <1>2 DEF CallSet
      <3>2. call' = [call EXCEPT ![c] = v]
        BY <2>1 DEF Send
      <3> HIDE DEF v
      <3> QED BY <3>1, <3>2
    <2>2. CASE Refused(c)
      <3> DEFINE v == [call[c] EXCEPT !.pc = "complete", !.id = 0, !.ok = FALSE]
      <3>1. v \in CallSet /\ v.pc = "complete" /\ v.by = call[c].by /\ v.id = 0 /\ ~v.ok
        BY <1>2 DEF CallSet
      <3>2. call' = [call EXCEPT ![c] = v]
        BY <2>2 DEF Refused, Became
      <3> HIDE DEF v
      <3> QED BY <3>1, <3>2
    <2> QED BY <2>1, <2>2
  <1>4. \/ wire' = wire \cup {call[c].by} /\ answer[call[c].by] = 0
        \/ wire' = wire \ {call[c].by}
    BY <1>2 DEF Send, Refused, CallOK
  <1>5. PlatOK' /\ Later
    BY <1>1, <1>2, <1>4, PlatWire
  <1>6. CallOK(c)'
    BY <1>1, <1>2, <1>3, <1>5, GoesOn
  <1>7. \A s \in wire' \ wire : s = call[c].by /\ (s[1] = "q" => Known(s))
    BY <1>2, <1>4 DEF CallOK
  <1>8. RowsOK' /\ RowsKept
    BY <1>1, <1>5, <1>7, RowsSame
  <1>9. Answers(c)
    BY <1>2, <1>7, <1>8 DEF Answers, RowsKept
  <1> QED BY <1>1, <1>3, <1>5, <1>6, <1>8, <1>9, CallStep

LEMMA CompleteStep ==
    ASSUME IInv, NEW c \in Callers, Complete(c)
    PROVE  IInv'
  <1> DEFINE p == call[c].by
  <1> USE DEF IInv
  <1>1. /\ UNCHANGED <<scen, platform, frames, hist, side, ar, log>> /\ Track
        /\ call' = [call EXCEPT ![c] = NoCall] /\ call[c].pc = "complete" /\ p[1] = "q"
    BY DEF Complete, Quiet, syncs, replier
  <1>2. PlatOK' /\ Later /\ UNCHANGED <<plat, wire, answer>>
    BY <1>1, PlatSame DEF platform
  <1>3. /\ Outbound(c) /\ p \in Pks /\ Known(p) /\ rows[p].id = 0 /\ call[c] \in CallSet
        /\ call[c].id # 0 => call[c].id = answer[p]
        /\ call[c].ok => call[c].id # 0
        /\ p \in Senders
    BY <1>1 DEF CallsOK, CallOK, Outbound, Pks, Senders
  <1>4. NoCall \in CallSet /\ CallOK(c)'
    BY <1>1, NoCallOK
  <1>5. CASE UNCHANGED rows
    <2>1. RowsOK' /\ RowsKept
      BY <1>1, <1>5, RowsUntouched
    <2> QED BY <1>1, <1>2, <1>4, <2>1, CallStepKeeps
  <1>6. CASE rows' = [rows EXCEPT ![p].id = call[c].id,
                                  ![p].status = IF call[c].ok THEN "sent" ELSE "failed"]
    <2> DEFINE r == [rows[p] EXCEPT !.id = call[c].id,
                                    !.status = IF call[c].ok THEN "sent" ELSE "failed"]
    <2>1. rows[p] \in RowSet /\ RowOK(p) /\ call[c].id \in Nat /\ call[c].ok \in BOOLEAN
      BY <1>3 DEF RowsOK, CallSet
    <2>2. /\ r \in RowSet /\ r.dir = rows[p].dir /\ r.id = call[c].id
          /\ r.status = "sent" => call[c].ok
          /\ r.recalled = rows[p].recalled
      BY <2>1 DEF RowSet
    <2>3. rows' = [rows EXCEPT ![p] = r]
      BY <1>6
    <2>4. call[c].id <= Len(plat)
      BY <1>3 DEF PlatOK
    <2>5. ~r.recalled
      BY <1>3, <2>1, <2>2 DEF RowOK
    <2> HIDE DEF r
    <2>6. RowsOK'
      <3>1. r.dir # None /\ r.id <= Len(plat)
        BY <1>3, <2>2, <2>4 DEF Known
      <3>2. p[1] # "m" /\ p[1] \notin {"p", "a"}
        BY <1>1
      <3>3. p[1] = "q" => /\ r.id # 0 => r.id = answer[p]
                          /\ r.status = "sent" => answer[p] # 0
        BY <1>3, <2>2
      <3> HIDE DEF p
      <3> QED BY <1>1, <1>3, <2>2, <2>3, <2>5, <3>1, <3>2, <3>3, RowWrite
    <2>7. rows'[p] = r /\ \A q \in Pks \ {p} : rows'[q] = rows[q]
      BY <1>3, <2>3 DEF RowsOK
    <2>8. Answers(c)
      BY <1>2, <1>3, <2>2, <2>7 DEF Answers, Kept, Known
    <2> QED BY <1>1, <1>2, <1>4, <2>6, <2>8, CallStep
  <1> QED BY <1>5, <1>6 DEF Complete

LEMMA CompletePlainStep ==
    ASSUME IInv, NEW c \in Callers, CompletePlain(c)
    PROVE  IInv'
  <1> USE DEF IInv
  <1>1. /\ UNCHANGED <<scen, platform, frames, hist, side, ar, log>> /\ Track
        /\ call' = [call EXCEPT ![c] = NoCall] /\ call[c].pc = "complete" /\ call[c].by[1] = "p"
        /\ RecordSent(call[c].by, call[c].id, call[c].ok)
    BY DEF CompletePlain, Quiet, syncs, replier
  <1>2. PlatOK' /\ Later /\ UNCHANGED <<plat, wire, answer>>
    BY <1>1, PlatSame DEF platform
  <1>3. /\ call[c].by \in {"p"} \X Reqs /\ call[c].by \in Senders /\ call[c].id \in Nat
        /\ call[c].id # 0 => call[c].id = answer[call[c].by]
    BY <1>1 DEF CallsOK, CallOK, Outbound, CallSet, Senders
  <1>4. call[c].id \in 0..Len(plat)
    BY <1>3 DEF PlatOK
  <1>5. RowsOK' /\ RowsKept
    BY <1>1, <1>3, <1>4, SentKeeps
  <1>6. NoCall \in CallSet /\ CallOK(c)'
    BY <1>1, NoCallOK
  <1> QED BY <1>1, <1>2, <1>5, <1>6, CallStepKeeps

LEMMA RecallStep ==
    ASSUME IInv, NEW c \in Callers,
           (\E p \in Pks : Recall(c, p)) \/ RecallArrives(c) \/ RecallFails(c) \/ MarkRecalled(c)
    PROVE  IInv'
  <1> USE DEF IInv
  <1>1. ASSUME NEW p \in Pks, Recall(c, p) PROVE IInv'
    <2> DEFINE v == Call("recall", p, None, rows[p].id, FALSE)
    <2>1. /\ UNCHANGED <<scen, platform, rows, frames, hist, side, ar, log>> /\ Track
          /\ call' = [call EXCEPT ![c] = v] /\ rows[p].id # 0
      BY <1>1 DEF Recall, Quiet, syncs, replier, table
    <2>2. v \in CallSet /\ v.pc = "recall" /\ v.by = p /\ v.id = rows[p].id
      BY DEF Call, CallSet, None, RowsOK, RowSet
    <2> HIDE DEF v
    <2>3. PlatOK' /\ Later /\ UNCHANGED <<plat, wire, answer>>
      BY <2>1, PlatSame DEF platform
    <2>4. RowsOK' /\ RowsKept
      BY <2>1, RowsUntouched
    <2>5. CallOK(c)'
      <3>1. call'[c] = v
        BY <2>1 DEF CallsOK
      <3> QED BY <2>1, <2>2, <3>1 DEF CallOK, Outbound
    <2> QED BY <2>1, <2>2, <2>3, <2>4, <2>5, CallStepKeeps
  <1>2. CASE RecallArrives(c)
    <2> DEFINE v == [call[c] EXCEPT !.pc = "recalled"]
               i == call[c].id
    <2>1. /\ UNCHANGED <<scen, wire, answer, rows, frames, hist, side, ar, log>> /\ Track
          /\ call' = [call EXCEPT ![c] = v] /\ plat' = [plat EXCEPT ![i].recalled = TRUE]
          /\ call[c].pc = "recall"
      BY <1>2 DEF RecallArrives, Quiet, syncs, replier, table
    <2>2. call[c] \in CallSet /\ call[c].by \in Pks /\ i # 0 /\ rows[call[c].by].id = i
      BY <2>1 DEF CallsOK, CallOK
    <2>3. i \in 1..Len(plat)
      BY <2>2 DEF RowsOK, RowOK, PlatOK, CallSet
    <2>4. v \in CallSet /\ v.pc = "recalled" /\ v.by = call[c].by /\ v.id = i
      BY <2>2 DEF CallSet
    <2> HIDE DEF v, i
    <2>5. PlatOK' /\ Later /\ plat'[i].recalled
      BY <2>1, <2>3, PlatRecall
    <2>6. RowsOK' /\ RowsKept
      BY <2>1, <2>5, RowsSame
    <2>7. CallOK(c)'
      <3>1. call'[c] = v
        BY <2>1 DEF CallsOK
      <3> QED BY <2>1, <2>2, <2>4, <2>5, <3>1 DEF CallOK, Outbound
    <2> QED BY <2>1, <2>4, <2>5, <2>6, <2>7, CallStepKeeps
  <1>3. CASE RecallFails(c)
    <2>1. /\ UNCHANGED <<scen, platform, rows, frames, hist, side, ar, log>> /\ Track
          /\ call' = [call EXCEPT ![c] = NoCall]
      BY <1>3 DEF RecallFails, Quiet, syncs, replier, table
    <2>2. PlatOK' /\ Later /\ UNCHANGED <<plat, wire, answer>>
      BY <2>1, PlatSame DEF platform
    <2>3. RowsOK' /\ RowsKept
      BY <2>1, RowsUntouched
    <2>4. NoCall \in CallSet /\ CallOK(c)'
      BY <2>1, NoCallOK
    <2> QED BY <2>1, <2>2, <2>3, <2>4, CallStepKeeps
  <1>4. CASE MarkRecalled(c)
    <2> DEFINE p == call[c].by
               r == [rows[p] EXCEPT !.recalled = TRUE]
    <2>1. /\ UNCHANGED <<scen, platform, frames, hist, side, ar, log>> /\ Track
          /\ call' = [call EXCEPT ![c] = NoCall] /\ call[c].pc = "recalled"
          /\ rows' = [rows EXCEPT ![p] = r]
      BY <1>4 DEF MarkRecalled, Quiet, syncs, replier
    <2>2. PlatOK' /\ Later /\ UNCHANGED <<plat, wire, answer>>
      BY <2>1, PlatSame DEF platform
    <2>3. p \in Pks /\ rows[p].id # 0 /\ plat[rows[p].id].recalled
      BY <2>1 DEF CallsOK, CallOK
    <2>4. rows[p] \in RowSet /\ RowOK(p) /\ Known(p)
      BY <2>3 DEF RowsOK, RowOK
    <2>5. r \in RowSet /\ r.dir = rows[p].dir /\ r.id = rows[p].id /\ r.status = rows[p].status
      BY <2>4 DEF RowSet
    <2> HIDE DEF r, p
    <2>6. RowsOK'
      <3>1. r.dir # None /\ r.id <= Len(plat) /\ r.id # 0 /\ plat[r.id].recalled
        BY <2>3, <2>4, <2>5 DEF Known, RowOK
      <3>2. /\ p[1] = "m" => r.id = p[2]
            /\ p[1] \in {"p", "a"} => r.id = 0
            /\ p[1] = "q" => /\ r.id # 0 => r.id = answer[p]
                             /\ r.status = "sent" => answer[p] # 0
        BY <2>4, <2>5 DEF RowOK
      <3> QED BY <2>1, <2>3, <2>5, <3>1, <3>2, RowWrite
    <2>7. RowsKept
      <3>1. rows'[p] = r /\ \A q \in Pks \ {p} : rows'[q] = rows[q]
        BY <2>1, <2>3 DEF RowsOK
      <3> QED BY <2>5, <3>1 DEF RowsKept, Kept, Known
    <2>8. NoCall \in CallSet /\ CallOK(c)'
      BY <2>1, NoCallOK
    <2> QED BY <2>1, <2>2, <2>6, <2>7, <2>8, CallStepKeeps
  <1> QED BY <1>1, <1>2, <1>3, <1>4

LEMMA SendingStep == ASSUME IInv, Sending PROVE IInv'
  <1>1. PICK c \in Callers :
          \/ \E r \in Reqs : BeginPlain(c, r) \/ \E t \in {"text", "image"} : Begin(c, r, t)
          \/ NotSent(c) \/ Send(c) \/ Answered(c) \/ Timeout(c) \/ Refused(c)
          \/ Complete(c) \/ CompletePlain(c)
          \/ RecallArrives(c) \/ RecallFails(c) \/ MarkRecalled(c)
          \/ \E p \in Pks : Recall(c, p)
    BY DEF Sending
  <1> QED BY <1>1, BeginStep, BeginPlainStep, ConcludeStep, SendStep, CompleteStep,
             CompletePlainStep, RecallStep

\* The reply in progress makes a step that sends nothing and settles nothing.
LEMMA ArStep ==
    ASSUME IInv, UNCHANGED <<scen, platform, call, log>>, FramesOK', RowsOK', RowsKept, Track,
           ReplyOK', ar'.pc # "send"
    PROVE  IInv'
  <1>1. PlatOK /\ PlatOK' /\ Later /\ UNCHANGED wire
    BY PlatSame DEF IInv, platform
  <1>2. CallsOK'
    BY <1>1, CallsSame DEF IInv
  <1> QED BY <1>1, <1>2 DEF IInv, BarredOK

\* Where the worker stops, and where it goes on with the same message.
LEMMA ArIdle ==
    ASSUME ReplyOK, UNCHANGED <<platform, log>>, ar' = Idle
    PROVE  ReplyOK' /\ ar'.pc # "send"
  <1>1. Idle \in ArSet /\ Idle.pc = "idle" /\ ~Idle.ok /\ Idle.id = 0
    BY DEF Idle, ArSet
  <1> QED BY <1>1 DEF ReplyOK, platform

LEMMA ArGoesOn ==
    ASSUME ReplyOK, UNCHANGED <<platform, log>>, NEW pc, Step(pc),
           \/ ar.pc = "ai" /\ pc = "check"
           \/ ar.pc = "check" /\ pc = "send"
           \/ ar.pc \in {"ai", "check", "record"} /\ pc = "finish"
           \/ ar.pc = "wait" /\ pc = "record"
    PROVE  ReplyOK'
  <1>1. ar' \in ArSet /\ ar'.pc = pc /\ ar'.k = ar.k /\ ar'.id = ar.id /\ ar'.ok = ar.ok
    BY DEF ReplyOK, ArSet, Step
  <1> QED BY <1>1 DEF ReplyOK, platform

LEMMA ReplyingStep == ASSUME IInv, Replying PROVE IInv'
  <1> USE DEF IInv, platform
  <1>0. Len(plat) \in Nat /\ Len(plat) <= MaxMsgs /\ MaxMsgs \in Nat
    BY DEF PlatOK
  <1>1. CASE TakeSideEffect
    <2>1. /\ UNCHANGED <<scen, platform, rows, call, frames, hist, log>> /\ Track
          /\ side # <<>> /\ side' = Tail(side)
          /\ ar' = [Idle EXCEPT !.pc = "decide", !.k = Head(side)] \/ ar' = Idle
      BY <1>1 DEF TakeSideEffect, Still, table, syncs
    <2>2. side' \in Seq(1..Len(plat)) /\ Head(side) \in Ids
      <3>1. Tail(side) \in Seq(1..Len(plat)) /\ Head(side) \in 1..Len(plat)
        BY <2>1, TailInSeq DEF FramesOK
      <3> QED BY <1>0, <2>1, <3>1 DEF Ids
    <2>3. FramesOK'
      BY <2>1, <2>2 DEF FramesOK, frames
    <2>4. ReplyOK' /\ ar'.pc # "send"
      <3>1. CASE ar' = Idle
        BY <2>1, <3>1, ArIdle
      <3>2. CASE ar' = [Idle EXCEPT !.pc = "decide", !.k = Head(side)]
        <4>1. ar' = [pc |-> "decide", k |-> Head(side), ai |-> FALSE, id |-> 0, ok |-> FALSE]
          BY <3>2 DEF Idle
        <4>2. ar' \in ArSet /\ ar'.pc = "decide" /\ ar'.k \in Ids /\ ~ar'.ok /\ ar'.id = 0
          BY <2>2, <4>1 DEF ArSet, Ids
        <4> QED BY <2>1, <4>2 DEF ReplyOK
      <3> QED BY <2>1, <3>1, <3>2
    <2> QED BY <2>1, <2>3, <2>4, RowsUntouched, ArStep
  <1>2. CASE Decide
    <2>1. /\ UNCHANGED <<scen, platform, rows, call, frames, hist, side, log>> /\ Track
          /\ ar.pc = "decide"
      BY <1>2 DEF Decide, Still, table, syncs
    <2>2. PICK d \in Decisions :
             ar' = IF enabled /\ ~takeover /\ d # "none"
                   THEN [ar EXCEPT !.pc = "claim", !.ai = (d = "ai")] ELSE Idle
      BY <1>2 DEF Decide
    <2>3. FramesOK'
      BY <2>1 DEF FramesOK, frames
    <2>4. ReplyOK' /\ ar'.pc # "send"
      <3>1. CASE ar' = Idle
        BY <2>1, <3>1, ArIdle
      <3>2. CASE ar' = [ar EXCEPT !.pc = "claim", !.ai = (d = "ai")]
        <4>1. (d = "ai") \in BOOLEAN /\ ar \in ArSet
          BY DEF ReplyOK
        <4>2. ar' \in ArSet /\ ar'.pc = "claim" /\ ar'.k = ar.k /\ ar'.ok = ar.ok /\ ar'.id = ar.id
          BY <3>2, <4>1 DEF ArSet
        <4> QED BY <2>1, <4>2 DEF ReplyOK
      <3> QED BY <2>2, <3>1, <3>2
    <2> QED BY <2>1, <2>3, <2>4, RowsUntouched, ArStep
  <1>3. CASE Claim
    <2>1. /\ UNCHANGED <<scen, platform, rows, call, frames, hist, side>> /\ Track
          /\ ar.pc = "claim"
      BY <1>3 DEF Claim, Still, table, syncs
    <2>2. FramesOK'
      BY <2>1 DEF FramesOK, frames
    <2>3. CASE ar' = Idle /\ UNCHANGED log
      BY <2>1, <2>2, <2>3, ArIdle, RowsUntouched, ArStep
    <2>4. CASE /\ log[ar.k] = "open" /\ log' = [log EXCEPT ![ar.k] = "taken"]
               /\ Step(IF ar.ai THEN "ai" ELSE "check")
      <3>1. /\ ar' \in ArSet /\ ar'.pc \in {"ai", "check"}
            /\ ar'.k = ar.k /\ ar'.ok = ar.ok /\ ar'.id = ar.id
        BY <2>4 DEF ReplyOK, ArSet, Step
      <3>2. ReplyOK'
        BY <2>1, <2>4, <3>1 DEF ReplyOK
      <3>3. BarredOK'
        BY <3>1 DEF BarredOK
      <3>4. PlatOK' /\ Later /\ UNCHANGED wire
        BY <2>1, PlatSame
      <3>5. RowsOK' /\ CallsOK'
        BY <2>1, <3>4, RowsUntouched, CallsSame
      <3> QED BY <2>2, <3>2, <3>3, <3>4, <3>5
    <2> QED BY <1>3, <2>3, <2>4 DEF Claim
  <1>4. CASE GenerateAiReply \/ NoReply \/ ReplyTimeout
    <2>1. UNCHANGED <<scen, platform, rows, call, frames, hist, side, log>> /\ Track
      BY <1>4 DEF GenerateAiReply, NoReply, ReplyTimeout, Still, table, syncs
    <2>2. FramesOK'
      BY <2>1 DEF FramesOK, frames
    <2>3. PICK pc \in {"check", "finish", "record"} :
             /\ Step(pc)
             /\ \/ ar.pc = "ai" /\ pc = "check"
                \/ ar.pc \in {"ai", "check", "record"} /\ pc = "finish"
                \/ ar.pc = "wait" /\ pc = "record"
      BY <1>4 DEF GenerateAiReply, NoReply, ReplyTimeout
    <2>4. ReplyOK'
      BY <2>1, <2>3, ArGoesOn
    <2>5. ar'.pc # "send"
      BY <2>3 DEF Step, ReplyOK, ArSet
    <2> QED BY <2>1, <2>2, <2>4, <2>5, RowsUntouched, ArStep
  <1>5. CASE CheckAllowed
    <2>1. /\ UNCHANGED <<scen, platform, rows, call, frames, hist, side, log, takeover>> /\ Track
          /\ ar.pc = "check" /\ Step(IF SendAllowed(ar.k) THEN "send" ELSE "finish")
      BY <1>5 DEF CheckAllowed, Still, table, syncs
    <2>2. FramesOK'
      BY <2>1 DEF FramesOK, frames
    <2>3. ReplyOK'
      <3>1. CASE SendAllowed(ar.k)
        <4>1. Step("send")
          BY <2>1, <3>1
        <4> QED BY <2>1, <4>1, ArGoesOn
      <3>2. CASE ~SendAllowed(ar.k)
        <4>1. Step("finish")
          BY <2>1, <3>2
        <4> QED BY <2>1, <4>1, ArGoesOn
      <3> QED BY <3>1, <3>2
    <2>4. BarredOK'
      <3>1. ar'.k = ar.k /\ (ar'.pc = "send" => SendAllowed(ar.k))
        BY <2>1 DEF Step, ReplyOK, ArSet
      <3>2. ASSUME NEW k PROVE Handled(k)' = Handled(k)
        BY <2>1 DEF Handled, Known
      <3>3. \A k \in barred' : Handled(k)'
        BY <2>1 DEF Track
      <3>4. ar'.pc = "send" => ~Handled(ar.k)
        BY <3>1 DEF SendAllowed
      <3>5. ar'.pc = "send" => ar.k \notin barred'
        BY <3>2, <3>3, <3>4
      <3> QED BY <3>1, <3>5 DEF BarredOK
    <2>5. PlatOK' /\ Later /\ UNCHANGED wire
      BY <2>1, PlatSame
    <2>6. RowsOK' /\ CallsOK'
      BY <2>1, <2>5, RowsUntouched, CallsSame
    <2> QED BY <2>2, <2>3, <2>4, <2>5, <2>6
  <1>6. CASE SendReply
    <2> DEFINE s == <<"a", ar.k>>
    <2>1. /\ UNCHANGED <<scen, plat, answer, rows, call, frames, hist, side, log>>
          /\ ar.pc = "send" /\ Step("wait") /\ wire' = wire \cup {s}
      BY <1>6 DEF SendReply, table, syncs
    <2>2. s \in Senders /\ s[1] = "a" /\ answer[s] = 0 /\ ar.k \in Ids
      BY <2>1 DEF ReplyOK, Senders
    <2>3. PlatOK' /\ Later
      BY <2>1, <2>2, PlatWire
    <2>4. \A t \in wire' \ wire : t[1] = "a"
      BY <2>1, <2>2
    <2>5. FramesOK'
      BY <2>1, <2>3, FramesSame
    <2>6. RowsOK' /\ RowsKept
      BY <2>1, <2>3, <2>4, RowsSame
    <2>7. CallsOK'
      BY <2>1, <2>3, <2>4, <2>6, CallsSame
    <2>8. ar' \in ArSet /\ ar'.pc = "wait" /\ ar'.k = ar.k /\ ar'.ok = ar.ok /\ ar'.id = ar.id
      BY <2>1 DEF ReplyOK, ArSet, Step
    <2>9. \A k \in Ids : log[k] = "open" => <<"a", k>> # s
      BY <2>1, <2>2 DEF ReplyOK
    <2>10. ReplyOK'
      BY <2>1, <2>2, <2>8, <2>9 DEF ReplyOK
    <2>11. BarredOK'
      BY <2>8 DEF BarredOK
    <2> QED BY <2>3, <2>5, <2>6, <2>7, <2>10, <2>11
  <1>7. CASE ReplyAnswered
    <2>1. /\ UNCHANGED <<scen, platform, rows, call, frames, hist, side, log>> /\ Track
          /\ ar.pc = "wait" /\ answer[<<"a", ar.k>>] # 0
          /\ ar' = [ar EXCEPT !.pc = "record", !.id = answer[<<"a", ar.k>>], !.ok = TRUE]
      BY <1>7 DEF ReplyAnswered, Still, table, syncs
    <2>2. FramesOK'
      BY <2>1 DEF FramesOK, frames
    <2>3. ar.k \in Ids /\ <<"a", ar.k>> \in Senders /\ ar \in ArSet
      BY <2>1 DEF ReplyOK, Senders
    <2>4. answer[<<"a", ar.k>>] \in Nat
      BY <2>3 DEF PlatOK
    <2>5. /\ ar' \in ArSet /\ ar'.pc = "record" /\ ar'.k = ar.k /\ ar'.id = answer[<<"a", ar.k>>]
          /\ ar'.ok
      BY <2>1, <2>3, <2>4 DEF ArSet
    <2>6. ReplyOK'
      BY <2>1, <2>3, <2>5 DEF ReplyOK
    <2> QED BY <2>1, <2>2, <2>5, <2>6, RowsUntouched, ArStep
  <1>8. CASE RecordReply
    <2>1. /\ UNCHANGED <<scen, platform, call, frames, hist, side, log>> /\ Track
          /\ ar.pc = "record" /\ Step("finish") /\ RecordSent(<<"a", ar.k>>, ar.id, ar.ok)
      BY <1>8 DEF RecordReply, Still, syncs
    <2>2. FramesOK'
      BY <2>1 DEF FramesOK, frames
    <2>3. <<"a", ar.k>> \in {"a"} \X Ids /\ <<"a", ar.k>> \in Senders /\ ar \in ArSet
      BY <2>1 DEF ReplyOK, Senders
    <2>4. ar.id \in 0..Len(plat)
      BY <2>1, <2>3 DEF ReplyOK, PlatOK, ArSet
    <2>5. RowsOK' /\ RowsKept
      BY <2>1, <2>3, <2>4, SentKeeps
    <2>6. ReplyOK'
      BY <2>1, ArGoesOn
    <2>7. ar'.pc # "send"
      BY <2>1, <2>3 DEF Step, ArSet
    <2> QED BY <2>1, <2>2, <2>5, <2>6, <2>7, ArStep
  <1>9. CASE FinishReply
    <2>1. /\ UNCHANGED <<scen, platform, rows, call, frames, hist, side>> /\ ar' = Idle
          /\ ar.pc = "finish" /\ log' = [log EXCEPT ![ar.k] = IF ar.ok THEN "answered" ELSE "given_up"]
      BY <1>9 DEF FinishReply, Still, table, syncs
    <2>2. FramesOK'
      BY <2>1 DEF FramesOK, frames
    <2>3. Idle \in ArSet /\ Idle.pc = "idle" /\ ~Idle.ok /\ Idle.id = 0
      BY DEF Idle, ArSet
    <2>4. ReplyOK'
      BY <2>1, <2>3 DEF ReplyOK
    <2>5. BarredOK'
      BY <2>1, <2>3 DEF BarredOK
    <2>6. PlatOK' /\ Later /\ UNCHANGED wire
      BY <2>1, PlatSame
    <2>7. RowsOK' /\ CallsOK'
      BY <2>1, <2>6, RowsUntouched, CallsSame
    <2> QED BY <2>2, <2>4, <2>5, <2>6, <2>7
  <1> QED BY <1>1, <1>2, <1>3, <1>4, <1>5, <1>6, <1>7, <1>8, <1>9 DEF Replying

-----------------------------------------------------------------------------
(* The theorems.                                                           *)

LEMMA IInvInit == Init => IInv
  <1> SUFFICES ASSUME Init PROVE IInv
    OBVIOUS
  <1>1. PlatOK
    <2>1. plat = <<>> /\ plat \in Seq(Message) /\ Len(plat) = 0 /\ 1..Len(plat) = {}
      BY DEF Init
    <2>2. \A s : {k \in 1..Len(plat) : plat[k].by = s} = {}
      BY <2>1
    <2>3. \A s : CountBy(s) = 0
      BY <2>2, FS_EmptySet DEF CountBy
    <2> QED BY <2>1, <2>3 DEF Init, PlatOK
  <1>2. FramesOK
    <2>1. pushq \in Seq(1..Len(plat)) /\ side \in Seq(1..Len(plat))
      BY DEF Init
    <2>2. hist \in [on : BOOLEAN, left : SUBSET (1..Len(plat))]
      BY DEF Init, NoHist
    <2> QED BY <2>1, <2>2 DEF Init, FramesOK
  <1>3. RowsOK
    <2>1. NoRow \in RowSet /\ NoRow.id = 0 /\ NoRow.dir = None /\ NoRow.status = None /\ ~NoRow.recalled
      BY DEF NoRow, Row, RowSet, None
    <2>2. \A p \in Pks : rows[p] = NoRow
      BY DEF Init
    <2>3. \A p \in Pks : p[1] = "q" => answer[p] = 0 /\ p \notin wire
      BY DEF Init, Pks, Senders
    <2>4. Len(plat) = 0 /\ rows \in [Pks -> RowSet]
      BY <2>1 DEF Init
    <2> QED BY <2>1, <2>2, <2>3, <2>4 DEF RowsOK, RowOK, Known, None
  <1>4. CallsOK
    <2>1. NoCall \in CallSet /\ NoCall.pc = "idle"
      BY DEF NoCall, Call, CallSet, None
    <2> QED BY <2>1 DEF Init, CallsOK, CallOK, Outbound
  <1>5. ReplyOK /\ BarredOK
    <2>1. Idle \in ArSet /\ Idle.pc = "idle" /\ ~Idle.ok /\ Idle.id = 0
      BY DEF Idle, ArSet
    <2>2. \A k \in Ids : <<"a", k>> \in Senders
      BY DEF Senders
    <2> QED BY <2>1, <2>2 DEF Init, ReplyOK, BarredOK
  <1> QED BY <1>1, <1>2, <1>3, <1>4, <1>5 DEF IInv

LEMMA IInvNext == IInv /\ [Next]_vars => IInv'
  <1> SUFFICES ASSUME IInv, [Next]_vars PROVE IInv'
    OBVIOUS
  <1>1. CASE UNCHANGED vars
    <2>1. /\ UNCHANGED <<scen, platform, frames, rows, hist, side, ar, log, call, barred>>
          /\ UNCHANGED <<plat, wire, answer, pushq, work, retry>>
      BY <1>1 DEF vars, platform, frames, table, syncs, replier
    <2>2. PlatOK' /\ Later
      BY <2>1, PlatSame DEF IInv
    <2>3. FramesOK' /\ RowsOK' /\ RowsKept
      BY <2>1, <2>2, FramesSame, RowsUntouched DEF IInv
    <2>4. CallsOK' /\ ReplyOK'
      BY <2>1, <2>2, <2>3, CallsSame, ReplySame DEF IInv
    <2>5. BarredOK'
      BY <2>1 DEF IInv, BarredOK
    <2> QED BY <2>2, <2>3, <2>4, <2>5 DEF IInv
  <1> QED BY <1>1, FramesStep, WorldStep, SyncStep, OperateStep, SendingStep, ReplyingStep,
             ReplacedStep, RestartStep DEF Next

\* What the table says of a message happened: a request is sent at most once,
\* marked "sent" only if the platform has its message, and a row is marked as
\* recalled only if the platform recalled it.
THEOREM TableTellsTheTruth == Spec => []SentAsTold
  <1>1. IInv => SentAsTold
    <2> SUFFICES ASSUME IInv PROVE SentAsTold
      OBVIOUS
    <2>1. \A r \in Reqs : <<"q", r>> \in Pks /\ <<"q", r>> \in Senders /\ <<"q", r>>[1] = "q"
      BY DEF Pks, Senders
    <2>2. \A r \in Reqs : CountBy(<<"q", r>>) = IF answer[<<"q", r>>] = 0 THEN 0 ELSE 1
      BY <2>1 DEF IInv, PlatOK
    <2>3. \A r \in Reqs : rows[<<"q", r>>].status = "sent" => answer[<<"q", r>>] # 0
      BY <2>1 DEF IInv, RowsOK, RowOK
    <2>4. \A p \in Pks : rows[p].recalled => rows[p].id # 0 /\ plat[rows[p].id].recalled
      BY DEF IInv, RowsOK, RowOK
    <2> QED BY <2>2, <2>3, <2>4 DEF SentAsTold
  <1> QED BY <1>1, IInvInit, IInvNext, PTL DEF Spec

\* What reaches the wire: the messages of the requests, and the reply that was
\* checked.
LEMMA WireGrows ==
    ASSUME IInv, [Next]_vars, NEW k \in Ids, <<"a", k>> \in wire' \ wire
    PROVE  ar.pc = "send" /\ ar.k = k
  <1>1. CASE UNCHANGED wire
    BY <1>1
  <1>2. CASE \E s \in Senders : MessageArrives(s)
    BY <1>2 DEF MessageArrives
  <1>3. ASSUME NEW c \in Callers, Send(c) \/ Refused(c) PROVE FALSE
    <2>1. call[c].by \in {"q", "p"} \X Reqs /\ wire' \subseteq wire \cup {call[c].by}
      BY <1>3 DEF IInv, CallsOK, CallOK, Outbound, Send, Refused
    <2>2. call[c].by[1] # "a" /\ <<"a", k>>[1] = "a"
      BY <2>1
    <2> QED BY <2>1, <2>2
  <1>4. CASE SendReply
    BY <1>4 DEF SendReply
  <1>5. CASE Frames \/ Sync \/ Operate \/ SessionReplaced \/ ProcessRestarts
    <2>1. UNCHANGED platform
      BY <1>5 DEF Frames, TakeFrame, HandleMessage, HandleFails, RetryPersistence, Sync,
             FetchConversations, UpsertConversations, FetchMessages, Reconcile, RecordHistory,
             Operate, MarkRead, SetTakeover, DisableAutoReply, MarkReadShared,
             SessionReplaced, ProcessRestarts
    <2> QED BY <1>1, <2>1 DEF platform
  <1>6. CASE World
    BY <1>1, <1>2, <1>6 DEF World, PeerSends, DeviceSends, Redelivers, platform
  <1>7. CASE Sending
    <2>1. UNCHANGED wire \/ \E c \in Callers : Send(c) \/ Refused(c)
      BY <1>7 DEF Sending, BeginPlain, Begin, NotSent, Answered, Timeout, Complete, CompletePlain,
             RecallArrives, RecallFails, MarkRecalled, Recall, platform
    <2> QED BY <1>1, <1>3, <2>1
  <1>8. CASE Replying
    <2>1. UNCHANGED platform \/ SendReply
      BY <1>8 DEF Replying, TakeSideEffect, Decide, Claim, GenerateAiReply, NoReply, CheckAllowed,
             ReplyAnswered, ReplyTimeout, RecordReply, FinishReply, Still
    <2> QED BY <1>1, <1>4, <2>1 DEF platform
  <1>9. CASE UNCHANGED vars
    BY <1>1, <1>9 DEF vars, platform
  <1> QED BY <1>5, <1>6, <1>7, <1>8, <1>9 DEF Next

\* No automatic reply goes out for a message that a person had in hand, by
\* takeover or by an answer stored here, before the reply was last checked.
THEOREM RepliesKeepHandsOff == Spec => HandsOff
  <1>1. IInv /\ [Next]_vars => [\A k \in Ids : <<"a", k>> \in wire' \ wire => k \notin barred]_vars
    BY WireGrows DEF IInv, BarredOK
  <1> QED BY <1>1, IInvInit, IInvNext, PTL DEF Spec, HandsOff

\* What changes the answers of the platform and the log of the replies.
LEMMA OnceChanges ==
    ASSUME [Next]_vars
    PROVE  \/ UNCHANGED <<answer, log>> \/ Claim \/ FinishReply
           \/ \E s \in Senders : MessageArrives(s)
  <1>1. CASE Frames \/ Sync \/ Operate \/ SessionReplaced \/ ProcessRestarts
    <2>1. UNCHANGED <<platform, log>>
      BY <1>1 DEF Frames, TakeFrame, HandleMessage, HandleFails, RetryPersistence, Sync,
             FetchConversations, UpsertConversations, FetchMessages, Reconcile, RecordHistory,
             Operate, MarkRead, SetTakeover, DisableAutoReply, MarkReadShared,
             SessionReplaced, ProcessRestarts, replier
    <2> QED BY <2>1 DEF platform
  <1>2. CASE World
    BY <1>2 DEF World, PeerSends, DeviceSends, Redelivers, platform, replier
  <1>3. CASE Sending
    BY <1>3 DEF Sending, BeginPlain, Begin, NotSent, Answered, Timeout, Complete, CompletePlain,
           RecallArrives, RecallFails, MarkRecalled, Recall, Send, Refused, platform, Quiet, replier
  <1>4. CASE Replying
    BY <1>4 DEF Replying, TakeSideEffect, Decide, GenerateAiReply, NoReply, CheckAllowed, SendReply,
           ReplyAnswered, ReplyTimeout, RecordReply, Still, platform
  <1>5. CASE UNCHANGED vars
    BY <1>5 DEF vars, platform, replier
  <1> QED BY <1>1, <1>2, <1>3, <1>4, <1>5 DEF Next

\* A step takes a message, puts a reply into the platform's log, settles a
\* message, or changes nothing of these.
LEMMA OnceNext ==
    ASSUME IInv, IInv', [Next]_vars
    PROVE  [Once!Next]_<<log, [k \in Ids |-> CountBy(<<"a", k>>)]>>
  <1> DEFINE Replies == [k \in Ids |-> CountBy(<<"a", k>>)]
  <1>1. \A k \in Ids : <<"a", k>> \in Senders
    BY DEF Senders
  <1>2. \A k \in Ids : /\ CountBy(<<"a", k>>) = IF answer[<<"a", k>>] = 0 THEN 0 ELSE 1
                       /\ CountBy(<<"a", k>>)' = IF answer'[<<"a", k>>] = 0 THEN 0 ELSE 1
    BY <1>1 DEF IInv, PlatOK
  <1>3. UNCHANGED answer => Replies' = Replies
    BY <1>2
  <1>4. CASE UNCHANGED <<answer, log>>
    BY <1>3, <1>4
  <1>5. CASE Claim
    <2>1. UNCHANGED answer /\ ar.k \in Ids /\ ar.pc = "claim"
      BY <1>5 DEF Claim, Still, platform, IInv, ReplyOK
    <2>2. CASE UNCHANGED log
      BY <1>3, <2>1, <2>2
    <2>3. CASE log[ar.k] = "open" /\ log' = [log EXCEPT ![ar.k] = "taken"]
      <3>1. Once!Take(ar.k)
        BY <1>3, <2>1, <2>3 DEF Once!Take
      <3> QED BY <2>1, <3>1 DEF Once!Next
    <2> QED BY <1>5, <2>2, <2>3 DEF Claim
  <1>6. CASE FinishReply
    <2>1. /\ UNCHANGED answer /\ ar.k \in Ids /\ log[ar.k] = "taken"
          /\ ar.ok => answer[<<"a", ar.k>>] # 0
          /\ log' = [log EXCEPT ![ar.k] = IF ar.ok THEN "answered" ELSE "given_up"]
      BY <1>6 DEF FinishReply, Still, platform, IInv, ReplyOK
    <2>2. ar.ok => Replies[ar.k] = 1
      BY <1>2, <2>1
    <2>3. Once!Settle(ar.k)
      BY <1>3, <2>1, <2>2 DEF Once!Settle
    <2> QED BY <2>1, <2>3 DEF Once!Next
  <1>7. ASSUME NEW s \in Senders, MessageArrives(s)
        PROVE  [Once!Next]_<<log, Replies>>
    <2>1. /\ UNCHANGED log /\ s \in wire /\ answer[s] = 0
          /\ answer' = [answer EXCEPT ![s] = Len(plat) + 1] /\ Len(plat) + 1 # 0
          /\ answer \in [Senders -> 0..Len(plat)]
      BY <1>7 DEF MessageArrives, replier, IInv, PlatOK
    <2>2. CASE s \in {"q", "p"} \X Reqs
      <3>1. \A k \in Ids : <<"a", k>> # s
        BY <2>2
      <3>2. \A k \in Ids : answer'[<<"a", k>>] = answer[<<"a", k>>]
        BY <1>1, <2>1, <3>1
      <3>3. Replies' = Replies
        BY <1>2, <3>2
      <3> QED BY <2>1, <3>3
    <2>3. ASSUME NEW k \in Ids, s = <<"a", k>> PROVE [Once!Next]_<<log, Replies>>
      <3>1. log[k] \in {"taken", "given_up"}
        BY <2>1, <2>3 DEF IInv, ReplyOK
      <3>2. \A j \in Ids : j # k => <<"a", j>> # s
        BY <2>3
      <3>3. \A j \in Ids : answer'[<<"a", j>>] = IF j = k THEN Len(plat) + 1 ELSE answer[<<"a", j>>]
        BY <1>1, <2>1, <2>3, <3>2
      <3>4. Replies[k] = 0 /\ Replies' = [Replies EXCEPT ![k] = 1]
        BY <1>2, <2>1, <2>3, <3>3
      <3>5. Once!Arrive(k)
        BY <2>1, <3>1, <3>4 DEF Once!Arrive
      <3> QED BY <3>5 DEF Once!Next
    <2> QED BY <2>2, <2>3 DEF Senders
  <1> QED BY <1>4, <1>5, <1>6, <1>7, OnceChanges

\* The automatic replies implement ReplyOnce: each message is taken once, the
\* platform gets at most one reply of it, and a success is only noted for a
\* reply that exists.
THEOREM RepliesImplementReplyOnce == Spec => RepliesOnce
  <1>1. Init => Once!Init
    <2> SUFFICES ASSUME Init PROVE Once!Init
      OBVIOUS
    <2>1. \A k \in Ids : CountBy(<<"a", k>>) = 0
      BY IInvInit DEF IInv, PlatOK, Init, Senders
    <2> QED BY <2>1 DEF Init, Once!Init
  <1>2. IInv /\ IInv' /\ [Next]_vars => [Once!Next]_<<log, [k \in Ids |-> CountBy(<<"a", k>>)]>>
    BY OnceNext
  <1> QED BY <1>1, <1>2, IInvInit, IInvNext, PTL DEF Spec, RepliesOnce, Once!Spec

-----------------------------------------------------------------------------
(* What a user has not read.                                               *)

\* An agent's reads are not mixed with the platform's pages, nor, where there
\* are voice messages, with summaries that are recomputed without them.
Apart ==
    On("shared") => /\ ~On("loop") /\ ~On("page")
                    /\ "audio" \in scen.types => ~On("history") /\ ~On("break")

InTypes == \A k \in 1..Len(plat) : plat[k].dir = "in" => plat[k].type \in scen.types

\* Pages are fetched, and summaries recomputed, only where the scenario says.
Pages ==
    /\ DOMAIN snap = Syncs
    /\ \A s \in Syncs : /\ snap[s].unread \in Nat /\ snap[s].last \in Nat
                        /\ ~On(s) => snap[s] = NoSnap
    /\ hist.on => On("history") \/ On("break")

\* A message that counts as unread has its row, and where agents read, the
\* conversation knows of an inbound message as new as this one.
InRow(k) ==
    /\ rows[<<"m", k>>].dir = "in" /\ rows[<<"m", k>>].at = 2 * k
    /\ rows[<<"m", k>>].type \in scen.types
Stored ==
    /\ {"ex", "unread", "lastIn"} \subseteq DOMAIN conv
    /\ conv.unread \in Nat /\ conv.lastIn \in Nat
    /\ read \in [ex : BOOLEAN, n : Nat]
    /\ since \subseteq 1..Len(plat)
    /\ ~read.ex => since = {}
    /\ UnreadKept
    /\ \A k \in since : InRow(k)
    /\ \A p \in Pks : rows[p].at <= Now
    /\ On("shared") => \A k \in since : 2 * k <= conv.lastIn

Unread == InTypes /\ Pages /\ Stored

LEMMA LaterIsMore ==
    ASSUME PlatOK, NEW n \in Nat, n <= Len(plat)
    PROVE  Len(plat) \in Nat /\ Now \in Nat /\ 2 * n <= Now /\ n \in 0..Len(plat)
  <1>1. Len(plat) \in Nat
    BY DEF PlatOK
  <1> QED BY <1>1 DEF Now

LEMMA SinceFinite ==
    ASSUME PlatOK, Stored
    PROVE  IsFiniteSet(since) /\ Cardinality(since) \in Nat
  <1>1. Len(plat) \in Nat
    BY DEF PlatOK
  <1>2. IsFiniteSet(1..Len(plat))
    BY <1>1, FS_Interval
  <1>3. IsFiniteSet(since)
    BY <1>2, FS_Subset DEF Stored
  <1> QED BY <1>3, FS_CardinalityType

\* The times of the rows have a newest one.
LEMMA NewestIs ==
    ASSUME PlatOK, RowsOK, \A p \in Pks : rows[p].at <= Now, NEW ps \in SUBSET Pks
    PROVE  Newest(ps) \in Nat /\ \A p \in ps : rows[p].at <= Newest(ps)
  <1>1. CASE ps = {}
    BY <1>1 DEF Newest
  <1>2. CASE ps # {}
    <2> DEFINE ats == {rows[p].at : p \in ps}
               gaps == {g \in Nat : Now - g \in ats}
    <2>1. Now \in Nat
      BY DEF PlatOK, Now
    <2>2. \A p \in ps : rows[p].at \in Nat /\ rows[p].at <= Now
      BY DEF RowsOK, RowSet
    <2>3. \A a \in ats : a \in Nat /\ a <= Now
      BY <2>2
    <2>4. ats # {}
      BY <1>2
    <2> HIDE DEF ats
    <2>5. \A a \in ats : Now - a \in gaps
      BY <2>1, <2>3
    <2>6. gaps # {} /\ gaps \subseteq Nat
      BY <2>4, <2>5
    <2>7. PICK g \in gaps : \A h \in gaps : ~(<<h, g>> \in OpToRel(<, Nat))
      <3> HIDE DEF gaps
      <3> QED BY <2>6, NatLessThanWellFounded, WFMin, Zenon
    <2>8. \A h \in gaps : ~(h < g)
      BY <2>6, <2>7 DEF OpToRel
    <2>9. Now - g \in ats /\ \A u \in ats : u <= Now - g
      BY <2>1, <2>3, <2>5, <2>6, <2>8
    <2>10. Newest(ps) = CHOOSE t \in ats : \A u \in ats : u <= t
      BY <1>2 DEF Newest, ats
    <2>11. Newest(ps) \in ats /\ \A u \in ats : u <= Newest(ps)
      BY <2>9, <2>10
    <2> QED BY <2>3, <2>11 DEF ats
  <1> QED BY <1>1, <1>2

LEMMA WorkStateIn ==
    ASSUME NEW cv, {"ex", "unread", "lastIn"} \subseteq DOMAIN cv, cv.lastIn \in Nat,
           NEW dir, NEW at \in Nat
    PROVE  /\ {"ex", "unread", "lastIn"} \subseteq DOMAIN WorkState(cv, dir, at)
           /\ WorkState(cv, dir, at).unread = cv.unread
           /\ WorkState(cv, dir, at).lastIn \in Nat
           /\ cv.lastIn <= WorkState(cv, dir, at).lastIn
           /\ dir = "in" => at <= WorkState(cv, dir, at).lastIn
  BY DEF WorkState

LEMMA StoredQuiet ==
    ASSUME PlatOK, PlatOK', Stored, UNCHANGED <<rows, conv, read, since, scen>>,
           Len(plat) <= Len(plat'), RowsOK
    PROVE  Stored'
  <1>1. Len(plat) \in Nat /\ Len(plat') \in Nat
    BY DEF PlatOK
  <1>2. since' \subseteq 1..Len(plat')
    BY <1>1 DEF Stored
  <1>3. \A p \in Pks : rows'[p].at <= Now'
    BY <1>1 DEF Stored, Now, RowsOK, RowSet
  <1> QED BY <1>2, <1>3 DEF Stored, UnreadKept, InRow, On

\* A write that counts nothing.
LEMMA StoredWrite ==
    ASSUME PlatOK, Stored, UNCHANGED <<read, since, scen, plat>>,
           {"ex", "unread", "lastIn"} \subseteq DOMAIN conv',
           conv'.unread \in Nat, conv'.lastIn \in Nat,
           On("shared") => \A k \in since : 2 * k <= conv'.lastIn,
           \A k \in since : rows'[<<"m", k>>].dir = rows[<<"m", k>>].dir
                            /\ rows'[<<"m", k>>].at = rows[<<"m", k>>].at
                            /\ rows'[<<"m", k>>].type = rows[<<"m", k>>].type,
           \A p \in Pks : rows'[p].at <= Now
    PROVE  Stored'
  BY DEF Stored, UnreadKept, InRow, On, Now

LEMMA SeenStays ==
    ASSUME Stored, NEW n \in Nat, conv.lastIn <= n, PlatOK
    PROVE  On("shared") => \A k \in since : 2 * k <= n
  <1>1. since \subseteq Nat
    BY DEF Stored, PlatOK
  <1> QED BY <1>1 DEF Stored

\* record_message of a row that exists sets its time to that of its message.
LEMMA UpdateStored ==
    ASSUME PlatOK, RowsOK, Stored, UNCHANGED <<scen, plat>>, NEW id \in 0..Len(plat),
           NEW p \in RowsOf(id), NEW at \in {0, 2 * id}, NEW st, Update(p, at, st)
    PROVE  Stored'
  <1>1. Len(plat) \in Nat /\ id \in Nat /\ id # 0 /\ Now \in Nat /\ 2 * id <= Now /\ at \in Nat
    BY DEF PlatOK, Now, RowsOf
  <1>2. p \in Pks /\ rows[p] \in RowSet /\ Known(p) /\ rows[p].id = id /\ RowOK(p)
    BY DEF RowsOf, RowsOK
  <1>3. /\ rows'[p].at = IF at # 0 THEN at ELSE rows[p].at
        /\ rows'[p].dir = rows[p].dir /\ rows'[p].type = rows[p].type
        /\ \A q \in Pks : q # p => rows'[q] = rows[q]
    BY <1>2 DEF Update, RowsOK, RowSet
  <1>4. \A q \in Pks : rows'[q].at <= Now
    BY <1>1, <1>3 DEF Stored
  <1>5. ASSUME NEW k \in since
        PROVE  /\ rows'[<<"m", k>>].dir = rows[<<"m", k>>].dir
               /\ rows'[<<"m", k>>].at = rows[<<"m", k>>].at
               /\ rows'[<<"m", k>>].type = rows[<<"m", k>>].type
    <2>1. <<"m", k>> \in Pks /\ rows[<<"m", k>>].at = 2 * k
      BY <1>1 DEF Stored, InRow, Pks, Ids, PlatOK
    <2>2. p = <<"m", k>> => id = k
      BY <1>2 DEF RowOK
    <2> QED BY <1>3, <2>1, <2>2
  <1>6. /\ {"ex", "unread", "lastIn"} \subseteq DOMAIN conv'
        /\ conv'.unread \in Nat /\ conv'.lastIn \in Nat /\ conv.lastIn <= conv'.lastIn
    <2>1. CASE conv' = conv
      BY <2>1 DEF Stored
    <2>2. CASE \E t \in Nat : conv' = WorkState(conv, "out", t)
      BY <2>2, WorkStateIn DEF Stored
    <2> QED BY <1>1, <2>1, <2>2 DEF Update
  <1>7. UNCHANGED <<read, since>>
    BY DEF Update
  <1>8. On("shared") => \A k \in since : 2 * k <= conv'.lastIn
    BY <1>6, SeenStays
  <1> QED BY <1>4, <1>5, <1>6, <1>7, <1>8, StoredWrite

\* record_message of a new row. What it counts is an inbound message.
LEMMA InsertStored ==
    ASSUME PlatOK, RowsOK, Stored, UNCHANGED <<scen, plat>>, NEW p \in Pks, NEW row \in RowSet,
           NEW count \in BOOLEAN, Insert(p, row, count), ~Known(p) \/ p[1] # "m", row.at <= Now,
           count => /\ p = <<"m", row.id>> /\ row.id \in 1..Len(plat) /\ row.status # "failed"
                    /\ row.dir = "in" /\ row.at = 2 * row.id /\ row.type \in scen.types
    PROVE  Stored'
  <1>0. Len(plat) \in Nat /\ Len(plat) <= MaxMsgs /\ MaxMsgs \in Nat /\ since \subseteq 1..Len(plat)
    BY DEF PlatOK, Stored
  <1>1. rows'[p] = row /\ \A q \in Pks : q # p => rows'[q] = rows[q]
    BY DEF Insert, RowsOK
  <1>2. \A q \in Pks : rows'[q].at <= Now
    BY <1>1 DEF Stored
  <1>3. ASSUME NEW k \in since
        PROVE  rows'[<<"m", k>>] = rows[<<"m", k>>] /\ <<"m", k>> # p
    <2>1. <<"m", k>> \in Pks /\ rows[<<"m", k>>].dir = "in" /\ <<"m", k>>[1] = "m"
      BY <1>0 DEF Stored, InRow, Pks, Ids
    <2>2. Known(<<"m", k>>)
      BY <2>1 DEF Known, None
    <2> QED BY <1>1, <2>1, <2>2
  <1> DEFINE cv == [conv EXCEPT !.ex = TRUE, !.unread = IF count THEN @ + 1 ELSE @]
  <1>4. /\ {"ex", "unread", "lastIn"} \subseteq DOMAIN cv /\ cv.lastIn = conv.lastIn
        /\ cv.unread = IF count THEN conv.unread + 1 ELSE conv.unread
    BY DEF Stored
  <1>5. /\ conv' = IF row.status = "failed" THEN cv ELSE WorkState(cv, row.dir, row.at)
        /\ read' = IF count THEN State(TRUE, IF read.ex THEN read.n + 1 ELSE cv.unread) ELSE read
        /\ since' = IF count THEN since \cup {row.id} ELSE since
    BY DEF Insert
  <1> HIDE DEF cv
  <1>6. row.at \in Nat /\ cv.lastIn \in Nat /\ cv.unread \in Nat
    BY <1>4 DEF Stored, RowSet
  <1>7. /\ {"ex", "unread", "lastIn"} \subseteq DOMAIN conv'
        /\ conv'.unread \in Nat /\ conv'.lastIn \in Nat /\ conv.lastIn <= conv'.lastIn
        /\ count => row.at <= conv'.lastIn
    BY <1>4, <1>5, <1>6, WorkStateIn
  <1>8. On("shared") => \A k \in since : 2 * k <= conv'.lastIn
    BY <1>7, SeenStays
  <1>9. CASE ~count
    BY <1>2, <1>3, <1>5, <1>7, <1>8, <1>9, StoredWrite
  <1>10. CASE count
    <2>1. since' = since \cup {row.id} /\ row.id \in 1..Len(plat)
      BY <1>5, <1>10
    <2>2. IsFiniteSet(since) /\ Cardinality(since) \in Nat
      BY SinceFinite
    <2>3. Cardinality(since') <= Cardinality(since) + 1 /\ Cardinality(since') \in Nat
      <3>1. Cardinality(since \cup {row.id}) =
               IF row.id \in since THEN Cardinality(since) ELSE Cardinality(since) + 1
        BY <2>2, FS_AddElement
      <3> HIDE DEF Stored
      <3> QED BY <2>1, <2>2, <3>1
    <2>4. /\ read' \in [ex : BOOLEAN, n : Nat] /\ read'.ex
          /\ read'.n = IF read.ex THEN read.n + 1 ELSE conv.unread + 1
      BY <1>4, <1>5, <1>10 DEF State, Stored
    <2>5. UnreadKept'
      <3>1. CASE read.ex
        BY <2>2, <2>3, <2>4, <3>1 DEF Stored, UnreadKept
      <3>2. CASE ~read.ex
        <4>1. Cardinality(since) = 0
          BY <3>2, FS_EmptySet DEF Stored
        <4> QED BY <2>3, <2>4, <3>2, <4>1 DEF Stored, UnreadKept
      <3> QED BY <3>1, <3>2
    <2>6. \A k \in since' : InRow(k)'
      <3>1. ASSUME NEW k \in since PROVE InRow(k)'
        <4>1. InRow(k)
          BY DEF Stored
        <4> QED BY <1>3, <4>1 DEF InRow
      <3>2. InRow(row.id)'
        BY <1>1, <1>10 DEF InRow
      <3> QED BY <2>1, <3>1, <3>2
    <2>7. On("shared") => \A k \in since' : 2 * k <= conv'.lastIn
      BY <1>7, <1>8, <1>10, <2>1
    <2>8. since' \subseteq 1..Len(plat)
      BY <1>0, <2>1
    <2>9. On("shared")' = On("shared") /\ Now' = Now
      BY DEF On, Now
    <2> QED BY <1>2, <1>7, <2>4, <2>5, <2>6, <2>7, <2>8, <2>9 DEF Stored
  <1> QED BY <1>9, <1>10

LEMMA EventStored ==
    ASSUME PlatOK, RowsOK, InTypes, Stored, UNCHANGED <<scen, plat>>, NEW k \in 1..Len(plat),
           NEW live \in BOOLEAN, RecordEvent(k, live)
    PROVE  Stored'
  <1>1. plat \in Seq(Message) /\ Len(plat) \in Nat /\ Len(plat) <= MaxMsgs /\ MaxMsgs \in Nat
    BY DEF PlatOK
  <1>2. plat[k] \in Message /\ k \in Nat /\ k # 0 /\ <<"m", k>> \in Pks /\ 2 * k <= Now
    BY <1>1 DEF Pks, Ids, Now
  <1>3. CASE IsNew(k)
    <2> DEFINE row == Row(k, plat[k].dir, plat[k].type, 2 * k, None)
               count == live /\ plat[k].dir = "in"
    <2>1. /\ row \in RowSet /\ row.id = k /\ row.at = 2 * k /\ row.status # "failed"
          /\ row.dir = plat[k].dir /\ row.type = plat[k].type
      BY <1>2 DEF Row, RowSet, Message, None
    <2>2. ~Known(<<"m", k>>)
      BY <1>2, <1>3 DEF IsNew, RowsOf, RowsOK, RowOK
    <2>3. Insert(<<"m", k>>, row, count) /\ count \in BOOLEAN
      BY <1>3 DEF RecordEvent
    <2>4. count => row.dir = "in" /\ row.type \in scen.types
      BY <2>1 DEF InTypes
    <2> HIDE DEF row, count
    <2> QED BY <1>2, <2>1, <2>2, <2>3, <2>4, InsertStored
  <1>4. CASE ~IsNew(k)
    <2>1. PICK p \in RowsOf(k) : Update(p, 2 * k, None)
      BY <1>4 DEF RecordEvent
    <2>2. k \in 0..Len(plat) /\ 2 * k \in {0, 2 * k}
      BY <1>1
    <2> QED BY <2>1, <2>2, UpdateStored
  <1> QED BY <1>3, <1>4

LEMMA SentStored ==
    ASSUME PlatOK, RowsOK, Stored, UNCHANGED <<scen, plat>>,
           NEW by \in ({"p"} \X Reqs) \cup ({"a"} \X Ids), NEW id \in 0..Len(plat), NEW ok,
           RecordSent(by, id, ok)
    PROVE  Stored'
  <1> DEFINE st == IF ok THEN "sent" ELSE "failed"
             p == IF id # 0 THEN <<"m", id>> ELSE by
             row == Row(id, "out", "text", Now, st)
  <1>1. Len(plat) \in Nat /\ Len(plat) <= MaxMsgs /\ MaxMsgs \in Nat /\ Now \in Nat /\ id \in Nat
    BY DEF PlatOK, Now
  <1>2. by \in Pks /\ by[1] # "m" /\ (id # 0 => <<"m", id>> \in Pks)
    BY <1>1 DEF Pks, Ids
  <1>3. CASE RowsOf(id) = {}
    <2>1. row \in RowSet /\ row.at = Now
      BY <1>1 DEF Row, RowSet, None
    <2>2. id # 0 => ~Known(<<"m", id>>)
      BY <1>1, <1>2, <1>3 DEF RowsOf, RowsOK, RowOK
    <2>3. Insert(p, row, FALSE)
      BY <1>3 DEF RecordSent
    <2>4. p \in Pks /\ (~Known(p) \/ p[1] # "m") /\ row.at <= Now
      BY <1>1, <1>2, <2>1, <2>2
    <2> HIDE DEF row, p
    <2> QED BY <2>1, <2>3, <2>4, InsertStored
  <1>4. CASE RowsOf(id) # {}
    <2>1. PICK q \in RowsOf(id) : Update(q, 0, st)
      BY <1>4 DEF RecordSent
    <2>2. 0 \in {0, 2 * id}
      OBVIOUS
    <2> QED BY <2>1, <2>2, UpdateStored
  <1> QED BY <1>3, <1>4

\* The table, the pages and the history are left alone.
LEMMA UnreadQuiet ==
    ASSUME IInv, IInv', Unread, UNCHANGED <<scen, rows, conv, read, since, snap, hist>>,
           Len(plat) <= Len(plat'), InTypes'
    PROVE  Unread'
  <1>1. Stored'
    BY StoredQuiet DEF IInv, Unread
  <1>2. Pages'
    BY DEF Unread, Pages, On
  <1> QED BY <1>1, <1>2 DEF Unread

LEMMA LogUntouched ==
    ASSUME IInv, Unread, UNCHANGED <<scen, plat>>
    PROVE  InTypes' /\ Len(plat) <= Len(plat')
  <1>1. Len(plat) \in Nat
    BY DEF IInv, PlatOK
  <1> QED BY <1>1 DEF Unread, InTypes

LEMMA UnreadAppended ==
    ASSUME IInv, IInv', Unread, UNCHANGED <<scen, rows, conv, read, since, snap, hist>>,
           NEW m, Appended(m), m.dir = "in" => m.type \in scen.types
    PROVE  Unread'
  <1>1. Len(plat) \in Nat /\ plat \in Seq(Message) /\ plat' = Append(plat, m)
    BY DEF IInv, PlatOK, Appended
  <1>2. /\ Len(plat') = Len(plat) + 1 /\ plat'[Len(plat) + 1] = m
        /\ \A k \in 1..Len(plat) : plat'[k] = plat[k]
    BY <1>1
  <1>3. InTypes'
    <2>1. \A k \in 1..Len(plat') : k \in 1..Len(plat) \/ k = Len(plat) + 1
      BY <1>1, <1>2
    <2> QED BY <1>2, <2>1 DEF Unread, InTypes
  <1> QED BY <1>1, <1>2, <1>3, UnreadQuiet

LEMMA UnreadWorld == ASSUME IInv, IInv', Unread, World PROVE Unread'
  <1>1. UNCHANGED <<scen, rows, conv, read, since, snap, hist>>
    BY DEF World, PeerSends, DeviceSends, MessageArrives, Redelivers, table, syncs
  <1>2. CASE Redelivers
    BY <1>1, <1>2, LogUntouched, UnreadQuiet DEF Redelivers, platform
  <1>3. ASSUME NEW m, Appended(m), m.dir = "in" => m.type \in scen.types PROVE Unread'
    BY <1>1, <1>3, UnreadAppended
  <1>4. CASE PeerSends
    <2>1. PICK t \in scen.types : Appended(Msg("in", t, <<"peer", 0>>))
      BY <1>4 DEF PeerSends
    <2>2. PICK m : m = Msg("in", t, <<"peer", 0>>)
      OBVIOUS
    <2>3. Appended(m) /\ m.type \in scen.types
      BY <2>1, <2>2 DEF Msg
    <2> QED BY <1>3, <2>3
  <1>5. ASSUME NEW by, Appended(Msg("out", "text", by)) PROVE Unread'
    <2>1. PICK m : m = Msg("out", "text", by)
      OBVIOUS
    <2>2. Appended(m) /\ m.dir = "out"
      BY <1>5, <2>1 DEF Msg
    <2> QED BY <1>3, <2>2
  <1> QED BY <1>2, <1>4, <1>5 DEF World, DeviceSends, MessageArrives

\* The table is written; the log, the pages and the history are left alone.
LEMMA UnreadStored ==
    ASSUME IInv, Unread, Stored', UNCHANGED <<scen, plat, snap, hist>>
    PROVE  Unread'
  <1>1. Pages'
    BY DEF Unread, Pages, On
  <1> QED BY <1>1, LogUntouched DEF Unread

LEMMA UnreadFrames == ASSUME IInv, IInv', Unread, Frames PROVE Unread'
  <1>1. UNCHANGED <<scen, plat, snap, hist>>
    BY DEF Frames, TakeFrame, HandleMessage, HandleFails, RetryPersistence, platform, syncs
  <1>2. CASE UNCHANGED table
    BY <1>1, <1>2, LogUntouched, UnreadQuiet DEF table
  <1>3. ASSUME NEW k \in Ids, k \in work \/ retry[k] > 0, RecordEvent(k, TRUE) PROVE Unread'
    <2>1. k \in 1..Len(plat)
      <3>1. Len(plat) \in Nat
        BY DEF IInv, PlatOK
      <3>2. k \in Nat /\ k >= 1
        BY BoundAssumption DEF Ids
      <3>3. CASE k \in work
        BY <3>3 DEF IInv, FramesOK
      <3>4. CASE retry[k] > 0
        <4>1. k <= Len(plat)
          BY <3>4 DEF IInv, FramesOK
        <4> QED BY <3>1, <3>2, <4>1
      <3> QED BY <1>3, <3>3, <3>4
    <2>2. Stored'
      BY <1>1, <1>3, <2>1, EventStored DEF IInv, Unread
    <2> QED BY <1>1, <2>2, UnreadStored
  <1>4. CASE TakeFrame
    BY <1>2, <1>4 DEF TakeFrame
  <1>5. ASSUME NEW k \in Ids, HandleMessage(k) \/ HandleFails(k) \/ RetryPersistence(k)
        PROVE  Unread'
    BY <1>2, <1>3, <1>5 DEF HandleMessage, HandleFails, RetryPersistence
  <1> QED BY <1>4, <1>5 DEF Frames

LEMMA UnreadUpsert ==
    ASSUME IInv, Unread, Apart, NEW s \in Syncs, UpsertConversations(s)
    PROVE  Unread'
  <1>1. /\ UNCHANGED <<scen, plat, rows, since, hist>> /\ snap[s] # NoSnap
        /\ conv' = Authoritative([conv EXCEPT !.ex = TRUE, !.unread = snap[s].unread], snap[s].last)
        /\ read' = IF read.ex /\ snap[s].unread > conv.unread
                   THEN State(TRUE, read.n + (snap[s].unread - conv.unread)) ELSE read
        /\ snap' = [snap EXCEPT ![s] = NoSnap]
    BY DEF UpsertConversations, platform
  <1>2. snap[s].unread \in Nat /\ snap[s].last \in Nat /\ On(s)
    BY <1>1 DEF Unread, Pages
  <1>3. ~On("shared")
    BY <1>2 DEF Apart, Syncs
  <1>4. NoSnap.unread \in Nat /\ NoSnap.last \in Nat
    BY DEF NoSnap
  <1>5. Pages'
    BY <1>1, <1>4 DEF Unread, Pages, On
  <1>6. /\ {"ex", "unread", "lastIn"} \subseteq DOMAIN conv'
        /\ conv'.unread \in Nat /\ conv'.lastIn \in Nat
    BY <1>1, <1>2 DEF Unread, Stored, Authoritative
  <1>7. read' \in [ex : BOOLEAN, n : Nat] /\ (read.ex <=> read'.ex) /\ read'.n >= read.n
    <2>1. read \in [ex : BOOLEAN, n : Nat] /\ conv.unread \in Nat
      BY DEF Unread, Stored
    <2>2. CASE read.ex /\ snap[s].unread > conv.unread
      <3>1. PICK n \in Nat : n = read.n + (snap[s].unread - conv.unread) /\ n >= read.n
        BY <1>2, <2>1, <2>2
      <3>2. read' = [ex |-> TRUE, n |-> n]
        BY <1>1, <2>2, <3>1 DEF State
      <3> QED BY <2>2, <3>1, <3>2
    <2>3. CASE ~(read.ex /\ snap[s].unread > conv.unread)
      <3>1. read' = read
        BY <1>1, <2>3
      <3>2. read' \in [ex : BOOLEAN, n : Nat] /\ (read.ex <=> read'.ex)
        BY <2>1, <3>1, Zenon
      <3>3. read.n \in Nat /\ read'.n = read.n
        BY <2>1, <3>1
      <3> QED BY <3>2, <3>3
    <2> QED BY <2>2, <2>3
  <1>8. UnreadKept'
    <2>1. Cardinality(since) \in Nat
      BY SinceFinite DEF IInv, Unread
    <2>2. read.ex => read.n >= Cardinality(since) /\ read.n \in Nat /\ read'.n \in Nat
      BY <1>7 DEF Unread, Stored, UnreadKept
    <2> SUFFICES ASSUME read'.ex PROVE read'.n >= Cardinality(since')
      BY DEF UnreadKept
    <2>3. read.ex
      BY <1>7
    <2>4. since' = since
      BY <1>1
    <2> QED BY <1>7, <2>1, <2>2, <2>3, <2>4
  <1>9. Stored'
    BY <1>1, <1>3, <1>6, <1>7, <1>8 DEF Unread, Stored, InRow, On, Now
  <1> QED BY <1>1, <1>5, <1>9, LogUntouched DEF Unread

\* The summary is recomputed: the rows of what is unread are among those that
\* it looks at, if an agent may read.
LEMMA UnreadReconcile == ASSUME IInv, Unread, Apart, Reconcile PROVE Unread'
  <1>1. UNCHANGED <<scen, plat, rows, read, since, snap>> /\ hist.on /\ conv' = Reconciled
        /\ hist' = NoHist
    BY DEF Reconcile, platform
  <1>2. Pages'
    BY <1>1 DEF Unread, Pages, On, NoHist
  <1> DEFINE in == {p \in Counted : rows[p].dir = "in"}
  <1>3. in \in SUBSET Pks
    BY DEF Counted
  <1>4. Newest(in) \in Nat /\ \A p \in in : rows[p].at <= Newest(in)
    BY <1>3, NewestIs DEF IInv, Unread, Stored
  <1>5. ASSUME On("shared"), NEW k \in since PROVE 2 * k <= Newest(in)
    <2>1. "audio" \notin scen.types
      BY <1>1, <1>5 DEF Unread, Pages, Apart
    <2>2. InRow(k) /\ <<"m", k>> \in Pks
      BY DEF IInv, PlatOK, Unread, Stored, Pks, Ids
    <2>3. <<"m", k>> \in in
      BY <2>1, <2>2 DEF InRow, Counted, Known, None
    <2> QED BY <1>4, <2>2, <2>3 DEF InRow
  <1>6. conv' = conv \/ (/\ DOMAIN conv' = DOMAIN conv /\ conv'.unread = conv.unread
                         /\ conv'.lastIn = Newest(in))
    BY <1>1 DEF Reconciled, Unread, Stored
  <1> HIDE DEF in
  <1>7. /\ {"ex", "unread", "lastIn"} \subseteq DOMAIN conv'
        /\ conv'.unread \in Nat /\ conv'.lastIn \in Nat
        /\ On("shared") => \A k \in since : 2 * k <= conv'.lastIn
    BY <1>4, <1>5, <1>6 DEF Unread, Stored
  <1>8. Stored'
    BY <1>1, <1>7, StoredWrite DEF IInv, Unread, Stored
  <1> QED BY <1>1, <1>2, <1>8, LogUntouched DEF Unread

LEMMA UnreadSync == ASSUME IInv, IInv', Unread, Apart, Sync PROVE Unread'
  <1>1. ASSUME NEW s \in Syncs, FetchConversations(s) PROVE Unread'
    <2>1. /\ UNCHANGED <<scen, plat, rows, conv, read, since, hist>> /\ On(s)
          /\ snap' = [snap EXCEPT ![s] = [last |-> Len(plat), unread |-> PlatformUnread]]
      BY <1>1 DEF FetchConversations, platform, table
    <2>2. Len(plat) \in Nat /\ PlatformUnread \in Nat
      <3>1. Len(plat) \in Nat
        BY DEF IInv, PlatOK
      <3>2. IsFiniteSet(1..Len(plat))
        <4>1. PICK n \in Nat : n = Len(plat)
          BY <3>1
        <4>2. 1 \in Int /\ n \in Int /\ IsFiniteSet(1..n)
          BY FS_Interval
        <4> QED BY <4>1, <4>2
      <3>3. IsFiniteSet({k \in 1..Len(plat) : \A j \in k..Len(plat) : plat[j].dir = "in"})
        BY <3>2, FS_Subset
      <3> QED BY <3>1, <3>3, FS_CardinalityType DEF PlatformUnread
    <2>3. Pages'
      BY <2>1, <2>2 DEF Unread, Pages, On
    <2>4. Stored' /\ InTypes'
      BY <2>1, LogUntouched, StoredQuiet DEF IInv, Unread
    <2> QED BY <2>3, <2>4 DEF Unread
  <1>2. CASE FetchMessages
    <2>1. UNCHANGED <<scen, plat, rows, conv, read, since, snap>> /\ On("history")
      BY <1>2 DEF FetchMessages, platform, table
    <2>2. Pages'
      BY <2>1 DEF Unread, Pages, On
    <2>3. Stored' /\ InTypes'
      BY <2>1, LogUntouched, StoredQuiet DEF IInv, Unread
    <2> QED BY <2>2, <2>3 DEF Unread
  <1>3. ASSUME NEW k \in Ids, RecordHistory(k) PROVE Unread'
    <2>1. /\ UNCHANGED <<scen, plat, snap>> /\ RecordEvent(k, FALSE) /\ k \in hist.left
          /\ hist' = [hist EXCEPT !.left = @ \ {k}]
      BY <1>3 DEF RecordHistory, platform
    <2>2. k \in 1..Len(plat) /\ hist'.on = hist.on
      BY <2>1 DEF IInv, FramesOK
    <2>3. Pages'
      BY <2>1, <2>2 DEF Unread, Pages, On
    <2>4. Stored'
      BY <2>1, <2>2, EventStored DEF IInv, Unread
    <2> QED BY <2>1, <2>3, <2>4, LogUntouched DEF Unread
  <1> QED BY <1>1, <1>2, <1>3, UnreadUpsert, UnreadReconcile DEF Sync

\* An agent's second covers all that the conversation knows of, so nothing newer
\* is left out.
LEMMA UnreadOperate == ASSUME IInv, IInv', Unread, Operate PROVE Unread'
  <1>1. UNCHANGED <<scen, plat, rows, conv, snap, hist>>
    BY DEF Operate, MarkRead, MarkReadShared, SetTakeover, DisableAutoReply, platform, table, syncs
  <1>2. CASE UNCHANGED <<read, since>>
    BY <1>1, <1>2, LogUntouched, UnreadQuiet
  <1>3. CASE read' = State(TRUE, 0) /\ since' = {}
    <2>1. read' \in [ex : BOOLEAN, n : Nat] /\ read'.ex /\ read'.n = 0
      BY <1>3 DEF State
    <2>2. UnreadKept'
      <3>1. Cardinality(since') = 0
        BY <1>3, FS_EmptySet
      <3>2. read'.n >= Cardinality(since')
        BY <2>1, <3>1
      <3> QED BY <3>2 DEF UnreadKept
    <2>3. Stored'
      BY <1>1, <1>3, <2>1, <2>2 DEF Unread, Stored, On, Now
    <2> QED BY <1>1, <2>3, UnreadStored
  <1>4. ASSUME NEW n \in 1..Len(plat), NEW m \in EndOfSecond(n), MarkReadShared(n, m) PROVE Unread'
    <2>1. /\ On("shared") /\ conv.lastIn <= 2 * m /\ read' = State(TRUE, 0)
          /\ since' = {k \in since : k > m}
      BY <1>4 DEF MarkReadShared, SeenUntil
    <2>2. \A k \in since : k \in Nat /\ 2 * k <= conv.lastIn
      BY <2>1 DEF Unread, Stored, IInv, PlatOK
    <2>3. conv.lastIn \in Nat /\ m \in Nat
      BY DEF Unread, Stored, IInv, PlatOK, EndOfSecond
    <2>4. since' = {}
      BY <2>1, <2>2, <2>3
    <2> QED BY <1>3, <2>1, <2>4
  <1>5. CASE MarkRead \/ SetTakeover \/ DisableAutoReply
    BY <1>2, <1>3, <1>5 DEF MarkRead, SetTakeover, DisableAutoReply, table
  <1> QED BY <1>4, <1>5 DEF Operate

\* Rows of requests are not those of inbound messages.
LEMMA UnreadRequestRow ==
    ASSUME IInv, Unread, UNCHANGED <<scen, plat, snap, hist, read, since>>,
           NEW p \in Pks, \A q \in Pks : q # p => rows'[q] = rows[q],
           rows'[p].at <= Now,
           \/ p[1] = "q"
           \/ rows'[p].dir = rows[p].dir /\ rows'[p].at = rows[p].at /\ rows'[p].type = rows[p].type,
           conv' = conv \/ \E t \in Nat : conv' = WorkState(conv, "out", t)
    PROVE  Unread'
  <1>1. ASSUME NEW k \in since
        PROVE  /\ rows'[<<"m", k>>].dir = rows[<<"m", k>>].dir
               /\ rows'[<<"m", k>>].at = rows[<<"m", k>>].at
               /\ rows'[<<"m", k>>].type = rows[<<"m", k>>].type
    <2>1. <<"m", k>> \in Pks /\ <<"m", k>>[1] # "q"
      BY DEF IInv, PlatOK, Unread, Stored, Pks, Ids
    <2> QED BY <2>1
  <1>2. \A q \in Pks : rows'[q].at <= Now
    BY DEF Unread, Stored
  <1>3. /\ {"ex", "unread", "lastIn"} \subseteq DOMAIN conv'
        /\ conv'.unread \in Nat /\ conv'.lastIn \in Nat /\ conv.lastIn <= conv'.lastIn
    <2>1. CASE conv' = conv
      BY <2>1 DEF Unread, Stored
    <2>2. CASE \E t \in Nat : conv' = WorkState(conv, "out", t)
      BY <2>2, WorkStateIn DEF Unread, Stored
    <2> QED BY <2>1, <2>2
  <1>4. On("shared") => \A k \in since : 2 * k <= conv'.lastIn
    BY <1>3, SeenStays DEF IInv, Unread
  <1>5. Stored'
    BY <1>1, <1>2, <1>3, <1>4, StoredWrite DEF IInv, Unread
  <1> QED BY <1>5, UnreadStored

LEMMA UnreadSending == ASSUME IInv, IInv', Unread, Sending PROVE Unread'
  <1>0. Len(plat) \in Nat /\ Now \in Nat /\ plat \in Seq(Message)
    BY DEF IInv, PlatOK, Now
  <1>1. ASSUME UNCHANGED <<scen, table, syncs, plat>> PROVE Unread'
    BY <1>1, LogUntouched, UnreadQuiet DEF table, syncs
  <1>2. ASSUME NEW c \in Callers,
               \/ \E r \in Reqs : BeginPlain(c, r)
               \/ NotSent(c) \/ Send(c) \/ Answered(c) \/ Timeout(c) \/ Refused(c) \/ RecallFails(c)
               \/ \E p \in Pks : Recall(c, p)
        PROVE  Unread'
    BY <1>1, <1>2 DEF BeginPlain, NotSent, Send, Answered, Timeout, Refused, RecallFails, Recall,
                      Quiet, platform
  <1>3. ASSUME NEW c \in Callers, NEW r \in Reqs, NEW t \in {"text", "image"}, Begin(c, r, t)
        PROVE  Unread'
    <2>1. /\ UNCHANGED <<scen, plat, snap, hist, read, since, conv>>
          /\ rows' = [rows EXCEPT ![<<"q", r>>] = Row(0, "out", t, Now, "sending")]
      BY <1>3 DEF Begin, Quiet, platform, syncs
    <2>2. PICK p \in Pks : p = <<"q", r>> /\ p[1] = "q"
      <3>1. <<"q", r>> \in Pks /\ <<"q", r>>[1] = "q"
        BY DEF Pks
      <3> QED BY <3>1
    <2>3. rows'[p].at = Now /\ \A q \in Pks : q # p => rows'[q] = rows[q]
      BY <2>1, <2>2 DEF Row, IInv, RowsOK
    <2> QED BY <1>0, <2>1, <2>2, <2>3, UnreadRequestRow
  <1>4. ASSUME NEW c \in Callers, Complete(c) PROVE Unread'
    <2>1. /\ UNCHANGED <<scen, plat, snap, hist, read, since>> /\ call[c].pc = "complete"
          /\ call[c].by[1] = "q"
      BY <1>4 DEF Complete, Quiet, platform, syncs
    <2>2. PICK p \in Pks : p = call[c].by /\ p[1] = "q"
      BY <2>1 DEF IInv, CallsOK, CallOK, Outbound, Pks
    <2>3. rows[p] \in RowSet
      BY DEF IInv, RowsOK
    <2>4. rows'[p].at = rows[p].at /\ \A q \in Pks : q # p => rows'[q] = rows[q]
      BY <1>4, <2>2, <2>3 DEF Complete, IInv, RowsOK, RowSet
    <2>5. rows[p].at \in Nat /\ rows[p].at <= Now
      BY <2>3 DEF RowSet, Unread, Stored
    <2>6. conv' = conv \/ \E t \in Nat : conv' = WorkState(conv, "out", t)
      BY <1>4, <2>2, <2>5 DEF Complete
    <2> QED BY <2>1, <2>2, <2>4, <2>5, <2>6, UnreadRequestRow
  <1>5. ASSUME NEW c \in Callers, CompletePlain(c) PROVE Unread'
    <2>1. /\ UNCHANGED <<scen, plat, snap, hist>> /\ call[c].pc = "complete" /\ call[c].by[1] = "p"
          /\ RecordSent(call[c].by, call[c].id, call[c].ok)
      BY <1>5 DEF CompletePlain, Quiet, platform, syncs
    <2>2. call[c].by \in {"p"} \X Reqs /\ call[c] \in CallSet
          /\ (call[c].id # 0 => call[c].id = answer[call[c].by])
      BY <2>1 DEF IInv, CallsOK, CallOK, Outbound
    <2>3. call[c].id \in 0..Len(plat)
      <3>1. call[c].by \in Senders
        BY <2>2 DEF Senders
      <3> QED BY <1>0, <2>2, <3>1 DEF IInv, PlatOK
    <2>4. Stored'
      BY <2>1, <2>2, <2>3, SentStored DEF IInv, Unread
    <2> QED BY <2>1, <2>4, UnreadStored
  <1>6. ASSUME NEW c \in Callers, RecallArrives(c) PROVE Unread'
    <2>1. /\ UNCHANGED <<scen, rows, conv, read, since, snap, hist>> /\ call[c].pc = "recall"
          /\ plat' = [plat EXCEPT ![call[c].id].recalled = TRUE]
      BY <1>6 DEF RecallArrives, Quiet, table, syncs
    <2>2. /\ Len(plat') = Len(plat)
          /\ \A k \in 1..Len(plat) : plat'[k].dir = plat[k].dir /\ plat'[k].type = plat[k].type
      BY <1>0, <2>1 DEF Message
    <2>3. InTypes'
      BY <2>1, <2>2 DEF Unread, InTypes
    <2> QED BY <1>0, <2>1, <2>2, <2>3, UnreadQuiet
  <1>7. ASSUME NEW c \in Callers, MarkRecalled(c) PROVE Unread'
    <2>1. /\ UNCHANGED <<scen, plat, snap, hist, read, since, conv>> /\ call[c].pc = "recalled"
          /\ rows' = [rows EXCEPT ![call[c].by].recalled = TRUE]
      BY <1>7 DEF MarkRecalled, Quiet, platform, syncs
    <2>2. PICK p \in Pks : p = call[c].by
      BY <2>1 DEF IInv, CallsOK, CallOK
    <2>3. rows[p] \in RowSet
      BY DEF IInv, RowsOK
    <2>4. /\ rows'[p].dir = rows[p].dir /\ rows'[p].at = rows[p].at /\ rows'[p].type = rows[p].type
          /\ \A q \in Pks : q # p => rows'[q] = rows[q]
      BY <2>1, <2>2, <2>3 DEF IInv, RowsOK, RowSet
    <2>5. rows'[p].at <= Now
      BY <2>4 DEF Unread, Stored
    <2> QED BY <2>1, <2>4, <2>5, UnreadRequestRow
  <1> QED BY <1>2, <1>3, <1>4, <1>5, <1>6, <1>7 DEF Sending

LEMMA UnreadReplying == ASSUME IInv, IInv', Unread, Replying PROVE Unread'
  <1>1. ASSUME UNCHANGED <<scen, table, syncs, plat>> PROVE Unread'
    BY <1>1, LogUntouched, UnreadQuiet DEF table, syncs
  <1>3. CASE RecordReply
    <2>0. UNCHANGED <<scen, plat, snap, hist>>
      BY <1>3 DEF RecordReply, Still, platform, syncs
    <2>1. ar.pc = "record" /\ RecordSent(<<"a", ar.k>>, ar.id, ar.ok)
      BY <1>3 DEF RecordReply
    <2>2. /\ ar.k \in Ids /\ ar.id \in Nat /\ (ar.id # 0 => ar.id = answer[<<"a", ar.k>>])
      BY <2>1 DEF IInv, ReplyOK, ArSet
    <2>3. <<"a", ar.k>> \in Senders /\ <<"a", ar.k>> \in ({"p"} \X Reqs) \cup ({"a"} \X Ids)
      BY <2>2 DEF Senders
    <2>4. ar.id \in 0..Len(plat)
      <3>1. Len(plat) \in Nat
        BY DEF IInv, PlatOK
      <3> QED BY <2>2, <2>3, <3>1 DEF IInv, PlatOK
    <2>5. Stored'
      BY <2>0, <2>1, <2>3, <2>4, SentStored DEF IInv, Unread
    <2> QED BY <2>0, <2>5, UnreadStored
  <1>4. CASE TakeSideEffect \/ Decide \/ Claim
    <2>1. CASE TakeSideEffect
      BY <1>1, <2>1 DEF TakeSideEffect, Still, platform
    <2>2. CASE Decide
      BY <1>1, <2>2 DEF Decide, Still, platform
    <2>3. CASE Claim
      BY <1>1, <2>3 DEF Claim, Still, platform
    <2> QED BY <1>4, <2>1, <2>2, <2>3
  <1>5. CASE GenerateAiReply \/ NoReply \/ CheckAllowed
    <2>1. UNCHANGED <<scen, table, syncs, plat>>
      BY <1>5 DEF GenerateAiReply, NoReply, CheckAllowed, Still, platform
    <2> QED BY <1>1, <2>1
  <1>6. CASE SendReply \/ ReplyAnswered \/ ReplyTimeout \/ FinishReply
    <2>1. UNCHANGED <<scen, table, syncs, plat>>
      BY <1>6 DEF SendReply, ReplyAnswered, ReplyTimeout, FinishReply, Still, platform
    <2> QED BY <1>1, <2>1
  <1> QED BY <1>3, <1>4, <1>5, <1>6 DEF Replying

LEMMA UnreadBroken ==
    ASSUME IInv, IInv', Unread, SessionReplaced \/ ProcessRestarts \/ UNCHANGED vars
    PROVE  Unread'
  <1>1. UNCHANGED <<scen, plat, rows, conv, read, since>>
    BY DEF SessionReplaced, ProcessRestarts, vars, platform, table
  <1>2. CASE UNCHANGED syncs
    BY <1>1, <1>2, LogUntouched, UnreadQuiet DEF syncs
  <1>3. CASE ProcessRestarts
    <2>1. snap' = [s \in Syncs |-> NoSnap] /\ On("break")
      BY <1>3 DEF ProcessRestarts, Break
    <2>2. Pages'
      BY <1>1, <2>1 DEF Pages, NoSnap, On
    <2>3. Stored' /\ InTypes'
      BY <1>1, LogUntouched, StoredQuiet DEF IInv, Unread
    <2> QED BY <2>2, <2>3 DEF Unread
  <1> QED BY <1>2, <1>3 DEF SessionReplaced, vars

\* What a run covers is chosen once.
LEMMA ScenarioStays == [Next]_vars => UNCHANGED scen
  <1>1. ASSUME Frames \/ World \/ Operate PROVE UNCHANGED scen
    BY <1>1 DEF Frames, TakeFrame, HandleMessage, HandleFails, RetryPersistence,
                World, PeerSends, DeviceSends, MessageArrives, Redelivers,
                Operate, MarkRead, MarkReadShared, SetTakeover, DisableAutoReply
  <1>2. ASSUME Sync \/ SessionReplaced \/ ProcessRestarts \/ UNCHANGED vars PROVE UNCHANGED scen
    <2>1. ASSUME NEW s \in Syncs, FetchConversations(s) PROVE UNCHANGED scen
      BY <2>1 DEF FetchConversations
    <2>2. ASSUME NEW s \in Syncs, UpsertConversations(s) PROVE UNCHANGED scen
      <3>1. scen' = scen
        BY <2>2, Zenon DEF UpsertConversations
      <3> QED BY <3>1
    <2>3. ASSUME FetchMessages \/ Reconcile \/ \E k \in Ids : RecordHistory(k) PROVE UNCHANGED scen
      BY <2>3 DEF FetchMessages, Reconcile, RecordHistory
    <2>4. ASSUME SessionReplaced \/ ProcessRestarts \/ UNCHANGED vars PROVE UNCHANGED scen
      BY <2>4 DEF SessionReplaced, ProcessRestarts, vars
    <2> QED BY <1>2, <2>1, <2>2, <2>3, <2>4 DEF Sync
  <1>3. ASSUME NEW c \in Callers,
               NotSent(c) \/ Send(c) \/ Answered(c) \/ Timeout(c) \/ Refused(c) \/ Complete(c)
        PROVE  UNCHANGED scen
    BY <1>3 DEF NotSent, Send, Answered, Timeout, Refused, Complete, Quiet
  <1>4. ASSUME NEW c \in Callers, NEW p \in Pks,
               \/ CompletePlain(c) \/ RecallArrives(c) \/ RecallFails(c) \/ MarkRecalled(c)
               \/ Recall(c, p)
        PROVE  UNCHANGED scen
    BY <1>4 DEF CompletePlain, RecallArrives, RecallFails, MarkRecalled, Recall, Quiet
  <1>5. ASSUME TakeSideEffect \/ Decide \/ Claim \/ GenerateAiReply \/ NoReply PROVE UNCHANGED scen
    <2>1. CASE TakeSideEffect
      BY <2>1 DEF TakeSideEffect, Still
    <2>2. CASE Decide
      BY <2>2 DEF Decide, Still
    <2>3. CASE Claim
      BY <2>3 DEF Claim, Still
    <2>4. CASE GenerateAiReply \/ NoReply
      BY <2>4 DEF GenerateAiReply, NoReply, Still
    <2> QED BY <1>5, <2>1, <2>2, <2>3, <2>4
  <1>6. ASSUME CheckAllowed \/ SendReply \/ ReplyAnswered \/ ReplyTimeout \/ RecordReply \/ FinishReply
        PROVE  UNCHANGED scen
    BY <1>6 DEF CheckAllowed, SendReply, ReplyAnswered, ReplyTimeout, RecordReply, FinishReply, Still
  <1>7. ASSUME Sending PROVE UNCHANGED scen
    <2>1. PICK c \in Callers :
            \/ \E r \in Reqs : BeginPlain(c, r) \/ \E t \in {"text", "image"} : Begin(c, r, t)
            \/ NotSent(c) \/ Send(c) \/ Answered(c) \/ Timeout(c) \/ Refused(c) \/ Complete(c)
            \/ CompletePlain(c) \/ RecallArrives(c) \/ RecallFails(c) \/ MarkRecalled(c)
            \/ \E p \in Pks : Recall(c, p)
      BY <1>7 DEF Sending
    <2>2. CASE \E r \in Reqs : BeginPlain(c, r) \/ \E t \in {"text", "image"} : Begin(c, r, t)
      BY <2>2 DEF BeginPlain, Begin, Quiet
    <2>3. CASE CompletePlain(c) \/ RecallArrives(c) \/ RecallFails(c) \/ MarkRecalled(c)
      BY <2>3 DEF CompletePlain, RecallArrives, RecallFails, MarkRecalled, Quiet
    <2>4. CASE \E p \in Pks : Recall(c, p)
      BY <1>4, <2>4
    <2> QED BY <1>3, <2>1, <2>2, <2>3, <2>4
  <1> QED BY <1>1, <1>2, <1>5, <1>6, <1>7 DEF Next, Replying

LEMMA UnreadNext == IInv /\ IInv' /\ Unread /\ Apart /\ [Next]_vars => Unread' /\ Apart'
  <1> SUFFICES ASSUME IInv, IInv', Unread, Apart, [Next]_vars PROVE Unread' /\ Apart'
    OBVIOUS
  <1>1. Unread'
    BY UnreadFrames, UnreadWorld, UnreadSync, UnreadOperate, UnreadSending, UnreadReplying,
       UnreadBroken DEF Next
  <1> QED BY <1>1, ScenarioStays DEF Apart, On

\* No inbound message that arrived after the user last looked is taken for read,
\* whatever order frames, retries, histories and the platform's pages are stored
\* in; and an agent's read clears nothing that came after the second in which the
\* agent looked (what came in that second is taken for read), where no page of
\* the platform and no recomputed summary that leaves voice messages out comes in
\* between.
THEOREM UnreadIsKept == Spec /\ Apart => []UnreadKept
  <1>1. Init => Unread
    <2> SUFFICES ASSUME Init PROVE Unread
      OBVIOUS
    <2>1. InTypes
      BY DEF Init, InTypes
    <2>2. Pages
      BY DEF Init, Pages, NoSnap, NoHist
    <2>3. read \in [ex : BOOLEAN, n : Nat] /\ ~read.ex /\ since = {}
      BY DEF Init, State
    <2>4. \A p \in Pks : rows[p].at <= Now
      BY DEF Init, NoRow, Row, Now
    <2>5. Stored
      BY <2>3, <2>4 DEF Init, Stored, UnreadKept, NoConv
    <2> QED BY <2>1, <2>2, <2>5 DEF Unread
  <1>2. Unread => UnreadKept
    BY DEF Unread, Stored
  <1> QED BY <1>1, <1>2, IInvInit, IInvNext, UnreadNext, PTL DEF Spec

-----------------------------------------------------------------------------
(* Who has to answer next.                                                 *)

\* Nothing but the pushes of the platform is recorded.
Pushing ==
    /\ scen.ops \cap {"text", "image", "plain", "auto", "loop", "page", "history"} = {}
    /\ breaks = 0

\* Then nothing else writes rows or the summary: no request, reply or sync is
\* in progress, and no automatic reply may begin.
Alone ==
    /\ wire = {} /\ \A c \in Callers : call[c].pc = "idle"
    /\ ar.pc \in {"idle", "decide"} /\ ~enabled
    /\ \A s \in Syncs : snap[s] = NoSnap
    /\ ~hist.on /\ hist.left = {}

\* Every row is that of a message of the platform, as it was pushed.
PushedRow(p) ==
    \E k \in 1..Len(plat) : /\ p = <<"m", k>>
                            /\ rows[p].dir = plat[k].dir /\ rows[p].status = None
PushedRows == \A p \in Pks : Known(p) => PushedRow(p)

\* The summary knows the times of the newest messages stored, and marks the
\* conversation by these times.
TimeOf(t, dir) == t = 0 \/ \E k \in 1..Len(plat) : t = 2 * k /\ plat[k].dir = dir
Marked(cv) ==
    /\ {"ex", "unread", "needs", "lastIn", "lastOut"} \subseteq DOMAIN cv
    /\ cv.lastIn \in Nat /\ cv.lastOut \in Nat /\ cv.needs \in BOOLEAN
    /\ cv.needs <=> cv.lastIn > cv.lastOut
Latest ==
    /\ Marked(conv) /\ TimeOf(conv.lastIn, "in") /\ TimeOf(conv.lastOut, "out")
    /\ \A k \in 1..Len(plat) : Known(<<"m", k>>) =>
          2 * k <= IF plat[k].dir = "in" THEN conv.lastIn ELSE conv.lastOut

InOrder == Alone /\ PushedRows /\ Latest
OrderInv == breaks \in Nat /\ (Pushing => InOrder)

\* _apply_conversation_work_state keeps the mark with the newer of the two times,
\* however late a message is recorded.
LEMMA WorkStateMarks ==
    ASSUME NEW cv, Marked(cv), NEW dir, NEW at \in Nat, dir = "in" => at # cv.lastOut
    PROVE  /\ Marked(WorkState(cv, dir, at))
           /\ WorkState(cv, dir, at).lastIn =
                 IF dir = "in" /\ at >= cv.lastIn THEN at ELSE cv.lastIn
           /\ WorkState(cv, dir, at).lastOut =
                 IF dir # "in" /\ at >= cv.lastOut THEN at ELSE cv.lastOut
  <1>1. CASE dir = "in"
    <2> DEFINE w == [cv EXCEPT !.lastIn = IF at >= @ THEN at ELSE @,
                               !.needs = IF at >= cv.lastOut THEN TRUE ELSE @]
    <2>1. WorkState(cv, dir, at) = w
      BY <1>1 DEF WorkState
    <2>2. /\ DOMAIN w = DOMAIN cv /\ w.lastOut = cv.lastOut
          /\ w.lastIn = IF at >= cv.lastIn THEN at ELSE cv.lastIn
          /\ at >= cv.lastOut => w.needs
          /\ ~(at >= cv.lastOut) => w.needs = cv.needs
          /\ w.needs \in BOOLEAN
      BY DEF Marked
    <2> HIDE DEF w
    <2>3. cv.lastIn \in Nat /\ cv.lastOut \in Nat /\ at # cv.lastOut
      BY <1>1 DEF Marked
    <2>4. w.needs <=> w.lastIn > w.lastOut
      <3>1. CASE at >= cv.lastOut
        BY <2>2, <2>3, <3>1
      <3>2. CASE ~(at >= cv.lastOut)
        <4>1. w.lastIn > w.lastOut <=> cv.lastIn > cv.lastOut
          BY <2>2, <2>3, <3>2
        <4>2. cv.needs <=> cv.lastIn > cv.lastOut
          BY DEF Marked
        <4> QED BY <2>2, <3>2, <4>1, <4>2, Zenon
      <3> QED BY <3>1, <3>2
    <2>5. Marked(w)
      <3>1. w.lastIn \in Nat /\ w.lastOut \in Nat
        BY <2>2, <2>3
      <3> QED BY <2>2, <2>4, <3>1 DEF Marked
    <2> QED BY <1>1, <2>1, <2>2, <2>5
  <1>2. CASE dir # "in"
    <2> DEFINE w == [cv EXCEPT !.lastOut = IF at >= @ THEN at ELSE @,
                               !.needs = IF at >= cv.lastIn THEN FALSE ELSE @]
    <2>1. WorkState(cv, dir, at) = w
      BY <1>2 DEF WorkState
    <2>2. /\ DOMAIN w = DOMAIN cv /\ w.lastIn = cv.lastIn
          /\ w.lastOut = IF at >= cv.lastOut THEN at ELSE cv.lastOut
          /\ at >= cv.lastIn => ~w.needs
          /\ ~(at >= cv.lastIn) => w.needs = cv.needs
          /\ w.needs \in BOOLEAN
      BY DEF Marked
    <2> HIDE DEF w
    <2>3. cv.lastIn \in Nat /\ cv.lastOut \in Nat
      BY DEF Marked
    <2>4. w.needs <=> w.lastIn > w.lastOut
      <3>1. CASE at >= cv.lastIn
        BY <2>2, <2>3, <3>1
      <3>2. CASE ~(at >= cv.lastIn)
        <4>1. w.lastIn > w.lastOut <=> cv.lastIn > cv.lastOut
          BY <2>2, <2>3, <3>2
        <4>2. cv.needs <=> cv.lastIn > cv.lastOut
          BY DEF Marked
        <4> QED BY <2>2, <3>2, <4>1, <4>2, Zenon
      <3> QED BY <3>1, <3>2
    <2>5. Marked(w)
      <3>1. w.lastIn \in Nat /\ w.lastOut \in Nat
        BY <2>2, <2>3
      <3> QED BY <2>2, <2>4, <3>1 DEF Marked
    <2> QED BY <1>2, <2>1, <2>2, <2>5
  <1> QED BY <1>1, <1>2

\* Where rows and summary are left alone the log may grow.
LEMMA OrderQuiet ==
    ASSUME IInv, IInv', PushedRows, Latest, UNCHANGED <<rows, conv>>,
           Len(plat) <= Len(plat'), \A k \in 1..Len(plat) : plat'[k].dir = plat[k].dir
    PROVE  PushedRows' /\ Latest'
  <1>1. Len(plat) \in Nat /\ Len(plat') \in Nat /\ Len(plat') <= MaxMsgs /\ MaxMsgs \in Nat
    BY DEF IInv, PlatOK
  <1>2. \A k \in 1..Len(plat) : k \in 1..Len(plat')
    BY <1>1
  <1>3. PushedRows'
    BY <1>2 DEF PushedRows, PushedRow, Known
  <1>4. ASSUME NEW k \in 1..Len(plat'), Known(<<"m", k>>)' PROVE k \in 1..Len(plat)
    <2>1. <<"m", k>> \in Pks
      BY <1>1 DEF Pks, Ids
    <2>2. PICK j \in 1..Len(plat) : <<"m", k>> = <<"m", j>>
      BY <1>4, <2>1 DEF PushedRows, PushedRow, Known
    <2> QED BY <2>2
  <1>5. TimeOf(conv.lastIn, "in")' /\ TimeOf(conv.lastOut, "out")'
    BY <1>2 DEF Latest, TimeOf
  <1>6. \A k \in 1..Len(plat') : Known(<<"m", k>>)' =>
           2 * k <= IF plat'[k].dir = "in" THEN conv'.lastIn ELSE conv'.lastOut
    BY <1>4 DEF Latest, Known
  <1> QED BY <1>3, <1>5, <1>6 DEF Latest, Marked

\* A push is recorded, for the first time or once more.
LEMMA OrderEvent ==
    ASSUME IInv, PushedRows, Latest, UNCHANGED plat, NEW k \in 1..Len(plat),
           RecordEvent(k, TRUE)
    PROVE  PushedRows' /\ Latest'
  <1>1. plat \in Seq(Message) /\ Len(plat) \in Nat /\ Len(plat) <= MaxMsgs /\ MaxMsgs \in Nat
    BY DEF IInv, PlatOK
  <1>2. plat[k] \in Message /\ k \in Nat /\ k # 0 /\ <<"m", k>> \in Pks
    BY <1>1 DEF Pks, Ids
  <1>3. rows \in [Pks -> RowSet]
    BY DEF IInv, RowsOK
  <1>4. CASE IsNew(k)
    <2> DEFINE row == Row(k, plat[k].dir, plat[k].type, 2 * k, None)
               count == plat[k].dir = "in"
               cv == [conv EXCEPT !.ex = TRUE, !.unread = IF count THEN @ + 1 ELSE @]
    <2>1. /\ rows' = [rows EXCEPT ![<<"m", k>>] = row]
          /\ conv' = IF row.status = "failed" THEN cv ELSE WorkState(cv, row.dir, row.at)
      BY <1>4 DEF RecordEvent, Insert
    <2>2. /\ row.at = 2 * k /\ row.status = None /\ row.dir = plat[k].dir
          /\ row.dir # None /\ row.status # "failed"
      BY <1>2 DEF Row, Message, None
    <2>3. /\ Marked(cv) /\ cv.lastIn = conv.lastIn /\ cv.lastOut = conv.lastOut
      BY DEF Latest, Marked
    <2> HIDE DEF row, cv, count
    <2>4. rows'[<<"m", k>>] = row /\ \A p \in Pks : p # <<"m", k>> => rows'[p] = rows[p]
      BY <1>2, <1>3, <2>1
    <2>5. plat[k].dir = "in" => 2 * k # conv.lastOut
      <3>1. TimeOf(conv.lastOut, "out")
        BY DEF Latest
      <3> QED BY <1>2, <3>1 DEF TimeOf
    <2>6. conv' = WorkState(cv, plat[k].dir, 2 * k)
      BY <2>1, <2>2
    <2>7. /\ Marked(conv')
          /\ conv'.lastIn = IF plat[k].dir = "in" /\ 2 * k >= conv.lastIn THEN 2 * k ELSE conv.lastIn
          /\ conv'.lastOut = IF plat[k].dir # "in" /\ 2 * k >= conv.lastOut THEN 2 * k ELSE conv.lastOut
      <3>1. 2 * k \in Nat
        BY <1>2
      <3> QED BY <2>3, <2>5, <2>6, <3>1, WorkStateMarks
    <2>8. plat[k].dir = "in" \/ plat[k].dir = "out"
      BY <1>2 DEF Message
    <2>9. TimeOf(conv.lastIn, "in")' /\ TimeOf(conv.lastOut, "out")'
      BY <2>7, <2>8 DEF Latest, TimeOf
    <2>10. PushedRows'
      BY <2>2, <2>4 DEF PushedRows, PushedRow, Known
    <2>11. ASSUME NEW j \in 1..Len(plat), Known(<<"m", j>>)'
           PROVE  2 * j <= IF plat[j].dir = "in" THEN conv'.lastIn ELSE conv'.lastOut
      <3>1. conv.lastIn \in Nat /\ conv.lastOut \in Nat /\ conv'.lastIn \in Nat /\ conv'.lastOut \in Nat
        BY <2>7 DEF Latest, Marked
      <3>2. conv.lastIn <= conv'.lastIn /\ conv.lastOut <= conv'.lastOut
        BY <1>2, <2>7, <3>1
      <3>3. CASE j = k
        BY <1>2, <2>7, <3>1, <3>3
      <3>4. CASE j # k
        <4>1. <<"m", j>> \in Pks /\ <<"m", j>> # <<"m", k>> /\ j \in Nat
          BY <1>1, <3>4 DEF Pks, Ids
        <4>2. Known(<<"m", j>>)
          BY <2>4, <2>11, <4>1 DEF Known
        <4>3. 2 * j <= IF plat[j].dir = "in" THEN conv.lastIn ELSE conv.lastOut
          BY <4>2 DEF Latest
        <4> QED BY <3>1, <3>2, <4>1, <4>3
      <3> QED BY <3>3, <3>4
    <2> QED BY <2>7, <2>9, <2>10, <2>11 DEF Latest
  <1>5. CASE ~IsNew(k)
    <2>1. PICK p \in RowsOf(k) : Update(p, 2 * k, None)
      BY <1>5 DEF RecordEvent
    <2>2. p \in Pks
      BY <2>1 DEF RowsOf
    <2>3. conv' = conv
      BY <2>1 DEF Update, None
    <2>4. /\ \A q \in Pks : rows'[q].dir = rows[q].dir /\ rows'[q].status = rows[q].status
      BY <1>3, <2>1, <2>2 DEF Update, RowSet
    <2>5. PushedRows'
      BY <2>4 DEF PushedRows, PushedRow, Known
    <2>6. ASSUME NEW j \in 1..Len(plat), Known(<<"m", j>>)' PROVE Known(<<"m", j>>)
      <3>1. <<"m", j>> \in Pks
        BY <1>1 DEF Pks, Ids
      <3> QED BY <2>4, <2>6, <3>1 DEF Known
    <2>7. Latest'
      BY <2>3, <2>6 DEF Latest, TimeOf
    <2> QED BY <2>5, <2>7
  <1> QED BY <1>4, <1>5

LEMMA OrderFrames == ASSUME IInv, IInv', InOrder, Frames PROVE InOrder'
  <1>1. UNCHANGED <<plat, wire, call, enabled, snap, hist, ar>>
    BY DEF Frames, TakeFrame, HandleMessage, HandleFails, RetryPersistence, platform, syncs, replier
  <1>2. Alone'
    BY <1>1 DEF InOrder, Alone
  <1>3. Len(plat) <= Len(plat') /\ \A k \in 1..Len(plat) : plat'[k].dir = plat[k].dir
    <2>1. Len(plat) \in Nat
      BY DEF IInv, PlatOK
    <2> QED BY <1>1, <2>1
  <1>4. CASE UNCHANGED table
    BY <1>2, <1>3, <1>4, OrderQuiet DEF table, InOrder
  <1>5. ASSUME NEW k \in Ids, k \in work \/ retry[k] > 0, RecordEvent(k, TRUE) PROVE InOrder'
    <2>1. k \in 1..Len(plat)
      <3>1. Len(plat) \in Nat
        BY DEF IInv, PlatOK
      <3>2. k \in Nat /\ k >= 1
        BY BoundAssumption DEF Ids
      <3>3. CASE k \in work
        BY <3>3 DEF IInv, FramesOK
      <3>4. CASE retry[k] > 0
        <4>1. k <= Len(plat)
          BY <3>4 DEF IInv, FramesOK
        <4> QED BY <3>1, <3>2, <4>1
      <3> QED BY <1>5, <3>3, <3>4
    <2> QED BY <1>1, <1>2, <1>5, <2>1, OrderEvent DEF InOrder
  <1>6. CASE TakeFrame
    BY <1>4, <1>6 DEF TakeFrame
  <1>7. ASSUME NEW k \in Ids, HandleMessage(k) \/ HandleFails(k) \/ RetryPersistence(k)
        PROVE  InOrder'
    BY <1>4, <1>5, <1>7 DEF HandleMessage, HandleFails, RetryPersistence
  <1> QED BY <1>6, <1>7 DEF Frames

LEMMA OrderWorld == ASSUME IInv, IInv', InOrder, World PROVE InOrder'
  <1>1. wire = {}
    BY DEF InOrder, Alone
  <1>2. UNCHANGED <<rows, conv, call, enabled, snap, hist, ar, wire>>
    BY <1>1 DEF World, PeerSends, DeviceSends, MessageArrives, Redelivers, platform, table, syncs, replier
  <1>3. (\E m : plat' = Append(plat, m)) \/ UNCHANGED plat
    BY DEF World, PeerSends, DeviceSends, MessageArrives, Redelivers, Appended, platform
  <1>4. Len(plat) <= Len(plat') /\ \A k \in 1..Len(plat) : plat'[k].dir = plat[k].dir
    <2>1. Len(plat) \in Nat /\ plat \in Seq(Message)
      BY DEF IInv, PlatOK
    <2> QED BY <1>3, <2>1
  <1> QED BY <1>2, <1>4, OrderQuiet DEF InOrder, Alone

LEMMA OrderOperate == ASSUME IInv, IInv', InOrder, Operate PROVE InOrder'
  <1>1. UNCHANGED <<rows, conv, call, snap, hist, ar, wire, plat>> /\ ~enabled'
    <2>1. ~enabled
      BY DEF InOrder, Alone
    <2>2. ASSUME NEW n \in 1..Len(plat), NEW m \in EndOfSecond(n), MarkReadShared(n, m)
          PROVE  UNCHANGED <<rows, conv, call, snap, hist, ar, wire, plat, enabled>>
      BY <2>2 DEF MarkReadShared, platform, syncs, replier
    <2>3. CASE MarkRead
      BY <2>1, <2>3 DEF MarkRead, platform, syncs, replier
    <2>4. CASE SetTakeover
      BY <2>1, <2>4 DEF SetTakeover, platform, table, syncs
    <2>5. CASE DisableAutoReply
      BY <2>1, <2>5 DEF DisableAutoReply
    <2> QED BY <2>1, <2>2, <2>3, <2>4, <2>5 DEF Operate
  <1>2. Len(plat) <= Len(plat') /\ \A k \in 1..Len(plat) : plat'[k].dir = plat[k].dir
    <2>1. Len(plat) \in Nat
      BY DEF IInv, PlatOK
    <2> QED BY <1>1, <2>1
  <1> QED BY <1>1, <1>2, OrderQuiet DEF InOrder, Alone

\* Without syncs and requests these actions are not taken.
LEMMA NoSync == ASSUME Pushing, InOrder, Sync PROVE FALSE
  <1>1. ~On("loop") /\ ~On("page") /\ ~On("history")
    BY DEF Pushing, On
  <1>2. \A s \in Syncs : ~FetchConversations(s) /\ ~UpsertConversations(s)
    BY <1>1 DEF Syncs, FetchConversations, UpsertConversations, InOrder, Alone
  <1> QED BY <1>1, <1>2 DEF Sync, FetchMessages, Reconcile, RecordHistory, InOrder, Alone

LEMMA NoSending == ASSUME Pushing, InOrder, Sending PROVE FALSE
  <1>1. ~On("text") /\ ~On("image") /\ ~On("plain")
    BY DEF Pushing, On
  <1>2. ASSUME NEW c \in Callers, NEW p \in Pks, Recall(c, p) PROVE FALSE
    <2>1. rows[p].dir = "out" /\ rows[p].status = "sent"
      BY <1>2 DEF Recall
    <2>2. Known(p)
      BY <2>1 DEF Known, None
    <2> QED BY <2>1, <2>2 DEF InOrder, PushedRows, PushedRow, None
  <1>3. ASSUME NEW c \in Callers,
               \/ NotSent(c) \/ Send(c) \/ Answered(c) \/ Timeout(c) \/ Refused(c)
               \/ Complete(c) \/ CompletePlain(c)
               \/ RecallArrives(c) \/ RecallFails(c) \/ MarkRecalled(c)
        PROVE  FALSE
    <2>1. call[c].pc = "idle"
      BY DEF InOrder, Alone
    <2> QED BY <1>3, <2>1 DEF NotSent, Send, Answered, Timeout, Refused, Complete, CompletePlain,
                              RecallArrives, RecallFails, MarkRecalled
  <1>4. \A c \in Callers, r \in Reqs : ~BeginPlain(c, r) /\ ~Begin(c, r, "text") /\ ~Begin(c, r, "image")
    BY <1>1 DEF BeginPlain, Begin
  <1> QED BY <1>2, <1>3, <1>4 DEF Sending

LEMMA OrderReplying == ASSUME IInv, IInv', InOrder, Replying PROVE InOrder'
  <1>1. ar.pc \in {"idle", "decide"} /\ ~enabled
    BY DEF InOrder, Alone
  <1>2. TakeSideEffect \/ Decide
    BY <1>1 DEF Replying, Claim, GenerateAiReply, NoReply, CheckAllowed, SendReply,
                ReplyAnswered, ReplyTimeout, RecordReply, FinishReply
  <1>3. UNCHANGED <<rows, conv, call, snap, hist, enabled, wire, plat>>
    <2>1. UNCHANGED <<table, Still>>
      BY <1>2, Zenon DEF TakeSideEffect, Decide
    <2> QED BY <2>1 DEF Still, platform, table, syncs
  <1>4. ar'.pc \in {"idle", "decide"}
    <2>1. CASE TakeSideEffect
      BY <2>1 DEF TakeSideEffect, Idle
    <2>2. CASE Decide
      BY <1>1, <2>2 DEF Decide, Idle
    <2> QED BY <1>2, <2>1, <2>2
  <1>5. Len(plat) <= Len(plat') /\ \A k \in 1..Len(plat) : plat'[k].dir = plat[k].dir
    <2>1. Len(plat) \in Nat
      BY DEF IInv, PlatOK
    <2> QED BY <1>3, <2>1
  <1> QED BY <1>3, <1>4, <1>5, OrderQuiet DEF InOrder, Alone

LEMMA OrderStutter == ASSUME IInv, IInv', InOrder, UNCHANGED vars PROVE InOrder'
  <1>1. UNCHANGED <<rows, conv, call, snap, hist, ar, enabled, wire, plat>>
    BY DEF vars, platform, table, syncs, replier
  <1>2. Len(plat) <= Len(plat') /\ \A k \in 1..Len(plat) : plat'[k].dir = plat[k].dir
    <2>1. Len(plat) \in Nat
      BY DEF IInv, PlatOK
    <2> QED BY <1>1, <2>1
  <1> QED BY <1>1, <1>2, OrderQuiet DEF InOrder, Alone

\* Sessions replaced and restarts are counted, and nothing else is.
LEMMA BreaksCounted ==
    [Next]_vars => UNCHANGED breaks \/ ((SessionReplaced \/ ProcessRestarts) /\ breaks' = breaks + 1)
  <1>1. ASSUME Frames \/ World \/ Operate PROVE UNCHANGED breaks
    BY <1>1 DEF Frames, TakeFrame, HandleMessage, HandleFails, RetryPersistence,
                World, PeerSends, DeviceSends, MessageArrives, Redelivers,
                Operate, MarkRead, MarkReadShared, SetTakeover, DisableAutoReply, Fault, bounds
  <1>2. ASSUME Sync \/ UNCHANGED vars PROVE UNCHANGED breaks
    <2>1. ASSUME NEW s \in Syncs, FetchConversations(s) PROVE UNCHANGED breaks
      BY <2>1 DEF FetchConversations, bounds
    <2>2. ASSUME NEW s \in Syncs, UpsertConversations(s) PROVE UNCHANGED breaks
      <3>1. UNCHANGED bounds
        BY <2>2, Zenon DEF UpsertConversations
      <3> QED BY <3>1 DEF bounds
    <2>3. ASSUME FetchMessages \/ Reconcile \/ \E k \in Ids : RecordHistory(k) PROVE UNCHANGED breaks
      BY <2>3 DEF FetchMessages, Reconcile, RecordHistory, Fault, bounds
    <2>4. ASSUME UNCHANGED vars PROVE UNCHANGED breaks
      BY <2>4 DEF vars, bounds
    <2> QED BY <1>2, <2>1, <2>2, <2>3, <2>4 DEF Sync
  <1>3. ASSUME NEW c \in Callers,
               NotSent(c) \/ Send(c) \/ Answered(c) \/ Timeout(c) \/ Refused(c) \/ Complete(c)
        PROVE  UNCHANGED breaks
    BY <1>3 DEF NotSent, Send, Answered, Timeout, Refused, Complete, Fault, bounds
  <1>4. ASSUME NEW c \in Callers, NEW p \in Pks,
               \/ CompletePlain(c) \/ RecallArrives(c) \/ RecallFails(c) \/ MarkRecalled(c)
               \/ Recall(c, p)
        PROVE  UNCHANGED breaks
    BY <1>4 DEF CompletePlain, RecallArrives, RecallFails, MarkRecalled, Recall, Fault, bounds
  <1>5. ASSUME TakeSideEffect \/ Decide \/ Claim \/ GenerateAiReply \/ NoReply PROVE UNCHANGED breaks
    <2>1. CASE TakeSideEffect
      BY <2>1 DEF TakeSideEffect, bounds
    <2>2. CASE Decide
      BY <2>2 DEF Decide, bounds
    <2>3. CASE Claim
      BY <2>3 DEF Claim, bounds
    <2>4. CASE GenerateAiReply \/ NoReply
      BY <2>4 DEF GenerateAiReply, NoReply, Fault, bounds
    <2> QED BY <1>5, <2>1, <2>2, <2>3, <2>4
  <1>6. ASSUME CheckAllowed \/ SendReply \/ ReplyAnswered \/ ReplyTimeout \/ RecordReply \/ FinishReply
        PROVE  UNCHANGED breaks
    BY <1>6 DEF CheckAllowed, SendReply, ReplyAnswered, ReplyTimeout, RecordReply, FinishReply,
                Fault, bounds
  <1>7. ASSUME Sending PROVE UNCHANGED breaks
    <2>1. PICK c \in Callers :
            \/ \E r \in Reqs : BeginPlain(c, r) \/ \E t \in {"text", "image"} : Begin(c, r, t)
            \/ NotSent(c) \/ Send(c) \/ Answered(c) \/ Timeout(c) \/ Refused(c) \/ Complete(c)
            \/ CompletePlain(c) \/ RecallArrives(c) \/ RecallFails(c) \/ MarkRecalled(c)
            \/ \E p \in Pks : Recall(c, p)
      BY <1>7 DEF Sending
    <2>2. CASE \E r \in Reqs : BeginPlain(c, r) \/ \E t \in {"text", "image"} : Begin(c, r, t)
      BY <2>2 DEF BeginPlain, Begin, Fault, bounds
    <2>3. CASE CompletePlain(c) \/ RecallArrives(c) \/ RecallFails(c) \/ MarkRecalled(c)
      BY <2>3 DEF CompletePlain, RecallArrives, RecallFails, MarkRecalled, Fault, bounds
    <2>4. CASE \E p \in Pks : Recall(c, p)
      BY <1>4, <2>4
    <2> QED BY <1>3, <2>1, <2>2, <2>3, <2>4
  <1>8. ASSUME SessionReplaced \/ ProcessRestarts PROVE breaks' = breaks + 1
    BY <1>8 DEF SessionReplaced, ProcessRestarts, Break
  <1> QED BY <1>1, <1>2, <1>5, <1>6, <1>7, <1>8 DEF Next, Replying

LEMMA OrderNext == IInv /\ IInv' /\ OrderInv /\ [Next]_vars => OrderInv'
  <1> SUFFICES ASSUME IInv, IInv', OrderInv, [Next]_vars PROVE OrderInv'
    OBVIOUS
  <1>1. breaks \in Nat
    BY DEF OrderInv
  <1>2. breaks' \in Nat
    BY <1>1, BreaksCounted
  <1>3. ASSUME Pushing' PROVE InOrder'
    <2>1. breaks' = 0
      BY <1>3 DEF Pushing
    <2>2. UNCHANGED breaks /\ ~SessionReplaced /\ ~ProcessRestarts
      <3>1. breaks' # breaks + 1
        BY <1>1, <2>1
      <3>2. ~SessionReplaced /\ ~ProcessRestarts
        BY <3>1 DEF SessionReplaced, ProcessRestarts, Break
      <3> QED BY <3>2, BreaksCounted
    <2>3. Pushing
      BY <1>3, <2>2, ScenarioStays DEF Pushing
    <2>4. InOrder
      BY <2>3 DEF OrderInv
    <2>5. Frames \/ World \/ Operate \/ Replying \/ UNCHANGED vars
      BY <2>2, <2>3, <2>4, NoSync, NoSending DEF Next
    <2> QED BY <2>4, <2>5, OrderFrames, OrderWorld, OrderOperate, OrderReplying, OrderStutter
  <1> QED BY <1>2, <1>3 DEF OrderInv

\* The mark "needs reply" where no sync corrects it: push workers, retries and
\* redeliveries may record the messages in any order, once all are stored it
\* says who has to answer. It is the half of MarkIsRight that is no liveness.
THEOREM MarkFollowsPushes == Spec => []PushesInAnyOrder
  <1>1. Init => OrderInv
    <2> SUFFICES ASSUME Init PROVE OrderInv
      OBVIOUS
    <2>1. ASSUME Pushing PROVE Alone
      <3>1. "auto" \notin scen.ops
        BY <2>1 DEF Pushing
      <3> QED BY <3>1 DEF Init, Alone, NoCall, Call, Idle, NoSnap, NoHist
    <2>2. \A p \in Pks : ~Known(p)
      BY DEF Init, Known, NoRow, Row
    <2>3. Len(plat) = 0
      BY DEF Init
    <2>4. Latest
      BY <2>3 DEF Init, Latest, Marked, TimeOf, NoConv
    <2>5. breaks = 0
      BY DEF Init
    <2> QED BY <2>1, <2>2, <2>4, <2>5 DEF OrderInv, InOrder, PushedRows
  <1>2. IInv /\ OrderInv => PushesInAnyOrder
    <2> SUFFICES ASSUME IInv, InOrder, \A k \in 1..Len(plat) : ~IsNew(k)
                 PROVE  conv.needs = Waiting
      BY DEF OrderInv, Pushing, PushesInAnyOrder
    <2>1. plat \in Seq(Message) /\ Len(plat) \in Nat
      BY DEF IInv, PlatOK
    <2>2. ASSUME NEW k \in 1..Len(plat) PROVE Known(<<"m", k>>)
      <3>1. PICK p \in Pks : Known(p) /\ rows[p].id = k
        BY DEF IsNew, RowsOf
      <3>2. PICK j \in 1..Len(plat) : p = <<"m", j>>
        BY <3>1 DEF InOrder, PushedRows, PushedRow
      <3>3. rows[p].id = p[2]
        BY <3>1, <3>2 DEF IInv, RowsOK, RowOK
      <3> QED BY <3>1, <3>2, <3>3
    <2>3. /\ conv.lastIn \in Nat /\ conv.lastOut \in Nat /\ conv.needs \in BOOLEAN
          /\ conv.needs <=> conv.lastIn > conv.lastOut
          /\ TimeOf(conv.lastIn, "in") /\ TimeOf(conv.lastOut, "out")
      BY DEF InOrder, Latest, Marked
    <2>4. CASE Len(plat) = 0
      <3>1. plat = <<>>
        BY <2>1, <2>4
      <3>2. conv.lastIn = 0 /\ conv.lastOut = 0
        BY <2>3, <2>4 DEF TimeOf
      <3> QED BY <2>3, <3>1, <3>2 DEF Waiting
    <2>5. CASE Len(plat) # 0
      <3> DEFINE n == Len(plat)
      <3>1. n \in 1..n /\ n \in Nat /\ plat # <<>> /\ plat[n] \in Message
        BY <2>1, <2>5
      <3>2. 2 * n <= IF plat[n].dir = "in" THEN conv.lastIn ELSE conv.lastOut
        BY <2>2, <3>1 DEF InOrder, Latest
      <3>3. CASE plat[n].dir = "in"
        <4>1. conv.lastOut < 2 * n
          BY <2>3, <3>1, <3>3 DEF TimeOf
        <4> QED BY <2>3, <3>1, <3>2, <3>3, <4>1 DEF Waiting
      <3>4. CASE plat[n].dir # "in"
        <4>1. conv.lastIn < 2 * n
          BY <2>3, <3>1, <3>4 DEF TimeOf
        <4>2. ~Waiting
          BY <3>4 DEF Waiting
        <4>3. ~conv.needs
          BY <2>3, <3>1, <3>2, <3>4, <4>1
        <4> QED BY <2>3, <4>2, <4>3 DEF Waiting
      <3> QED BY <3>3, <3>4
    <2> QED BY <2>4, <2>5
  <1> QED BY <1>1, <1>2, IInvInit, IInvNext, OrderNext, PTL DEF Spec

-----------------------------------------------------------------------------
(* Delivery.                                                               *)

USE PathsAssumption, PayloadAssumption, CardAssumption, OrderAssumption,
    NoneAssumption, FaultAssumption

Requests == [pc : {"idle", "insert", "enqueue", "claim", "submit", "await", "update"},
             path : {"none", "conversation", "order", "send", "task"},
             target : Targets,
             record : Records \cup {NoRecord},
             outcome : {"none", "sent", "failed", "uncertain"}]

Tasks == {"none", "pending", "running", "success", "failed"}

(* The type invariant, and: a request about to insert has come through one *)
(* of the endpoints, a request past its first step names a record, and one *)
(* that is about to record an outcome has one.                             *)
WellFormed(q) ==
    /\ q.pc = "insert" => q.path \in Paths
    /\ q.pc \in {"enqueue", "claim", "submit", "await", "update"} => q.record \in Records
    /\ q.path = "task" => q.record \in Records
    /\ q.pc = "update" => q.outcome \in {"sent", "failed", "uncertain"}

RowsTyped ==
    /\ status \in [Records -> Statuses]
    /\ target \in [Records -> Targets]
    /\ maker \in [Records -> {"none"} \cup Paths]
    /\ task \in [Records -> Tasks]
    /\ air \subseteq Requesters \X Records
    /\ delivered \in [Records -> Nat]
    /\ failures \in 0..MaxFailures

ReqTyped == req \in [Requesters -> {q \in Requests : WellFormed(q)}]

Typed == RowsTyped /\ ReqTyped

\* The requests the actions build are well formed.
LEMMA NewRequests ==
    /\ IdleReq \in {q \in Requests : WellFormed(q)}
    /\ \A t \in Targets, path \in Paths :
          Req("insert", path, t, NoRecord, "none") \in {q \in Requests : WellFormed(q)}
    /\ \A r \in Records, path \in {"none", "conversation", "order", "send", "task"} :
          /\ \A pc \in {"enqueue", "claim", "submit", "await"} :
                SendReq(pc, path, r, "none") \in {q \in Requests : WellFormed(q)}
          /\ \A o \in {"sent", "failed", "uncertain"} :
                SendReq("update", path, r, o) \in {q \in Requests : WellFormed(q)}
  <1>1. NoTarget \in Targets
    BY DEF NoTarget, Targets
  <1>2. IdleReq \in {q \in Requests : WellFormed(q)}
    BY <1>1 DEF IdleReq, Req, Requests, WellFormed
  <1>3. ASSUME NEW t \in Targets, NEW path \in Paths
        PROVE  Req("insert", path, t, NoRecord, "none") \in {q \in Requests : WellFormed(q)}
    BY DEF Req, Requests, WellFormed
  <1>4. ASSUME NEW r \in Records,
               NEW path \in {"none", "conversation", "order", "send", "task"}
        PROVE  /\ \A pc \in {"enqueue", "claim", "submit", "await"} :
                     SendReq(pc, path, r, "none") \in {q \in Requests : WellFormed(q)}
               /\ \A o \in {"sent", "failed", "uncertain"} :
                     SendReq("update", path, r, o) \in {q \in Requests : WellFormed(q)}
    <2>1. ASSUME NEW pc \in {"enqueue", "claim", "submit", "await"}
          PROVE  SendReq(pc, path, r, "none") \in {q \in Requests : WellFormed(q)}
      BY <1>1 DEF SendReq, Req, Requests, WellFormed
    <2>2. ASSUME NEW o \in {"sent", "failed", "uncertain"}
          PROVE  SendReq("update", path, r, o) \in {q \in Requests : WellFormed(q)}
      BY <1>1 DEF SendReq, Req, Requests, WellFormed
    <2> QED BY <2>1, <2>2
  <1> QED BY <1>2, <1>3, <1>4

\* Targets of requests are targets of rows.
LEMMA NewTargets ==
    /\ \A t \in Payloads : Resolve(t) \in Targets
    /\ \A o \in Orders : OrderTarget(o) \in Targets
  <1>1. ASSUME NEW t \in Payloads PROVE Resolve(t) \in Targets
    <2>1. t \in Targets
      OBVIOUS
    <2>2. CASE t.card = NoKey
      BY <2>1, <2>2 DEF Resolve
    <2>3. CASE t.card # NoKey
      <3>1. CardTarget[t.card] \in Targets
        BY <2>1, <2>3 DEF Targets
      <3> QED BY <2>1, <2>3, <3>1 DEF Resolve, Targets
    <2> QED BY <2>2, <2>3
  <1>2. ASSUME NEW o \in Orders PROVE OrderTarget(o) \in Targets
    BY DEF OrderTarget, Targets
  <1> QED BY <1>1, <1>2

\* The answer to a request leaves the tasks well typed.
LEMMA AnswerTyped ==
    ASSUME Typed, NEW p \in Requesters, req[p].record \in Records, NEW ok \in BOOLEAN,
           Answer(p, ok)
    PROVE  task' \in [Records -> Tasks]
  BY DEF Answer, Typed, RowsTyped, Tasks

\* Typed implies the type invariant the runs check.
LEMMA TypedIsTypeOK == Typed => DeliveryTypeOK
  BY DEF Typed, RowsTyped, ReqTyped, DeliveryTypeOK, Requests, Tasks

LEMMA TypedInit == DeliveryInit => Typed
  <1> SUFFICES ASSUME DeliveryInit PROVE Typed
    OBVIOUS
  <1>1. RowsTyped
    BY DEF DeliveryInit, RowsTyped, Statuses, NoTarget, Targets, Tasks
  <1>2. ReqTyped
    BY NewRequests DEF DeliveryInit, ReqTyped
  <1> QED BY <1>1, <1>2 DEF Typed

\* Every step of the model keeps the rows and the requests well formed.
LEMMA TypedStep == Typed /\ [DeliveryNext]_deliveryVars => Typed'
  <1> SUFFICES ASSUME Typed, [DeliveryNext]_deliveryVars PROVE Typed'
    OBVIOUS
  <1> USE DEF Typed
  <1>a. ASSUME NEW p \in Requesters
        PROVE  /\ req[p] \in Requests
               /\ WellFormed(req[p])
    BY DEF ReqTyped
  <1>1. ASSUME NEW p \in Requesters, PrepareCheck(p) PROVE Typed'
    <2>1. RowsTyped'
      BY <1>1 DEF PrepareCheck, RowsTyped
    <2>2. PICK t \in Payloads :
             req' = [req EXCEPT ![p] =
                        Req("insert", "conversation", Resolve(t), NoRecord, "none")]
      BY <1>1 DEF PrepareCheck
    <2>3. Req("insert", "conversation", Resolve(t), NoRecord, "none")
             \in {q \in Requests : WellFormed(q)}
      BY <1>1, NewRequests, NewTargets DEF PrepareCheck
    <2>4. ReqTyped'
      BY <2>2, <2>3 DEF ReqTyped
    <2> QED BY <2>1, <2>4
  <1>2. ASSUME NEW p \in Requesters, OrderCheck(p) PROVE Typed'
    <2>1. RowsTyped'
      BY <1>2 DEF OrderCheck, RowsTyped
    <2>2. PICK o \in Orders :
             req' = [req EXCEPT ![p] =
                        Req("insert", "order", OrderTarget(o), NoRecord, "none")]
      BY <1>2 DEF OrderCheck
    <2>3. Req("insert", "order", OrderTarget(o), NoRecord, "none")
             \in {q \in Requests : WellFormed(q)}
      BY <1>2, NewRequests, NewTargets DEF OrderCheck
    <2>4. ReqTyped'
      BY <2>2, <2>3 DEF ReqTyped
    <2> QED BY <2>1, <2>4
  <1>3. ASSUME NEW p \in Requesters, PrepareInsert(p) PROVE Typed'
    <2>1. RowsTyped'
      BY <1>3, <1>a DEF PrepareInsert, RowsTyped, Statuses, Requests, WellFormed
    <2>2. ReqTyped'
      BY <1>3, NewRequests DEF PrepareInsert, ReqTyped
    <2> QED BY <2>1, <2>2
  <1>4. ASSUME NEW p \in Requesters, RequestSend(p) PROVE Typed'
    <2>1. RowsTyped'
      BY <1>4 DEF RequestSend, RowsTyped
    <2>2. ReqTyped'
      BY <1>4, NewRequests DEF RequestSend, ReqTyped
    <2> QED BY <2>1, <2>2
  <1>5. ASSUME NEW p \in Requesters, EnqueueCheck(p) PROVE Typed'
    <2>1. RowsTyped'
      BY <1>5 DEF EnqueueCheck, RowsTyped
    <2>2. ReqTyped'
      BY <1>5, NewRequests DEF EnqueueCheck, ReqTyped
    <2> QED BY <2>1, <2>2
  <1>6. ASSUME NEW p \in Requesters, EnqueueTask(p) PROVE Typed'
    <2>1. RowsTyped'
      BY <1>6, <1>a DEF EnqueueTask, RowsTyped, Tasks, WellFormed
    <2>2. ReqTyped'
      BY <1>6, NewRequests DEF EnqueueTask, ReqTyped
    <2> QED BY <2>1, <2>2
  <1>7. ASSUME NEW p \in Requesters, WorkerPost(p) PROVE Typed'
    <2>1. RowsTyped'
      BY <1>7 DEF WorkerPost, RowsTyped, Tasks
    <2>2. ReqTyped'
      BY <1>7, NewRequests DEF WorkerPost, ReqTyped
    <2> QED BY <2>1, <2>2
  <1>8. ASSUME NEW r \in Records, WorkerGivesUp(r) PROVE Typed'
    <2>1. RowsTyped'
      BY <1>8 DEF WorkerGivesUp, RowsTyped, Tasks
    <2>2. ASSUME NEW p \in Requesters, req[p].path = "task"
          PROVE  SendReq(req[p].pc, "send", r, req[p].outcome)
                    \in {q \in Requests : WellFormed(q)}
      <3>1. req[p].pc # "insert"
        BY <1>a, <2>2 DEF WellFormed
      <3> QED BY <1>a, <3>1 DEF SendReq, Req, NoTarget, Targets, Requests, WellFormed
    <2>3. ReqTyped'
      BY <1>8, <2>2 DEF WorkerGivesUp, ReqTyped
    <2> QED BY <2>1, <2>3
  <1>9. ASSUME NEW p \in Requesters, ClaimForSend(p) PROVE Typed'
    <2>1. req[p].record \in Records /\ req[p].path \in {"none", "conversation", "order", "send", "task"}
      BY <1>9, <1>a DEF ClaimForSend, WellFormed, Requests
    <2>2. task' \in [Records -> Tasks]
      <3>1. CASE UNCHANGED task
        BY <3>1 DEF RowsTyped
      <3>2. CASE Answer(p, FALSE)
        BY <2>1, <3>2, AnswerTyped
      <3> QED BY <1>9, <3>1, <3>2 DEF ClaimForSend
    <2>3. RowsTyped'
      BY <1>9, <2>1, <2>2 DEF ClaimForSend, RowsTyped, Statuses
    <2>4. \/ req' = [req EXCEPT ![p] = SendReq("submit", req[p].path, req[p].record, "none")]
          \/ req' = [req EXCEPT ![p] = IdleReq]
      BY <1>9 DEF ClaimForSend
    <2>5. ReqTyped'
      BY <2>1, <2>4, NewRequests DEF ReqTyped
    <2> QED BY <2>3, <2>5
  <1>10. ASSUME NEW p \in Requesters, NotSubmitted(p) PROVE Typed'
    <2>1. RowsTyped'
      BY <1>10 DEF NotSubmitted, RowsTyped
    <2>2. req[p].record \in Records /\ req[p].path \in {"none", "conversation", "order", "send", "task"}
      BY <1>10, <1>a DEF NotSubmitted, WellFormed, Requests
    <2>3. ReqTyped'
      BY <1>10, <2>2, NewRequests DEF NotSubmitted, Outcome, ReqTyped
    <2> QED BY <2>1, <2>3
  <1>11. ASSUME NEW p \in Requesters, SubmitFrame(p) PROVE Typed'
    <2>1. req[p].record \in Records /\ req[p].path \in {"none", "conversation", "order", "send", "task"}
      BY <1>11, <1>a DEF SubmitFrame, WellFormed, Requests
    <2>2. RowsTyped'
      BY <1>11, <2>1 DEF SubmitFrame, RowsTyped
    <2>3. ReqTyped'
      BY <1>11, <2>1, NewRequests DEF SubmitFrame, ReqTyped
    <2> QED BY <2>2, <2>3
  <1>12. ASSUME NEW p \in Requesters, NEW r \in Records, PlatformAccepts(p, r) PROVE Typed'
    <2>1. RowsTyped'
      BY <1>12 DEF PlatformAccepts, RowsTyped
    <2>2. req[p].path \in {"none", "conversation", "order", "send", "task"}
      BY <1>a DEF Requests
    <2>3. ReqTyped'
      BY <1>12, <2>2, NewRequests DEF PlatformAccepts, Awaits, Outcome, ReqTyped
    <2> QED BY <2>1, <2>3
  <1>13. ASSUME NEW p \in Requesters, NEW r \in Records, PlatformRejects(p, r) PROVE Typed'
    <2>1. RowsTyped'
      BY <1>13 DEF PlatformRejects, RowsTyped
    <2>2. req[p].path \in {"none", "conversation", "order", "send", "task"}
      BY <1>a DEF Requests
    <2>3. ReqTyped'
      BY <1>13, <2>2, NewRequests DEF PlatformRejects, Awaits, Outcome, ReqTyped
    <2> QED BY <2>1, <2>3
  <1>14. ASSUME NEW p \in Requesters, GiveUp(p) PROVE Typed'
    <2>1. RowsTyped'
      BY <1>14 DEF GiveUp, RowsTyped
    <2>2. req[p].record \in Records /\ req[p].path \in {"none", "conversation", "order", "send", "task"}
      BY <1>14, <1>a DEF GiveUp, WellFormed, Requests
    <2>3. ReqTyped'
      BY <1>14, <2>2, NewRequests DEF GiveUp, Outcome, ReqTyped
    <2> QED BY <2>1, <2>3
  <1>15. ASSUME NEW p \in Requesters, UpdateAfterSend(p) PROVE Typed'
    <2>1. /\ req[p].record \in Records
          /\ req[p].outcome \in {"sent", "failed", "uncertain"}
      BY <1>15, <1>a DEF UpdateAfterSend, WellFormed
    <2>2. task' \in [Records -> Tasks]
      BY <1>15, <2>1, AnswerTyped DEF UpdateAfterSend
    <2>3. RowsTyped'
      BY <1>15, <2>1, <2>2 DEF UpdateAfterSend, RowsTyped, Statuses
    <2>4. ReqTyped'
      BY <1>15, NewRequests DEF UpdateAfterSend, ReqTyped
    <2> QED BY <2>3, <2>4
  <1>16. ASSUME NEW p \in Requesters, UpdateFails(p) PROVE Typed'
    <2>1. req[p].record \in Records
      BY <1>16, <1>a DEF UpdateFails, WellFormed
    <2>2. task' \in [Records -> Tasks]
      BY <1>16, <2>1, AnswerTyped DEF UpdateFails
    <2>3. RowsTyped'
      BY <1>16, <2>2 DEF UpdateFails, RowsTyped
    <2>4. ReqTyped'
      BY <1>16, NewRequests DEF UpdateFails, ReqTyped
    <2> QED BY <2>3, <2>4
  <1>17. CASE ApiCrash
    <2>1. RowsTyped'
      BY <1>17 DEF ApiCrash, RowsTyped
    <2>2. ReqTyped'
      BY <1>17, NewRequests DEF ApiCrash, ReqTyped
    <2> QED BY <2>1, <2>2
  <1>18. CASE UNCHANGED deliveryVars
    BY <1>18 DEF deliveryVars, RowsTyped, ReqTyped
  <1> QED BY <1>1, <1>2, <1>3, <1>4, <1>5, <1>6, <1>7, <1>8, <1>9, <1>10, <1>11,
             <1>12, <1>13, <1>14, <1>15, <1>16, <1>17, <1>18
          DEF DeliveryNext, Request, Progress

\* Every reachable state is well typed.
THEOREM DeliveryTypeCorrect == DeliverySpec => []DeliveryTypeOK
  <1>1. DeliverySpec => []Typed
    BY TypedInit, TypedStep, PTL DEF DeliverySpec
  <1> QED BY <1>1, TypedIsTypeOK, PTL

-----------------------------------------------------------------------------
(* Honest outcomes. The row alone does not say whether a frame may still   *)
(* arrive: the invariant ties the row, the requests that have claimed it   *)
(* and the wire together.                                                  *)

Busy(q) == q.pc \in {"submit", "await", "update"}
Clear(r) == delivered[r] = 0 /\ \A p \in Requesters : <<p, r>> \notin air
Landed(r) == delivered[r] = 1 /\ \A p \in Requesters : <<p, r>> \notin air

(* One request at a time has claimed a record, and the row says so.        *)
Sole ==
    \A p, q \in Requesters :
        Busy(req[p]) /\ Busy(req[q]) /\ req[p].record = req[q].record => p = q

ClaimHeld == \A p \in Requesters : Busy(req[p]) => status[req[p].record] = "sending"

(* What a request knows of the platform.                                   *)
RequestHonest ==
    \A p \in Requesters :
        /\ req[p].pc = "submit" => Clear(req[p].record)
        /\ req[p].pc = "update" /\ req[p].outcome = "failed" => Clear(req[p].record)
        /\ req[p].pc = "update" /\ req[p].outcome = "sent" => Landed(req[p].record)

(* What a row says of the platform.                                        *)
RowHonest ==
    \A r \in Records :
        /\ status[r] \in {"absent", "pending", "failed"} => Clear(r)
        /\ status[r] = "sent" => Landed(r)

(* A record has one frame on the wire at most, and only until it lands.    *)
WireHonest ==
    \A r \in Records :
        /\ delivered[r] <= 1
        /\ \A p \in Requesters : <<p, r>> \in air =>
              delivered[r] = 0 /\ \A q \in Requesters : <<q, r>> \in air => p = q

Honest == Sole /\ ClaimHeld /\ RequestHonest /\ RowHonest /\ WireHonest

LEMMA HonestImplies == Honest /\ Typed => OutcomeHonest
  BY DEF Honest, WireHonest, RowHonest, Clear, Landed, OutcomeHonest, Sendable

LEMMA HonestInit == DeliveryInit => Honest
  BY DEF DeliveryInit, Honest, Sole, ClaimHeld, RequestHonest, RowHonest, WireHonest,
         Busy, Clear, IdleReq, Req

\* A step that leaves rows, wire and deliveries alone and lets no request
\* claim, submit or conclude anything keeps the invariant.
LEMMA HonestFrame ==
    ASSUME Typed, Honest, UNCHANGED <<status, air, delivered>>,
           \A p \in Requesters :
              Busy(req'[p]) => /\ Busy(req[p])
                               /\ req'[p].record = req[p].record
                               /\ req'[p].pc = req[p].pc
                               /\ req'[p].outcome = req[p].outcome
    PROVE  Honest'
  <1>1. Sole'
    BY DEF Honest, Sole
  <1>2. ClaimHeld'
    BY DEF Honest, ClaimHeld
  <1>3. RequestHonest'
    BY DEF Honest, RequestHonest, Busy, Clear, Landed
  <1>4. RowHonest' /\ WireHonest'
    BY DEF Honest, RowHonest, WireHonest, Clear, Landed
  <1> QED BY <1>1, <1>2, <1>3, <1>4 DEF Honest

\* Every step keeps rows, claims and wire consistent.
LEMMA HonestStep == Typed /\ Honest /\ [DeliveryNext]_deliveryVars => Honest'
  <1> SUFFICES ASSUME Typed, Honest, [DeliveryNext]_deliveryVars PROVE Honest'
    OBVIOUS
  <1>a. /\ status \in [Records -> Statuses]
        /\ delivered \in [Records -> Nat]
        /\ air \subseteq Requesters \X Records
        /\ req \in [Requesters -> Requests]
        /\ \A p \in Requesters : WellFormed(req[p])
    BY DEF Typed, RowsTyped, ReqTyped
  <1>1. ASSUME NEW p \in Requesters, PrepareCheck(p) PROVE Honest'
    BY <1>1, <1>a, HonestFrame DEF PrepareCheck, Busy, Req
  <1>2. ASSUME NEW p \in Requesters, OrderCheck(p) PROVE Honest'
    BY <1>2, <1>a, HonestFrame DEF OrderCheck, Busy, Req
  <1>3. ASSUME NEW p \in Requesters, PrepareInsert(p) PROVE Honest'
    <2>1. PICK r \in Records :
             /\ status[r] = "absent"
             /\ status' = [status EXCEPT ![r] = "pending"]
             /\ req' = [req EXCEPT ![p] = IF req[p].path = "order"
                                          THEN SendReq("claim", "order", r, "none")
                                          ELSE IdleReq]
      BY <1>3 DEF PrepareInsert
    <2>2. UNCHANGED <<air, delivered>> /\ ~Busy(req'[p])
      BY <1>3, <1>a, <2>1 DEF PrepareInsert, Busy, SendReq, IdleReq, Req
    <2>3. \A q \in Requesters : q # p => req'[q] = req[q]
      BY <1>a, <2>1
    <2>4. Sole' /\ ClaimHeld'
      BY <1>a, <2>1, <2>2, <2>3 DEF Honest, Sole, ClaimHeld, Busy, WellFormed
    <2>5. RequestHonest'
      BY <2>2, <2>3 DEF Honest, RequestHonest, Busy, Clear, Landed
    <2>6. RowHonest' /\ WireHonest'
      BY <1>a, <2>1, <2>2 DEF Honest, RowHonest, WireHonest, Clear, Landed
    <2> QED BY <2>4, <2>5, <2>6 DEF Honest
  <1>4. ASSUME NEW p \in Requesters, RequestSend(p) PROVE Honest'
    BY <1>4, <1>a, HonestFrame DEF RequestSend, Busy, SendReq, Req
  <1>5. ASSUME NEW p \in Requesters, EnqueueCheck(p) PROVE Honest'
    BY <1>5, <1>a, HonestFrame DEF EnqueueCheck, Busy, SendReq, Req
  <1>6. ASSUME NEW p \in Requesters, EnqueueTask(p) PROVE Honest'
    BY <1>6, <1>a, HonestFrame DEF EnqueueTask, Busy, IdleReq, Req
  <1>7. ASSUME NEW p \in Requesters, WorkerPost(p) PROVE Honest'
    BY <1>7, <1>a, HonestFrame DEF WorkerPost, Busy, SendReq, Req
  <1>8. ASSUME NEW r \in Records, WorkerGivesUp(r) PROVE Honest'
    BY <1>8, <1>a, HonestFrame DEF WorkerGivesUp, Busy, SendReq, Req
  <1>9. ASSUME NEW p \in Requesters, ClaimForSend(p) PROVE Honest'
    <2> DEFINE r == req[p].record
    <2>1. r \in Records /\ UNCHANGED <<air, delivered>>
      BY <1>9, <1>a DEF ClaimForSend, WellFormed
    <2>2. CASE /\ status[r] \in Sendable
               /\ status' = [status EXCEPT ![r] = "sending"]
               /\ req' = [req EXCEPT ![p] = SendReq("submit", req[p].path, r, "none")]
      <3>1. /\ req'[p].record = r /\ req'[p].pc = "submit"
            /\ \A q \in Requesters : q # p => req'[q] = req[q]
        BY <1>a, <2>2 DEF SendReq, Req
      <3>2. \A q \in Requesters : Busy(req[q]) => req[q].record # r
        BY <2>2 DEF Honest, ClaimHeld, Sendable
      <3>3. Clear(r)
        BY <2>1, <2>2 DEF Honest, RowHonest, Sendable
      <3>4. Sole'
        BY <3>1, <3>2 DEF Honest, Sole
      <3>5. ClaimHeld'
        BY <1>a, <2>1, <2>2, <3>1 DEF Honest, ClaimHeld, Busy, WellFormed
      <3>6. RequestHonest'
        BY <2>1, <3>1, <3>3 DEF Honest, RequestHonest, Clear, Landed
      <3>7. RowHonest' /\ WireHonest'
        BY <1>a, <2>1, <2>2 DEF Honest, RowHonest, WireHonest, Clear, Landed
      <3> QED BY <3>4, <3>5, <3>6, <3>7 DEF Honest
    <2>3. CASE UNCHANGED status /\ req' = [req EXCEPT ![p] = IdleReq]
      BY <1>a, <2>1, <2>3, HonestFrame DEF Busy, IdleReq, Req
    <2> QED BY <1>9, <2>2, <2>3 DEF ClaimForSend
  <1>10. ASSUME NEW p \in Requesters, NEW o \in {"failed", "uncertain"},
                Outcome(p, o), UNCHANGED <<status, air, delivered>>,
                req[p].pc \in {"submit", "await"},
                o = "failed" => req[p].pc = "submit"
         PROVE  Honest'
    <2>1. /\ Busy(req[p]) /\ req'[p].record = req[p].record
          /\ req'[p].pc = "update" /\ req'[p].outcome = o
          /\ \A q \in Requesters : q # p => req'[q] = req[q]
      BY <1>10, <1>a DEF Outcome, SendReq, Req, Busy
    <2>2. Sole'
      BY <2>1 DEF Honest, Sole, Busy
    <2>3. ClaimHeld'
      BY <1>10, <2>1 DEF Honest, ClaimHeld
    <2>4. RequestHonest'
      BY <1>10, <2>1 DEF Honest, RequestHonest, Clear, Landed
    <2>5. RowHonest' /\ WireHonest'
      BY <1>10 DEF Honest, RowHonest, WireHonest, Clear, Landed
    <2> QED BY <2>2, <2>3, <2>4, <2>5 DEF Honest
  <1>11. ASSUME NEW p \in Requesters, SubmitFrame(p) PROVE Honest'
    <2> DEFINE r == req[p].record
    <2>1. /\ r \in Records /\ Busy(req[p]) /\ req[p].pc = "submit"
          /\ air' = air \cup {<<p, r>>}
          /\ UNCHANGED <<status, delivered>>
          /\ req'[p].record = r /\ req'[p].pc = "await"
          /\ \A q \in Requesters : q # p => req'[q] = req[q]
      BY <1>11, <1>a DEF SubmitFrame, SendReq, Req, Busy, WellFormed
    <2>2. Clear(r) /\ status[r] = "sending"
      BY <2>1 DEF Honest, RequestHonest, ClaimHeld
    <2>3. \A q \in Requesters : q # p /\ Busy(req[q]) => req[q].record # r
      BY <2>1 DEF Honest, Sole
    <2>4. Sole' /\ ClaimHeld'
      BY <2>1 DEF Honest, Sole, ClaimHeld, Busy
    <2>5. RequestHonest'
      BY <2>1, <2>3 DEF Honest, RequestHonest, Clear, Landed, Busy
    <2>6. RowHonest' /\ WireHonest'
      BY <2>1, <2>2 DEF Honest, RowHonest, WireHonest, Clear, Landed
    <2> QED BY <2>4, <2>5, <2>6 DEF Honest
  <1>12. ASSUME NEW p \in Requesters, NEW r \in Records, PlatformAccepts(p, r) PROVE Honest'
    <2>1. /\ <<p, r>> \in air /\ air' = air \ {<<p, r>>}
          /\ delivered' = [delivered EXCEPT ![r] = @ + 1] /\ UNCHANGED status
      BY <1>12 DEF PlatformAccepts
    <2>2. delivered[r] = 0 /\ Landed(r)'
      BY <1>a, <2>1 DEF Honest, WireHonest, Landed
    <2>3. ~Clear(r) /\ ~Landed(r)
      BY <2>1 DEF Clear, Landed
    <2>4. \A s \in Records : s # r => (Clear(s) => Clear(s)') /\ (Landed(s) => Landed(s)')
      BY <1>a, <2>1 DEF Clear, Landed
    <2>5. RowHonest'
      BY <2>1, <2>3, <2>4 DEF Honest, RowHonest
    <2>6. WireHonest'
      BY <1>a, <2>1, <2>2 DEF Honest, WireHonest
    <2>7. CASE UNCHANGED req
      <3>1. Sole' /\ ClaimHeld'
        BY <2>1, <2>7 DEF Honest, Sole, ClaimHeld
      <3>2. RequestHonest'
        BY <1>a, <2>3, <2>4, <2>7 DEF Honest, RequestHonest, WellFormed
      <3> QED BY <2>5, <2>6, <3>1, <3>2 DEF Honest
    <2>8. CASE Awaits(p, r) /\ Outcome(p, "sent")
      <3>1. /\ Busy(req[p]) /\ req[p].record = r /\ req'[p].record = r
            /\ req'[p].pc = "update" /\ req'[p].outcome = "sent"
            /\ \A q \in Requesters : q # p => req'[q] = req[q]
        BY <1>a, <2>8 DEF Awaits, Outcome, SendReq, Req, Busy
      <3>2. Sole' /\ ClaimHeld'
        BY <2>1, <3>1 DEF Honest, Sole, ClaimHeld, Busy
      <3>3. RequestHonest'
        BY <1>a, <2>2, <2>3, <2>4, <3>1 DEF Honest, RequestHonest, WellFormed
      <3> QED BY <2>5, <2>6, <3>2, <3>3 DEF Honest
    <2> QED BY <1>12, <2>7, <2>8 DEF PlatformAccepts
  <1>13. ASSUME NEW p \in Requesters, NEW r \in Records, PlatformRejects(p, r) PROVE Honest'
    <2>1. /\ <<p, r>> \in air /\ air' = air \ {<<p, r>>}
          /\ UNCHANGED <<status, delivered>>
      BY <1>13 DEF PlatformRejects
    <2>2. \A s \in Records : (Clear(s) => Clear(s)') /\ (Landed(s) => Landed(s)')
      BY <2>1 DEF Clear, Landed
    <2>3. RowHonest'
      BY <2>1, <2>2 DEF Honest, RowHonest
    <2>4. WireHonest'
      BY <2>1 DEF Honest, WireHonest
    <2>5. CASE UNCHANGED req
      <3>1. Sole' /\ ClaimHeld'
        BY <2>1, <2>5 DEF Honest, Sole, ClaimHeld
      <3>2. RequestHonest'
        BY <1>a, <2>2, <2>5 DEF Honest, RequestHonest, WellFormed
      <3> QED BY <2>3, <2>4, <3>1, <3>2 DEF Honest
    <2>6. CASE Awaits(p, r) /\ Outcome(p, "uncertain")
      <3>1. /\ Busy(req[p]) /\ req[p].record = r /\ req'[p].record = r
            /\ req'[p].pc = "update" /\ req'[p].outcome = "uncertain"
            /\ \A q \in Requesters : q # p => req'[q] = req[q]
        BY <1>a, <2>6 DEF Awaits, Outcome, SendReq, Req, Busy
      <3>2. Sole' /\ ClaimHeld'
        BY <2>1, <3>1 DEF Honest, Sole, ClaimHeld, Busy
      <3>3. RequestHonest'
        BY <1>a, <2>2, <3>1 DEF Honest, RequestHonest, WellFormed
      <3> QED BY <2>3, <2>4, <3>2, <3>3 DEF Honest
    <2> QED BY <1>13, <2>5, <2>6 DEF PlatformRejects
  <1>14. ASSUME NEW p \in Requesters, UpdateAfterSend(p) PROVE Honest'
    <2> DEFINE r == req[p].record
    <2>1. /\ r \in Records /\ Busy(req[p]) /\ req[p].pc = "update"
          /\ req[p].outcome \in {"sent", "failed", "uncertain"}
          /\ UNCHANGED <<air, delivered>> /\ ~Busy(req'[p])
          /\ \A q \in Requesters : q # p => req'[q] = req[q]
      BY <1>14, <1>a DEF UpdateAfterSend, IdleReq, Req, Busy, WellFormed
    <2>2. status' = [status EXCEPT ![r] = req[p].outcome]
      <3>1. status[r] = "sending"
        BY <2>1 DEF Honest, ClaimHeld
      <3> QED BY <1>14, <3>1 DEF UpdateAfterSend
    <2>3. \A q \in Requesters : q # p /\ Busy(req[q]) => req[q].record # r
      BY <2>1 DEF Honest, Sole
    <2>4. Sole'
      BY <2>1 DEF Honest, Sole
    <2>5. ClaimHeld'
      BY <1>a, <2>1, <2>2, <2>3 DEF Honest, ClaimHeld, WellFormed, Busy
    <2>6. RequestHonest'
      BY <2>1 DEF Honest, RequestHonest, Clear, Landed, Busy
    <2>7. RowHonest' /\ WireHonest'
      BY <1>a, <2>1, <2>2 DEF Honest, RequestHonest, RowHonest, WireHonest, Clear, Landed
    <2> QED BY <2>4, <2>5, <2>6, <2>7 DEF Honest
  <1>15. ASSUME NEW p \in Requesters, UpdateFails(p) PROVE Honest'
    BY <1>15, <1>a, HonestFrame DEF UpdateFails, Busy, IdleReq, Req
  <1>16. CASE ApiCrash
    BY <1>16, <1>a, HonestFrame DEF ApiCrash, Busy, IdleReq, Req
  <1>17. CASE UNCHANGED deliveryVars
    BY <1>17, HonestFrame DEF deliveryVars
  <1>18. ASSUME NEW p \in Requesters, NotSubmitted(p) PROVE Honest'
    BY <1>10, <1>18 DEF NotSubmitted
  <1>19. ASSUME NEW p \in Requesters, GiveUp(p) PROVE Honest'
    BY <1>10, <1>19 DEF GiveUp
  <1> QED BY <1>1, <1>2, <1>3, <1>4, <1>5, <1>6, <1>7, <1>8, <1>9, <1>11, <1>12,
             <1>13, <1>14, <1>15, <1>16, <1>17, <1>18, <1>19
          DEF DeliveryNext, Request, Progress

\* A row never lies about the platform, and no record is delivered twice,
\* whatever send_delivery_record requests, late frames and crashes do.
THEOREM OutcomesAreHonest == DeliverySpec => []OutcomeHonest
  <1>1. DeliverySpec => [](Typed /\ Honest)
    BY TypedInit, TypedStep, HonestInit, HonestStep, PTL DEF DeliverySpec
  <1> QED BY <1>1, HonestImplies, PTL

-----------------------------------------------------------------------------
(* Tasks and rows. "sent" is final, so a success recorded together with it *)
(* stays true.                                                             *)

LEMMA TaskStep == Typed /\ TaskSuccessIsSent /\ [DeliveryNext]_deliveryVars => TaskSuccessIsSent'
  <1> SUFFICES ASSUME Typed, TaskSuccessIsSent, [DeliveryNext]_deliveryVars, NEW r \in Records
               PROVE  task'[r] = "success" => status'[r] = "sent"
    BY DEF TaskSuccessIsSent
  <1>a. /\ status \in [Records -> Statuses]
        /\ task \in [Records -> Tasks]
        /\ \A p \in Requesters : WellFormed(req[p])
        /\ task[r] = "success" => status[r] = "sent"
    BY DEF Typed, RowsTyped, ReqTyped, TaskSuccessIsSent
  <1>1. ASSUME NEW p \in Requesters, PrepareInsert(p) \/ EnqueueTask(p) \/ WorkerPost(p)
        PROVE  task'[r] = "success" => status'[r] = "sent"
    BY <1>1, <1>a DEF PrepareInsert, EnqueueTask, WorkerPost
  <1>2. ASSUME NEW p \in Requesters, ClaimForSend(p)
        PROVE  task'[r] = "success" => status'[r] = "sent"
    BY <1>2, <1>a DEF ClaimForSend, Answer, Sendable, WellFormed
  <1>3. ASSUME NEW p \in Requesters, UpdateAfterSend(p)
        PROVE  task'[r] = "success" => status'[r] = "sent"
    <2>1. req[p].record \in Records
      BY <1>3, <1>a DEF UpdateAfterSend, WellFormed
    <2>2. CASE r # req[p].record
      BY <1>3, <1>a, <2>1, <2>2 DEF UpdateAfterSend, Answer
    <2>3. CASE r = req[p].record
      BY <1>3, <1>a, <2>1, <2>3 DEF UpdateAfterSend, Answer
    <2> QED BY <2>2, <2>3
  <1>4. ASSUME NEW p \in Requesters, UpdateFails(p)
        PROVE  task'[r] = "success" => status'[r] = "sent"
    BY <1>4, <1>a DEF UpdateFails, Answer, WellFormed
  <1>5. ASSUME NEW q \in Records, WorkerGivesUp(q)
        PROVE  task'[r] = "success" => status'[r] = "sent"
    BY <1>5, <1>a DEF WorkerGivesUp
  <1>6. CASE UNCHANGED <<status, task>>
    BY <1>6, <1>a
  <1> QED BY <1>1, <1>2, <1>3, <1>4, <1>5, <1>6
          DEF DeliveryNext, Request, Progress, PrepareCheck, OrderCheck, RequestSend,
              EnqueueCheck, NotSubmitted, SubmitFrame, PlatformAccepts,
              PlatformRejects, GiveUp, ApiCrash, deliveryVars

\* A delivery task that reports success belongs to a record marked sent, with
\* any number of operators and worker attempts sending the record.
THEOREM SuccessfulTasksAreSent == DeliverySpec => []TaskSuccessIsSent
  <1>1. DeliveryInit => TaskSuccessIsSent
    BY DEF DeliveryInit, TaskSuccessIsSent
  <1> QED BY <1>1, TypedInit, TypedStep, TaskStep, PTL DEF DeliverySpec

-----------------------------------------------------------------------------
(* The duplicate guard. Of its own records an endpoint knows at the insert *)
(* what it read at the check: the conversation endpoint has held the       *)
(* account lock, which every claim takes; the order endpoint has held the  *)
(* lock of its order, which keeps the other inserts of that order out, but *)
(* not the claim of a failed record.                                       *)

Against(path) == IF path = "order" THEN {"pending"} ELSE Active

OwnClash(path, t) ==
    \E r \in Records :
        maker[r] = path /\ Clash(t, target[r]) /\ status[r] \in Against(path)

Guarded ==
    \A p \in Requesters : req[p].pc = "insert" =>
        /\ ~OwnClash(req[p].path, req[p].target)
        /\ req[p].path = "order" => req[p].target.order \in Orders
        /\ \A q \in Requesters :
              /\ req[q].pc = "insert" /\ req[q].path = req[p].path
              /\ req[p].path = "order" => req[q].target.order = req[p].target.order
              => p = q

\* A step that makes no row active or pending and brings no request to its
\* insert keeps the guard.
LEMMA GuardedFrame ==
    ASSUME Guarded, UNCHANGED <<target, maker>>,
           \A r \in Records : status'[r] \in Active => status[r] \in Active,
           \A r \in Records : status'[r] = "pending" => status[r] = "pending",
           \A p \in Requesters : req'[p].pc = "insert" => req'[p] = req[p]
    PROVE  Guarded'
  <1> SUFFICES ASSUME NEW p \in Requesters, req'[p].pc = "insert"
               PROVE  /\ ~OwnClash(req[p].path, req[p].target)'
                      /\ req'[p].path = "order" => req'[p].target.order \in Orders
                      /\ \A q \in Requesters :
                            /\ req'[q].pc = "insert" /\ req'[q].path = req'[p].path
                            /\ req'[p].path = "order" =>
                                  req'[q].target.order = req'[p].target.order
                            => p = q
    BY DEF Guarded
  <1>1. req'[p] = req[p] /\ req[p].pc = "insert"
    OBVIOUS
  <1>2. \A r \in Records : status'[r] \in Against(req[p].path) => status[r] \in Against(req[p].path)
    BY DEF Against
  <1>3. ~OwnClash(req[p].path, req[p].target)'
    BY <1>1, <1>2 DEF Guarded, OwnClash, Against
  <1> QED BY <1>1, <1>3 DEF Guarded

LEMMA GuardedStep == Typed /\ Guarded /\ [DeliveryNext]_deliveryVars => Guarded'
  <1> SUFFICES ASSUME Typed, Guarded, [DeliveryNext]_deliveryVars PROVE Guarded'
    OBVIOUS
  <1>a. /\ status \in [Records -> Statuses]
        /\ target \in [Records -> Targets]
        /\ maker \in [Records -> {"none"} \cup Paths]
        /\ req \in [Requesters -> Requests]
        /\ \A p \in Requesters : WellFormed(req[p])
    BY DEF Typed, RowsTyped, ReqTyped
  <1>b. AccountLockFree => \A p \in Requesters : req[p].pc = "insert" => req[p].path = "order"
    BY <1>a DEF AccountLockFree, WellFormed
  <1>c. \A path, t : OwnClash(path, t) => HasActive(t)
    BY DEF OwnClash, HasActive, Against, Active
  <1>d. \A path, t : UNCHANGED <<status, target, maker>> => OwnClash(path, t)' = OwnClash(path, t)
    BY DEF OwnClash, Against
  <1>1. ASSUME NEW p \in Requesters, PrepareCheck(p) PROVE Guarded'
    <2>1. PICK t \in Payloads :
             /\ ~HasActive(Resolve(t))
             /\ req' = [req EXCEPT ![p] =
                           Req("insert", "conversation", Resolve(t), NoRecord, "none")]
      BY <1>1 DEF PrepareCheck
    <2>2. req'[p].path = "conversation" /\ req'[p].target = Resolve(t)
      BY <1>a, <2>1 DEF Req
    <2>3. ASSUME NEW q \in Requesters, q # p, req'[q].pc = "insert"
          PROVE  req'[q] = req[q] /\ req[q].path = "order"
      BY <1>1, <1>a, <1>b, <2>1, <2>3 DEF PrepareCheck
    <2>4. UNCHANGED <<status, target, maker>>
      BY <1>1 DEF PrepareCheck
    <2>5. ~OwnClash("conversation", Resolve(t))'
      BY <1>c, <1>d, <2>1, <2>4
    <2>6. ASSUME NEW q \in Requesters, q # p, req'[q].pc = "insert"
          PROVE  ~OwnClash(req[q].path, req[q].target)' /\ req[q].target.order \in Orders
      BY <1>d, <2>3, <2>4, <2>6 DEF Guarded
    <2> QED BY <2>2, <2>3, <2>5, <2>6 DEF Guarded
  <1>2. ASSUME NEW p \in Requesters, OrderCheck(p) PROVE Guarded'
    <2>1. PICK o \in Orders :
             /\ OrderLockFree(o)
             /\ ~HasActive(OrderTarget(o))
             /\ req' = [req EXCEPT ![p] =
                           Req("insert", "order", OrderTarget(o), NoRecord, "none")]
      BY <1>2 DEF OrderCheck
    <2>2. req'[p].path = "order" /\ req'[p].target = OrderTarget(o) /\ OrderTarget(o).order = o
      BY <1>a, <2>1 DEF Req, OrderTarget
    <2>3. ASSUME NEW q \in Requesters, q # p, req'[q].pc = "insert"
          PROVE  /\ req'[q] = req[q]
                 /\ ~(req[q].path = "order" /\ req[q].target.order = o)
      BY <1>a, <2>1, <2>3 DEF OrderLockFree
    <2>4. UNCHANGED <<status, target, maker>>
      BY <1>2 DEF OrderCheck
    <2>5. ~OwnClash("order", OrderTarget(o))'
      BY <1>c, <1>d, <2>1, <2>4
    <2>6. ASSUME NEW q \in Requesters, q # p, req'[q].pc = "insert"
          PROVE  /\ ~OwnClash(req[q].path, req[q].target)'
                 /\ req[q].path = "order" => req[q].target.order \in Orders
      BY <1>d, <2>3, <2>4, <2>6 DEF Guarded
    <2> QED BY <2>2, <2>3, <2>5, <2>6 DEF Guarded
  <1>3. ASSUME NEW p \in Requesters, PrepareInsert(p) PROVE Guarded'
    <2>1. PICK r \in Records :
             /\ status[r] = "absent"
             /\ status' = [status EXCEPT ![r] = "pending"]
             /\ target' = [target EXCEPT ![r] = req[p].target]
             /\ maker' = [maker EXCEPT ![r] = req[p].path]
             /\ req' = [req EXCEPT ![p] =
                           IF req[p].path = "order"
                           THEN SendReq("claim", "order", r, "none") ELSE IdleReq]
      BY <1>3 DEF PrepareInsert
    <2>2. req[p].pc = "insert" /\ req'[p].pc # "insert"
      BY <1>3, <1>a, <2>1 DEF PrepareInsert, SendReq, IdleReq, Req
    <2>3. ASSUME NEW q \in Requesters, req'[q].pc = "insert"
          PROVE  q # p /\ req'[q] = req[q] /\ req[q].pc = "insert"
      BY <1>a, <2>1, <2>2, <2>3
    <2>4. ASSUME NEW q \in Requesters, req'[q].pc = "insert"
          PROVE  ~OwnClash(req[q].path, req[q].target)'
      <3>1. ~(req[q].path = req[p].path /\ Clash(req[q].target, req[p].target))
        <4>1. CASE req[q].path = "order"
          BY <2>2, <2>3, <2>4, <4>1 DEF Guarded, Clash
        <4>2. CASE req[q].path # "order"
          BY <2>2, <2>3, <2>4, <4>2 DEF Guarded
        <4> QED BY <4>1, <4>2
      <3>2. ASSUME NEW s \in Records, maker'[s] = req[q].path,
                   Clash(req[q].target, target'[s]), status'[s] \in Against(req[q].path)
            PROVE  FALSE
        <4>1. CASE s = r
          BY <1>a, <2>1, <3>1, <3>2, <4>1
        <4>2. CASE s # r
          <5>1. maker'[s] = maker[s] /\ target'[s] = target[s] /\ status'[s] = status[s]
            BY <1>a, <2>1, <4>2
          <5>2. OwnClash(req[q].path, req[q].target)
            BY <3>2, <5>1 DEF OwnClash
          <5> QED BY <2>3, <2>4, <5>2 DEF Guarded
        <4> QED BY <4>1, <4>2
      <3>3. req'[q] = req[q]
        BY <2>3, <2>4
      <3> QED BY <3>2, <3>3 DEF OwnClash, Against
    <2> QED BY <2>3, <2>4 DEF Guarded
  <1>4. ASSUME NEW p \in Requesters, ClaimForSend(p) PROVE Guarded'
    <2>1. /\ AccountLockFree
          /\ UNCHANGED <<target, maker>>
      BY <1>4 DEF ClaimForSend
    <2>2. \/ UNCHANGED status
          \/ status' = [status EXCEPT ![req[p].record] = "sending"]
      BY <1>4 DEF ClaimForSend
    <2>3. \/ req' = [req EXCEPT ![p] = SendReq("submit", req[p].path, req[p].record, "none")]
          \/ req' = [req EXCEPT ![p] = IdleReq]
      BY <1>4 DEF ClaimForSend
    <2>4. ASSUME NEW q \in Requesters, req'[q].pc = "insert"
          PROVE  req'[q] = req[q] /\ req[q].pc = "insert" /\ req[q].path = "order"
      <3>1. req'[q] = req[q]
        BY <1>a, <2>3, <2>4 DEF SendReq, IdleReq, Req
      <3> QED BY <1>b, <2>1, <2>4, <3>1
    <2>5. \A s \in Records : status'[s] = "pending" => status[s] = "pending"
      BY <1>a, <2>2
    <2>6. \A t : OwnClash("order", t)' => OwnClash("order", t)
      BY <2>1, <2>5 DEF OwnClash, Against
    <2> QED BY <2>4, <2>6 DEF Guarded
  <1>5. ASSUME UNCHANGED <<status, target, maker>>,
               \A p \in Requesters : req'[p].pc = "insert" => req'[p] = req[p]
        PROVE  Guarded'
    BY <1>5, GuardedFrame
  <1>6. ASSUME NEW p \in Requesters, UpdateAfterSend(p) PROVE Guarded'
    <2>1. /\ req[p].record \in Records
          /\ req[p].outcome \in {"sent", "failed", "uncertain"}
      BY <1>6, <1>a DEF UpdateAfterSend, WellFormed
    <2>2. \A s \in Records :
             /\ status'[s] \in Active => status[s] \in Active
             /\ status'[s] = "pending" => status[s] = "pending"
      BY <1>6, <1>a, <2>1 DEF UpdateAfterSend, Active
    <2>3. \A q \in Requesters : req'[q].pc = "insert" => req'[q] = req[q]
      BY <1>6, <1>a DEF UpdateAfterSend, IdleReq, Req
    <2> QED BY <1>6, <2>2, <2>3, GuardedFrame DEF UpdateAfterSend
  <1>7. ASSUME NEW p \in Requesters, RequestSend(p) \/ EnqueueCheck(p) \/ EnqueueTask(p)
                                  \/ WorkerPost(p) \/ NotSubmitted(p) \/ SubmitFrame(p)
                                  \/ GiveUp(p) \/ UpdateFails(p)
        PROVE  Guarded'
    <2>1. UNCHANGED <<status, target, maker>>
      BY <1>7 DEF RequestSend, EnqueueCheck, EnqueueTask, WorkerPost, NotSubmitted,
                  SubmitFrame, GiveUp, UpdateFails
    <2>2. \/ req' = [req EXCEPT ![p] = IdleReq]
          \/ \E pc \in {"enqueue", "claim", "await", "update"} : \E path, r, o :
                req' = [req EXCEPT ![p] = SendReq(pc, path, r, o)]
      <3>1. CASE EnqueueTask(p) \/ UpdateFails(p)
        BY <3>1 DEF EnqueueTask, UpdateFails
      <3>2. CASE RequestSend(p) \/ EnqueueCheck(p) \/ WorkerPost(p)
        BY <3>2 DEF RequestSend, EnqueueCheck, WorkerPost
      <3>3. CASE SubmitFrame(p)
        BY <3>3 DEF SubmitFrame
      <3>4. CASE NotSubmitted(p) \/ GiveUp(p)
        BY <3>4 DEF NotSubmitted, GiveUp, Outcome
      <3> QED BY <1>7, <3>1, <3>2, <3>3, <3>4
    <2>3. \A q \in Requesters : req'[q].pc = "insert" => req'[q] = req[q]
      BY <1>a, <2>2 DEF SendReq, IdleReq, Req
    <2> QED BY <1>5, <2>1, <2>3
  <1>8. ASSUME NEW p \in Requesters, NEW r \in Records,
               PlatformAccepts(p, r) \/ PlatformRejects(p, r)
        PROVE  Guarded'
    <2>1. UNCHANGED <<status, target, maker>>
      BY <1>8 DEF PlatformAccepts, PlatformRejects
    <2>2. \A q \in Requesters : req'[q].pc = "insert" => req'[q] = req[q]
      BY <1>8, <1>a DEF PlatformAccepts, PlatformRejects, Outcome, SendReq, Req
    <2> QED BY <1>5, <2>1, <2>2
  <1>9. ASSUME NEW r \in Records, WorkerGivesUp(r) PROVE Guarded'
    <2>1. \A p \in Requesters : req[p].pc = "insert" => req[p].path # "task"
      BY <1>a DEF WellFormed
    <2>2. \A p \in Requesters : req'[p].pc = "insert" => req'[p] = req[p]
      BY <1>9, <1>a, <2>1 DEF WorkerGivesUp, SendReq, Req
    <2> QED BY <1>5, <1>9, <2>2 DEF WorkerGivesUp
  <1>10. CASE ApiCrash
    BY <1>5, <1>10 DEF ApiCrash, IdleReq, Req
  <1>11. CASE UNCHANGED deliveryVars
    BY <1>5, <1>11 DEF deliveryVars
  <1> QED BY <1>1, <1>2, <1>3, <1>4, <1>6, <1>7, <1>8, <1>9, <1>10, <1>11
          DEF DeliveryNext, Request, Progress

\* The step that inserts a record finds the guard as the check left it.
LEMMA GuardAtInsert ==
    ASSUME Typed, Guarded, [DeliveryNext]_deliveryVars, NEW r \in Records, Inserted(r)
    PROVE  ~\E q \in Records :
              /\ maker[q] = maker'[r] /\ Clash(target'[r], target[q])
              /\ status[q] \in IF maker'[r] = "order" THEN {"pending"} ELSE Active
  <1>a. /\ status \in [Records -> Statuses]
        /\ target \in [Records -> Targets]
        /\ maker \in [Records -> {"none"} \cup Paths]
        /\ \A p \in Requesters : WellFormed(req[p])
    BY DEF Typed, RowsTyped, ReqTyped
  <1>1. ASSUME NEW p \in Requesters, PrepareInsert(p)
        PROVE  ~\E q \in Records :
                  /\ maker[q] = maker'[r] /\ Clash(target'[r], target[q])
                  /\ status[q] \in IF maker'[r] = "order" THEN {"pending"} ELSE Active
    <2>1. target'[r] = req[p].target /\ maker'[r] = req[p].path
      BY <1>1, <1>a DEF PrepareInsert, Inserted
    <2>2. ~OwnClash(req[p].path, req[p].target)
      BY <1>1 DEF PrepareInsert, Guarded
    <2> QED BY <2>1, <2>2 DEF OwnClash, Against
  <1>2. ASSUME NEW p \in Requesters, ClaimForSend(p) PROVE FALSE
    <2>1. \/ UNCHANGED status
          \/ /\ status[req[p].record] \in Sendable
             /\ status' = [status EXCEPT ![req[p].record] = "sending"]
      BY <1>2 DEF ClaimForSend
    <2> QED BY <1>a, <2>1 DEF Inserted, Sendable
  <1>3. ASSUME NEW p \in Requesters, UpdateAfterSend(p) PROVE FALSE
    BY <1>3, <1>a DEF UpdateAfterSend, Inserted, WellFormed
  <1>4. UNCHANGED status => FALSE
    BY DEF Inserted
  <1> QED BY <1>1, <1>2, <1>3, <1>4
          DEF DeliveryNext, Request, Progress, PrepareCheck, OrderCheck, RequestSend,
              EnqueueCheck, EnqueueTask, WorkerPost, WorkerGivesUp, NotSubmitted,
              SubmitFrame, PlatformAccepts, PlatformRejects, GiveUp, UpdateFails,
              ApiCrash, deliveryVars

\* What an endpoint read of its own records before the insert holds at the
\* insert, with both endpoints and any number of requests, claims and crashes in
\* between: the conversation endpoint generates none against an active record
\* that it made for the same key, the order endpoint none against a pending one
\* (its own failed record may be claimed for a resend meanwhile, and neither
\* endpoint is kept from the records of the other: the code takes two locks).
THEOREM GenerationIsGuarded == DeliverySpec => GuardHolds
  <1>1. DeliveryInit => Guarded
    BY DEF DeliveryInit, Guarded, IdleReq, Req
  <1>2. Typed /\ Guarded /\ [DeliveryNext]_deliveryVars =>
           [\A r \in Records : Inserted(r) =>
              ~\E q \in Records :
                 /\ maker[q] = maker'[r] /\ Clash(target'[r], target[q])
                 /\ status[q] \in IF maker'[r] = "order" THEN {"pending"} ELSE Active]_deliveryVars
    BY GuardAtInsert
  <1>3. DeliverySpec => [](Typed /\ Guarded)
    BY <1>1, TypedInit, TypedStep, GuardedStep, PTL DEF DeliverySpec
  <1> QED BY <1>2, <1>3, PTL DEF DeliverySpec, GuardHolds

=============================================================================
