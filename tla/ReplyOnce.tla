----------------------------- MODULE ReplyOnce -----------------------------
(***************************************************************************)
(* What the automatic replies promise, without queues, writes or the       *)
(* network: an inbound message is taken once, the platform makes at most   *)
(* one reply of it, and a success is only noted for a reply that exists.   *)
(* A reply may still arrive after its message was given up (a late answer  *)
(* of the platform), and a taken message may stay taken (a crash).         *)
(***************************************************************************)
EXTENDS Naturals

CONSTANT Msgs   \* messages that may be answered

VARIABLES
    phase,      \* [Msgs -> how far the answering is]
    replies     \* [Msgs -> replies the platform has of it]

Phases == {"open", "taken", "answered", "given_up"}

Init ==
    /\ phase = [m \in Msgs |-> "open"]
    /\ replies = [m \in Msgs |-> 0]

Take(m) ==
    /\ phase[m] = "open"
    /\ phase' = [phase EXCEPT ![m] = "taken"]
    /\ UNCHANGED replies

Arrive(m) ==
    /\ phase[m] \in {"taken", "given_up"}
    /\ replies[m] = 0
    /\ replies' = [replies EXCEPT ![m] = 1]
    /\ UNCHANGED phase

Settle(m) ==
    /\ phase[m] = "taken"
    /\ \E p \in {"answered", "given_up"} :
          /\ p = "answered" => replies[m] = 1
          /\ phase' = [phase EXCEPT ![m] = p]
    /\ UNCHANGED replies

Next == \E m \in Msgs : Take(m) \/ Arrive(m) \/ Settle(m)

Spec == Init /\ [][Next]_<<phase, replies>>
=============================================================================
