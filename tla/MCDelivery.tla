----------------------------- MODULE MCDelivery -----------------------------
(* Small instances of Delivery for TLC.                                    *)
EXTENDS Delivery

CONSTANTS o1, c1, i1

Ask(o, c, i) == [order |-> o, card |-> c, item |-> i]

\* The card names the order and the item.
FullCard == [c \in Cards |-> Ask(o1, NoKey, i1)]
ItemOfOrder == [o \in Orders |-> i1]

ByOrder == {Ask(o1, NoKey, NoKey)}
ByOrderOrCard == {Ask(o1, NoKey, NoKey), Ask(NoKey, c1, NoKey)}
=============================================================================
