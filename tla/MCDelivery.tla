----------------------------- MODULE MCDelivery -----------------------------
(* Instances of Delivery for TLC. *)
EXTENDS Delivery, TLC

CONSTANTS s1, s2                   \* two connections, interchangeable

BothClients == {S, R}
SenderOnly == {S}
ReceiverOnly == {R}
SlotSymmetry == Permutations({s1, s2})
=============================================================================
