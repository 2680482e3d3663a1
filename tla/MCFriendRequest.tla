--------------------------- MODULE MCFriendRequest ---------------------------
(* Instances of FriendRequest for TLC. *)
EXTENDS FriendRequest, TLC

CONSTANTS alice, bob, a1, a2, a3

Symmetry == Permutations({alice, bob}) \cup Permutations({a1, a2, a3})
=============================================================================
