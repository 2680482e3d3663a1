--------------------------- MODULE MCMailboxServer ---------------------------
(* Instances of MailboxServer for TLC. *)
EXTENDS MailboxServer, TLC

CONSTANTS ann, ben, k1, r1, r2, r3, r4

Symmetry == Permutations({r1, r2, r3, r4}) \cup Permutations({ann, ben})
=============================================================================
