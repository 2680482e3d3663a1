------------------------------ MODULE MCConsole ------------------------------
(* Instances of Console for TLC. *)
EXTENDS Console, TLC

\* The connections differ in nothing but their names.
Symmetry == Permutations(Conns)
=============================================================================
