----------------------------- MODULE LeastNumber -----------------------------
(* Several modules pick the first of some numbered things: it exists. *)
EXTENDS Naturals, FiniteSets, WellFoundedInduction, FiniteSetTheorems, TLAPS

\* A nonempty set of indices has a least one: its interval 1..i is minimal for inclusion.
LEMMA Least == ASSUME NEW S, S \subseteq Nat \ {0}, S # {}
               PROVE  \E i \in S : \A j \in S : i <= j
<1> DEFINE T == {1..i : i \in S}
<1>1. \A i \in S : 1..i \in FiniteSubsetsOf(Nat)
  <2> TAKE i \in S
  <2>1. IsFiniteSet(1..i) /\ 1..i \subseteq Nat
    BY FS_Interval
  <2> QED BY <2>1 DEF FiniteSubsetsOf
<1>2. T \subseteq FiniteSubsetsOf(Nat) /\ T # {}
  BY <1>1
<1>3. PICK X \in T : \A Y \in T : ~ (<<Y, X>> \in StrictSubsetOrdering(Nat))
  BY <1>2, FS_StrictSubsetOrderingWellFounded, WFMin
<1>4. PICK i \in S : X = 1..i
  BY <1>3
<1>5. ASSUME NEW j \in S, ~ (i <= j) PROVE FALSE
  <2>1. 1..j \subseteq 1..i /\ i \in 1..i /\ i \notin 1..j
    BY <1>5
  <2>2. 1..j \in T /\ 1..j \in SUBSET Nat /\ 1..i \in SUBSET Nat
    OBVIOUS
  <2>3. <<1..j, 1..i>> \in StrictSubsetOrdering(Nat)
    BY <2>1, <2>2 DEF StrictSubsetOrdering
  <2> QED BY <2>2, <2>3, <1>3, <1>4
<1> QED BY <1>5
=============================================================================
