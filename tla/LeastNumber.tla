------------------------------ MODULE LeastNumber ------------------------------
(***************************************************************************)
(* The one fact about numbers that the provers do not know and the proofs  *)
(* about Presence and Conversation need.                                   *)
(***************************************************************************)
EXTENDS Naturals, FiniteSetTheorems, WellFoundedInduction, TLAPS

(* Sets of natural numbers have a least one: the least of them has the     *)
(* smallest set of predecessors.                                           *)
LEMMA LeastExists ==
  ASSUME NEW T \in SUBSET Nat, T # {}
  PROVE  \E m \in T : \A n \in T : m <= n
<1> DEFINE Upto(m) == {n \in T : n <= m}
           F == {Upto(m) : m \in T}
<1>1. \A m \in T : Upto(m) \in FiniteSubsetsOf(T)
  <2> SUFFICES ASSUME NEW m \in T PROVE Upto(m) \in FiniteSubsetsOf(T)
    OBVIOUS
  <2>1. Upto(m) \in SUBSET Nat /\ m \in Nat /\ \A s \in Upto(m) : s <= m
    OBVIOUS
  <2>2. IsFiniteSet(Upto(m))
    <3> HIDE DEF Upto
    <3> QED
      BY <2>1, FS_BoundedSetOfNaturals
  <2> QED
    BY <2>2 DEF FiniteSubsetsOf
<1>2. F \subseteq FiniteSubsetsOf(T) /\ F # {}
  BY <1>1
<1>3. IsWellFoundedOn(StrictSubsetOrdering(T), FiniteSubsetsOf(T))
  BY FS_StrictSubsetOrderingWellFounded
<1>4. PICK x \in F : \A y \in F : <<y, x>> \notin StrictSubsetOrdering(T)
  <2> HIDE DEF F
  <2> QED
    BY <1>2, <1>3, WFMin
<1>5. PICK m \in T : x = Upto(m)
  BY <1>4
<1>6. ASSUME NEW n \in T, n < m PROVE FALSE
  <2>0. T \subseteq Nat /\ n \in Nat /\ m \in Nat
    OBVIOUS
  <2>1. Upto(n) \subseteq Upto(m) /\ m \in Upto(m) /\ m \notin Upto(n)
    <3>1. \A k \in T : k <= n => k <= m
      BY <1>6, <2>0
    <3>2. m <= m /\ ~(m <= n)
      BY <1>6, <2>0
    <3> QED
      BY <3>1, <3>2
  <2>2. Upto(n) \in SUBSET T /\ Upto(m) \in SUBSET T
    OBVIOUS
  <2>3. <<Upto(n), Upto(m)>> \in StrictSubsetOrdering(T)
    <3> HIDE DEF Upto
    <3> QED
      BY <2>1, <2>2 DEF StrictSubsetOrdering
  <2> QED
    BY <1>4, <1>5, <1>6, <2>3
<1> QED
  BY <1>6

=============================================================================
