----------------------------- MODULE OrderLemmas -----------------------------
(* Facts about the least element of a set of numbers, for the proofs that    *)
(* follow a search to where it stops.                                        *)
EXTENDS Integers, FiniteSetsExt, FiniteSetTheorems, TLAPS

\* The initial segments of the natural numbers that end before the numbers in S.
Segments(S) == {0 .. n - 1 : n \in S}

\* A set of natural numbers that is not empty has a least element, and Min is that.
LEMMA LeastNatural ==
    ASSUME NEW S \in SUBSET Nat, S # {}
    PROVE  Min(S) \in S /\ \A y \in S : Min(S) <= y
<1> DEFINE R == StrictSubsetOrdering(Nat)
           F == FiniteSubsetsOf(Nat)
<1>1. Segments(S) \subseteq F
  <2>1. \A n \in S : 0 .. n - 1 \in SUBSET Nat /\ IsFiniteSet(0 .. n - 1)
    BY FS_Interval
  <2> QED BY <2>1 DEF Segments, FiniteSubsetsOf
<1>2. Segments(S) # {}
  BY DEF Segments
<1>3. IsWellFoundedOn(R, F)
  BY FS_StrictSubsetOrderingWellFounded
<1>4. \E x \in Segments(S) : \A y \in Segments(S) : <<y, x>> \notin R
  <2> HIDE DEF R, F
  <2> QED BY <1>1, <1>2, <1>3, WFMin
<1>5. PICK n \in S : \A y \in Segments(S) : <<y, 0 .. n - 1>> \notin R
  BY <1>4 DEF Segments
<1>6. \A y \in S : n <= y
  <2> SUFFICES ASSUME NEW y \in S, y < n PROVE FALSE
    OBVIOUS
  <2>1. 0 .. y - 1 \subseteq 0 .. n - 1 /\ 0 .. y - 1 # 0 .. n - 1
    <3>1. y \in 0 .. n - 1 /\ y \notin 0 .. y - 1
      OBVIOUS
    <3> QED BY <3>1
  <2>2. 0 .. y - 1 \in SUBSET Nat /\ 0 .. n - 1 \in SUBSET Nat
    OBVIOUS
  <2>3. <<0 .. y - 1, 0 .. n - 1>> \in R
    BY <2>1, <2>2 DEF StrictSubsetOrdering
  <2> QED BY <1>5, <2>3 DEF Segments
<1> QED BY <1>6 DEF Min
=============================================================================
