----------------------------- MODULE NatLemmas -----------------------------
(***************************************************************************)
(* Least and greatest elements of sets of natural numbers: the ids of a    *)
(* queue, the positions of the statements of a transaction.                *)
(***************************************************************************)
EXTENDS Naturals, WellFoundedInduction, TLAPS

\* A non-empty set of natural numbers has a least element.
LEMMA LeastElement ==
    ASSUME NEW T \in SUBSET Nat, T # {}
    PROVE  \E x \in T : \A y \in T : x <= y
<1>1. PICK x \in T : \A y \in T : ~(<<y, x>> \in OpToRel(<, Nat))
    BY NatLessThanWellFounded, WFMin
<1>2. \A y \in T : ~(y < x)
    BY <1>1 DEF OpToRel
<1> QED BY <1>2

\* A non-empty bounded set of natural numbers has a greatest element.
LEMMA GreatestElement ==
    ASSUME NEW T \in SUBSET Nat, T # {}, NEW n \in Nat, \A x \in T : x < n
    PROVE  \E x \in T : \A y \in T : y <= x
<1> DEFINE U == {k \in Nat : \E x \in T : k = n - x}
<1>1. U # {}
  <2>1. PICK x \in T : TRUE
      OBVIOUS
  <2>2. n - x \in Nat
      BY <2>1
  <2> QED BY <2>1, <2>2
<1>2. PICK k \in U : \A m \in U : k <= m
    BY <1>1, LeastElement
<1>3. PICK x \in T : k = n - x
    BY <1>2
<1>4. ASSUME NEW y \in T PROVE y <= x
  <2>1. n - y \in U
      BY <1>4
  <2>2. n - x <= n - y
      BY <2>1, <1>2, <1>3
  <2> QED BY <2>2, <1>3, <1>4
<1> QED BY <1>3, <1>4
=============================================================================
