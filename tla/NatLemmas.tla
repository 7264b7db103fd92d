----------------------------- MODULE NatLemmas ------------------------------
(***************************************************************************)
(* Least and greatest elements of sets of natural numbers, from            *)
(* well-founded induction: what proofs about functions over 0..n use in    *)
(* place of an induction on n; and facts about division.                   *)
(***************************************************************************)
EXTENDS Integers, WellFoundedInduction, TLAPS

LEMMA MinimalElement ==
  ASSUME NEW R, IsWellFoundedOn(R, Nat), NEW T, T \subseteq Nat, T # {}
  PROVE  \E n \in T : \A m \in T : ~ (<<m, n>> \in R)
  BY WFMin

LEMMA LeastElement ==
  ASSUME NEW R, IsWellFoundedOn(R, Nat), \A m, k \in Nat : m < k => <<m, k>> \in R,
         NEW T, T \subseteq Nat, T # {}
  PROVE  \E n \in T : \A m \in T : n <= m
<1>1. \E n \in T : \A m \in T : ~ (<<m, n>> \in R)
  BY MinimalElement
<1>2. ASSUME NEW n \in T, NEW m \in T, ~ (<<m, n>> \in R) PROVE n <= m
  <2>1. n \in Nat /\ m \in Nat
    OBVIOUS
  <2>2. ~ (m < n)
    BY <1>2, <2>1
  <2> QED
    BY <2>1, <2>2
<1> QED
  BY <1>1, <1>2

LEMMA LeastNat == ASSUME NEW T, T \subseteq Nat, T # {} PROVE \E n \in T : \A m \in T : n <= m
<1> DEFINE R == OpToRel(<, Nat)
<1>1. \A m, k \in Nat : m < k => <<m, k>> \in R
  BY DEF OpToRel
<1>2. IsWellFoundedOn(R, Nat)
  BY NatLessThanWellFounded
<1> HIDE DEF R
<1> QED
  BY <1>1, <1>2, LeastElement

LEMMA GreatestNat ==
  ASSUME NEW T, T \subseteq Nat, T # {}, NEW b \in Nat, \A m \in T : m <= b
  PROVE  \E n \in T : \A m \in T : m <= n
<1> DEFINE U == {k \in Nat : \A m \in T : m <= k}
<1>1. U \subseteq Nat /\ U # {}
  OBVIOUS
<1>2. PICK u \in U : \A k \in U : u <= k
  BY <1>1, LeastNat
<1>3. u \in Nat /\ \A m \in T : m \in Nat /\ m <= u
  OBVIOUS
<1>4. ASSUME u \notin T PROVE FALSE
  <2>1. \A m \in T : m < u
    BY <1>3, <1>4
  <2>a. PICK m \in T : m < u
    BY <2>1
  <2>2. u # 0 /\ u - 1 \in Nat
    BY <1>3, <2>a
  <2>3. u - 1 \in U
    BY <1>3, <2>1, <2>2
  <2>4. u <= u - 1
    BY <1>2, <2>3
  <2> QED
    BY <1>3, <2>2, <2>4
<1> QED
  BY <1>3, <1>4

-----------------------------------------------------------------------------
(* Division: a position that wraps around once, and multiples of a block     *)

LEMMA ModWrap ==
  ASSUME NEW s \in Nat \ {0}, NEW x \in 0..2*s-1 PROVE x % s = IF x < s THEN x ELSE x - s
  OBVIOUS

LEMMA DivRoom ==
  ASSUME NEW p \in Nat \ {0}, NEW s \in Nat, s >= p
  PROVE  s \div p \in Nat /\ (s \div p) * p <= s /\ (s \div p) * p >= p
  OBVIOUS

LEMMA MultipleRoom ==
  ASSUME NEW p \in Nat \ {0}, NEW k \in Nat, NEW m \in Nat, k * p < m * p
  PROVE  k * p + p <= m * p
  OBVIOUS
=============================================================================
