------------------------ MODULE AssignmentStoreProofs ------------------------
(***************************************************************************)
(* Facts about the assignment versions that every proof about their        *)
(* writers uses.                                                           *)
(***************************************************************************)
EXTENDS AssignmentStore, NaturalsInduction, WellFoundedInduction, TLAPS

(* The greatest element of a set that has one.                             *)
LEMMA MaxIs ==
  ASSUME NEW S \in SUBSET Int, NEW m \in S, \A x \in S : x <= m
  PROVE  Max(S) = m
<1>1. m \in S /\ \A y \in S : m >= y
  OBVIOUS
<1>2. \A x \in S : (\A y \in S : x >= y) => x = m
  OBVIOUS
<1> QED
  BY <1>1, <1>2, Zenon DEF Max

(* A set of numbers that is not empty has a least.                         *)
LEMMA LeastOf ==
  ASSUME NEW S \in SUBSET Nat, S # {}
  PROVE  \E m \in S : \A k \in S : m <= k
<1> DEFINE R == {ss \in Nat \X Nat : ss[1] < ss[2]}
<1>1. IsWellFoundedOn(R, Nat)
  BY NatLessThanWellFounded DEF OpToRel
<1>2. \A k, m \in Nat : k < m => <<k, m>> \in R
  OBVIOUS
<1> HIDE DEF R
<1>3. PICK m \in S : \A k \in S : ~(<<k, m>> \in R)
  BY <1>1, WFMin, Zenon
<1>4. ASSUME NEW k \in S PROVE m <= k
  <2>1. ~(k < m)
    BY <1>2, <1>3
  <2> QED
    BY <2>1
<1> QED
  BY <1>4

(* A set of numbers up to a bound has a greatest.                          *)
LEMMA GreatestOf ==
  ASSUME NEW n \in Nat, NEW S \in SUBSET (1 .. n), S # {}
  PROVE  Max(S) \in S /\ \A x \in S : x <= Max(S)
<1> DEFINE D == {n - x : x \in S}
<1>1. \A x \in S : n - x \in D /\ n - x \in Nat
  OBVIOUS
<1>2. D \in SUBSET Nat /\ D # {}
  BY <1>1
<1>3. \A d \in D : \E x \in S : d = n - x
  OBVIOUS
<1> HIDE DEF D
<1>4. PICK m \in D : \A k \in D : m <= k
  BY <1>2, LeastOf
<1>5. PICK x \in S : m = n - x
  BY <1>3
<1>6. \A y \in S : y <= x
  BY <1>1, <1>4, <1>5
<1>7. Max(S) = x
  BY <1>6, MaxIs
<1> QED
  BY <1>6, <1>7

(* The larger of two numbers.                                              *)
LEMMA MaxOfTwo ==
  ASSUME NEW a \in Int, NEW b \in Int
  PROVE  Max({a, b}) = IF a >= b THEN a ELSE b
<1>1. CASE a >= b
  BY <1>1, MaxIs
<1>2. CASE a < b
  BY <1>2, MaxIs
<1> QED
  BY <1>1, <1>2

(* Numbered without a gap, the greatest version is how many there are.    *)
LEMMA TopOfNumbered ==
  ASSUME NEW n \in Nat
  PROVE  (IF 1 .. n = {} THEN 0 ELSE Max(1 .. n)) = n
<1>1. CASE n = 0
  BY <1>1
<1>2. CASE n # 0
  <2>1. n \in 1 .. n /\ 1 .. n \in SUBSET Int /\ \A x \in 1 .. n : x <= n
    BY <1>2
  <2>2. Max(1 .. n) = n
    BY <2>1, MaxIs
  <2> QED
    BY <2>1, <2>2
<1> QED
  BY <1>1, <1>2

(* A version is written at a number that is taken, or at the next, and was *)
(* made from one that exists: the numbers stay without a gap and every     *)
(* version stays behind the one it was made from.                          *)
LEMMA WriteKeepsLineage ==
  ASSUME LineageWellFormed, Effective \in Nat,
         NEW v \in 1 .. Effective + 1, NEW a, WriteAssignment(v, a),
         a.prev < v, a.source # "resolved" => a.prev \in Versions
  PROVE  /\ LineageWellFormed' /\ Effective' \in Nat
         /\ Effective' = IF v = NextVersion THEN v ELSE Effective
         /\ Versions \subseteq Versions'
<1> DEFINE n == IF v = NextVersion THEN v ELSE Effective
<1>1. n \in Nat /\ Versions' = 1 .. n /\ Versions \subseteq Versions'
  <2>1. Versions' = Versions \cup {v}
    BY DEF WriteAssignment, Put, Versions
  <2> QED
    BY <2>1 DEF LineageWellFormed, NextVersion
<1>2. Effective' = n
  <2> HIDE DEF n
  <2> QED
    BY <1>1, TopOfNumbered DEF Effective
<1>3. ASSUME NEW w \in Versions'
      PROVE  /\ asg'[w].prev < w
             /\ asg'[w].source # "resolved" => asg'[w].prev \in Versions'
  <2>1. CASE w = v
    BY <1>1, <2>1, <1>3 DEF WriteAssignment, Put, Versions
  <2>2. CASE w # v
    BY <1>1, <2>2, <1>3 DEF WriteAssignment, Put, Versions, LineageWellFormed
  <2> QED
    BY <2>1, <2>2
<1> QED
  BY <1>1, <1>2, <1>3 DEF LineageWellFormed
=============================================================================
