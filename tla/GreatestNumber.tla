--------------------------- MODULE GreatestNumber ---------------------------
(***************************************************************************)
(* A set of numbers with an upper bound has a greatest element.  Whatever  *)
(* takes a maximum rests on it: the newest image of a lookup, the longest  *)
(* version of a regular expression, the best match of a path.              *)
(***************************************************************************)
EXTENDS Naturals, WellFoundedInduction, TLAPS

(* By well-foundedness: the distances to the bound have a least element.   *)
LEMMA HasGreatest ==
  ASSUME NEW N \in Nat, NEW M \in SUBSET (0..N), M # {}
  PROVE  \E m \in M : \A n \in M : n <= m
<1> DEFINE Less == OpToRel(<, Nat)
           Distance == {N - m : m \in M}
<1>1. IsWellFoundedOn(Less, Nat)
  BY NatLessThanWellFounded, Zenon
<1>2. Less = {p \in Nat \X Nat : p[1] < p[2]}
  BY Zenon DEF OpToRel
<1> HIDE DEF Less
<1>3. Distance # {}
  OBVIOUS
<1>4. \A m \in M : N - m \in Nat
  OBVIOUS
<1>5. Distance \subseteq Nat
  BY <1>4
<1> HIDE DEF Distance
<1>6. PICK x \in Distance : \A y \in Distance : <<y, x>> \notin Less
  BY <1>1, <1>3, <1>5, WFMin
<1>7. PICK m \in M : x = N - m
  BY DEF Distance
<1>8. ASSUME NEW n \in M PROVE n <= m
  <2>1. N - n \in Distance
    BY DEF Distance
  <2>2. <<N - n, N - m>> \notin Less
    BY <1>6, <1>7, <2>1
  <2>3. ~ (N - n < N - m)
    BY <1>2, <1>5, <1>7, <2>1, <2>2
  <2>4. QED BY <2>3
<1>9. QED BY <1>8
=============================================================================
