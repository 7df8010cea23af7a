---- MODULE Induction ----
(***************************************************************************)
(* Induction over a range, from the well-ordering of the naturals: what    *)
(* the proofs about recursive functions rest on.                           *)
(***************************************************************************)
EXTENDS Integers, WellFoundedInduction, TLAPS

(* The least number left out would have to come after one that is not.       *)
LEMMA RangeInduction ==
  ASSUME NEW n \in Nat, NEW S, 0 \in S, \A k \in 0 .. n - 1 : k \in S => k + 1 \in S
  PROVE  0 .. n \subseteq S
<1> DEFINE T == (0 .. n) \ S
<1> SUFFICES ASSUME T # {} PROVE FALSE
  OBVIOUS
<1>1. T \subseteq Nat
  OBVIOUS
<1>2. PICK x \in T : \A y \in T : ~ (<<y, x>> \in OpToRel(<, Nat))
  BY <1>1, NatLessThanWellFounded, WFMin, Zenon
<1>3. x # 0 /\ x - 1 \in 0 .. n - 1
  OBVIOUS
<1>4. <<x - 1, x>> \in OpToRel(<, Nat)
  BY <1>3 DEF OpToRel
<1>5. x - 1 \notin T
  BY <1>2, <1>4, Zenon
<1>6. x - 1 \in S
  BY <1>3, <1>5
<1>. QED  BY <1>3, <1>6

====
