------------------------------ MODULE Positions ------------------------------
(***************************************************************************)
(* A non-empty set of positions has a first and a last one: what "the      *)
(* first table", "the last row wins" and "the last commit that touched the *)
(* file" rest on.  And what is left to do, as a list of numbers, cannot    *)
(* shrink for ever: what the end of the nested loops rests on.             *)
(***************************************************************************)
EXTENDS Naturals, WellFoundedInduction, TLAPS

\* The least distance from the end gives the last position.
LEMMA LastExists ==
    ASSUME NEW max \in Nat, NEW positions \in SUBSET (0..max), positions # {}
    PROVE  \E j \in positions : \A k \in positions : k <= j
<1> DEFINE T == {max - j : j \in positions}
           Less == OpToRel(<, Nat)
<1>1. T \subseteq Nat /\ T # {}
  <2>1. \A j \in positions : max - j \in Nat
    OBVIOUS
  <2>2. PICK j \in positions : TRUE
    OBVIOUS
  <2>3. max - j \in T
    BY <2>2
  <2> QED
    BY <2>1, <2>3
<1>2. PICK x \in T : \A y \in T : ~(<<y, x>> \in Less)
  <2> HIDE DEF T, Less
  <2> QED
    BY <1>1, NatLessThanWellFounded, WFMin DEF Less
<1>3. \A y \in T : ~(y < x)
  BY <1>1, <1>2 DEF OpToRel
<1>4. PICK j \in positions : x = max - j
  OBVIOUS
<1>5. \A k \in positions : k <= j
  <2> SUFFICES ASSUME NEW k \in positions PROVE ~(max - k < max - j)
    OBVIOUS
  <2> QED
    BY <1>3, <1>4
<1> QED
  BY <1>5

\* A non-empty set of positions has a first one.
LEMMA FirstExists ==
    ASSUME NEW max \in Nat, NEW positions \in SUBSET (0..max), positions # {}
    PROVE  \E j \in positions : \A k \in positions : j <= k
<1> DEFINE Less == OpToRel(<, Nat)
<1>1. positions \subseteq Nat
  OBVIOUS
<1>2. PICK x \in positions : \A y \in positions : ~(<<y, x>> \in Less)
  <2> HIDE DEF Less
  <2> QED
    BY <1>1, NatLessThanWellFounded, WFMin DEF Less
<1>3. \A y \in positions : ~(y < x)
  BY <1>1, <1>2 DEF OpToRel
<1> QED
  BY <1>1, <1>3

-----------------------------------------------------------------------------
\* The order in which nested loops count down: <<s, t>> is in it when, at the
\* first number in which they differ, s has the smaller one.
CountDown(n) == LexProductOrdering(OpToRel(<, Nat), Nat, n)

\* Nothing counts down for ever.
LEMMA CountDownEnds ==
    ASSUME NEW n \in Nat
    PROVE  IsWellFoundedOn(CountDown(n), [1..n -> Nat])
<1> DEFINE Less == OpToRel(<, Nat)
<1>1. IsWellFoundedOn(Less, Nat)
  BY NatLessThanWellFounded
<1>2. IsWellFoundedOn(LexProductOrdering(Less, Nat, n), [1..n -> Nat])
  <2> HIDE DEF Less
  <2> QED
    BY <1>1, WFLexProductOrdering
<1> QED
  BY <1>2 DEF CountDown

\* A number that goes down, with those before it unchanged, is a step down.
LEMMA CountsDown ==
    ASSUME NEW n \in Nat, NEW s \in [1..n -> Nat], NEW t \in [1..n -> Nat], NEW i \in 1..n,
           \A j \in 1..(i - 1) : s[j] = t[j], s[i] < t[i]
    PROVE  <<s, t>> \in CountDown(n)
<1>1. <<s[i], t[i]>> \in OpToRel(<, Nat)
  BY DEF OpToRel
<1> QED
  BY <1>1 DEF CountDown, LexProductOrdering

=============================================================================
