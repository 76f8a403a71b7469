---------------------------- MODULE NumberLemmas ----------------------------
(***************************************************************************)
(* What the proofs of the other modules need of the numbers: induction,    *)
(* functions defined by recursion, division with remainder.                *)
(***************************************************************************)
EXTENDS Integers, WellFoundedInduction, TLAPS

\* Induction, for a set in place of a predicate: its least counterexample
\* would have a predecessor that is none.
LEMMA Induction ==
  ASSUME NEW S, 0 \in S, \A n \in Nat : n \in S => n + 1 \in S
  PROVE  Nat \subseteq S
<1> DEFINE Less == OpToRel(<, Nat)
           Out == Nat \ S
<1>1. \A x, y \in Nat : x < y => <<x, y>> \in Less
  BY DEF OpToRel
<1>2. IsWellFoundedOn(Less, Nat)
  BY NatLessThanWellFounded
<1> HIDE DEF Less
<1>3. ASSUME Out # {} PROVE FALSE
  <2>0. Out \subseteq Nat
    OBVIOUS
  <2> HIDE DEF Out
  <2>1. PICK x \in Out : \A y \in Out : ~(<<y, x>> \in Less)
    BY <1>2, <1>3, <2>0, WFMin
  <2>2. x \in Nat /\ x \notin S /\ x # 0
    BY <2>1 DEF Out
  <2>3. x - 1 \in Nat /\ x - 1 < x /\ x - 1 \notin S
    BY <2>2
  <2> QED BY <1>1, <2>1, <2>2, <2>3 DEF Out
<1> QED BY <1>3

\* g is the function the recursion defines on the numbers up to n.
Solves(g, n, base, step) ==
  g = [m \in 0..n |-> IF m = 0 THEN base ELSE step[<<m, g[m - 1]>>]]

\* A recursion over the numbers up to n defines a function, whatever a step
\* of it computes from the number and the value before.
LEMMA Recursion ==
  ASSUME NEW V, NEW base \in V, NEW step \in [Nat \X V -> V]
  PROVE  \A n \in Nat : \E g \in [0..n -> V] : Solves(g, n, base, step)
<1> DEFINE T == {n \in Nat : \E g \in [0..n -> V] : Solves(g, n, base, step)}
<1>1. 0 \in T
  <2>1. /\ [m \in 0..0 |-> base] \in [0..0 -> V]
        /\ Solves([m \in 0..0 |-> base], 0, base, step)
    BY DEF Solves
  <2> QED BY <2>1
<1>2. ASSUME NEW n \in Nat, n \in T PROVE n + 1 \in T
  <2>1. PICK g \in [0..n -> V] : Solves(g, n, base, step)
    BY <1>2
  <2> DEFINE h == [m \in 0..(n + 1) |-> IF m <= n THEN g[m] ELSE step[<<n + 1, g[n]>>]]
  <2>2. h \in [0..(n + 1) -> V]
    OBVIOUS
  <2>3. ASSUME NEW m \in 0..(n + 1)
        PROVE  h[m] = IF m = 0 THEN base ELSE step[<<m, h[m - 1]>>]
    <3>1. CASE m <= n
      <4>1. m \in 0..n /\ h[m] = g[m] /\ (m # 0 => h[m - 1] = g[m - 1])
        BY <3>1
      <4>2. g[m] = IF m = 0 THEN base ELSE step[<<m, g[m - 1]>>]
        BY <2>1, <4>1 DEF Solves
      <4> QED BY <4>1, <4>2
    <3>2. CASE m = n + 1
      BY <3>2
    <3> QED BY <3>1, <3>2
  <2> HIDE DEF h
  <2>4. Solves(h, n + 1, base, step)
    BY <2>2, <2>3 DEF Solves
  <2>5. n + 1 \in Nat /\ \E f \in [0..(n + 1) -> V] : Solves(f, n + 1, base, step)
    BY <2>2, <2>4
  <2> QED BY <2>5
<1> HIDE DEF T
<1>3. Nat \subseteq T
  BY <1>1, <1>2, Induction
<1> QED BY <1>3 DEF T

-----------------------------------------------------------------------------
(* Division with remainder *)

\* Division with remainder of any number by a positive one.
LEMMA DivisionInt ==
  ASSUME NEW S \in Nat \ {0}, NEW q \in Int
  PROVE  q % S \in 0..(S - 1) /\ q \div S \in Int /\ q = S * (q \div S) + (q % S)
<1>1. q % S \in Int /\ 0 <= q % S /\ q % S < S
  OBVIOUS
<1>2. q \div S \in Int
  OBVIOUS
<1>3. q = S * (q \div S) + (q % S)
  OBVIOUS
<1> QED BY <1>1, <1>2, <1>3

\* Quotient and remainder are unique.
LEMMA DivisionUnique ==
  ASSUME NEW S \in Nat \ {0}, NEW h \in Int, NEW r \in 0..(S - 1), NEW q \in Int,
         q = S * h + r
  PROVE q \div S = h /\ q % S = r
<1> DEFINE d == q \div S
           m == q % S
<1>1. d \in Int /\ m \in 0..(S - 1) /\ q = S * d + m
  BY DivisionInt
<1> HIDE DEF d, m
<1>2. S * (d - h) = r - m /\ S * (d - h) \in Int
  BY <1>1
<1>3. d = h
  <2>1. CASE d - h >= 1
    <3>1. S * (d - h) >= S
      BY <1>1, <2>1
    <3> QED BY <1>1, <1>2, <3>1
  <2>2. CASE d - h <= -1
    <3>1. S * (d - h) <= -S
      BY <1>1, <2>2
    <3> QED BY <1>1, <1>2, <3>1
  <2> QED BY <1>1, <2>1, <2>2
<1> QED BY <1>1, <1>3 DEF d, m

\* A remainder may be taken before something is added or after.
LEMMA SumOfRemainders ==
  ASSUME NEW S \in Nat \ {0}, NEW a \in Int, NEW b \in Int
  PROVE  /\ ((a % S) + b) % S = (a + b) % S
         /\ ((a % S) + (a % S)) % S = (a + a) % S
<1>1. ASSUME NEW x \in Int, NEW y \in Int PROVE ((x % S) + y) % S = (x + y) % S
  <2> DEFINE q == x \div S
             m == x % S
             h == (m + y) \div S
             k == (m + y) % S
  <2>1. q \in Int /\ m \in Int /\ x = S * q + m
    BY DivisionInt
  <2> HIDE DEF q, m
  <2>2. h \in Int /\ k \in 0..(S - 1) /\ m + y = S * h + k
    <3>1. m + y \in Int
      BY <2>1
    <3> QED BY <3>1, DivisionInt, Zenon
  <2> HIDE DEF h, k
  <2>3. x + y = S * (q + h) + k
    <3>1. S * (q + h) = S * q + S * h /\ S * q \in Int /\ S * h \in Int
      BY <2>1, <2>2
    <3> QED BY <2>1, <2>2, <3>1
  <2>4. (x + y) % S = k
    <3>1. x + y \in Int /\ q + h \in Int
      BY <2>1, <2>2
    <3>2. ASSUME NEW z \in Int, NEW g \in Int, NEW r \in 0..(S - 1), z = S * g + r
          PROVE  z % S = r
      BY <3>2, DivisionUnique
    <3> QED BY <2>2, <2>3, <3>1, <3>2, Zenon
  <2> QED BY <2>4 DEF k, m
<1>2. a % S \in Int
  BY DivisionInt
<1>3. ((a % S) + (a % S)) % S = (a + (a % S)) % S
  BY <1>1, <1>2
<1>4. (a + (a % S)) % S = ((a % S) + a) % S
  BY <1>2
<1> QED BY <1>1, <1>3, <1>4

\* Numbers may be reduced before they are added.
LEMMA SumOfTwo ==
  ASSUME NEW S \in Nat \ {0}, NEW a \in Int, NEW b \in Int
  PROVE  ((a % S) + (b % S)) % S = (a + b) % S
<1>1. a % S \in Int /\ b % S \in Int
  BY DivisionInt
<1>2. ((a % S) + (b % S)) % S = (a + (b % S)) % S
  BY <1>1, SumOfRemainders
<1>3. (a + (b % S)) % S = ((b % S) + a) % S /\ b + a = a + b
  BY <1>1
<1>4. ((b % S) + a) % S = (b + a) % S
  BY SumOfRemainders
<1> QED BY <1>2, <1>3, <1>4

\* A number of a word is its own remainder.
LEMMA OwnRemainder ==
  ASSUME NEW S \in Nat \ {0}, NEW a \in 0..(S - 1)
  PROVE  a % S = a
<1>1. a = S * 0 + a /\ 0 \in Int /\ a \in Int
  OBVIOUS
<1> QED BY <1>1, DivisionUnique
=============================================================================
