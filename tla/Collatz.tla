------------------------------- MODULE Collatz -------------------------------
(***************************************************************************)
(* sem01_asm/t2.S: the Collatz sequence from a positive number, in a       *)
(* register of 32 bits, which is Modulus = 2 * Half.  Whether 3n + 1 fits  *)
(* is decided by comparing the result with n.                              *)
(***************************************************************************)
EXTENDS Integers

CONSTANT Half  \* half the range of the register: 2^31

ASSUME CollatzAssumption == Half \in Nat \ {0}

VARIABLES
  label,  \* "loop", "loop_1", "overflow", "done" or "zero"
  eax,
  term    \* history: the term of the mathematical sequence

vars == <<label, eax, term>>

Modulus == 2 * Half

\* readi32 reads a signed number; the sequence starts with a positive one.
Init ==
  /\ label = "loop"
  /\ eax \in 1..(Half - 1)
  /\ term = eax

\* The next term, as the head of t2.S defines it.
C(n) == IF n % 2 = 0 THEN n \div 2 ELSE 3 * n + 1

\* add, whose carry is lost.
Add(a, b) == IF a + b < Modulus THEN a + b ELSE a + b - Modulus

\* Mutant: the sign of the result is looked at instead of the comparison.
OverflowedSign(n, result) == result >= Half

Overflowed(n, result) == result < n

Odd ==
  /\ label = "loop" /\ eax % 2 = 1
  /\ eax' = Add(Add(Add(eax, eax), eax), 1)
  /\ label' = IF Overflowed(eax, eax') THEN "overflow" ELSE "loop_1"
  /\ term' = C(term)

Even ==
  /\ label = "loop" /\ eax % 2 = 0
  /\ eax' = eax \div 2
  /\ label' = "loop_1"
  /\ term' = C(term)

\* The program ends at 1; any other term is printed.
Loop_1 ==
  /\ label = "loop_1"
  /\ label' = IF eax = 1 THEN "done" ELSE "loop"
  /\ UNCHANGED <<eax, term>>

Overflow ==
  /\ label = "overflow"
  /\ label' = "zero" /\ eax' = 0
  /\ UNCHANGED term

Next == Odd \/ Even \/ Loop_1 \/ Overflow

Spec == Init /\ [][Next]_vars
-----------------------------------------------------------------------------
(* Properties *)

(* Types, and one odd term at most needs the comparison to be right. *)
IInv ==
  /\ label \in {"loop", "loop_1", "overflow", "done", "zero"}
  /\ eax \in 0..(Modulus - 1) /\ term \in Nat
  /\ label \in {"loop", "loop_1", "done"} => eax = term /\ eax > 0
  /\ label \in {"loop", "loop_1"} /\ eax % 2 = 1 => eax < Half
  /\ label \in {"overflow", "zero"} => term >= Modulus

(* The register holds the term of the sequence until that term does not fit,
   and overflow is announced exactly then.  The comparison would miss an odd
   n of Half or more; none is ever reached: half of a number is smaller, and
   3n + 1 is even (t2.S:14-45). *)
OverflowIsExact ==
  IF label \in {"overflow", "zero"} THEN term >= Modulus ELSE eax = term
==============================================================================
