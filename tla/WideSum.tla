------------------------------- MODULE WideSum -------------------------------
(***************************************************************************)
(* sem01_asm/t1.S: a number of 32 bits and one of 64 are read and added in *)
(* two words with a carry.  A word counts modulo Span = 2 * Half.          *)
(***************************************************************************)
EXTENDS Integers

CONSTANT Half  \* half the range of a word: 2^31

\* What the constants are.
ConstantsOK == Half \in Nat \ {0}

Span == 2 * Half

VARIABLES
  call,                \* "readi32", "readi64", "add", "finish" or "failed"
  eax, ebx, ecx, edx,
  number32, number64,       \* history: the numbers that were read
  output               \* what was printed, or "nothing"

vars == <<call, eax, ebx, ecx, edx, number32, number64, output>>

Init ==
  /\ call = "readi32"
  /\ eax = 0 /\ ebx = 0 /\ ecx = 0 /\ edx = 0
  /\ number32 = 0 /\ number64 = 0 /\ output = "nothing"

\* The numbers of 64 bits, and a word as a number.
Wide == -(Half * Span)..(Half * Span - 1)
Signed(w) == IF w >= Half THEN w - Span ELSE w

\* Mutant: the upper word of the 32-bit number is 0.
CdqZero(w) == 0

\* cdq: all bits of the upper word are the sign.
Cdq(w) == IF w >= Half THEN Span - 1 ELSE 0

Readi32 ==
  /\ call = "readi32" /\ call' = "readi64"
  /\ number32' \in -Half..(Half - 1)
  /\ eax' = number32' % Span /\ edx' = Cdq(eax')
  /\ ebx' = eax' /\ ecx' = edx'
  /\ UNCHANGED <<number64, output>>

Readi64 ==
  /\ call = "readi64" /\ call' = "add"
  /\ number64' \in Wide
  /\ eax' = number64' % Span /\ edx' = (number64' \div Span) % Span
  /\ UNCHANGED <<ebx, ecx, number32, output>>

\* There is no number to read: 0 is printed.
WrongInput ==
  /\ call \in {"readi32", "readi64"} /\ call' = "failed"
  /\ output' = 0
  /\ UNCHANGED <<eax, ebx, ecx, edx, number32, number64>>

\* add, adc and jo: the signed sum of the upper words and the carry leaves
\* the range of a word.
Add ==
  /\ call = "add" /\ call' = "finish"
  /\ LET carry == (eax + ebx) \div Span IN
       /\ eax' = (eax + ebx) % Span
       /\ edx' = (edx + ecx + carry) % Span
       /\ output' = IF Signed(edx) + Signed(ecx) + carry \in -Half..(Half - 1)
                    THEN Signed(edx') * Span + eax' ELSE -1
  /\ UNCHANGED <<ebx, ecx, number32, number64>>

Next == Readi32 \/ Readi64 \/ WrongInput \/ Add

Spec == Init /\ [][Next]_vars
-----------------------------------------------------------------------------
(* Properties *)

(* The sum is exact, whatever the signs, if it fits into 64 bits, and -1 is
   printed if it does not (t1.S:1-5, 32-62). *)
SumIsExact ==
  call = "finish" =>
    output = IF number32 + number64 \in Wide THEN number32 + number64 ELSE -1
==============================================================================
