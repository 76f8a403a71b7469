------------------------------- MODULE Strings -------------------------------
(***************************************************************************)
(* sem03_asm/strchr and sem04_asm/string_lookup: two loops in assembly     *)
(* over a string that ends with 0.  my_strchr looks for a character, and   *)
(* moves on by incrementing the lowest byte of its pointer; string_lookup  *)
(* counts the characters a predicate accepts.  The string lies in a buffer *)
(* on the stack, which may begin at any address, and around it is what the *)
(* stack held before.                                                      *)
(***************************************************************************)
EXTENDS Integers, Sequences, SequencesExt, FiniteSets

CONSTANTS
  Page,    \* what a byte counts: 256.  The buffers have this size
  Letter,  \* the characters that isalpha accepts
  Symbol   \* characters, 0 not among them

\* What the constants are.
ConstantsOK == Page \in Nat \ {0} /\ Letter \subseteq Symbol /\ 0 \notin Symbol

Address == 0..(2 * Page - 1)

VARIABLES
  scanner,  \* "strchr" or "string_lookup", the program this is
  scan,     \* "input", "loop", "done" or "failed"
  text,     \* history: the bytes that were read
  stack,    \* what each address holds
  s,        \* where the buffer begins
  c,        \* the character looked for
  ptr,      \* the address the loop has come to
  counted,  \* the characters counted
  verdict   \* what my_strchr prints: "none" yet, "found" or "not_found"

vars == <<scanner, scan, text, stack, s, c, ptr, counted, verdict>>

Init ==
  /\ scanner \in {"strchr", "string_lookup"}
  /\ scan = "input" /\ text = <<>>
  /\ \E x \in Letter : stack \in [Address -> {0, x}]
  /\ s \in 0..Page /\ c \in Symbol
  /\ ptr = s /\ counted = 0 /\ verdict = "none"

InputFails ==
  /\ scan = "input" /\ scan' = "failed"
  /\ UNCHANGED <<scanner, text, stack, s, c, ptr, counted, verdict>>

\* The program p reads its input, and n bytes from the buffer's first on are
\* that, followed by zeros.
Input(p, n) ==
  /\ scan = "input" /\ scanner = p /\ scan' = "loop"
  /\ text' \in SeqOf(Symbol \cup {0}, Page - 1)
  /\ stack' = [a \in Address |->
                 CASE a \in s..(s + Len(text') - 1) -> text'[a - s + 1]
                   [] a \in (s + Len(text'))..(s + n - 1) -> 0
                   [] OTHER -> stack[a]]
  /\ UNCHANGED <<scanner, s, c, ptr, counted, verdict>>

\* main of strchr: the buffer is zero before fgets reads into it.
Fgets == Input("strchr", Page)

\* Mutant: no 0 is put behind what read has taken.
ReadUnterminated == Input("string_lookup", Len(text'))

\* main of string_lookup: one 0 is put behind what read has taken.
Read == Input("string_lookup", Len(text') + 1)

\* incb %al leaves the other bytes of the address alone.
Incb(a) == Page * (a \div Page) + ((a + 1) % Page)

\* The terminator is tested before the character.
StrchrLoop ==
  /\ scan = "loop" /\ scanner = "strchr"
  /\ IF stack[ptr] \in {0, c}
     THEN /\ scan' = "done" /\ UNCHANGED ptr
          /\ verdict' = IF stack[ptr] = 0 THEN "not_found" ELSE "found"
     ELSE ptr' = Incb(ptr) /\ UNCHANGED <<scan, verdict>>
  /\ UNCHANGED <<scanner, text, stack, s, c, counted>>

StringLookupLoop ==
  /\ scan = "loop" /\ scanner = "string_lookup"
  /\ IF stack[ptr] = 0
     THEN scan' = "done" /\ UNCHANGED <<ptr, counted>>
     ELSE /\ ptr' = ptr + 1 /\ UNCHANGED scan
          /\ counted' = IF stack[ptr] \in Letter THEN counted + 1 ELSE counted
  /\ UNCHANGED <<scanner, text, stack, s, c, verdict>>

Next == InputFails \/ Fgets \/ Read \/ StrchrLoop \/ StringLookupLoop

Spec == Init /\ [][Next]_vars
-----------------------------------------------------------------------------
(* Properties *)

\* The string that was read, before its 0: its addresses and characters.
Char(a) == text[a - s + 1]
String == {a \in s..(s + Len(text) - 1) : \A b \in s..a : Char(b) # 0}

\* What my_strchr has to say: the first c of the string, or that there is none.
FoundFirst ==
  IF \E a \in String : Char(a) = c
  THEN /\ verdict = "found" /\ ptr \in String /\ Char(ptr) = c
       /\ \A a \in String : a < ptr => Char(a) # c
  ELSE verdict = "not_found"

(* The loop of string_lookup counts the letters before the first 0 of what
   was read; that of my_strchr finds the first occurrence of its character,
   or the end of the string, if the string and its 0 lie between two
   multiples of 256 (string_lookup.S:13-87, strchr.S:14-61). *)
ScanIsExact ==
  scan = "done" =>
    /\ scanner = "string_lookup" =>
          counted = Cardinality({a \in String : Char(a) \in Letter})
    /\ scanner = "strchr" /\ s \div Page = (s + Cardinality(String)) \div Page
          => FoundFirst

(* strchr.S:1-3 and sem03_asm/README.md say that the character is found in
   the string, or "Symbol not found" is printed. *)
FindsTheSymbol == scan = "done" /\ scanner = "strchr" => FoundFirst
==============================================================================
