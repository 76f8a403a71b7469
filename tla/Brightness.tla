------------------------------ MODULE Brightness ------------------------------
(***************************************************************************)
(* sem09_sse/image_brightness: a number is added to every pixel of a line, *)
(* by a loop over the pixels (naive_brightness) and by one over blocks of  *)
(* them (sse_brightness), whose additions and subtractions saturate.  main *)
(* calls the first for each line of the image; the call of the second is   *)
(* commented out.                                                          *)
(***************************************************************************)
EXTENDS Integers, Sequences

CONSTANTS
  Byte,     \* what a byte has values: 256
  Block,    \* the pixels of a register: 16
  MaxLen,   \* bound: the length of a line
  MaxAdded  \* bound: what is added or subtracted

ASSUME BrightnessAssumption ==
  /\ Byte \in Nat \ {0} /\ Block \in Nat \ {0} /\ MaxLen \in Nat
  /\ MaxAdded \in Nat

Pixel == 0..(Byte - 1)

VARIABLES
  line,       \* what the pixels were
  brightness,
  naive, sse, \* what the two functions have made of them
  edi,        \* the pixels the block loop has behind it
  ecx,        \* the pixels it has still to do, or what it takes for that
  beyond      \* it has written behind the line

sseVars == <<line, brightness, naive, sse, edi, ecx, beyond>>

\* naive_brightness, for one pixel.
NaivePixel(pix, b) ==
  IF b > 0 THEN IF pix + b > Byte - 1 THEN Byte - 1 ELSE pix + b
           ELSE IF pix + b < 0 THEN 0 ELSE pix + b

\* Mutant: the brightness is not negated.
AlNotNegated(b) == b % Byte

\* The low byte of the brightness, or of its negation.
Al(b) == IF b >= 0 THEN b % Byte ELSE (-b) % Byte

\* psubusb and paddusb.
SsePixel(pix, b) ==
  IF b < 0 THEN IF pix < Al(b) THEN 0 ELSE pix - Al(b)
           ELSE IF pix + Al(b) > Byte - 1 THEN Byte - 1 ELSE pix + Al(b)

SseInit ==
  /\ \E n \in 1..MaxLen : line \in [1..n -> Pixel] /\ ecx = n
  /\ brightness \in -MaxAdded..MaxAdded
  /\ naive = [i \in DOMAIN line |-> NaivePixel(line[i], brightness)]
  /\ sse = line /\ edi = 0 /\ beyond = FALSE

\* A block is loaded, changed and stored; a block that sticks out of the line
\* changes the memory behind it.
SseBlock ==
  /\ ecx # 0 /\ ~beyond
  /\ sse' = [i \in DOMAIN sse |->
               IF i \in (edi + 1)..(edi + Block)
               THEN SsePixel(sse[i], brightness) ELSE sse[i]]
  /\ edi' = edi + Block /\ ecx' = ecx - Block
  /\ beyond' = (ecx < Block)
  /\ UNCHANGED <<line, brightness, naive>>

SseSpec == SseInit /\ [][SseBlock]_sseVars
-----------------------------------------------------------------------------
(* Properties *)

(* For a line of whole blocks and a brightness of less than a byte's range
   the block loop stops at the end of the line, having made of it what the
   plain loop does (image_brightness.c:39-113). *)
SseIsNaive ==
  Len(line) % Block = 0 /\ brightness \in -(Byte - 1)..(Byte - 1) =>
    ~beyond /\ (ecx = 0 => sse = naive)
==============================================================================
