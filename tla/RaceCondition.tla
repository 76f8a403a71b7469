---------------------------- MODULE RaceCondition ----------------------------
(***************************************************************************)
(* sem16_signals/race_condition: main copies two structs of two words over *)
(* one another for ever, and the handler of SIGALRM prints the words it    *)
(* finds.  A copy is two stores, and the handler can come between them.    *)
(***************************************************************************)
EXTENDS Integers

VARIABLES
  memory,   \* the words a and b
  next,     \* the store that is next: the word and its value
  alarm,    \* "none", "running" or "expired"
  printed   \* the words printed last, and the store that was next then

vars == <<memory, next, alarm, printed>>

Stores == [word : {"a", "b"}, value : {0, 1}]

\* The zeros are copied before the first alarm.
Init ==
  /\ memory = [w \in {"a", "b"} |-> 0]
  /\ next = [word |-> "a", value |-> 0]
  /\ alarm = "running"
  /\ printed = [a |-> 0, b |-> 0, during |-> next]

\* Mutant: the second word of ones is not copied.
StoreOneWord ==
  /\ memory' = IF next.word = "b" /\ next.value = 1 THEN memory
               ELSE [memory EXCEPT ![next.word] = next.value]
  /\ next' = IF next.word = "a" THEN [next EXCEPT !.word = "b"]
             ELSE [word |-> "a", value |-> 1 - next.value]
  /\ UNCHANGED <<alarm, printed>>

Store ==
  /\ memory' = [memory EXCEPT ![next.word] = next.value]
  /\ next' = IF next.word = "a" THEN [next EXCEPT !.word = "b"]
             ELSE [word |-> "a", value |-> 1 - next.value]
  /\ UNCHANGED <<alarm, printed>>

AlarmExpires ==
  /\ alarm = "running" /\ alarm' = "expired"
  /\ UNCHANGED <<memory, next, printed>>

\* main stands still while the handler reads both words.
Handler ==
  /\ alarm = "expired" /\ alarm' = "running"
  /\ printed' = [a |-> memory["a"], b |-> memory["b"], during |-> next]
  /\ UNCHANGED <<memory, next>>

Next == Store \/ AlarmExpires \/ Handler

Spec == Init /\ [][Next]_vars
-----------------------------------------------------------------------------
(* Properties *)

(* The words printed differ only if the handler came between the two stores
   of one copy, and then the first word is the newer one
   (race_condition.c:16-19, 36-39). *)
TornInsideACopy ==
  printed.a # printed.b =>
    printed.during.word = "b" /\ printed.a = printed.during.value
==============================================================================
