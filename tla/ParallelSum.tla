----------------------------- MODULE ParallelSum -----------------------------
(***************************************************************************)
(* sem24_pthread/parallel_sum/parallel_sum.c: main cuts an array into one  *)
(* block per thread, starts the threads, joins them in turn and adds up    *)
(* their sums.  ti is an array on main's stack, and nobody sets ti[i].sum  *)
(* before the thread adds to it.                                           *)
(***************************************************************************)
EXTENDS Integers, Sequences

CONSTANTS
  ArrLen,       \* ARR_LEN
  ThreadCount,  \* THREAD_COUNT
  Value,        \* what rand may return
  Garbage,      \* what the memory of ti may hold when main starts
  Word,         \* size_t counts modulo Word
  CreateFails   \* whether pthread_create may fail

\* What the constants are.
ConstantsOK ==
  /\ ThreadCount \in Nat \ {0} /\ ArrLen \in Nat
  /\ ArrLen % ThreadCount = 0
  /\ Value \subseteq Nat /\ Word \in Nat \ {0}
  /\ Garbage \subseteq 0..(Word - 1)

Thread == 1..ThreadCount

VARIABLES
  arr,
  ti,       \* each thread_info: begin, end, sum
  junk,     \* history: what each sum was when main started
  index,    \* each thread's i, or -1 before it exists, -2 after it returned
  main,     \* what main is doing: "malloc", "create", "join", "done", "failed"
            \* or "crash"
  refused,  \* history: the threads that pthread_create did not start
  k,        \* main's loop index, counted from 1
  sum,
  printed   \* the sum that was printed, or -1

vars == <<arr, ti, junk, index, main, refused, k, sum, printed>>

NotCreated == -1
Returned == -2

\* arr is what fill_arr will put there.
Init ==
  /\ arr \in [1..ArrLen -> Value]
  /\ junk \in [Thread -> Garbage]
  /\ ti = [t \in Thread |-> [begin |-> 0, end |-> 0, sum |-> junk[t]]]
  /\ index = [t \in Thread |-> NotCreated]
  /\ main = "malloc" /\ refused = {} /\ k = 1 /\ sum = 0 /\ printed = -1

-----------------------------------------------------------------------------
(* main *)

\* The array is allocated and filled, or main returns 1.
Malloc ==
  /\ main = "malloc" /\ main' \in {"create", "failed"}
  /\ UNCHANGED <<arr, junk, ti, index, refused, k, sum, printed>>

BlockSize == ArrLen \div ThreadCount

\* Mutant: the end of a block is taken to be inclusive.
BlockEndInclusive(t) == BlockSize * t + 1

BlockEnd(t) == BlockSize * t

\* thread_info is filled and the thread started.  A failure is a positive
\* number, which main does not take for one: it goes on without the thread.
Create ==
  /\ main = "create" /\ k <= ThreadCount
  /\ ti' = [ti EXCEPT ![k].begin = BlockSize * (k - 1), ![k].end = BlockEnd(k)]
  /\ \/ /\ index' = [index EXCEPT ![k] = BlockSize * (k - 1)]
        /\ UNCHANGED refused
     \/ CreateFails /\ refused' = refused \cup {k} /\ UNCHANGED index
  /\ k' = k + 1
  /\ UNCHANGED <<arr, junk, main, sum, printed>>

\* Mutant: the loop leaves out the last thread.
AllButOneCreated ==
  /\ main = "create" /\ k >= ThreadCount
  /\ main' = "join" /\ k' = 1
  /\ UNCHANGED <<arr, junk, ti, index, refused, sum, printed>>

AllCreated ==
  /\ main = "create" /\ k > ThreadCount
  /\ main' = "join" /\ k' = 1
  /\ UNCHANGED <<arr, junk, ti, index, refused, sum, printed>>

\* Mutant: the sum is taken without waiting for the thread.
JoinNot ==
  /\ main = "join" /\ k <= ThreadCount
  /\ sum' = (sum + ti[k].sum) % Word
  /\ k' = k + 1
  /\ UNCHANGED <<arr, junk, ti, index, main, refused, printed>>

\* pthread_join waits for thread k; of a pthread_t that was never written it
\* returns at once or the process crashes.
Join ==
  /\ main = "join" /\ k <= ThreadCount
  /\ \/ /\ index[k] \in {Returned, NotCreated}
        /\ sum' = (sum + ti[k].sum) % Word
        /\ k' = k + 1
        /\ UNCHANGED main
     \/ /\ index[k] = NotCreated
        /\ main' = "crash"
        /\ UNCHANGED <<sum, k>>
  /\ UNCHANGED <<arr, junk, ti, index, refused, printed>>

PrintSum ==
  /\ main = "join" /\ k > ThreadCount
  /\ printed' = sum /\ main' = "done"
  /\ UNCHANGED <<arr, junk, ti, index, refused, k, sum>>

-----------------------------------------------------------------------------
(* func: one element is read and added, or the thread returns. *)

Running(t) == index[t] >= 0 /\ main # "crash"

AddElement(t) ==
  /\ Running(t) /\ index[t] < ti[t].end
  /\ ti' = [ti EXCEPT ![t].sum = (@ + arr[index[t] + 1]) % Word]
  /\ index' = [index EXCEPT ![t] = @ + 1]
  /\ UNCHANGED <<arr, junk, main, refused, k, sum, printed>>

Return(t) ==
  /\ Running(t) /\ index[t] >= ti[t].end
  /\ index' = [index EXCEPT ![t] = Returned]
  /\ UNCHANGED <<arr, junk, ti, main, refused, k, sum, printed>>

-----------------------------------------------------------------------------

Main == Malloc \/ Create \/ AllCreated \/ Join \/ PrintSum
Func(t) == AddElement(t) \/ Return(t)

Next == Main \/ \E t \in Thread : Func(t)

Spec == Init /\ [][Next]_vars

\* Every thread runs.
FairSpec ==
  /\ Spec
  /\ WF_vars(Main)
  /\ \A t \in Thread : WF_vars(Func(t))
-----------------------------------------------------------------------------
(* Properties *)

(* The blocks of the threads lie in the array, and two threads never read
   the same element, however far each has got (parallel_sum.c:77-85). *)
BlocksAreDisjoint ==
  /\ \A t \in Thread :
        /\ 0 <= ti[t].begin /\ ti[t].end <= ArrLen
        /\ index[t] \in {NotCreated, Returned} \cup ti[t].begin..ti[t].end
  /\ \A t, u \in Thread :
        t # u /\ index[t] # NotCreated /\ index[u] # NotCreated
          => ti[t].end <= ti[u].begin \/ ti[u].end <= ti[t].begin

\* The sums of the first elements of a sequence.
SumsOf(s) ==
  LET S[n \in 0..Len(s)] == IF n = 0 THEN 0 ELSE S[n - 1] + s[n]
  IN S

Total(s) == SumsOf(s)[Len(s)]

\* The array without the blocks of the threads that do not exist.
Covered ==
  [j \in 1..ArrLen |->
     IF index[(j - 1) \div BlockSize + 1] = NotCreated THEN 0 ELSE arr[j]]

(* What is printed is exact, however the threads ran: the sum of the blocks
   of the threads that could be created, plus what the sum fields held
   before, modulo the width of size_t (parallel_sum.c:56-58, 75-100). *)
PrintsWhatWasSummed ==
  printed # -1 => printed = (Total(Covered) + Total(junk)) % Word

(* sem24_pthread/README.md:3 says that the sum of the elements is computed:
   what is printed is the sum of the whole array. *)
PrintsTheTotal == printed # -1 => printed = Total(arr) % Word

(* The program prints its sum, whoever is faster, unless malloc fails or
   pthread_join is given a thread that pthread_create did not start, which may
   crash it: otherwise main joins only threads it has started, and each of
   them returns (parallel_sum.c:56-61, 77-100). *)
Finishes ==
  <>(printed # -1 \/ main = "failed" \/ (main = "crash" /\ refused # {}))
==============================================================================
