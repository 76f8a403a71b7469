------------------------------ MODULE ParallelOp ------------------------------
(***************************************************************************)
(* sem13_fork/parallel_op: the parent forks a child for each block of a    *)
(* shared array and waits for all of them.  stdout (external) keeps what   *)
(* is printed until its buffer overflows or the process exits; fork copies *)
(* it with whatever it still holds.  The bytes the parent prints are       *)
(* numbered, of an element only the number of its doublings matters.       *)
(***************************************************************************)
EXTENDS Integers, FiniteSets

CONSTANTS
  ArrLen,       \* ARR_LEN
  ProcessCount, \* PROCESS_COUNT
  LineLen,      \* the bytes of a line the parent prints
  StdoutSize    \* the bytes that stdout's buffer holds

\* What the constants are.
ConstantsOK ==
  /\ ArrLen \in Nat /\ ProcessCount \in Nat \ {0}
  /\ LineLen \in Nat \ {0} /\ StdoutSize \in Nat /\ LineLen <= StdoutSize

VARIABLES
  parent,   \* "map", "fork", "print", "wait", then its exit status
  i,        \* the parent's loop counter
  child,    \* "none", "running", "exited", "killed"; "reaped" by wait
  index,    \* process: the element a child is about to double
  arr,      \* the doublings of each element, in the shared mapping
  terminal, \* stdout is a terminal: a line is written at once
  held,     \* each process's copy of stdout: the bytes from "from" to before "to"
  shown,    \* how often each byte of the parent's lines has come out
  killed    \* history: a child was killed

vars == <<parent, i, child, index, arr, terminal, held, shown, killed>>

Parent == ProcessCount
Child == 0..(ProcessCount - 1)
Element == 0..(ArrLen - 1)
LineByte == 0..(LineLen * ProcessCount - 1)

block_size == ArrLen \div ProcessCount
begin_block(c) == block_size * c

end_block(c) == block_size * (c + 1)

Init ==
  /\ parent = "map" /\ i = 0
  /\ child = [c \in Child |-> "none"] /\ index = [c \in Child |-> 0]
  /\ arr = [e \in Element |-> 0]
  /\ terminal \in BOOLEAN
  /\ held = [p \in Child \cup {Parent} |-> [from |-> 0, to |-> 0]]
  /\ shown = [b \in LineByte |-> 0] /\ killed = FALSE

\* The bytes from the first to before the last come out.
Show(first, last) ==
  shown' = [b \in LineByte |->
              shown[b] + (IF first <= b /\ b < last THEN 1 ELSE 0)]

\* What p holds comes out and p's copy of stdout is empty.
Flush(p) ==
  /\ Show(held[p].from, held[p].to)
  /\ held' = [held EXCEPT ![p].from = held[p].to]

-----------------------------------------------------------------------------
(* The parent *)

\* mmap fails, or the array is mapped and filled.
Map ==
  /\ parent = "map" /\ parent' \in {"fork", "1"}
  /\ UNCHANGED <<i, child, index, arr, terminal, held, shown, killed>>

Fork ==
  /\ parent = "fork" /\ i < ProcessCount
  /\ parent' = "print"
  /\ child' = [child EXCEPT ![i] = "running"]
  /\ index' = [index EXCEPT ![i] = begin_block(i)]
  /\ held' = [held EXCEPT ![i] = held[Parent]]
  /\ UNCHANGED <<i, arr, terminal, shown, killed>>

\* The parent leaves the children it has running.
ForkFails ==
  /\ parent = "fork" /\ i < ProcessCount
  /\ parent' = "1"
  /\ Flush(Parent)
  /\ UNCHANGED <<i, child, index, arr, terminal, killed>>

\* printf, after the fork.  What does not fit fills the buffer, which is
\* written out as a whole, and the rest of the line is held.
PrintRange ==
  /\ parent = "print"
  /\ parent' = "fork" /\ i' = i + 1
  /\ LET end == LineLen * (i + 1)
         full == held[Parent].from + StdoutSize
     IN  \/ /\ terminal
            /\ Show(LineLen * i, end) /\ UNCHANGED held
         \/ /\ ~terminal /\ end <= full
            /\ held' = [held EXCEPT ![Parent].to = end] /\ UNCHANGED shown
         \/ /\ ~terminal /\ end > full
            /\ Show(held[Parent].from, full)
            /\ held' = [held EXCEPT ![Parent] = [from |-> full, to |-> end]]
  /\ UNCHANGED <<child, index, arr, terminal, killed>>

AllForked ==
  /\ parent = "fork" /\ i = ProcessCount
  /\ parent' = "wait"
  /\ UNCHANGED <<i, child, index, arr, terminal, held, shown, killed>>

\* Mutant: the first child is waited for, the others are not.
WaitOnce ==
  /\ parent = "wait"
  /\ \E c \in Child :
        /\ child[c] \in {"exited", "killed"}
        /\ child' = [child EXCEPT ![c] = "reaped"]
  /\ parent' = "0" /\ Flush(Parent)
  /\ UNCHANGED <<i, index, arr, terminal, killed>>

\* wait returns a child that has ended, however it did; without children it
\* fails and the parent is done.
Wait ==
  /\ parent = "wait"
  /\ \/ \E c \in Child :
           /\ child[c] \in {"exited", "killed"}
           /\ child' = [child EXCEPT ![c] = "reaped"]
           /\ UNCHANGED <<parent, held, shown>>
     \/ /\ \A c \in Child : child[c] = "reaped"
        /\ parent' = "0" /\ Flush(Parent)
        /\ UNCHANGED child
  /\ UNCHANGED <<i, index, arr, terminal, killed>>

-----------------------------------------------------------------------------
(* The children *)

Double(c) ==
  /\ child[c] = "running" /\ index[c] # end_block(c)
  /\ arr' = [arr EXCEPT ![index[c]] = @ + 1]
  /\ index' = [index EXCEPT ![c] = @ + 1]
  /\ UNCHANGED <<parent, i, child, terminal, held, shown, killed>>

\* Mutant: _exit instead of return, and stdout is not written out.
ReturnQuick(c) ==
  /\ child[c] = "running" /\ index[c] = end_block(c)
  /\ child' = [child EXCEPT ![c] = "exited"]
  /\ UNCHANGED <<parent, i, index, arr, terminal, held, shown, killed>>

\* return 0 writes out the child's copy of stdout.
Return(c) ==
  /\ child[c] = "running" /\ index[c] = end_block(c)
  /\ child' = [child EXCEPT ![c] = "exited"]
  /\ Flush(c)
  /\ UNCHANGED <<parent, i, index, arr, terminal, killed>>

\* A signal ends a child (external).
Killed(c) ==
  /\ child[c] = "running"
  /\ child' = [child EXCEPT ![c] = "killed"] /\ killed' = TRUE
  /\ UNCHANGED <<parent, i, index, arr, terminal, held, shown>>

Next ==
  \/ Map \/ Fork \/ ForkFails \/ PrintRange \/ AllForked \/ Wait
  \/ \E c \in Child : Double(c) \/ Return(c) \/ Killed(c)

Spec == Init /\ [][Next]_vars
-----------------------------------------------------------------------------
(* Properties *)

(* When the parent returns 0 every block it divided the array into has been
   doubled, no element of it twice, and the elements that are left over have
   not been touched, unless a child was killed (parallel_op.c:47-70). *)
DoubledOnce ==
  parent = "0" /\ ~killed =>
    \A e \in Element :
       arr[e] = IF e < block_size * ProcessCount THEN 1 ELSE 0

\* Byte b was printed, and its part of the buffer not yet written out, when
\* child d was forked.
IsInherited(b, d) ==
  b < LineLen * d /\ LineLen * d <= StdoutSize * (b \div StdoutSize + 1)

(* Once all have exited, a byte of the parent's lines has come out once on a
   terminal; elsewhere also once for each child forked after it was printed
   and before the buffer it was in overflowed, which inherits it in its copy
   of stdout: of a line that crosses the end of a buffer the second half comes
   out more often than the first (parallel_op.c:48-70). *)
OutputIsInherited ==
  parent \in {"0", "1"} /\ ~killed /\ (\A c \in Child : child[c] # "running") =>
    \A b \in 0..(LineLen * i - 1) :
       shown[b] = 1 + (IF terminal THEN 0
                       ELSE Cardinality({d \in Child : child[d] # "none"
                                                        /\ IsInherited(b, d)}))
==============================================================================
