--------------------------------- MODULE Cat ---------------------------------
(***************************************************************************)
(* sem05_syscalls_io/cat: two programs that write the files named in their *)
(* arguments to stdout.  cat1 measures a file, reads it in one piece and   *)
(* goes on to the next after an error; cat2 copies it block by block and   *)
(* gives up.  Other processes write to the files meanwhile, and any call   *)
(* may fail.  Bytes are numbered from 1; 0 is a byte of a fresh buffer.    *)
(***************************************************************************)
EXTENDS Integers, Sequences

CONSTANTS
  Files,       \* how many arguments there are
  MaxSize,     \* bound: the bytes of a file
  BufferSize,  \* BUFFER_SIZE, of cat2
  MaxChanges   \* bound: how often the files are changed

\* What the constants are.
ConstantsOK ==
  {Files, MaxSize, MaxChanges} \subseteq Nat /\ BufferSize \in Nat \ {0}

VARIABLES
  cat,      \* "cat1" or "cat2", the program this is
  at,       \* "open", "seek", "read", "write", "done" or "failed"
  arg,      \* the argument it is at
  length,   \* the length of each file
  file_size, pos, buffer,
  stdout,   \* pairs of argument and byte
  writes,   \* how often the files have changed
  changed,  \* history: the arguments whose files have
  errors,  \* history: the arguments for which a call has failed
  cut       \* history: those of which a write has taken a part only

vars == <<cat, at, arg, length, file_size, pos, buffer, stdout, writes,
          changed, errors, cut>>
fileVars == <<length, writes, changed>>

Init ==
  /\ cat \in {"cat1", "cat2"}
  /\ at = (IF Files = 0 THEN "done" ELSE "open") /\ arg = 1
  /\ length \in [1..Files -> 0..MaxSize]
  /\ file_size = 0 /\ pos = 0 /\ buffer = <<>> /\ stdout = <<>>
  /\ writes = 0 /\ changed = {} /\ errors = {} /\ cut = {}

Least(m, n) == IF m < n THEN m ELSE n

\* Another process truncates a file or appends to it.
Change(f) ==
  /\ writes < MaxChanges /\ at \notin {"done", "failed"}
  /\ writes' = writes + 1 /\ changed' = changed \cup {f}
  /\ \E n \in 0..MaxSize \ {length[f]} : length' = [length EXCEPT ![f] = n]
  /\ UNCHANGED <<cat, at, arg, file_size, pos, buffer, stdout, errors, cut>>

NextFile ==
  /\ arg' = arg + 1 /\ at' = IF arg < Files THEN "open" ELSE "done"
  /\ pos' = 0

\* cat1 passes over a file, cat2 ends.
Fail ==
  /\ at \in {"open", "seek", "read"}
  /\ errors' = errors \cup {arg}
  /\ \/ cat = "cat1" /\ NextFile
     \/ cat = "cat2" /\ at' = "failed" /\ UNCHANGED <<arg, pos>>
  /\ UNCHANGED <<file_size, buffer, stdout, cut>>

Open ==
  /\ at = "open"
  /\ at' = IF cat = "cat1" THEN "seek" ELSE "read"
  /\ UNCHANGED <<arg, file_size, pos, buffer, stdout, errors, cut>>

\* To the end and back; the buffer is as large as the file was.
Lseek ==
  /\ at = "seek" /\ at' = "read"
  /\ file_size' = length[arg]
  /\ UNCHANGED <<arg, pos, buffer, stdout, errors, cut>>

\* Mutant: cat1 looks only for -1.
ReadAllUnchecked ==
  /\ at = "read" /\ cat = "cat1"
  /\ buffer' = [k \in 1..file_size |-> IF k <= length[arg] THEN k ELSE 0]
  /\ at' = "write"
  /\ UNCHANGED <<arg, file_size, pos, stdout, errors, cut>>

\* cat1 takes a file that has become shorter for an error, and never sees
\* what was appended to it.
ReadAll ==
  /\ at = "read" /\ cat = "cat1"
  /\ IF length[arg] >= file_size
     THEN /\ buffer' = [k \in 1..file_size |-> k] /\ at' = "write"
          /\ UNCHANGED <<arg, pos>>
     ELSE NextFile /\ UNCHANGED buffer
  /\ UNCHANGED <<file_size, stdout, errors, cut>>

ReadBlock ==
  /\ at = "read" /\ cat = "cat2" /\ at' = "write"
  /\ LET end == Least(pos + BufferSize, length[arg]) IN
       /\ buffer' = [k \in 1..(end - pos) |-> pos + k]
       /\ pos' = IF end > pos THEN end ELSE pos
  /\ UNCHANGED <<arg, file_size, stdout, errors, cut>>

\* write takes all of the buffer, or some, or fails.  cat1 reports this and
\* goes on, cat2 ends; cat2 is through with a file when it has written nothing.
Write ==
  /\ at = "write"
  /\ \E n \in -1..Len(buffer) :
        /\ stdout' = stdout \o [k \in 1..n |-> <<arg, buffer[k]>>]
        /\ cut' = IF n < Len(buffer) THEN cut \cup {arg} ELSE cut
  /\ IF cat = "cat1" \/ (buffer = <<>> /\ cut' = cut) THEN NextFile
     ELSE /\ at' = IF cut' = cut THEN "read" ELSE "failed"
          /\ UNCHANGED <<arg, pos>>
  /\ UNCHANGED <<file_size, buffer, errors>>

Next ==
  \/ /\ Open \/ Lseek \/ ReadAll \/ ReadBlock \/ Write \/ Fail
     /\ UNCHANGED cat /\ UNCHANGED fileVars
  \/ \E f \in 1..Files : Change(f)

Spec == Init /\ [][Next]_vars
-----------------------------------------------------------------------------
(* Properties *)

\* The bytes written from an argument's file.
Of(out, f) == {out[k][2] : k \in {j \in DOMAIN out : out[j][1] = f}}

\* Every byte follows the one before it in its file; a first byte follows
\* what came from the files named before.
InTurn(out) ==
  \A k \in DOMAIN out :
    IF out[k][2] = 1 THEN k > 1 => out[k - 1][1] < out[k][1]
    ELSE k > 1 /\ out[k - 1] = <<out[k][1], out[k][2] - 1>>

(* The files are written one after the other, each from its first byte on
   and without a hole.  When the program has ended, a file that nobody has
   changed was written as a whole, but after an error: then cat1 has left it
   out, or the tail that write did not take, and cat2 has not returned 0
   (cat1.c:17-109, cat2.c:15-59). *)
PrintsFilesInTurn ==
  /\ InTurn(stdout)
  /\ at = "done" => \A f \in 1..Files \ (changed \cup cut) :
        Of(stdout, f) = 1..(IF f \in errors THEN 0 ELSE length[f])
  /\ at = "done" /\ cat = "cat2" => errors \cup cut = {}
==============================================================================
