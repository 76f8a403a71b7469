------------------------------ MODULE RotateLog ------------------------------
(***************************************************************************)
(* sem15_pipe/rotatelog/rotatelog.c: the parent copies the stdout of a     *)
(* child from a pipe to log.txt, and renames the file to log.txt.old when  *)
(* it is full.  Bytes are numbered in the order the child writes them.     *)
(*                                                                         *)
(* The pipe, the files and stdio are external: fwrite keeps the bytes in   *)
(* the FILE until fclose, or until exit for a FILE still open, since a     *)
(* whole log.txt fits into stdio's buffer.  So it is there, where nothing  *)
(* looks at the result (rotatelog.c:35), that a full disk takes the end of *)
(* what the FILE holds.                                                    *)
(*                                                                         *)
(* The second fopen (rotatelog.c:42) declares a new log_file that goes out *)
(* of scope at once; the loop goes on with the FILE that was closed.  What *)
(* that does is undefined: the memory of the closed FILE may have been     *)
(* reused for the new one, and all is as if it had been meant; or fwrite   *)
(* fails; or the process crashes.                                          *)
(***************************************************************************)
EXTENDS Integers, Sequences

CONSTANTS
  Output,    \* how many bytes the child writes
  ReadBuf,   \* READ_BUF_SIZE
  MaxFile,   \* OUT_FILE_MAX_FIZE
  PipeSize,  \* what the pipe holds
  Closed,    \* what the closed FILE may be: of {"reused", "error", "crash"}
  Failures   \* what may fail: of FailureKind

\* "fork": malloc, pipe or fork; "fclose": the bytes of a FILE do not all
\* reach the disk, in fclose or at exit; "signal": the child is killed.
FailureKind == {"fork", "exec", "signal", "fopen", "read", "fwrite", "fclose",
                "rename", "waitpid"}

\* What the constants are.
ConstantsOK ==
  /\ Output \in Nat /\ ReadBuf \in Nat \ {0} /\ PipeSize \in Nat \ {0}
  /\ MaxFile \in Nat \ {0}
  /\ Closed \subseteq {"reused", "error", "crash"}
  /\ Failures \subseteq FailureKind

VARIABLES
  child,    \* "none", "writing", "exited" or "killed"
  pipe,     \* the bytes in the pipe
  made,     \* how many bytes the child has written
  writers,  \* who has the write end open
  loc,      \* where the parent is
  chunk,    \* buf: the bytes of the last read
  written,
  buffer,   \* the bytes in the open FILE
  stream,   \* log_file: "open", or what the closed FILE turned out to be
  log, old, \* the contents of log.txt and log.txt.old
  lost,     \* history: the bytes of log.txt.old that a rename replaced
  failed,   \* history: the calls that have failed
  result    \* how main ended: "none", "success", "failure" or "crash"

vars == <<child, pipe, made, writers, loc, chunk, written, buffer,
          stream, log, old, lost, failed, result>>
files == <<buffer, stream, log, old, lost>>
pipeVars == <<child, pipe, made, writers>>

Init ==
  /\ child = "none" /\ pipe = <<>> /\ made = 0
  /\ writers = {"parent"}
  /\ loc = "fork" /\ chunk = <<>> /\ written = 0
  /\ buffer = <<>> /\ stream = "closed"
  /\ log = <<>> /\ old = <<>> /\ lost = <<>>
  /\ failed = {}
  /\ result = "none"

\* The call f fails, if calls of its kind can.
Fails(f) == f \in Failures /\ failed' = failed \cup {f}

\* The bytes q of the FILE go to log.txt, or no more than the first of them.
Flush(q) ==
  /\ \/ log' = log \o q /\ UNCHANGED failed
     \/ Fails("fclose") /\ \E n \in 0..Len(q) : log' = log \o SubSeq(q, 1, n)
  /\ buffer' = <<>>

Least(a, b) == IF a < b THEN a ELSE b

-----------------------------------------------------------------------------
(* The child *)

\* The parent never closes its read end; its end does.
PipeIsRead == result = "none"

\* It writes as much as the pipe has room for, and blocks while it has none.
ChildWrites ==
  /\ child = "writing" /\ made < Output /\ PipeIsRead
  /\ \E n \in 1..Least(Output - made, PipeSize - Len(pipe)) :
        /\ pipe' = pipe \o [k \in 1..n |-> made + k]
        /\ made' = made + n
  /\ UNCHANGED <<child, writers, loc, chunk, written, failed, result>>
  /\ UNCHANGED files

\* It is done, or dup2 or execvp has failed, or SIGPIPE ends it.
ChildExits ==
  /\ child = "writing"
  /\ \/ /\ made = Output /\ child' = "exited"
        /\ UNCHANGED failed
     \/ /\ made = 0 /\ Fails("exec") /\ child' = "exited"
     \/ /\ ~PipeIsRead /\ child' = "killed"
        /\ UNCHANGED failed
  /\ writers' = writers \ {"child"}
  /\ UNCHANGED <<pipe, made, loc, chunk, written, result>>
  /\ UNCHANGED files

\* Another process kills the child.
ChildIsKilled ==
  /\ child = "writing" /\ child' = "killed"
  /\ Fails("signal")
  /\ writers' = writers \ {"child"}
  /\ UNCHANGED <<pipe, made, loc, chunk, written, result>>
  /\ UNCHANGED files

-----------------------------------------------------------------------------
(* main up to read_child_stdout *)

\* The child closes the read end before it execs; the write end is its stdout.
Fork ==
  /\ loc = "fork"
  /\ \/ /\ child' = "writing"
        /\ writers' = writers \cup {"child"}
        /\ loc' = "close" /\ UNCHANGED <<result, failed>>
     \/ /\ Fails("fork")
        /\ loc' = "done" /\ result' = "failure"
        /\ UNCHANGED <<child, writers>>
  /\ UNCHANGED <<pipe, made, chunk, written>>
  /\ UNCHANGED files

\* Mutant: the parent keeps its write end.
CloseWriteEndNot ==
  /\ loc = "close" /\ loc' = "fopen"
  /\ UNCHANGED <<child, pipe, made, writers, chunk, written, failed, result>>
  /\ UNCHANGED files

CloseWriteEnd ==
  /\ loc = "close" /\ loc' = "fopen"
  /\ writers' = writers \ {"parent"}
  /\ UNCHANGED <<child, pipe, made, chunk, written, failed, result>>
  /\ UNCHANGED files

-----------------------------------------------------------------------------
(* read_child_stdout *)

\* fopen(OUT_FILE_NAME, "w") empties the file.
Fopen ==
  /\ loc = "fopen"
  /\ \/ /\ stream' = "open" /\ log' = <<>> /\ loc' = "read"
        /\ UNCHANGED failed
     \/ /\ Fails("fopen")
        /\ loc' = "wait" /\ UNCHANGED <<stream, log>>
  /\ UNCHANGED <<chunk, written, buffer, old, lost, result>>
  /\ UNCHANGED pipeVars

\* read takes what there is, up to the size of buf, and blocks while there
\* is nothing and a writer is left.  A failure ends the loop like the end of
\* the pipe does.
Read ==
  /\ loc = "read"
  /\ \/ /\ pipe # <<>>
        /\ LET n == Least(ReadBuf, Len(pipe)) IN
             /\ chunk' = SubSeq(pipe, 1, n)
             /\ pipe' = SubSeq(pipe, n + 1, Len(pipe))
        /\ loc' = "fwrite" /\ UNCHANGED failed
     \/ /\ \/ pipe = <<>> /\ writers = {} /\ UNCHANGED failed
           \/ Fails("read")
        /\ loc' = "wait" /\ UNCHANGED <<chunk, pipe>>
  /\ UNCHANGED <<child, made, writers, written, result>>
  /\ UNCHANGED files

\* fwrite on the FILE of log.txt; a failure closes it and ends the loop, with
\* as much of what the FILE held and of buf in log.txt as the disk takes.
Fwrite ==
  /\ loc = "fwrite"
  /\ \/ /\ stream \in {"open", "reused"}
        /\ buffer' = buffer \o chunk
        /\ written' = written + Len(chunk)
        /\ loc' = IF written' >= MaxFile THEN "fclose" ELSE "read"
        /\ UNCHANGED <<stream, log, failed, result>>
     \/ /\ \/ stream = "error" /\ UNCHANGED <<log, failed>>
           \/ /\ stream \in {"open", "reused"} /\ Fails("fwrite")
              /\ \E n \in 0..Len(buffer \o chunk) :
                    log' = log \o SubSeq(buffer \o chunk, 1, n)
        /\ stream' = "closed" /\ buffer' = <<>> /\ loc' = "wait"
        /\ UNCHANGED <<written, result>>
     \/ /\ stream = "crash"
        /\ loc' = "done" /\ result' = "crash"
        /\ UNCHANGED <<written, stream, log, buffer, failed>>
  /\ chunk' = <<>>
  /\ UNCHANGED <<old, lost>>
  /\ UNCHANGED pipeVars

\* The file is renamed whatever fclose returns.
Fclose ==
  /\ loc = "fclose" /\ loc' = "rename"
  /\ Flush(buffer) /\ stream' = "closed"
  /\ UNCHANGED <<chunk, written, old, lost, result>>
  /\ UNCHANGED pipeVars

\* Mutant: the full file is not renamed; the next fopen empties it.
RenameNot ==
  /\ loc = "rename" /\ loc' = "reopen"
  /\ UNCHANGED <<chunk, written, failed, result>>
  /\ UNCHANGED files
  /\ UNCHANGED pipeVars

\* The full file replaces the last one; a failure ends the loop.
Rename ==
  /\ loc = "rename"
  /\ \/ /\ old' = log /\ log' = <<>> /\ lost' = lost \o old
        /\ loc' = "reopen" /\ UNCHANGED failed
     \/ /\ Fails("rename")
        /\ loc' = "wait" /\ UNCHANGED <<log, old, lost>>
  /\ UNCHANGED <<chunk, written, buffer, stream, result>>
  /\ UNCHANGED pipeVars

\* Mutant: the size of the file is not counted anew.
ReopenCounting ==
  /\ loc = "reopen" /\ loc' = "read"
  /\ log' = <<>> /\ stream' \in Closed
  /\ UNCHANGED <<chunk, written, buffer, old, lost, failed, result>>
  /\ UNCHANGED pipeVars

\* The new FILE is bound to an inner log_file; the outer one stays closed.
Reopen ==
  /\ loc = "reopen"
  /\ \/ /\ log' = <<>> /\ stream' \in Closed
        /\ written' = 0 /\ loc' = "read"
        /\ UNCHANGED failed
     \/ /\ Fails("fopen")
        /\ loc' = "wait" /\ UNCHANGED <<log, stream, written>>
  /\ UNCHANGED <<chunk, buffer, old, lost, result>>
  /\ UNCHANGED pipeVars

-----------------------------------------------------------------------------
(* main from waitpid *)

\* The read end of the pipe stays open, whyever the loop has ended.
Wait ==
  /\ loc = "wait" /\ loc' = "exit"
  /\ \/ child # "writing" /\ UNCHANGED failed
     \/ Fails("waitpid")
  /\ UNCHANGED <<chunk, written, result>>
  /\ UNCHANGED files
  /\ UNCHANGED pipeVars

\* What main returns is settled before exit writes what the open FILE holds.
Exit ==
  /\ loc = "exit" /\ loc' = "done"
  /\ Flush(buffer)
  /\ result' = IF child = "exited" /\ "waitpid" \notin failed THEN "success"
               ELSE "failure"
  /\ UNCHANGED <<chunk, written, stream, old, lost>>
  /\ UNCHANGED pipeVars

Parent ==
  \/ Fork \/ CloseWriteEnd \/ Fopen \/ Read \/ Fwrite \/ Fclose \/ Rename
  \/ Reopen \/ Wait \/ Exit
Child == ChildWrites \/ ChildExits

Next == Parent \/ Child \/ ChildIsKilled

Spec == Init /\ [][Next]_vars

\* Both processes run; no call has to fail, and nobody to kill the child.
FairSpec ==
  /\ Spec
  /\ WF_vars(Parent /\ UNCHANGED failed)
  /\ WF_vars(Child /\ UNCHANGED failed)
-----------------------------------------------------------------------------
(* Properties *)

Kept == lost \o old \o log \o buffer

\* The bytes q are some of those written, in their order.
Rising(q) ==
  /\ \A i \in 1..Len(q) : q[i] \in 1..made
  /\ \A i, j \in 1..Len(q) : i < j => q[i] < q[j]

(* No byte is written twice or out of order, whichever call fails and
   whatever the closed FILE is: the old files, the log, the FILE, buf and the
   pipe have the bytes of the child in the order it wrote them.  And but for
   what a rename replaced, and for the end of a FILE that fclose could not
   write, none is missing: the files spell out the beginning of what the child
   has written, and buf and the pipe the rest while the loop runs
   (rotatelog.c:26-49). *)
OutputIsKept ==
  /\ Rising(Kept \o chunk \o pipe)
  /\ "fclose" \notin failed =>
       /\ Kept = [k \in 1..Len(Kept) |-> k]
       /\ loc \notin {"wait", "exit", "done"} =>
             Kept \o chunk \o pipe = [k \in 1..made |-> k]

(* No file outgrows the limit by a whole read, whatever fails, and one that
   was rotated is full unless fclose could not write all of it
   (rotatelog.c:33-48). *)
FilesAreBounded ==
  /\ Len(old) < MaxFile + ReadBuf
  /\ Len(log) + Len(buffer) < MaxFile + ReadBuf
  /\ old # <<>> /\ "fclose" \notin failed => Len(old) >= MaxFile

\* main has returned 0 and every byte is in the log, in the old file, or was
\* in one that a rename replaced.
Logged ==
  result = "success" /\ lost \o old \o log = [k \in 1..Output |-> k]

(* While no call fails, and the closed FILE does what was meant, the program
   logs everything its child writes and ends: the read loop sees the end of
   the pipe, waitpid the end of the child (rotatelog.c:26-51, 105-125). *)
LogsUnlessACallFails ==
  <>(failed # {} \/ stream \in {"error", "crash"} \/ Logged)

(* sem15_pipe/README.md:3: the program collects the child's stdout and sends
   it to a file, which is rotated when it overflows.  So while no call fails,
   every byte is logged. *)
EverythingIsLogged == <>(failed # {} \/ Logged)
==============================================================================
