-------------------------------- MODULE Eintr --------------------------------
(***************************************************************************)
(* sem19_eintr/eintr_example: main copies stdin to stdout while SIGALRM    *)
(* interrupts it.  The handler is installed without SA_RESTART, so that a  *)
(* call that blocks fails with EINTR, or, when write has already taken     *)
(* some bytes, returns how many.                                           *)
(*                                                                         *)
(* The bytes of stdin are numbered 1, 2, 3...  Both ends are external: a   *)
(* pipe takes the buffer as a whole (its 64 bytes are below PIPE_BUF), a   *)
(* terminal or a socket also in parts.  What the handler prints is not in  *)
(* out.                                                                    *)
(***************************************************************************)
EXTENDS Integers, Sequences

CONSTANTS
  ChunkSize,  \* sizeof(buf)
  OutSize,    \* what stdout holds until its reader takes it
  MaxInput    \* bound: the bytes that come from stdin

\* What the constants are.
ConstantsOK ==
  /\ ChunkSize \in Nat \ {0} /\ MaxInput \in Nat
  /\ OutSize \in Nat /\ OutSize >= ChunkSize

VARIABLES
  copier,    \* "start", "read", "tested_read", ... or its exit status
  alarmed,   \* an alarm(5) is running
  errno,
  typed,     \* how much has come on stdin
  eof,       \* stdin is at its end
  taken,     \* how much was read
  nr, nw,    \* the results of read and write
  moved,     \* the bytes the write under way has already taken
  pipe,      \* stdout is a pipe
  out, unread, \* what came out, and how much of it is still in the pipe
  short,     \* history: a write returned less than it was given
  failed     \* history: a call failed, in main or in the handler

io == <<pipe, typed, eof, taken, out, unread>>
vars == <<copier, alarmed, errno, typed, eof, taken, nr, nw, moved, pipe,
          out, unread, short, failed>>

Lesser(a, b) == IF a < b THEN a ELSE b

Init ==
  /\ copier = "start" /\ alarmed = FALSE /\ errno = "0"
  /\ pipe \in BOOLEAN /\ typed = 0 /\ eof = FALSE /\ taken = 0
  /\ out = <<>> /\ unread = 0
  /\ nr = 0 /\ nw = 0 /\ moved = 0
  /\ short = FALSE /\ failed = FALSE

-----------------------------------------------------------------------------
(* The two ends *)

Type ==
  /\ ~eof
  /\ \/ typed < MaxInput /\ typed' = typed + 1 /\ UNCHANGED eof
     \/ eof' = TRUE /\ UNCHANGED typed
  /\ UNCHANGED <<pipe, taken, out, unread>>

Drain ==
  /\ unread > 0 /\ unread' = unread - 1
  /\ UNCHANGED <<pipe, typed, eof, taken, out>>

Outside ==
  /\ Type \/ Drain
  /\ UNCHANGED <<copier, alarmed, errno, nr, nw, moved, short, failed>>

-----------------------------------------------------------------------------
(* main *)

Start ==
  /\ copier = "start"
  /\ \/ copier' = "read" /\ alarmed' = TRUE
     \/ copier' = "1" /\ UNCHANGED alarmed
  /\ failed' = (copier' = "1")
  /\ UNCHANGED <<errno, nr, nw, moved, short>>
  /\ UNCHANGED io

\* A call fails for a reason of its own.
CallFails(call, to) ==
  /\ copier = call /\ copier' = to
  /\ errno' = "EIO" /\ failed' = TRUE
  /\ moved' = 0
  /\ UNCHANGED <<alarmed, short>>
  /\ UNCHANGED io

Read ==
  /\ copier = "read" /\ (taken < typed \/ eof)
  /\ nr' = Lesser(ChunkSize, typed - taken)
  /\ taken' = taken + nr'
  /\ copier' = "read_done"
  /\ UNCHANGED <<alarmed, errno, pipe, typed, eof, nw, moved, out, unread,
                 short, failed>>

ReadFails == CallFails("read", "read_done") /\ nr' = -1 /\ UNCHANGED nw

Interrupted == errno = "EINTR"

\* The condition of TEMP_FAILURE_RETRY, then the tests of the result.
AfterRead ==
  /\ copier = "read_done"
  /\ copier' = CASE nr = -1 /\ Interrupted -> "read"
                 [] nr = -1 /\ ~Interrupted -> "1"
                 [] nr = 0 -> "0"
                 [] nr > 0 -> "write"
  /\ UNCHANGED <<alarmed, errno, nr, nw, moved, short, failed>>
  /\ UNCHANGED io

\* write moves the buffer byte by byte, and waits for room.
RoomToWrite == IF pipe /\ moved = 0 THEN nr ELSE 1

WriteByte ==
  /\ copier = "write" /\ moved < nr /\ unread + RoomToWrite <= OutSize
  /\ out' = Append(out, taken - nr + moved + 1)
  /\ unread' = unread + 1 /\ moved' = moved + 1
  /\ UNCHANGED <<copier, alarmed, errno, pipe, typed, eof, taken, nr, nw,
                 short, failed>>

Write ==
  /\ copier = "write" /\ moved = nr
  /\ nw' = nr /\ moved' = 0 /\ copier' = "write_done"
  /\ UNCHANGED <<alarmed, errno, nr, short, failed>>
  /\ UNCHANGED io

WriteFails ==
  moved = 0 /\ CallFails("write", "write_done") /\ nw' = -1 /\ UNCHANGED nr

\* Mutant: the write is not retried and the loop goes on.
AfterWriteOnce ==
  /\ copier = "write_done"
  /\ copier' = "read"
  /\ UNCHANGED <<alarmed, errno, nr, nw, moved, short, failed>>
  /\ UNCHANGED io

\* Bytes that were not written are not written again.
AfterWrite ==
  /\ copier = "write_done"
  /\ copier' = CASE nw = -1 /\ Interrupted -> "write"
                 [] nw = -1 /\ ~Interrupted -> "1"
                 [] nw >= 0 -> "read"
  /\ UNCHANGED <<alarmed, errno, nr, nw, moved, short, failed>>
  /\ UNCHANGED io

-----------------------------------------------------------------------------
(* SIGALRM: the handler prints and starts the next alarm. *)

\* The handler runs between two instructions of main.  It does not save
\* errno, which its printf sets when it fails.
Handler ==
  /\ copier \in {"read_done", "write_done"} /\ alarmed
  /\ alarmed' = TRUE
  /\ \/ errno' = "EIO" /\ failed' = TRUE
     \/ UNCHANGED <<errno, failed>>
  /\ UNCHANGED <<copier, nr, nw, moved, short>>

ReadBlocks == copier = "read" /\ taken = typed /\ ~eof
WriteBlocks == copier = "write" /\ moved < nr /\ unread + RoomToWrite > OutSize

\* The handler interrupts a blocked call, which returns after it; errno is
\* set then.  The handler's own failure leaves no trace.
Interrupt ==
  /\ alarmed /\ alarmed' = TRUE
  /\ \/ /\ ReadBlocks
        /\ nr' = -1 /\ errno' = "EINTR" /\ copier' = "read_done"
        /\ UNCHANGED <<nw, short>>
     \/ /\ WriteBlocks /\ moved = 0
        /\ nw' = -1 /\ errno' = "EINTR" /\ copier' = "write_done"
        /\ UNCHANGED <<nr, short>>
     \/ /\ WriteBlocks /\ moved > 0
        /\ nw' = moved /\ short' = TRUE /\ copier' = "write_done"
        /\ UNCHANGED <<nr, errno>>
  /\ moved' = 0
  /\ UNCHANGED failed

-----------------------------------------------------------------------------

Next ==
  \/ Outside
  \/ Start \/ Read \/ ReadFails \/ AfterRead
  \/ WriteByte \/ Write \/ WriteFails \/ AfterWrite
  \/ (Handler \/ Interrupt) /\ UNCHANGED io

Spec == Init /\ [][Next]_vars
-----------------------------------------------------------------------------
(* Properties *)

(* However often the signal interrupts the two calls, stdin is copied to
   stdout in order and without a hole, and to its end when the program
   returns 0, unless a write was cut short: its tail is never written.  A
   pipe never cuts one short.  And an interruption alone never ends the
   program: a call has failed, in main or in the handler that ran before
   errno was tested (eintr_example.c:7-17, 35-50). *)
CopiesStdin ==
  /\ ~short \/ pipe =>
       /\ \A k \in 1..Len(out) : out[k] = k
       /\ copier = "0" => eof /\ Len(out) = typed
  /\ copier = "1" => failed
==============================================================================
