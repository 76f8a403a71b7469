------------------------------- MODULE SignalFd -------------------------------
(***************************************************************************)
(* sem20_signalfd: the process blocks two signals and reads them from a    *)
(* descriptor.  The kernel (external) keeps one instance at most of a      *)
(* pending signal; a signal that is not blocked ends the process.          *)
(***************************************************************************)
EXTENDS Integers

CONSTANT MaxKills  \* bound: the signals other processes send

\* What the constants are.
ConstantsOK == MaxKills \in Nat

Usr == {"USR1", "USR2"}

VARIABLES
  step,     \* "block", "signalfd", "read", "work", then "returned", "killed"
  mask,     \* the signals the process blocks
  watched,  \* the signals its descriptor reports
  waiting,  \* the signals that are pending
  ssi_signo, \* the signal that was read
  kills,    \* the signals sent so far
  unserved  \* history: sent after the mask was set, and no do_work since

vars == <<step, mask, watched, waiting, ssi_signo, kills, unserved>>

Init ==
  /\ step = "block"
  /\ mask = {} /\ watched = {} /\ waiting = {} /\ ssi_signo = "none"
  /\ kills = 0 /\ unserved = {}

Runs == step \notin {"returned", "killed"}

Kill(s) ==
  /\ Runs /\ kills < MaxKills
  /\ kills' = kills + 1
  /\ IF s \in mask
     THEN /\ waiting' = waiting \cup {s} /\ unserved' = unserved \cup {s}
          /\ UNCHANGED step
     ELSE /\ step' = "killed" /\ UNCHANGED <<waiting, unserved>>
  /\ UNCHANGED <<mask, watched, ssi_signo>>

\* sigprocmask or signalfd fails: the process returns 1.
Fails ==
  /\ step \in {"block", "signalfd"} /\ step' = "returned"
  /\ UNCHANGED <<mask, watched, waiting, ssi_signo, kills, unserved>>

Block ==
  /\ step = "block" /\ step' = "signalfd"
  /\ mask' = Usr
  /\ UNCHANGED <<watched, waiting, ssi_signo, kills, unserved>>

\* Mutant: the descriptor is made for one of the signals.
OpenUsr1 ==
  /\ step = "signalfd" /\ step' = "read"
  /\ watched' = {"USR1"}
  /\ UNCHANGED <<mask, waiting, ssi_signo, kills, unserved>>

Open ==
  /\ step = "signalfd" /\ step' = "read"
  /\ watched' = Usr
  /\ UNCHANGED <<mask, waiting, ssi_signo, kills, unserved>>

\* read waits for a signal and takes the one with the lowest number; SIGUSR1
\* comes before SIGUSR2.
Read ==
  /\ step = "read" /\ step' = "work"
  /\ \E s \in waiting \cap watched :
        /\ s = "USR1" \/ "USR1" \notin waiting \cap watched
        /\ ssi_signo' = s
        /\ waiting' = waiting \ {s}
  /\ UNCHANGED <<mask, watched, kills, unserved>>

\* read fails: the descriptor is closed and the process returns 1.
ReadFails ==
  /\ step = "read" /\ step' = "returned"
  /\ UNCHANGED <<mask, watched, waiting, ssi_signo, kills, unserved>>

\* A signal that came again since it was read is still to be served.
Work ==
  /\ step = "work" /\ step' = "read"
  /\ unserved' = unserved \ ({ssi_signo} \ waiting)
  /\ UNCHANGED <<mask, watched, waiting, ssi_signo, kills>>

Main == Block \/ Open \/ Read \/ Work
Next == Main \/ Fails \/ ReadFails \/ \E s \in Usr : Kill(s)

Spec == Init /\ [][Next]_vars
-----------------------------------------------------------------------------
(* Properties *)

(* A signal that comes once the mask is set is worked on, whether it comes
   before the descriptor exists, while another one is worked on, or again
   before it was read; unless a call fails, and as long as not every moment
   brings another SIGUSR1, which is read first (signalfd.c:20-42). *)
SignalIsWorkedOn == \A s \in Usr : s \in unserved ~> (s \notin unserved \/ ~Runs)
==============================================================================
