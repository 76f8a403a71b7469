-------------------------------- MODULE Timer --------------------------------
(***************************************************************************)
(* The signal-driven clock of sem16_signals/timer/timer.c.  One handler,   *)
(* bar, serves three signals and may interrupt main or itself anywhere     *)
(* between two memory accesses; the kernel (external) keeps at most one    *)
(* pending instance of a signal and holds back the masked ones.            *)
(***************************************************************************)
EXTENDS Integers, Sequences

CONSTANTS
  MaxSends,  \* bound: the signals other processes send
  Wrap       \* bound: the counter is kept modulo Wrap

ASSUME TimerAssumption == MaxSends \in Nat /\ Wrap \in Nat \ {0, 1}

Signal == {"ALRM", "USR1", "USR2"}

VARIABLES
  main,      \* the statement main is about to execute
  installed, \* the signals whose handler is bar
  armed,     \* an alarm(1) is running
  pending,   \* the signals generated and not delivered
  stack,     \* the handlers being executed, innermost last
  cnt, to_print,
  since,     \* history: the alarms counted since the last reset
  asked,     \* history: a print was asked for since the last one
  sends,     \* the signals sent so far
  process    \* "running", "killed" or "returned"

vars == <<main, installed, armed, pending, stack, cnt, to_print, since, asked,
          sends, process>>

Init ==
  /\ main = "sigaction_USR1"
  /\ installed = {} /\ armed = FALSE /\ pending = {} /\ stack = <<>>
  /\ cnt = 0 /\ to_print = 0
  /\ since = 0 /\ asked = FALSE /\ sends = 0
  /\ process = "running"

-----------------------------------------------------------------------------
(* The kernel *)

\* Mutant: SIGUSR2 is not blocked while SIGALRM is handled.
SaMaskNoUsr2(s) == CASE s = "USR2" -> {"ALRM"} [] OTHER -> {}

\* sa_mask, as sigaction was given it.
SaMask(s) ==
  CASE s = "USR1" -> {}
    [] s = "USR2" -> {"ALRM"}
    [] s = "ALRM" -> {"USR2"}

\* A signal is also blocked while it is handled itself (no SA_NODEFER).
Blocked ==
  UNION {{stack[k].sig} \cup SaMask(stack[k].sig) : k \in 1..Len(stack)}

\* Another process sends a signal.
Kill(s) ==
  /\ s # "ALRM" /\ sends < MaxSends
  /\ sends' = sends + 1
  /\ pending' = pending \cup {s}
  /\ UNCHANGED <<main, installed, armed, stack, cnt, to_print, since, asked,
                 process>>

AlarmExpires ==
  /\ armed
  /\ armed' = FALSE
  /\ pending' = pending \cup {"ALRM"}
  /\ UNCHANGED <<main, installed, stack, cnt, to_print, since, asked, sends,
                 process>>

FirstStatement(s) ==
  CASE s = "ALRM" -> "alarm" [] s = "USR2" -> "zero" [] s = "USR1" -> "set"

\* The handler starts, and pause will return after it; a signal that has no
\* handler yet ends the process.
Deliver(s) ==
  /\ s \in pending \ Blocked
  /\ pending' = pending \ {s}
  /\ \/ /\ s \in installed
        /\ stack' = Append(stack,
                           [sig |-> s, loc |-> FirstStatement(s), reg |-> 0])
        /\ main' = IF main = "paused" THEN "test" ELSE main
        /\ UNCHANGED process
     \/ /\ s \notin installed
        /\ process' = "killed"
        /\ UNCHANGED <<stack, main>>
  /\ UNCHANGED <<installed, armed, cnt, to_print, since, asked, sends>>

-----------------------------------------------------------------------------
(* bar *)

Top == stack[Len(stack)]
In(loc) == stack # <<>> /\ Top.loc = loc
Return == stack' = SubSeq(stack, 1, Len(stack) - 1)

\* Mutant: the handler does not start the next second.
AlarmOnce ==
  /\ In("alarm")
  /\ stack' = [stack EXCEPT ![Len(stack)].loc = "load"]
  /\ UNCHANGED <<main, installed, armed, pending, cnt, to_print, since, asked,
                 sends, process>>

Alarm ==
  /\ In("alarm")
  /\ armed' = TRUE
  /\ stack' = [stack EXCEPT ![Len(stack)].loc = "load"]
  /\ UNCHANGED <<main, installed, pending, cnt, to_print, since, asked, sends,
                 process>>

\* cnt++ loads, adds and stores (the comment at timer.c:14-18).
Load ==
  /\ In("load")
  /\ stack' = [stack EXCEPT ![Len(stack)].loc = "store",
                            ![Len(stack)].reg = cnt]
  /\ UNCHANGED <<main, installed, armed, pending, cnt, to_print, since, asked,
                 sends, process>>

Store ==
  /\ In("store")
  /\ cnt' = (Top.reg + 1) % Wrap
  /\ since' = (since + 1) % Wrap
  /\ Return
  /\ UNCHANGED <<main, installed, armed, pending, to_print, asked, sends,
                 process>>

Reset ==
  /\ In("zero")
  /\ cnt' = 0 /\ since' = 0
  /\ Return
  /\ UNCHANGED <<main, installed, armed, pending, to_print, asked, sends,
                 process>>

Ask ==
  /\ In("set")
  /\ to_print' = 1 /\ asked' = TRUE
  /\ Return
  /\ UNCHANGED <<main, installed, armed, pending, cnt, since, sends, process>>

Handler == Alarm \/ Load \/ Store \/ Reset \/ Ask

-----------------------------------------------------------------------------
(* main runs while no handler does. *)

At(from, to) == stack = <<>> /\ main = from /\ main' = to

Sigaction(s, from, to) ==
  /\ At(from, to)
  /\ installed' = installed \cup {s}
  /\ UNCHANGED <<armed, pending, stack, cnt, to_print, since, asked, sends,
                 process>>

\* sigaction fails and main returns 1.
SigactionFails ==
  /\ stack = <<>> /\ main \in {"sigaction_USR1", "sigaction_USR2", "sigaction_ALRM"}
  /\ process' = "returned"
  /\ UNCHANGED <<main, installed, armed, pending, stack, cnt, to_print, since,
                 asked, sends>>

FirstAlarm ==
  /\ At("alarm", "pause")
  /\ armed' = TRUE
  /\ UNCHANGED <<installed, pending, stack, cnt, to_print, since, asked, sends,
                 process>>

\* pause blocks even if a signal has come since the flag was tested.
Pause ==
  /\ At("pause", "paused")
  /\ UNCHANGED <<installed, armed, pending, stack, cnt, to_print, since, asked,
                 sends, process>>

Test ==
  /\ At("test", IF to_print = 1 THEN "print" ELSE "pause")
  /\ UNCHANGED <<installed, armed, pending, stack, cnt, to_print, since, asked,
                 sends, process>>

PrintCounter ==
  /\ At("print", "clear")
  /\ asked' = FALSE
  /\ UNCHANGED <<installed, armed, pending, stack, cnt, to_print, since, sends,
                 process>>

\* to_print = 0, also when a signal has set it since printf.
Clear ==
  /\ At("clear", "pause")
  /\ to_print' = 0
  /\ UNCHANGED <<installed, armed, pending, stack, cnt, since, asked, sends,
                 process>>

Main ==
  \/ Sigaction("USR1", "sigaction_USR1", "sigaction_USR2")
  \/ Sigaction("USR2", "sigaction_USR2", "sigaction_ALRM")
  \/ Sigaction("ALRM", "sigaction_ALRM", "alarm")
  \/ SigactionFails \/ FirstAlarm \/ Pause \/ Test \/ PrintCounter \/ Clear

-----------------------------------------------------------------------------

Next ==
  /\ process = "running"
  /\ \/ Main \/ Handler \/ AlarmExpires
     \/ \E s \in Signal : Kill(s) \/ Deliver(s)

Spec == Init /\ [][Next]_vars

(***************************************************************************)
(* Fairness: an alarm expires, a signal that is not blocked is delivered.  *)
(* An alarm comes once a second and at most MaxSends other signals are     *)
(* sent, so neither main nor a handler can be interrupted before each of   *)
(* its instructions for ever (strong fairness).  Nobody has to send.       *)
(***************************************************************************)
FairSpec ==
  /\ Spec
  /\ SF_vars(process = "running" /\ Main)
  /\ WF_vars(process = "running" /\ AlarmExpires)
  /\ \A s \in Signal :
        /\ SF_vars(process = "running" /\ Handler /\ Top.sig = s)
        /\ WF_vars(process = "running" /\ Deliver(s))
-----------------------------------------------------------------------------
(* Properties *)

(* Outside the handlers of SIGALRM and SIGUSR2 the counter is the number of
   seconds since the last reset: no increment and no reset is lost, although
   cnt++ is three instructions (timer.c:11-20, 51-60). *)
CounterIsExact ==
  (\A k \in 1..Len(stack) : stack[k].sig = "USR1") => cnt = since

(* A request that does not fall between printf and the clearing of the flag
   is printed unless the program ends: pause may miss its signal, but the
   next alarm ends it (timer.c:11-13, 67-73). *)
RequestIsPrinted ==
  (asked /\ to_print = 1 /\ main # "clear") ~> (~asked \/ process # "running")

(* The comment at timer.c:31-32 and sem16_signals/README.md:2 say that on
   SIGUSR1 the counter is printed. *)
EveryRequestIsPrinted == asked ~> (~asked \/ process # "running")
==============================================================================
