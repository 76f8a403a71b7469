----------------------------- MODULE ChildStatus -----------------------------
(***************************************************************************)
(* sem13_fork/fork_wait and sem14_exec: a parent forks one child, waits    *)
(* for it and reports how it ended.  The child of fork_wait returns 10,    *)
(* that of exec becomes the program named in the arguments (external), or  *)
(* returns 1 if there is none.  At most 8 bits of a status arrive.         *)
(***************************************************************************)
EXTENDS Integers

CONSTANTS
  Programs,  \* what can be executed
  Statuses   \* the values programs pass to exit

\* What the constants are.
ConstantsOK == Statuses \subseteq Int

VARIABLES
  source,    \* "fork_wait" or "exec", the program this is
  argument,  \* the program named on the command line, or "none"
  progress,  \* of the parent: "begin", "fork", "wait", "ended"
  code,      \* its exit status
  report,    \* the status it has printed, or -1
  kid,       \* "none", "forked", "executing", "exited", "signalled"
  kidStatus, \* the status of a child that exited
  wanted     \* history: what the child passed to exit, or to return

vars == <<source, argument, progress, code, report, kid, kidStatus, wanted>>
parentVars == <<progress, code, report>>
kidVars == <<kid, kidStatus, wanted>>

Init ==
  /\ source \in {"fork_wait", "exec"}
  /\ argument \in Programs \cup {"none", "missing"}
  /\ progress = "begin" /\ code = -1 /\ report = -1
  /\ kid = "none" /\ kidStatus = -1 /\ wanted = -1

End(c) == progress' = "ended" /\ code' = c

-----------------------------------------------------------------------------
(* The parent *)

\* The arguments of exec are copied, unless there are none or malloc fails.
Begin ==
  /\ progress = "begin"
  /\ \/ /\ source = "exec" => argument # "none"
        /\ progress' = "fork" /\ UNCHANGED code
     \/ source = "exec" /\ End(1)
  /\ UNCHANGED report
  /\ UNCHANGED kidVars

Fork ==
  /\ progress = "fork" /\ progress' = "wait"
  /\ kid' = "forked"
  /\ UNCHANGED <<code, report, kidStatus, wanted>>

\* exec returns 1; fork_wait leaves the switch and main ends without return,
\* which is 0.
ForkFails ==
  /\ progress = "fork"
  /\ End(IF source = "exec" THEN 1 ELSE 0)
  /\ UNCHANGED report
  /\ UNCHANGED kidVars

\* Mutant: WIFEXITED is not asked.
WaitpidAny ==
  /\ progress = "wait" /\ kid \in {"exited", "signalled"}
  /\ report' = kidStatus /\ End(0)
  /\ UNCHANGED kidVars

\* waitpid returns when the child has ended; the status of a child that
\* exited is reported.
Waitpid ==
  /\ progress = "wait"
  /\ \/ kid = "exited" /\ report' = kidStatus /\ End(0)
     \/ kid = "signalled" /\ End(1) /\ UNCHANGED report
  /\ UNCHANGED kidVars

\* waitpid finds no child: SIGCHLD was ignored when the program was started.
WaitpidFails ==
  /\ progress = "wait" /\ kid \in {"exited", "signalled"}
  /\ End(1)
  /\ UNCHANGED report
  /\ UNCHANGED kidVars

-----------------------------------------------------------------------------
(* The child *)

Exits(n) == kid' = "exited" /\ kidStatus' = n % 256 /\ wanted' = n

ReturnTen == kid = "forked" /\ source = "fork_wait" /\ Exits(10)

Execvp ==
  /\ kid = "forked" /\ source = "exec"
  /\ \/ /\ argument \in Programs
        /\ kid' = "executing" /\ UNCHANGED <<kidStatus, wanted>>
     \/ Exits(1)

ProgramExits == kid = "executing" /\ \E n \in Statuses : Exits(n)

\* A signal ends the child (external).
Signalled ==
  /\ kid \in {"forked", "executing"} /\ kid' = "signalled"
  /\ UNCHANGED <<kidStatus, wanted>>

Next ==
  /\ \/ Begin \/ Fork \/ ForkFails \/ Waitpid \/ WaitpidFails
     \/ /\ ReturnTen \/ Execvp \/ ProgramExits \/ Signalled
        /\ UNCHANGED parentVars
  /\ UNCHANGED <<source, argument>>

Spec == Init /\ [][Next]_vars
-----------------------------------------------------------------------------
(* Properties *)

(* A parent that returns 0 has reported the status of a child that exited,
   up to its low 8 bits, and no other parent reports a status; only
   fork_wait also returns 0 when fork fails (fork_wait.c:8-11, 17-33,
   exec.c:47-61). *)
SuccessIsReported ==
  progress = "ended" =>
    /\ report # -1 => code = 0 /\ kid = "exited" /\ report = wanted % 256
    /\ code = 0 => report # -1 \/ (source = "fork_wait" /\ kid = "none")
==============================================================================
