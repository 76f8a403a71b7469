----------------------------- MODULE MCProcesses -----------------------------
(***************************************************************************)
(* The programs of threads, processes and signals that must get somewhere, *)
(* for TLC: timer, parallel_sum, rotatelog and signalfd_example.  They do  *)
(* not interact: a behaviour is one of a single program, which is chosen   *)
(* at the start.  Timer is extended, the others are instantiated.          *)
(***************************************************************************)
EXTENDS Timer

CONSTANTS
  ArrLen, ThreadCount, Value, Garbage, Word, CreateFails,
  Output, ReadBuf, MaxFile, PipeSize, Closed, Failures,
  MaxKills

VARIABLE program
VARIABLES arr, ti, junk, index, adder, refused, k, sum, printed
VARIABLES child, pipe, made, writers, loc, chunk, written, buffer, stream,
          log, old, lost, failed, result
VARIABLES step, mask, watched, waiting, ssi_signo, kills, unserved

Sum == INSTANCE ParallelSum WITH main <- adder
Log == INSTANCE RotateLog
Sfd == INSTANCE SignalFd

ASSUME MCAssumption == Sum!ConstantsOK /\ Log!ConstantsOK /\ Sfd!ConstantsOK

parallelSum == <<arr, ti, junk, index, adder, refused, k, sum, printed>>
rotateLog == <<child, pipe, made, writers, loc, chunk, written, buffer, stream,
               log, old, lost, failed, result>>
signalFd == <<step, mask, watched, waiting, ssi_signo, kills, unserved>>

MCvars == <<program, vars, parallelSum, rotateLog, signalFd>>

\* A program that does not run has one initial state.
MCInit ==
  /\ program \in {"timer", "parallel_sum", "rotatelog", "signalfd"}
  /\ Init /\ Log!Init /\ Sfd!Init
  /\ Sum!Init
  /\ program # "parallel_sum" =>
        /\ \A j \in 1..ArrLen : arr[j] = CHOOSE v \in Value : TRUE
        /\ \A t \in Sum!Thread : junk[t] = CHOOSE g \in Garbage : TRUE

OfTimer(A) ==
  program = "timer" /\ A /\ UNCHANGED <<program, parallelSum, rotateLog, signalFd>>
OfSum(A) ==
  program = "parallel_sum" /\ A /\ UNCHANGED <<program, vars, rotateLog, signalFd>>
OfLog(A) ==
  program = "rotatelog" /\ A /\ UNCHANGED <<program, vars, parallelSum, signalFd>>
OfSfd(A) ==
  program = "signalfd" /\ A /\ UNCHANGED <<program, vars, parallelSum, rotateLog>>

MCNext ==
  OfTimer(Next) \/ OfSum(Sum!Next) \/ OfLog(Log!Next) \/ OfSfd(Sfd!Next)

\* The fairness of each program, as its module states it.
MCSpec ==
  /\ MCInit /\ [][MCNext]_MCvars
  /\ SF_MCvars(OfTimer(process = "running" /\ Main))
  /\ WF_MCvars(OfTimer(process = "running" /\ AlarmExpires))
  /\ \A s \in Signal :
        /\ SF_MCvars(OfTimer(process = "running" /\ Handler /\ Top.sig = s))
        /\ WF_MCvars(OfTimer(process = "running" /\ Deliver(s)))
  /\ WF_MCvars(OfSum(Sum!Main))
  /\ \A t \in Sum!Thread : WF_MCvars(OfSum(Sum!Func(t)))
  /\ WF_MCvars(OfLog(Log!Parent /\ UNCHANGED failed))
  /\ WF_MCvars(OfLog(Log!Child /\ UNCHANGED failed))
  /\ WF_MCvars(OfSfd(Sfd!Main))

BlocksAreDisjoint == Sum!BlocksAreDisjoint
PrintsWhatWasSummed == Sum!PrintsWhatWasSummed
OutputIsKept == Log!OutputIsKept
FilesAreBounded == Log!FilesAreBounded

(* The liveness of each program, for the behaviours that are its own. *)
Finishes == program = "parallel_sum" => Sum!Finishes
LogsUnlessACallFails == program = "rotatelog" => Log!LogsUnlessACallFails
SignalIsWorkedOn == Sfd!SignalIsWorkedOn
==============================================================================
