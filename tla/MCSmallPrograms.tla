--------------------------- MODULE MCSmallPrograms ---------------------------
(***************************************************************************)
(* The programs that are checked for safety alone, for TLC.  They do not   *)
(* interact: a behaviour is one of a single program, which is chosen at    *)
(* the start, and the variables of the others keep their initial values.   *)
(* Collatz and Brightness are extended, the others are instantiated.       *)
(***************************************************************************)
EXTENDS Collatz, Brightness, Sequences, FiniteSets

CONSTANTS
  ArrLen, ProcessCount, LineLen, StdoutSize,
  Programs, Statuses,
  ChunkSize, OutSize, MaxInput,
  Entries, Pids, Paths, OwnPath, MaxLines,
  Names, Hidden, Sizes, MaxSz, MaxChanges,
  MaxConnectors,
  Files, MaxSize, BufferSize,
  Page, Letter, Symbol,
  Capacity, Word, MaxCalls,
  SumHalf

VARIABLE program
VARIABLES parent, i, child, index, arr, terminal, held, shown, killed
VARIABLES source, argument, progress, code, report, kid, kidStatus, wanted
VARIABLES copier, alarmed, errno, typed, eof, taken, nr, nw, moved, pipe, out,
          unread, short, failed
VARIABLES memory, next, alarm, printed
VARIABLES tool, stage, entries, count, pss, rss, libs, all_pss, all_rss,
          listed, figures, mapped
VARIABLES walk, dir, ahead, dentry, st, changes, first, touched, raced,
          refused, victim, complete
VARIABLES drm, connectors, looked, connector, live, encoder, owned, misuse
VARIABLES cat, at, arg, length, file_size, pos, buffer, stdout, writes,
          changed, errors, cut
VARIABLES scanner, scan, text, stack, s, c, ptr, counted, verdict
VARIABLES reader, obj_arr, obj_arr_size, ret, called, given, calls
VARIABLES call, low, ebx, high, edx, number32, number64, output

POp == INSTANCE ParallelOp
CSt == INSTANCE ChildStatus
Ein == INSTANCE Eintr
Rac == INSTANCE RaceCondition
Sma == INSTANCE Smaps
Rem == INSTANCE RemoveFiles
Drm == INSTANCE DrmDraw
Cat1 == INSTANCE Cat
Str == INSTANCE Strings
Obj == INSTANCE ObjArr
Wid == INSTANCE WideSum WITH Half <- SumHalf, eax <- low, ecx <- high

ASSUME MCAssumption ==
  /\ POp!ConstantsOK /\ CSt!ConstantsOK /\ Ein!ConstantsOK /\ Sma!ConstantsOK
  /\ Rem!ConstantsOK /\ Drm!ConstantsOK /\ Cat1!ConstantsOK
  /\ Str!ConstantsOK /\ Obj!ConstantsOK /\ Wid!ConstantsOK

collatz == <<label, eax, term>>
parallelOp == <<parent, i, child, index, arr, terminal, held, shown, killed>>
childStatus == <<source, argument, progress, code, report, kid, kidStatus,
                 wanted>>
eintr == <<copier, alarmed, errno, typed, eof, taken, nr, nw, moved, pipe, out,
           unread, short, failed>>
raceCondition == <<memory, next, alarm, printed>>
smaps == <<tool, stage, entries, count, pss, rss, libs, all_pss, all_rss,
           listed, figures, mapped>>
removeFiles == <<walk, dir, ahead, dentry, st, changes, first, touched, raced,
                 refused, victim, complete>>
drmDraw == <<drm, connectors, looked, connector, live, encoder, owned, misuse>>
cats == <<cat, at, arg, length, file_size, pos, buffer, stdout, writes, changed,
          errors, cut>>
strings == <<scanner, scan, text, stack, s, c, ptr, counted, verdict>>
objArr == <<reader, obj_arr, obj_arr_size, ret, called, given, calls>>
wideSum == <<call, low, ebx, high, edx, number32, number64, output>>

MCvars == <<program, collatz, sseVars, parallelOp, childStatus, eintr,
            raceCondition, smaps, removeFiles, drmDraw, cats, strings, objArr,
            wideSum>>

\* A program that does not run has one initial state.
MCInit ==
  /\ program \in {"t2", "image_brightness", "parallel_op", "child_status",
                  "eintr_example", "race_condition", "smaps", "remove_files",
                  "drm_draw", "cat", "strings", "oop_asm", "t1"}
  /\ Init /\ (program # "t2" => eax = 1)
  /\ SseInit
  /\ program # "image_brightness" => line = <<0>> /\ brightness = 0
  /\ POp!Init /\ (program # "parallel_op" => ~terminal)
  /\ CSt!Init
  /\ program # "child_status" => source = "exec" /\ argument = "none"
  /\ Ein!Init /\ (program # "eintr_example" => ~pipe)
  /\ Rac!Init
  /\ Sma!Init /\ (program # "smaps" => tool = "smaps_parser")
  /\ Rem!Init
  /\ program # "remove_files" => \A n \in Names : dir[n] = Rem!Absent
  /\ Drm!Init /\ (program # "drm_draw" => connectors = <<>>)
  /\ Cat1!Init
  /\ program # "cat" => cat = "cat1" /\ \A f \in 1..Files : length[f] = 0
  /\ Str!Init
  /\ program # "strings" =>
        /\ scanner = "strchr" /\ s = 0 /\ c = CHOOSE x \in Symbol : TRUE
        /\ \A a \in Str!Address : stack[a] = 0
  /\ Obj!Init /\ Wid!Init

\* The program takes a step; the variables of the others keep their values.
MCNext ==
  /\ UNCHANGED program
  /\ \/ program = "t2" /\ Next
     \/ program # "t2" /\ UNCHANGED collatz
  /\ \/ program = "image_brightness" /\ SseBlock
     \/ program # "image_brightness" /\ UNCHANGED sseVars
  /\ \/ program = "parallel_op" /\ POp!Next
     \/ program # "parallel_op" /\ UNCHANGED parallelOp
  /\ \/ program = "child_status" /\ CSt!Next
     \/ program # "child_status" /\ UNCHANGED childStatus
  /\ \/ program = "eintr_example" /\ Ein!Next
     \/ program # "eintr_example" /\ UNCHANGED eintr
  /\ \/ program = "race_condition" /\ Rac!Next
     \/ program # "race_condition" /\ UNCHANGED raceCondition
  /\ \/ program = "smaps" /\ Sma!Next
     \/ program # "smaps" /\ UNCHANGED smaps
  /\ \/ program = "remove_files" /\ Rem!Next
     \/ program # "remove_files" /\ UNCHANGED removeFiles
  /\ \/ program = "drm_draw" /\ Drm!Next
     \/ program # "drm_draw" /\ UNCHANGED drmDraw
  /\ \/ program = "cat" /\ Cat1!Next
     \/ program # "cat" /\ UNCHANGED cats
  /\ \/ program = "strings" /\ Str!Next
     \/ program # "strings" /\ UNCHANGED strings
  /\ \/ program = "oop_asm" /\ Obj!Next
     \/ program # "oop_asm" /\ UNCHANGED objArr
  /\ \/ program = "t1" /\ Wid!Next
     \/ program # "t1" /\ UNCHANGED wideSum

MCSpec == MCInit /\ [][MCNext]_MCvars

DoubledOnce == POp!DoubledOnce
OutputIsInherited == POp!OutputIsInherited
SuccessIsReported == CSt!SuccessIsReported
CopiesStdin == Ein!CopiesStdin
TornInsideACopy == Rac!TornInsideACopy
FiguresAreSummed == Sma!FiguresAreSummed
LibrariesAreListed == Sma!LibrariesAreListed
RemovesTheBig == Rem!RemovesTheBig
UsesWhatItHolds == Drm!UsesWhatItHolds
PrintsFilesInTurn == Cat1!PrintsFilesInTurn
ScanIsExact == Str!ScanIsExact
ObjectsKeepTheirState == Obj!ObjectsKeepTheirState
SumIsExact == Wid!SumIsExact
==============================================================================
