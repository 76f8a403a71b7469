-------------------------------- MODULE Smaps --------------------------------
(***************************************************************************)
(* The parser of /proc/PID/smaps in libcaos and its two programs:          *)
(* smaps_parser (sem07), which describes one process, and pss_counter      *)
(* (sem10), which adds up all the processes of /proc.  The kernel (external)*)
(* decides on the lines, and processes end while they are looked at.       *)
(*                                                                         *)
(* Every figure is 1 kB.  A path is the number that strcmp orders it by;   *)
(* OwnPath is one that contains the name of the program itself.            *)
(***************************************************************************)
EXTENDS Integers, Sequences, FiniteSets

CONSTANTS
  Entries,   \* the names in /proc
  Pids,      \* those that are numbers
  Paths, OwnPath,
  MaxLines   \* bound: the lines of a file

\* What the constants are.
ConstantsOK ==
  Pids \subseteq Entries /\ Paths \subseteq Nat /\ MaxLines \in Nat

VARIABLES
  tool,      \* "smaps_parser" or "pss_counter"
  stage,     \* where it is; "failed" and "printed" end it
  entries,   \* what readdir has still to return
  count,     \* the lines read from the file
  pss, rss,  \* the sums of one process
  libs,      \* the paths collected from it and not yet freed
  all_pss, all_rss,
  listed,    \* the libraries printed
  figures,   \* history: how often each figure was read
  mapped     \* history: the files mapped for execution, as read

fileVars == <<count, pss, rss, libs>>
history == <<figures, mapped>>
vars == <<tool, stage, entries, fileVars, all_pss, all_rss, listed, history>>

(***************************************************************************)
(* The kinds of line.  Pss_Dirty, Pss_Anon... of recent kernels are "Pss_";*)
(* a name such as Anonymous begins with a hexadecimal digit like an        *)
(* address does ("Hex").  A mapping, executable or not, is of a file, of   *)
(* nothing ("Anon"), or of something in brackets ("Bracket").              *)
(***************************************************************************)
Figure == {"Pss", "Pss_", "Rss"}
Line ==
  {[kind |-> k] : k \in Figure \cup {"Hex"}} \cup
  [kind : {"Anon", "Bracket"}, exec : BOOLEAN] \cup
  [kind : {"File"}, exec : BOOLEAN, path : Paths]

Init ==
  /\ tool \in {"smaps_parser", "pss_counter"}
  /\ stage = IF tool = "smaps_parser" THEN "args" ELSE "opendir"
  /\ entries = Entries
  /\ count = 0 /\ pss = 0 /\ rss = 0 /\ libs = <<>>
  /\ all_pss = 0 /\ all_rss = 0 /\ listed = <<>>
  /\ figures = [f \in Figure |-> 0] /\ mapped = <<>>

-----------------------------------------------------------------------------
(* parse_smaps *)

\* Three characters are compared.
parse_smaps_pss(l) == IF l.kind \in {"Pss", "Pss_"} THEN 1 ELSE 0
parse_smaps_rss(l) == IF l.kind = "Rss" THEN 1 ELSE 0

\* Mutant: bits[2] is not looked at.
LibraryOfAnyBits(l) ==
  IF l.kind = "File" THEN <<l.path>> ELSE <<>>

\* sscanf finds six fields in a mapping that has a name.
parse_smaps_library(l) ==
  IF l.kind = "File" /\ l.exec THEN <<l.path>> ELSE <<>>

ParseLine(l) ==
  /\ stage = "line" /\ count < MaxLines
  /\ count' = count + 1
  /\ pss' = pss + parse_smaps_pss(l)
  /\ rss' = rss + parse_smaps_rss(l)
  /\ \/ libs' = libs \o parse_smaps_library(l) /\ UNCHANGED stage
     \/ /\ parse_smaps_library(l) # <<>>   \* xrealloc ends the program
        /\ stage' = "failed" /\ UNCHANGED libs
  /\ figures' = [f \in Figure |-> figures[f] + (IF l.kind = f THEN 1 ELSE 0)]
  /\ mapped' = IF l.kind = "File" /\ l.exec THEN Append(mapped, l.path)
                                            ELSE mapped
  /\ UNCHANGED <<tool, entries, all_pss, all_rss, listed>>

\* The end of the file; or getline fails, because the process has ended, and
\* xgetline ends the program.
FileEnds ==
  /\ stage = "line" /\ stage' \in {"parsed", "failed"}
  /\ UNCHANGED <<tool, entries, fileVars, all_pss, all_rss, listed, history>>

\* Mutant: the sums of the process before are kept.
FreshSumsKept == UNCHANGED <<pss, rss>>

FreshSums == pss' = 0 /\ rss' = 0

\* fopen; its failure ends smaps_parser, and pss_counter goes on.
Fopen ==
  /\ stage' \in {"line", IF tool = "smaps_parser" THEN "failed" ELSE stage}
  /\ FreshSums
  /\ count' = 0 /\ libs' = <<>>

-----------------------------------------------------------------------------
(* smaps_parser *)

ParseArgs ==
  /\ stage = "args" /\ stage' \in {"open", "failed"}
  /\ UNCHANGED <<tool, entries, fileVars, all_pss, all_rss, listed, history>>

OpenSmaps ==
  /\ stage = "open"
  /\ Fopen
  /\ UNCHANGED <<tool, entries, all_pss, all_rss, listed, history>>

Times(s, x) == Cardinality({k \in DOMAIN s : s[k] = x})
Ascending(s) == \A j, k \in 1..Len(s) : j < k => s[j] <= s[k]

\* qsort with a comparator that is strcmp.
Sorted(s) ==
  {r \in [1..Len(s) -> Paths] :
     Ascending(r) /\ \A p \in Paths : Times(r, p) = Times(s, p)}

\* A process that executes no file is taken for an error.
SortLibraries ==
  /\ tool = "smaps_parser" /\ stage = "parsed"
  /\ IF libs = <<>> THEN stage' = "failed" /\ UNCHANGED libs
     ELSE stage' = "list" /\ libs' \in Sorted(libs)
  /\ UNCHANGED <<tool, entries, count, pss, rss, all_pss, all_rss, listed, history>>

\* strstr looks for the program's own name, and the path is freed.
PrintLibrary ==
  /\ stage = "list"
  /\ IF libs = <<>> THEN stage' = "printed" /\ UNCHANGED <<libs, listed>>
     ELSE /\ listed' = IF Head(libs) = OwnPath THEN listed
                       ELSE Append(listed, Head(libs))
          /\ libs' = Tail(libs) /\ UNCHANGED stage
  /\ UNCHANGED <<tool, entries, count, pss, rss, all_pss, all_rss, history>>

-----------------------------------------------------------------------------
(* pss_counter *)

Opendir ==
  /\ stage = "opendir" /\ stage' \in {"readdir", "failed"}
  /\ UNCHANGED <<tool, entries, fileVars, all_pss, all_rss, listed, history>>

\* A name that is a number is opened, another one passed over.
Readdir ==
  /\ stage = "readdir"
  /\ \E e \in entries :
        /\ entries' = entries \ {e}
        /\ IF e \in Pids THEN Fopen
           ELSE UNCHANGED <<stage, fileVars>>
  /\ UNCHANGED <<tool, all_pss, all_rss, listed, history>>

\* The end of the directory; or, at any time, readdir fails, and continue
\* leaves the loop too: dentry is NULL.
DirectoryEnds ==
  /\ stage = "readdir" /\ stage' = "printed"
  /\ UNCHANGED <<tool, entries, fileVars, all_pss, all_rss, listed, history>>

AddProcess ==
  /\ tool = "pss_counter" /\ stage = "parsed"
  /\ all_pss' = all_pss + pss /\ all_rss' = all_rss + rss
  /\ stage' = "readdir"
  /\ UNCHANGED <<tool, entries, fileVars, listed, history>>

Next ==
  \/ ParseArgs \/ OpenSmaps \/ SortLibraries \/ PrintLibrary
  \/ Opendir \/ Readdir \/ DirectoryEnds \/ AddProcess
  \/ FileEnds \/ \E l \in Line : ParseLine(l)

Spec == Init /\ [][Next]_vars
-----------------------------------------------------------------------------
(* Properties *)

Printed(t) == stage = "printed" /\ tool = t

(* What is printed is the sum of the figures read, over all the processes
   whose file was read to its end, also when others could not be opened.  Of
   Pss this is said for a kernel that writes the figure alone, without its
   parts, Pss_Dirty and the like (smaps_parser.c:12-36, 92-93,
   pss_counter.c:52-67). *)
FiguresAreSummed ==
  /\ Printed("pss_counter") =>
       /\ all_rss = figures["Rss"]
       /\ figures["Pss_"] = 0 => all_pss = figures["Pss"]
  /\ Printed("smaps_parser") =>
       /\ rss = figures["Rss"]
       /\ figures["Pss_"] = 0 => pss = figures["Pss"]

(* smaps_parser lists the files mapped for execution in the order of their
   names, as often as they are mapped, and nothing else; what is in brackets
   and the program itself are left out (smaps_parser.c:38-74, 99-106). *)
LibrariesAreListed ==
  Printed("smaps_parser") =>
    /\ Ascending(listed)
    /\ \A p \in Paths :
          Times(listed, p) = IF p = OwnPath THEN 0 ELSE Times(mapped, p)
==============================================================================
