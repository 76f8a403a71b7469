----------------------------- MODULE RemoveFiles -----------------------------
(***************************************************************************)
(* sem11_fs/remove_files/remove_files.c: every entry of a directory is     *)
(* examined with fstatat and unlinked when it is big.  Other processes     *)
(* change the directory meanwhile, and what is examined and what is        *)
(* unlinked have only the name in common.                                  *)
(***************************************************************************)
EXTENDS Integers

CONSTANTS
  Names, Hidden,  \* file names, and those that begin with a dot
  Sizes,          \* the sizes that files have
  MaxSz,          \* MAX_SZ
  MaxChanges      \* bound: what other processes do to the directory

\* What the constants are.
ConstantsOK ==
  /\ Hidden \subseteq Names /\ Sizes \subseteq Nat
  /\ MaxSz \in Nat /\ MaxChanges \in Nat

Absent == [kind |-> "absent", size |-> 0]
File == [kind : {"file", "directory"}, size : Sizes]

VARIABLES
  walk,     \* "open", "readdir", "stat", "unlink" or "returned"
  dir,      \* the file behind each name
  ahead,    \* the names that readdir has still to return
  dentry,   \* the name it returned last
  st,       \* what fstatat has said last
  changes,  \* how often other processes have changed a name
  first,    \* history: dir when it was opened
  touched,  \* history: the names changed since
  raced,    \* history: the names changed between fstatat and unlinkat
  refused,  \* history: the names for which a call failed
  victim,   \* history: the file last unlinked under each name
  complete  \* history: readdir has come to the end

vars == <<walk, dir, ahead, dentry, st, changes, first, touched, raced,
          refused, victim, complete>>
history == <<first, touched, raced, refused, victim, complete>>

Init ==
  /\ walk = "open"
  /\ dir \in [Names -> File \cup {Absent}]
  /\ ahead = {} /\ dentry = "none" /\ st = Absent /\ changes = 0
  /\ first = dir /\ touched = {} /\ raced = {} /\ refused = {}
  /\ victim = [n \in Names |-> Absent] /\ complete = FALSE

-----------------------------------------------------------------------------

\* Another process creates, replaces or removes a file.
Change(n) ==
  /\ walk # "returned" /\ changes < MaxChanges
  /\ changes' = changes + 1
  /\ \E f \in File \cup {Absent} : f # dir[n] /\ dir' = [dir EXCEPT ![n] = f]
  /\ IF walk = "open" THEN first' = dir' /\ UNCHANGED touched
     ELSE touched' = touched \cup {n} /\ UNCHANGED first
  /\ raced' = IF walk = "unlink" /\ n = dentry THEN raced \cup {n} ELSE raced
  /\ UNCHANGED <<walk, ahead, dentry, st, refused, victim, complete>>

\* opendir; without a directory, or an argument, the program returns 1.
Opendir ==
  /\ walk = "open"
  /\ \/ walk' = "readdir" /\ ahead' = Names
     \/ walk' = "returned" /\ UNCHANGED ahead
  /\ UNCHANGED <<dir, dentry, st, changes>>
  /\ UNCHANGED history

\* A name that was there all the time is returned once, one that came or went
\* perhaps (external).  Hidden names are passed over.
Readdir ==
  /\ walk = "readdir"
  /\ \E n \in ahead :
        /\ n \in touched \/ dir[n] # Absent
        /\ ahead' = ahead \ {n} /\ dentry' = n
        /\ walk' = IF n \in Hidden THEN "readdir" ELSE "stat"
  /\ UNCHANGED <<dir, st, changes>>
  /\ UNCHANGED history

\* The end, or an error: `continue' tests the condition of the loop, and a
\* null dentry ends it.  The program returns 0.
ReaddirEnds ==
  /\ walk = "readdir" /\ walk' = "returned"
  /\ complete' \in {FALSE, \A n \in ahead : n \in touched \/ dir[n] = Absent}
  /\ UNCHANGED <<dir, ahead, dentry, st, changes, first, touched, raced,
                 refused, victim>>

\* Mutant: what failed is not examined, but what was examined before is used.
FstatatUnchecked ==
  /\ walk = "stat"
  /\ \/ dir[dentry] # Absent /\ st' = dir[dentry] /\ UNCHANGED refused
     \/ refused' = refused \cup {dentry} /\ UNCHANGED st
  /\ walk' = IF st'.size >= MaxSz THEN "unlink" ELSE "readdir"
  /\ UNCHANGED <<dir, ahead, dentry, changes, first, touched, raced, victim,
                 complete>>

\* A big file is to be removed; a failing fstatat passes over the name.
Fstatat ==
  /\ walk = "stat"
  /\ \/ /\ dir[dentry] # Absent
        /\ st' = dir[dentry]
        /\ walk' = IF st'.size >= MaxSz THEN "unlink" ELSE "readdir"
        /\ UNCHANGED refused
     \/ /\ walk' = "readdir" /\ refused' = refused \cup {dentry}
        /\ UNCHANGED st
  /\ UNCHANGED <<dir, ahead, dentry, changes, first, touched, raced, victim,
                 complete>>

\* A directory is never unlinked; the file that is need not be the one that
\* was examined.
Unlinkat ==
  /\ walk = "unlink" /\ walk' = "readdir"
  /\ \/ /\ dir[dentry].kind = "file"
        /\ victim' = [victim EXCEPT ![dentry] = dir[dentry]]
        /\ dir' = [dir EXCEPT ![dentry] = Absent]
        /\ UNCHANGED refused
     \/ refused' = refused \cup {dentry} /\ UNCHANGED <<dir, victim>>
  /\ UNCHANGED <<ahead, dentry, st, changes, first, touched, raced, complete>>

Next ==
  \/ Opendir \/ Readdir \/ ReaddirEnds \/ Fstatat \/ Unlinkat
  \/ \E n \in Names : Change(n)

Spec == Init /\ [][Next]_vars
-----------------------------------------------------------------------------
(* Properties *)

(* A hidden file is never removed, and one below the limit only if it took
   the place of another between fstatat and unlinkat; and once readdir has
   come to the end, of the names that nobody else has changed, and whose file
   has not just the limit's size, exactly those files are gone that are
   visible, beyond the limit, and for which no call failed
   (remove_files.c:37-83). *)
RemovesTheBig ==
  /\ \A n \in Names : victim[n] # Absent =>
        n \notin Hidden /\ (victim[n].size >= MaxSz \/ n \in raced)
  /\ complete => \A n \in Names \ touched : first[n].size # MaxSz =>
        dir[n] = IF /\ first[n].kind = "file" /\ first[n].size > MaxSz
                    /\ n \notin Hidden \cup refused
                 THEN Absent ELSE first[n]
==============================================================================
