------------------------------- MODULE DrmDraw -------------------------------
(***************************************************************************)
(* sem12_mmap/drm_draw: main acquires a card, a frame buffer and two       *)
(* mappings, copies a picture and shows it; each call may fail, and what   *)
(* was acquired is released on the way out.  The driver is external.       *)
(*                                                                         *)
(* Memory that was freed, and the encoder that `goto error' left without a *)
(* value, hold anything: using them goes unnoticed or ends the process.    *)
(***************************************************************************)
EXTENDS Integers, Sequences, SequencesExt

CONSTANT MaxConnectors  \* bound: the connectors of the card

\* What the constants are.
ConstantsOK == MaxConnectors \in Nat

VARIABLES
  drm,        \* what the program is about to do, "returned" or "crashed"
  connectors, \* for each connector of the card: is it the one asked for?
  looked,     \* how many the loop has seen
  connector,  \* the pointer: an index, or 0 for NULL
  live,       \* the connectors that are allocated
  encoder,    \* "unset", "NULL" or "held"
  owned,      \* the other resources the process has
  misuse      \* history: what was used without being held

vars == <<drm, connectors, looked, connector, live, encoder, owned, misuse>>
search == <<connectors, looked, connector, live>>

Init ==
  /\ drm = "open_card"
  /\ connectors \in SeqOf({"match", "other", "missing"}, MaxConnectors)
  /\ looked = 0 /\ connector = 0 /\ live = {} /\ encoder = "unset"
  /\ owned = {} /\ misuse = {}

\* A call that acquires a resource, or fails and leaves for `otherwise'.
Acquire(from, resource, to, otherwise) ==
  /\ drm = from
  /\ \/ owned' = owned \cup {resource} /\ drm' = to
     \/ UNCHANGED owned /\ drm' = otherwise

-----------------------------------------------------------------------------
(* drm_fb_init *)

\* The dumb buffer and the frame buffer stay when a later ioctl fails.
InitFb ==
  /\ drm = "init_fb"
  /\ \/ owned' = owned \cup {"dumb", "framebuffer"} /\ drm' = "resources"
     \/ \E r \in SUBSET {"dumb", "framebuffer"} :
           /\ "framebuffer" \in r => "dumb" \in r
           /\ owned' = owned \cup r /\ drm' = "exit"
  /\ UNCHANGED <<encoder, misuse>> /\ UNCHANGED search

GetResources ==
  /\ Acquire("resources", "res", "search", "exit")
  /\ UNCHANGED <<encoder, misuse>> /\ UNCHANGED search

\* Mutant: every connector is freed, the one that is kept too.
NextConnectorFreed ==
  /\ drm = "search" /\ looked < Len(connectors)
  /\ looked' = looked + 1
  /\ LET found == connectors[looked'] IN
       /\ connector' = IF found = "missing" THEN 0 ELSE looked'
       /\ drm' = IF found = "match" THEN "mode" ELSE "search"
  /\ UNCHANGED <<connectors, live, encoder, owned, misuse>>

\* A connector that is not the one is freed, and stays in the pointer.
NextConnector ==
  /\ drm = "search" /\ looked < Len(connectors)
  /\ looked' = looked + 1
  /\ LET found == connectors[looked'] IN
       /\ connector' = IF found = "missing" THEN 0 ELSE looked'
       /\ live' = IF found = "match" THEN {looked'} ELSE {}
       /\ drm' = IF found = "match" THEN "mode" ELSE "search"
  /\ UNCHANGED <<connectors, encoder, owned, misuse>>

\* Without a connector res is lost.
SearchEnds ==
  /\ drm = "search" /\ looked = Len(connectors)
  /\ drm' = IF connector = 0 THEN "exit" ELSE "mode"
  /\ UNCHANGED <<encoder, owned, misuse>> /\ UNCHANGED search

\* The connector is read or freed; one that is not allocated may end it all.
UseConnector ==
  misuse' = IF connector \in live THEN misuse ELSE misuse \cup {"connector"}
Crash == misuse' # {} /\ drm' = "crashed" /\ UNCHANGED <<encoder, owned>>

\* The preferred mode, or the last one; if there is none, the jump passes
\* over the initialisation of encoder.
ChooseMode ==
  /\ drm = "mode" /\ UseConnector
  /\ \/ drm' \in {"encoder", "error"} /\ UNCHANGED <<encoder, owned>>
     \/ Crash
  /\ UNCHANGED search

GetEncoder ==
  /\ drm = "encoder" /\ UseConnector
  /\ \/ drm' = "malloc" /\ encoder' = "held" /\ UNCHANGED owned
     \/ drm' = "error" /\ encoder' = "NULL" /\ UNCHANGED owned
     \/ Crash
  /\ UNCHANGED search

\* The structure is filled in from the connector.
MallocFb ==
  /\ drm = "malloc"
  /\ \/ /\ Acquire("malloc", "fb", "map_fb", "error") /\ UNCHANGED encoder
        /\ IF drm' = "map_fb" THEN UseConnector ELSE UNCHANGED misuse
     \/ UseConnector /\ Crash
  /\ UNCHANGED search

\* The label error: encoder, connector and res are freed, NULL is returned.
FreeAll ==
  /\ drm = "error"
  /\ misuse' = misuse
       \cup (IF encoder = "unset" THEN {"encoder"} ELSE {})
       \cup (IF connector \in live THEN {} ELSE {"connector"})
  /\ \/ /\ drm' = "exit" /\ live' = live \ {connector}
        /\ encoder' = IF encoder = "unset" THEN encoder ELSE "NULL"
        /\ owned' = owned \ {"res"}
     \/ Crash /\ UNCHANGED live
  /\ UNCHANGED <<connectors, looked, connector>>

-----------------------------------------------------------------------------
(* main *)

OpenCard == Acquire("open_card", "card", "init_fb", "returned")
MapFb == Acquire("map_fb", "fb_map", "open_file", "exit")
OpenFile == Acquire("open_file", "file", "fstat", "exit")
Fstat == drm = "fstat" /\ drm' \in {"map_file", "exit"} /\ UNCHANGED owned
MapFile == Acquire("map_file", "file_map", "memcpy", "exit")

\* A file that has shrunk since fstat ends the process with SIGBUS.
Memcpy == drm = "memcpy" /\ drm' \in {"draw", "crashed"} /\ UNCHANGED owned

\* drm_draw: the mode is copied out of the connector; the result of
\* drmSetMaster is ignored, and when SETCRTC fails the card is not dropped.
\* main leaves in either case.
Draw ==
  /\ drm = "draw" /\ UseConnector
  /\ \/ /\ drm' = "exit" /\ owned' \in {owned, owned \cup {"master"}}
        /\ UNCHANGED encoder
     \/ Crash
  /\ UNCHANGED search

\* The label exit: everything main has, but file_map, whose size was never
\* set, and what drm_fb_release leaves alone.
Release ==
  /\ drm = "exit" /\ drm' = "returned"
  /\ owned' = owned \ {"file", "fb_map", "fb", "card"}

Main ==
  /\ \/ OpenCard \/ MapFb \/ OpenFile \/ Fstat \/ MapFile \/ Memcpy \/ Release
  /\ UNCHANGED <<encoder, misuse>> /\ UNCHANGED search

Next ==
  \/ Main
  \/ InitFb \/ GetResources \/ NextConnector \/ SearchEnds \/ ChooseMode
  \/ GetEncoder \/ MallocFb \/ FreeAll \/ Draw

Spec == Init /\ [][Next]_vars
-----------------------------------------------------------------------------
(* Properties *)

Matches == \E i \in DOMAIN connectors : connectors[i] = "match"

(* If the card has the connector that was asked for, then whichever call
   fails nothing is used or freed that the process does not hold, by
   drm_fb_init or later by drm_draw, but for the encoder of a connector
   without modes; what drm_fb_init has acquired from the card's resources is
   then either in the structure it returns or freed once
   (drm_fb.c:75-168). *)
UsesWhatItHolds ==
  Matches =>
    /\ misuse \subseteq {"encoder"}
    /\ drm \in {"exit", "returned"} /\ connector # 0 =>
         \/ "res" \in owned /\ live = {connector} /\ encoder = "held"
         \/ "res" \notin owned /\ live = {} /\ encoder # "held"
==============================================================================
