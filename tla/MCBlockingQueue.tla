--------------------------- MODULE MCBlockingQueue ---------------------------
(* TLC instances of BlockingQueue: threads, cells and values are model
   values, interchangeable in the runs that check no liveness. *)
EXTENDS BlockingQueue, TLC

CellAndThreadSymmetry ==
  Permutations(Producers) \cup Permutations(Consumers) \cup Permutations(Node)
==============================================================================
