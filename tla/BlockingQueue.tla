---------------------------- MODULE BlockingQueue ----------------------------
(***************************************************************************)
(* The blocking queue of sem25_pthread2/bq/bq.c: a singly linked list of   *)
(* heap cells with a head and a tail pointer, one mutex and one condition  *)
(* variable.  Any number of threads push and pop.  A step is one access to *)
(* shared memory or one pthread call, so that every interleaving the mutex *)
(* allows, and none it forbids, is a behaviour.                            *)
(*                                                                         *)
(* The heap is explicit: malloc hands out any cell that is not in use, one *)
(* that was just freed included, and a freed cell keeps its old contents,  *)
(* so a stale pointer reads stale data instead of failing.                 *)
(***************************************************************************)
EXTENDS Integers, Sequences, FiniteSets

CONSTANTS
  Producers,  \* threads that call bq_push
  Consumers,  \* threads that call bq_pop
  Node,       \* the heap cells malloc can return for a struct bq_node
  Data,       \* the values pushed
  NULL

Threads == Producers \cup Consumers

ASSUME BQAssumption ==
  /\ Producers \cap Consumers = {}
  /\ IsFiniteSet(Threads)
  /\ NULL \notin Node \cup Threads \cup Data

VARIABLES
  pc,      \* where each thread is; "idle" is outside bq_push and bq_pop
  lock,    \* q->lock: the thread that holds it, or NULL
  head,    \* q->head
  tail,    \* q->tail
  next,    \* the next field of every cell
  data,    \* the data field of every cell
  heap,    \* the cells malloc'ed and not yet freed
  node,    \* each thread's local: n in bq_push, head in bq_pop
  status,  \* what bq_push last returned to a producer
  result,  \* bq_pop's local data, then its return value
  chain    \* history: the cells in the list, in the order they were linked

queueVars == <<lock, head, tail, next, data, heap, chain>>
vars == <<pc, lock, head, tail, next, data, heap, node, status, result, chain>>

PushLocs == {"push.lock", "push.link", "push.tail", "push.signal",
             "push.unlock"}
PopLocs  == {"pop.lock", "pop.test", "pop.wait", "pop.relock",
             "pop.read", "pop.unlink", "pop.unlock", "pop.free"}

\* The threads blocked in pthread_cond_wait.
Waiting == {c \in Consumers : pc[c] = "pop.wait"}

-----------------------------------------------------------------------------
(* bq_create: an empty queue. *)

Init ==
  /\ pc = [t \in Threads |-> "idle"]
  /\ lock = NULL
  /\ head = NULL /\ tail = NULL
  /\ next = [n \in Node |-> NULL]
  /\ data \in [Node -> Data]
  /\ heap = {}
  /\ node = [t \in Threads |-> NULL]
  /\ status = [p \in Producers |-> 0]
  /\ result = [c \in Consumers |-> NULL]
  /\ chain = <<>>

GoTo(t, from, to) ==
  /\ pc[t] = from
  /\ pc' = [pc EXCEPT ![t] = to]

\* pthread_mutex_lock: blocks while somebody holds the mutex.
Acquire(t) ==
  /\ lock = NULL
  /\ lock' = t

-----------------------------------------------------------------------------
(* bq_push *)

\* malloc succeeds; the cell is filled before any other thread can see it.
PushAlloc(p, d) ==
  /\ GoTo(p, "idle", "push.lock")
  /\ \E n \in Node \ heap :
        /\ heap' = heap \cup {n}
        /\ node' = [node EXCEPT ![p] = n]
        /\ data' = [data EXCEPT ![n] = d]
        /\ next' = [next EXCEPT ![n] = NULL]
  /\ UNCHANGED <<lock, head, tail, status, result, chain>>

\* Mutant: the error is returned with the sign of errno.
PushNoMemoryErrno(p) ==
  /\ pc[p] = "idle"
  /\ status' = [status EXCEPT ![p] = 12]
  /\ UNCHANGED <<pc, node, result>>
  /\ UNCHANGED queueVars

\* malloc fails: the call returns -1 and has touched nothing.
PushNoMemory(p) ==
  /\ pc[p] = "idle"
  /\ status' = [status EXCEPT ![p] = -1]
  /\ UNCHANGED <<pc, node, result>>
  /\ UNCHANGED queueVars

PushLock(p) ==
  /\ GoTo(p, "push.lock", "push.link")
  /\ Acquire(p)
  /\ UNCHANGED <<head, tail, next, data, heap, node, status, result, chain>>

\* The new cell becomes the head of an empty list, or follows the tail.
PushLink(p) ==
  /\ GoTo(p, "push.link", "push.tail")
  /\ \/ /\ head = NULL
        /\ head' = node[p]
        /\ UNCHANGED next
     \/ /\ head # NULL
        /\ next' = [next EXCEPT ![tail] = node[p]]
        /\ UNCHANGED head
  /\ chain' = Append(chain, node[p])
  /\ UNCHANGED <<lock, tail, data, heap, node, status, result>>

\* Mutant: q->tail is set only by the push that finds the list empty.
PushTailOnce(p) ==
  /\ GoTo(p, "push.tail", "push.signal")
  /\ tail' = IF head = node[p] THEN node[p] ELSE tail
  /\ UNCHANGED <<lock, head, next, data, heap, node, status, result, chain>>

PushTail(p) ==
  /\ GoTo(p, "push.tail", "push.signal")
  /\ tail' = node[p]
  /\ UNCHANGED <<lock, head, next, data, heap, node, status, result, chain>>

\* Mutant: only the push that finds the list empty signals.
PushSignalIfEmpty(p) ==
  /\ pc[p] = "push.signal"
  /\ \/ /\ Waiting = {} \/ head # node[p]
        /\ pc' = [pc EXCEPT ![p] = "push.unlock"]
     \/ \E c \in Waiting :
           /\ head = node[p]
           /\ pc' = [pc EXCEPT ![p] = "push.unlock", ![c] = "pop.relock"]
  /\ UNCHANGED <<node, status, result>>
  /\ UNCHANGED queueVars

\* pthread_cond_signal wakes one waiter if there is one, and is lost otherwise.
PushSignal(p) ==
  /\ pc[p] = "push.signal"
  /\ \/ /\ Waiting = {}
        /\ pc' = [pc EXCEPT ![p] = "push.unlock"]
     \/ \E c \in Waiting :
           pc' = [pc EXCEPT ![p] = "push.unlock", ![c] = "pop.relock"]
  /\ UNCHANGED <<node, status, result>>
  /\ UNCHANGED queueVars

\* The mutex is released and bq_push returns 0; n goes out of scope.
PushUnlock(p) ==
  /\ GoTo(p, "push.unlock", "idle")
  /\ lock' = NULL
  /\ node' = [node EXCEPT ![p] = NULL]
  /\ status' = [status EXCEPT ![p] = 0]
  /\ UNCHANGED <<head, tail, next, data, heap, result, chain>>

Push(p) ==
  \/ PushLock(p) \/ PushLink(p) \/ PushTail(p)
  \/ PushSignal(p) \/ PushUnlock(p)

-----------------------------------------------------------------------------
(* bq_pop *)

PopCall(c) ==
  /\ GoTo(c, "idle", "pop.lock")
  /\ result' = [result EXCEPT ![c] = NULL]
  /\ UNCHANGED <<node, status>>
  /\ UNCHANGED queueVars

PopLock(c) ==
  /\ GoTo(c, "pop.lock", "pop.test")
  /\ Acquire(c)
  /\ UNCHANGED <<head, tail, next, data, heap, node, status, result, chain>>

\* Mutant: the thread sleeps without releasing the mutex.
PopTestHoldingLock(c) ==
  /\ \/ /\ head = NULL
        /\ GoTo(c, "pop.test", "pop.wait")
     \/ /\ head # NULL
        /\ GoTo(c, "pop.test", "pop.read")
  /\ UNCHANGED lock
  /\ UNCHANGED <<head, tail, next, data, heap, node, status, result, chain>>

\* while (!q->head): pthread_cond_wait releases the mutex and blocks at once.
PopTest(c) ==
  /\ \/ /\ head = NULL
        /\ GoTo(c, "pop.test", "pop.wait")
        /\ lock' = NULL
     \/ /\ head # NULL
        /\ GoTo(c, "pop.test", "pop.read")
        /\ UNCHANGED lock
  /\ UNCHANGED <<head, tail, next, data, heap, node, status, result, chain>>

\* pthread_cond_wait may return without a signal.
SpuriousWakeup(c) ==
  /\ GoTo(c, "pop.wait", "pop.relock")
  /\ UNCHANGED <<node, status, result>>
  /\ UNCHANGED queueVars

\* Mutant: if instead of while around pthread_cond_wait.
PopRelockOnce(c) ==
  /\ GoTo(c, "pop.relock", "pop.read")
  /\ Acquire(c)
  /\ UNCHANGED <<head, tail, next, data, heap, node, status, result, chain>>

\* A woken thread takes the mutex again before pthread_cond_wait returns,
\* and the loop tests the head once more.
PopRelock(c) ==
  /\ GoTo(c, "pop.relock", "pop.test")
  /\ Acquire(c)
  /\ UNCHANGED <<head, tail, next, data, heap, node, status, result, chain>>

PopRead(c) ==
  /\ GoTo(c, "pop.read", "pop.unlink")
  /\ node' = [node EXCEPT ![c] = head]
  /\ result' = [result EXCEPT ![c] = data[head]]
  /\ UNCHANGED status
  /\ UNCHANGED queueVars

\* The list may become empty here: tail is left pointing at the old cell.
PopUnlink(c) ==
  /\ GoTo(c, "pop.unlink", "pop.unlock")
  /\ head' = next[node[c]]
  /\ chain' = Tail(chain)
  /\ UNCHANGED <<lock, tail, next, data, heap, node, status, result>>

PopUnlock(c) ==
  /\ GoTo(c, "pop.unlock", "pop.free")
  /\ lock' = NULL
  /\ UNCHANGED <<head, tail, next, data, heap, node, status, result, chain>>

\* Mutant: the cell is not freed.
PopFreeLeaks(c) ==
  /\ GoTo(c, "pop.free", "idle")
  /\ node' = [node EXCEPT ![c] = NULL]
  /\ UNCHANGED <<lock, head, tail, next, data, heap, status, result, chain>>

\* free runs after the mutex is released; then bq_pop returns the data.
PopFree(c) ==
  /\ GoTo(c, "pop.free", "idle")
  /\ heap' = heap \ {node[c]}
  /\ node' = [node EXCEPT ![c] = NULL]
  /\ UNCHANGED <<lock, head, tail, next, data, status, result, chain>>

Pop(c) ==
  \/ PopLock(c) \/ PopTest(c) \/ PopRelock(c) \/ PopRead(c)
  \/ PopUnlink(c) \/ PopUnlock(c) \/ PopFree(c)

-----------------------------------------------------------------------------

Next ==
  \/ \E p \in Producers :
        \/ \E d \in Data : PushAlloc(p, d)
        \/ PushNoMemory(p)
        \/ Push(p)
  \/ \E c \in Consumers :
        \/ PopCall(c)
        \/ SpuriousWakeup(c)
        \/ Pop(c)

Spec == Init /\ [][Next]_vars

(***************************************************************************)
(* Fairness.  A thread that can run is scheduled (weak fairness of every   *)
(* step inside a call), and a mutex that is free again and again is given  *)
(* in the end to each thread that asks for it (strong fairness of the      *)
(* three acquisitions).  Nothing makes a thread start a call, and nothing  *)
(* makes a spurious wakeup happen.                                         *)
(***************************************************************************)
Fairness ==
  /\ \A p \in Producers : WF_vars(Push(p)) /\ SF_vars(PushLock(p))
  /\ \A c \in Consumers :
        WF_vars(Pop(c)) /\ SF_vars(PopLock(c)) /\ SF_vars(PopRelock(c))

FairSpec == Spec /\ Fairness
-----------------------------------------------------------------------------
(* Properties *)

(* Every variable keeps its type: the pointers of bq.c point at cells or
   are NULL, a program counter stays inside the call its thread makes. *)
TypeOK ==
  /\ pc \in [Threads -> {"idle"} \cup PushLocs \cup PopLocs]
  /\ \A p \in Producers : pc[p] \in {"idle"} \cup PushLocs
  /\ \A c \in Consumers : pc[c] \in {"idle"} \cup PopLocs
  /\ lock \in Threads \cup {NULL}
  /\ head \in Node \cup {NULL}
  /\ tail \in Node \cup {NULL}
  /\ next \in [Node -> Node \cup {NULL}]
  /\ data \in [Node -> Data]
  /\ heap \in SUBSET Node
  /\ node \in [Threads -> Node \cup {NULL}]
  /\ status \in [Producers -> {0, -1}]
  /\ result \in [Consumers -> Data \cup {NULL}]
  /\ chain \in Seq(Node)

\* The pointer a thread's next step dereferences or frees (bq.c:53, 71, 73, 77).
Touches(t) ==
  CASE pc[t] = "push.link" /\ head # NULL -> {tail}
    [] pc[t] = "pop.read"                 -> {head}
    [] pc[t] \in {"pop.unlink", "pop.free"} -> {node[t]}
    [] OTHER -> {}

(* No thread ever touches a cell that is not allocated: bq_push writes
   through q->tail although bq_pop frees the cell tail may still name, and
   bq_pop frees outside the mutex (bq.c:50-56, 70-77). *)
MemorySafe == \A t \in Threads : Touches(t) \subseteq heap

Linked == {chain[i] : i \in 1..Len(chain)}
Owns(t) == IF pc[t] \in {"push.lock", "push.link", "pop.unlock", "pop.free"}
           THEN {node[t]} ELSE {}

(* Each allocated cell has exactly one owner, the list or one thread that
   has still to link it or to free it: none is leaked, freed twice or
   reachable after free. *)
OneOwner ==
  /\ \A n \in Node :
        n \in heap <=> n \in Linked \/ \E t \in Threads : n \in Owns(t)
  /\ \A t \in Threads : Owns(t) \cap Linked = {}
  /\ \A t, u \in Threads : t # u => Owns(t) \cap Owns(u) = {}

\* The parts of bq_push and bq_pop between lock and unlock.
Critical == {"push.link", "push.tail", "push.signal", "push.unlock",
             "pop.test", "pop.read", "pop.unlink", "pop.unlock"}

\* The mutex is held by exactly the thread that is in a critical section.
LockInv == \A t \in Threads : pc[t] \in Critical <=> lock = t

\* head, the next fields and tail spell out chain, without a cycle; only
\* between the two writes of bq_push does tail lag one cell behind.
ListInv ==
  /\ head = IF chain = <<>> THEN NULL ELSE chain[1]
  /\ \A i \in 1..Len(chain) :
        next[chain[i]] = IF i = Len(chain) THEN NULL ELSE chain[i + 1]
  /\ \A i, j \in 1..Len(chain) : chain[i] = chain[j] => i = j
  /\ chain # <<>> /\ (\A p \in Producers : pc[p] # "push.tail")
        => tail = chain[Len(chain)]

\* What a thread knows of its local pointer n (bq_push) or head (bq_pop).
LocalInv ==
  /\ \A p \in Producers :
        /\ pc[p] # "idle" => node[p] \in Node
        /\ pc[p] \in {"push.lock", "push.link"} => next[node[p]] = NULL
        /\ pc[p] = "push.tail" =>
              chain # <<>> /\ node[p] = chain[Len(chain)]
  /\ \A c \in Consumers :
        /\ pc[c] \in {"pop.unlink", "pop.unlock", "pop.free"}
              => node[c] \in Node /\ result[c] \in Data
        /\ pc[c] \in {"pop.read", "pop.unlink"} => chain # <<>>
        /\ pc[c] = "pop.unlink" =>
              node[c] = head /\ result[c] = data[head]

(* The inductive invariant: mutual exclusion, the shape of the list, the
   ownership of cells and the threads' locals hold each other up. *)
IInv == TypeOK /\ LockInv /\ ListInv /\ OneOwner /\ LocalInv

\* Consumers that will test the head again before they can block.
Takers == {c \in Consumers :
             pc[c] \in {"pop.test", "pop.relock", "pop.read", "pop.unlink"}}
\* Producers that have linked a cell and have not signalled it yet.
Signallers == {p \in Producers : pc[p] \in {"push.tail", "push.signal"}}

(* No wakeup is lost: while a consumer sleeps in bq_pop there are at least
   as many consumers on their way to the head, or signals on their way to a
   sleeper, as there are elements (bq.c:58, 66-68). *)
NoLostWakeup ==
  Waiting # {} => Len(chain) <= Cardinality(Takers) + Cardinality(Signallers)

\* How far a call has got: made, effective, returned.
AbsCall(t) ==
  CASE pc[t] = "idle" -> "idle"
    [] pc[t] \in {"push.tail", "push.signal", "push.unlock",
                  "pop.unlock", "pop.free"} -> "done"
    [] OTHER -> "called"

(* The oldest element is not left in the queue while a bq_pop has still to
   take one: some consumer takes it, whoever was signalled. *)
HeadIsTaken ==
  \A n \in Node :
    (head = n /\ \E c \in Consumers : AbsCall(c) = "called") ~> (head # n)

(* bq_push never blocks for good: once it has its cell it returns. *)
PushReturns ==
  \A p \in Producers : (pc[p] = "push.lock") ~> (pc[p] = "idle")

(***************************************************************************)
(* The queue implements the FIFO of FifoQueue.  A push takes effect when   *)
(* its cell is linked, a pop when its cell is unlinked.                    *)
(***************************************************************************)
absQueue  == [i \in 1..Len(chain) |-> data[chain[i]]]
absCall   == [t \in Threads |-> AbsCall(t)]
absArg    == [p \in Producers |->
                IF AbsCall(p) = "called" THEN data[node[p]] ELSE NULL]
absResult == [c \in Consumers |->
                IF AbsCall(c) = "called" THEN NULL ELSE result[c]]

Fifo == INSTANCE FifoQueue WITH
  queue <- absQueue, call <- absCall, arg <- absArg, result <- absResult

(* Every behaviour of bq.c is a behaviour of the FIFO: values come out in
   the order they went in, each once, none invented and none lost. *)
ImplementsFifo == Fifo!Spec
==============================================================================
