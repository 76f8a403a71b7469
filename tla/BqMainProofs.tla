---------------------------- MODULE BqMainProofs -----------------------------
(***************************************************************************)
(* The program of sem25_pthread2/bq/main.c does with its queue only what a *)
(* queue allows, and destroys it when nobody uses it any more, for any set *)
(* of cells and of values. The inductive invariant MainInv says which      *)
(* threads exist and where they may be at each place of main, and where    *)
(* the holder of the mutex is in the code of bq.c.                         *)
(***************************************************************************)
EXTENDS BqMain, TLAPS

\* A thread that never existed or has returned.
Gone == {"none", "returned"}
\* A thread in the middle of a call of the queue.
Inside == {"push", "pop"}

\* Between pthread_mutex_lock and pthread_mutex_unlock of bq.c, the wait of
\* bq_pop apart.
Critical == {"push.link", "push.tail", "push.signal", "push.unlock",
             "pop.test", "pop.read", "pop.unlink", "pop.unlock"}

\* The types of what the proofs reason about.
Types ==
  /\ app \in [Threads -> Gone \cup Inside \cup {"test", "sleep", "print"}]
  /\ pc \in [Threads -> {"idle"} \cup Q!PushLocs \cup Q!PopLocs]
  /\ queue \in {"none", "live", "destroyed"}

\* A thread outside bq_push and bq_pop is nowhere in them, and the holder of
\* the mutex is in a critical section.
Places ==
  /\ lock \in Threads \cup {NULL}
  /\ \A t \in Threads : /\ app[t] \notin Inside => pc[t] = "idle"
                        /\ lock = t => pc[t] \in Critical

(* What main has done so far: the queue exists from bq_create to
   bq_destroy, threads exist only in between, and bq_destroy comes after
   both joins (main.c:46-76). *)
MainLife ==
  /\ main = "bq_create" => queue = "none"
  /\ main \in {"create_consumer", "create_producer", "getchar", "stop_first", "join_first",
               "stop_second", "join_second", "bq_destroy"} => queue = "live"
  /\ queue = "none" => \A t \in Threads : app[t] = "none"
  /\ queue = "destroyed" => \A t \in Threads : app[t] \in Gone
  /\ main = "create_consumer" => app[Consumer] = "none"
  /\ main \in {"create_consumer", "create_producer"} => app[Producer] = "none"
  /\ main \in {"stop_second", "join_second", "bq_destroy"} => app[Consumer] \in Gone
  /\ main = "bq_destroy" => app[Producer] \in Gone

\* The inductive invariant.
MainInv == Types /\ Places /\ MainLife

\* The invariant holds before main has done anything.
LEMMA InitInv == Init => MainInv
  BY BqMainAssumption
  DEF Init, Q!Init, Q!Threads, Threads, MainInv, Types, Places, MainLife, Gone, Inside

(* A step of bq_push, whichever it is, takes the mutex only at the start of
   a critical section, gives it back at the end of it, and leaves the
   consumer where it was or wakes it up. *)
LEMMA PushPlaces ==
  ASSUME MainInv, ProducerPush
  PROVE  /\ pc' \in [Threads -> {"idle"} \cup Q!PushLocs \cup Q!PopLocs]
         /\ lock' \in Threads \cup {NULL}
         /\ pc'[Consumer] = "idle" <=> pc[Consumer] = "idle"
         /\ \A t \in Threads : lock' = t => pc'[t] \in Critical
<1>0. /\ Producer # Consumer /\ NULL \notin Threads /\ Producer \in Threads /\ Consumer \in Threads
      /\ pc \in [Threads -> {"idle"} \cup Q!PushLocs \cup Q!PopLocs]
      /\ lock \in Threads \cup {NULL}
      /\ \A t \in Threads : lock = t => pc[t] \in Critical
  BY BqMainAssumption DEF Threads, MainInv, Types, Places
<1>u. \A t \in Threads : t = Producer \/ t = Consumer
  BY DEF Threads
<1> USE <1>0, <1>u DEF Critical, Q!PushLocs, Q!PopLocs
<1>1. CASE \E d \in Data : Q!PushAlloc(Producer, d)
  BY <1>1 DEF Q!PushAlloc, Q!GoTo
<1>2. CASE Q!PushNoMemory(Producer)
  BY <1>2 DEF Q!PushNoMemory, Q!queueVars
<1>3. CASE Q!PushLock(Producer)
  BY <1>3 DEF Q!PushLock, Q!GoTo, Q!Acquire
<1>4. CASE Q!PushLink(Producer)
  BY <1>4 DEF Q!PushLink, Q!GoTo
<1>5. CASE Q!PushTail(Producer)
  BY <1>5 DEF Q!PushTail, Q!GoTo
<1>6. CASE Q!PushSignal(Producer)
  BY <1>6 DEF Q!PushSignal, Q!Waiting, Q!queueVars
<1>7. CASE Q!PushUnlock(Producer)
  BY <1>7 DEF Q!PushUnlock, Q!GoTo
<1> QED BY <1>1, <1>2, <1>3, <1>4, <1>5, <1>6, <1>7 DEF ProducerPush, Q!Push

\* A step of bq_pop, that of a spurious wakeup included, leaves the producer
\* where it was and holds the mutex only in a critical section.
LEMMA PopPlaces ==
  ASSUME MainInv, ConsumerPop
  PROVE  /\ pc' \in [Threads -> {"idle"} \cup Q!PushLocs \cup Q!PopLocs]
         /\ lock' \in Threads \cup {NULL}
         /\ pc'[Producer] = pc[Producer]
         /\ \A t \in Threads : lock' = t => pc'[t] \in Critical
<1>0. /\ Producer # Consumer /\ NULL \notin Threads /\ Producer \in Threads /\ Consumer \in Threads
      /\ pc \in [Threads -> {"idle"} \cup Q!PushLocs \cup Q!PopLocs]
      /\ lock \in Threads \cup {NULL}
      /\ \A t \in Threads : lock = t => pc[t] \in Critical
  BY BqMainAssumption DEF Threads, MainInv, Types, Places
<1>u. \A t \in Threads : t = Producer \/ t = Consumer
  BY DEF Threads
<1> USE <1>0, <1>u DEF Critical, Q!PushLocs, Q!PopLocs
<1>1. CASE Q!PopCall(Consumer)
  BY <1>1 DEF Q!PopCall, Q!GoTo, Q!queueVars
<1>2. CASE Q!SpuriousWakeup(Consumer)
  BY <1>2 DEF Q!SpuriousWakeup, Q!GoTo, Q!queueVars
<1>3. CASE Q!PopLock(Consumer)
  BY <1>3 DEF Q!PopLock, Q!GoTo, Q!Acquire
<1>4. CASE Q!PopTest(Consumer)
  BY <1>4 DEF Q!PopTest, Q!GoTo
<1>5. CASE Q!PopRelock(Consumer)
  BY <1>5 DEF Q!PopRelock, Q!GoTo, Q!Acquire
<1>6. CASE Q!PopRead(Consumer)
  BY <1>6 DEF Q!PopRead, Q!GoTo, Q!queueVars
<1>7. CASE Q!PopUnlink(Consumer)
  BY <1>7 DEF Q!PopUnlink, Q!GoTo
<1>8. CASE Q!PopUnlock(Consumer)
  BY <1>8 DEF Q!PopUnlock, Q!GoTo
<1>9. CASE Q!PopFree(Consumer)
  BY <1>9 DEF Q!PopFree, Q!GoTo
<1> QED BY <1>1, <1>2, <1>3, <1>4, <1>5, <1>6, <1>7, <1>8, <1>9 DEF ConsumerPop, Q!Pop

\* Every step of the two loops preserves the invariant (main.c:15-43).
LEMMA ThreadStep ==
  ASSUME MainInv,
         \/ ProducerTest \/ ProducerPush \/ ProducerWakes
         \/ ConsumerTest \/ ConsumerPop \/ ConsumerPrints
  PROVE  MainInv'
<1>i. Types /\ Places /\ MainLife
  BY DEF MainInv
<1>0. UNCHANGED <<queue, main>>
  BY DEF ProducerTest, ProducerPush, ProducerWakes, ConsumerTest, ConsumerPop, ConsumerPrints, Test
<1>1. PICK t \in Threads, to \in Inside \cup {"returned", "test", "sleep", "print"} :
        app[t] \notin Gone /\ app' = [app EXCEPT ![t] = to]
  BY DEF ProducerTest, ProducerPush, ProducerWakes, ConsumerTest, ConsumerPop, ConsumerPrints,
         Test, Threads, Gone, Inside
<1>2. MainLife'
  <2>1. queue = "live"
    BY <1>i, <1>1 DEF MainLife, Types, Gone
  <2>2. \A u \in Threads : app[u] \in Gone => app'[u] = app[u]
    BY <1>i, <1>1 DEF Types
  <2> QED BY <1>0, <1>i, <2>1, <2>2 DEF MainLife, Threads, Gone
<1>3. /\ app' \in [Threads -> Gone \cup Inside \cup {"test", "sleep", "print"}]
      /\ queue' \in {"none", "live", "destroyed"}
  BY <1>0, <1>1, <1>i DEF Types, Gone
<1>4. CASE ProducerPush
  <2>1. Types'
    BY <1>3, <1>4, PushPlaces DEF Types
  <2>2. app' = [app EXCEPT ![Producer] = IF pc'[Producer] = "idle" THEN "sleep" ELSE "push"]
    BY <1>4 DEF ProducerPush
  <2>3. \A u \in Threads : app'[u] \notin Inside => pc'[u] = "idle"
    <3>1. app'[Producer] \notin Inside => pc'[Producer] = "idle"
      BY <1>i, <2>2 DEF Types, Inside, Threads
    <3>2. app'[Consumer] = app[Consumer]
      BY <1>i, <2>2, BqMainAssumption DEF Types, Threads
    <3> QED BY <1>4, <1>i, <3>1, <3>2, PushPlaces DEF Places, Threads
  <2> QED BY <1>2, <1>4, <2>1, <2>3, PushPlaces DEF MainInv, Places
<1>5. CASE ConsumerPop
  <2>1. Types'
    BY <1>3, <1>5, PopPlaces DEF Types
  <2>2. app' = [app EXCEPT ![Consumer] = IF pc'[Consumer] = "idle" THEN "print" ELSE "pop"]
    BY <1>5 DEF ConsumerPop
  <2>3. \A u \in Threads : app'[u] \notin Inside => pc'[u] = "idle"
    <3>1. app'[Consumer] \notin Inside => pc'[Consumer] = "idle"
      BY <1>i, <2>2 DEF Types, Inside, Threads
    <3>2. app'[Producer] = app[Producer]
      BY <1>i, <2>2, BqMainAssumption DEF Types, Threads
    <3> QED BY <1>5, <1>i, <3>1, <3>2, PopPlaces DEF Places, Threads
  <2> QED BY <1>2, <1>5, <2>1, <2>3, PopPlaces DEF MainInv, Places
<1>6. CASE ProducerTest \/ ProducerWakes \/ ConsumerTest \/ ConsumerPrints
  <2>1. UNCHANGED <<pc, lock>>
    BY <1>6 DEF ProducerTest, ProducerWakes, ConsumerTest, ConsumerPrints, Test, bqVars
  <2>2. PICK u \in Threads : /\ app[u] \notin Inside
                            /\ \E v : app' = [app EXCEPT ![u] = v]
    BY <1>6 DEF ProducerTest, ProducerWakes, ConsumerTest, ConsumerPrints, Test, Threads, Inside
  <2>3. \A w \in Threads : app'[w] \notin Inside => app[w] \notin Inside
    BY <1>i, <2>2 DEF Types
  <2>4. Types' /\ Places'
    BY <1>3, <1>i, <2>1, <2>3 DEF Types, Places
  <2> QED BY <1>2, <2>4 DEF MainInv
<1> QED BY <1>4, <1>5, <1>6

\* Every step of main preserves the invariant; a failure of pthread_create
\* that goes unnoticed is one of them.
LEMMA MainStep == MainInv /\ (Main \/ Key) => MainInv'
<1> SUFFICES ASSUME MainInv, Main \/ Key PROVE MainInv'
  OBVIOUS
<1>i. Types /\ Places /\ MainLife
  BY DEF MainInv
<1>u. \A t \in Threads : t = Producer \/ t = Consumer
  BY DEF Threads
<1>0. UNCHANGED <<pc, lock>>
  BY DEF Main, Key, CreateQueue, Create, Stop, Join, DestroyQueue, Return, bqVars
<1>1. CASE CreateQueue
  <2>1. /\ main = "bq_create" /\ UNCHANGED app
        /\ \/ main' = "create_consumer" /\ queue' = "live"
           \/ main' = "done" /\ queue' = queue
    BY <1>1 DEF CreateQueue, At
  <2>2. Types' /\ Places'
    BY <1>0, <1>i, <2>1 DEF Types, Places
  <2>3. MainLife'
    BY <1>i, <2>1 DEF MainLife, Threads, Gone
  <2> QED BY <2>2, <2>3 DEF MainInv
<1>2. CASE \/ Create(Consumer, "create_consumer", "create_producer")
           \/ Create(Producer, "create_producer", "getchar")
  <2>1. PICK t \in Threads :
          /\ app' \in {app, [app EXCEPT ![t] = "test"]}
          /\ app[t] = "none"
          /\ \/ t = Consumer /\ main = "create_consumer" /\ main' = "create_producer"
             \/ t = Producer /\ main = "create_producer" /\ main' = "getchar"
    BY <1>2, <1>i DEF Create, At, MainLife, Threads
  <2>2. UNCHANGED queue /\ queue = "live"
    BY <1>2, <1>i, <2>1 DEF Create, MainLife
  <2>3. Types' /\ Places'
    BY <1>0, <1>i, <2>1, <2>2 DEF Types, Places, Gone, Inside
  <2>4. MainLife'
    BY <1>i, <1>u, <2>1, <2>2, BqMainAssumption DEF MainLife, Types, Threads
  <2> QED BY <2>3, <2>4 DEF MainInv
<1>3. CASE \/ Stop(StopOrder[1], "stop_first", "join_first")
           \/ Stop(StopOrder[2], "stop_second", "join_second") \/ Key
  <2>1. /\ UNCHANGED <<app, queue>>
        /\ \/ main = "stop_first" /\ main' = "join_first"
           \/ main = "stop_second" /\ main' = "join_second"
           \/ main = "getchar" /\ main' = "stop_first"
    BY <1>3 DEF Stop, Key, At
  <2>2. Types' /\ Places'
    BY <1>0, <1>i, <2>1 DEF Types, Places
  <2>3. MainLife'
    BY <1>i, <2>1 DEF MainLife
  <2> QED BY <2>2, <2>3 DEF MainInv
<1>4. CASE \/ Join(StopOrder[1], "join_first", "stop_second")
           \/ Join(StopOrder[2], "join_second", "bq_destroy")
  <2>1. /\ UNCHANGED <<app, queue>>
        /\ \/ main = "join_first" /\ main' = "stop_second" /\ app[Consumer] \in Gone
           \/ main = "join_second" /\ main' = "bq_destroy" /\ app[Producer] \in Gone
           \/ main' = "done"
    BY <1>4 DEF Join, At, StopOrder, Gone
  <2>2. Types' /\ Places'
    BY <1>0, <1>i, <2>1 DEF Types, Places
  <2>3. MainLife'
    BY <1>i, <2>1 DEF MainLife
  <2> QED BY <2>2, <2>3 DEF MainInv
<1>5. CASE DestroyQueue \/ Return
  <2>1. /\ UNCHANGED app
        /\ \/ main = "bq_destroy" /\ main' = "return" /\ queue' = "destroyed"
           \/ main' = "done" /\ queue' = queue
    BY <1>5 DEF DestroyQueue, Return, At
  <2>2. Types' /\ Places'
    BY <1>0, <1>i, <2>1 DEF Types, Places
  <2>3. MainLife'
    BY <1>i, <1>u, <2>1 DEF MainLife
  <2> QED BY <2>2, <2>3 DEF MainInv
<1> QED BY <1>1, <1>2, <1>3, <1>4, <1>5 DEF Main

\* Every step of the program preserves the invariant.
LEMMA StepInv == MainInv /\ [Next]_vars => MainInv'
<1> SUFFICES ASSUME MainInv, UNCHANGED vars PROVE MainInv'
  BY ThreadStep, MainStep DEF Next
<1> QED BY DEF vars, bqVars, MainInv, Types, Places, MainLife

(* For any set of cells and values, no thread is inside bq_push or bq_pop
   once main has destroyed the queue, and the mutex that bq_destroy frees
   is held by nobody (main.c:65-75). *)
THEOREM QueueIsOutlived == Spec => []QueueOutlivesThreads
<1>1. ASSUME MainInv PROVE QueueOutlivesThreads
  <2>i. Types /\ Places /\ MainLife
    BY <1>1 DEF MainInv
  <2>1. \A t \in Threads : app[t] \in Inside => queue = "live"
    BY <2>i DEF Types, MainLife, Gone, Inside
  <2>2. ASSUME queue = "destroyed" PROVE lock = NULL
    <3>1. \A t \in Threads : pc[t] = "idle"
      BY <2>i, <2>2 DEF MainLife, Places, Gone, Inside
    <3>2. \A t \in Threads : lock # t
      BY <2>i, <3>1 DEF Places, Critical
    <3> QED BY <2>i, <3>2 DEF Places
  <2> QED BY <2>1, <2>2 DEF QueueOutlivesThreads, Inside
<1>2. MainInv => QueueOutlivesThreads
  BY <1>1
<1> QED BY <1>2, InitInv, StepInv, PTL DEF Spec

-----------------------------------------------------------------------------
\* A step of the program is a step of the queue with one producer and one
\* consumer, or leaves the queue as it is.
LEMMA QueueStep == [Next]_vars => [Q!Next]_(Q!vars)
<1>1. UNCHANGED bqVars => UNCHANGED Q!vars
  BY DEF bqVars, Q!vars
<1>2. ProducerPush => Q!Next
  BY DEF ProducerPush, Q!Next
<1>3. ConsumerPop => Q!Next
  BY DEF ConsumerPop, Q!Next
<1>4. \/ ProducerTest \/ ProducerWakes \/ ConsumerTest \/ ConsumerPrints \/ Main \/ Key
      \/ UNCHANGED vars
      => UNCHANGED bqVars
  BY DEF ProducerTest, ProducerWakes, ConsumerTest, ConsumerPrints, Test, Main, Key,
         CreateQueue, Create, Stop, Join, DestroyQueue, Return, vars
<1> QED BY <1>1, <1>2, <1>3, <1>4 DEF Next

(* The program uses its queue as bq.c expects: each of its behaviours is
   one of the queue alone, so that whatever holds of every behaviour of the
   queue with one producer and one consumer holds of the program's queue. *)
THEOREM RunsTheQueue == Spec => Q!Spec
<1>1. Init => Q!Init
  BY DEF Init
<1> QED BY <1>1, QueueStep, PTL DEF Spec, Q!Spec

-----------------------------------------------------------------------------
(* What is proved of the queue for any threads, restated for the queue of
   the program: the theorems of the queue hold of every behaviour of it,
   and RunsTheQueue says that the program's behaviours are among them. *)
QW == INSTANCE BlockingQueueWakeups
        WITH Producers <- {Producer}, Consumers <- {Consumer}
QR == INSTANCE BlockingQueueRefinement
        WITH Producers <- {Producer}, Consumers <- {Consumer}

\* The two threads of main are what the queue asks of its threads.
LEMMA QueueConstants == QW!BQAssumption /\ QR!BQAssumption
<1>1. /\ <<Producer, Consumer>> \in Seq({Producer, Consumer})
      /\ \A t \in {Producer, Consumer} :
            \E n \in 1..Len(<<Producer, Consumer>>) : <<Producer, Consumer>>[n] = t
  OBVIOUS
<1>2. QW!IsFiniteSet({Producer, Consumer}) /\ QR!IsFiniteSet({Producer, Consumer})
  BY <1>1 DEF QW!IsFiniteSet, QR!IsFiniteSet
<1> QED
  BY <1>2, BqMainAssumption
  DEF QW!BQAssumption, QW!Threads, QR!BQAssumption, QR!Threads

\* The queue of the two theorem modules is the queue the program runs.
LEMMA QueueOfWakeups ==
  /\ Q!Init => QW!Init
  /\ [Q!Next]_(Q!vars) => [QW!Next]_(QW!vars)
  BY
  DEF Q!Init, QW!Init, Q!Next, QW!Next, Q!vars, QW!vars, Q!Threads,
      QW!Threads, Q!queueVars, QW!queueVars, Q!PushLocs, QW!PushLocs,
      Q!PopLocs, QW!PopLocs, Q!Waiting, QW!Waiting, Q!GoTo, QW!GoTo,
      Q!Acquire, QW!Acquire, Q!PushAlloc, QW!PushAlloc, Q!PushNoMemory,
      QW!PushNoMemory, Q!PushLock, QW!PushLock, Q!PushLink, QW!PushLink,
      Q!PushTail, QW!PushTail, Q!PushSignal, QW!PushSignal, Q!PushUnlock,
      QW!PushUnlock, Q!Push, QW!Push, Q!PopCall, QW!PopCall, Q!PopLock,
      QW!PopLock, Q!PopTest, QW!PopTest, Q!SpuriousWakeup,
      QW!SpuriousWakeup, Q!PopRelock, QW!PopRelock, Q!PopRead, QW!PopRead,
      Q!PopUnlink, QW!PopUnlink, Q!PopUnlock, QW!PopUnlock, Q!PopFree,
      QW!PopFree, Q!Pop, QW!Pop

LEMMA QueueOfRefinement ==
  /\ Q!Init => QR!Init
  /\ [Q!Next]_(Q!vars) => [QR!Next]_(QR!vars)
  BY
  DEF Q!Init, QR!Init, Q!Next, QR!Next, Q!vars, QR!vars, Q!Threads,
      QR!Threads, Q!queueVars, QR!queueVars, Q!PushLocs, QR!PushLocs,
      Q!PopLocs, QR!PopLocs, Q!Waiting, QR!Waiting, Q!GoTo, QR!GoTo,
      Q!Acquire, QR!Acquire, Q!PushAlloc, QR!PushAlloc, Q!PushNoMemory,
      QR!PushNoMemory, Q!PushLock, QR!PushLock, Q!PushLink, QR!PushLink,
      Q!PushTail, QR!PushTail, Q!PushSignal, QR!PushSignal, Q!PushUnlock,
      QR!PushUnlock, Q!Push, QR!Push, Q!PopCall, QR!PopCall, Q!PopLock,
      QR!PopLock, Q!PopTest, QR!PopTest, Q!SpuriousWakeup,
      QR!SpuriousWakeup, Q!PopRelock, QR!PopRelock, Q!PopRead, QR!PopRead,
      Q!PopUnlink, QR!PopUnlink, Q!PopUnlock, QR!PopUnlock, Q!PopFree,
      QR!PopFree, Q!Pop, QR!Pop

(* Neither thread ever touches a cell that is not allocated, whenever main
   creates, stops and joins them (bq.c:50-77, main.c:10-76). *)
THEOREM ProgramIsMemorySafe == Spec => []Q!MemorySafe
<1>1. QW!Spec => []QW!MemorySafe
  BY QueueConstants, QW!MemorySafety
<1>2. QW!MemorySafe => Q!MemorySafe
  BY DEF Q!MemorySafe, QW!MemorySafe, Q!Touches, QW!Touches, Q!Threads, QW!Threads
<1> QED
  BY <1>1, <1>2, RunsTheQueue, QueueOfWakeups, PTL DEF Q!Spec, QW!Spec

(* While the consumer sleeps in bq_pop every cell in the list has a signal
   on its way: neither the stop flags nor the shutdown of main loses a
   wakeup (bq.c:58, 66-68, main.c:65-75). *)
THEOREM ProgramLosesNoWakeup == Spec => []Q!NoLostWakeup
<1>1. QW!Spec => []QW!NoLostWakeup
  BY QueueConstants, QW!WakeupsAreNotLost
<1>2. QW!NoLostWakeup => Q!NoLostWakeup
  BY DEF Q!NoLostWakeup, QW!NoLostWakeup, Q!Takers, QW!Takers, Q!Signallers, QW!Signallers,
         Q!Waiting, QW!Waiting, Q!Cardinality, QW!Cardinality, Q!IsFiniteSet, QW!IsFiniteSet
<1> QED
  BY <1>1, <1>2, RunsTheQueue, QueueOfWakeups, PTL DEF Q!Spec, QW!Spec

(* What the consumer pops is what the producer pushed, in that order, each
   value once, up to the end of the program (main.c:15-43). *)
THEOREM ProgramIsFifo == Spec => QR!ImplementsFifo
<1>1. QR!Spec => QR!ImplementsFifo
  BY QueueConstants, QR!Refinement
<1> QED
  BY <1>1, RunsTheQueue, QueueOfRefinement, PTL DEF Q!Spec, QR!Spec

-----------------------------------------------------------------------------
(* The shutdown never gets stuck.  That it ends is liveness and not proved
   here; that nobody can block it is. *)

\* main waits for nothing, or only for a thread that has returned.
MainMayStep ==
  \/ main \notin {"getchar", "join_first", "join_second", "done"}
  \/ main = "join_first" /\ app[Consumer] \in Gone
  \/ main = "join_second" /\ app[Producer] \in Gone

\* Thread t exists and neither sleeps in bq_pop nor waits for the mutex.
MayStep(t) ==
  /\ app[t] \notin Gone
  /\ app[t] \in Inside =>
       /\ pc[t] # "pop.wait"
       /\ pc[t] \in {"push.lock", "pop.lock", "pop.relock"} => lock = NULL

(* If the producer was created, somebody can always take a step while the
   program runs, without a spurious wakeup: main is in no pthread_join that
   nobody can end. *)
NeverStuck ==
  Running /\ app[Producer] # "none" => MainMayStep \/ \E t \in Threads : MayStep(t)

\* A thread returns when its flag is set; main sets the flags one after the
\* other, the producer's when the consumer is gone.
StopInv ==
  /\ main \in {"bq_create", "create_consumer", "create_producer", "getchar", "stop_first",
               "join_first", "stop_second", "join_second", "bq_destroy", "return", "done"}
  /\ Running => main # "done"
  /\ stopped \in [Threads -> BOOLEAN]
  /\ \A t \in Threads : app[t] = "returned" => stopped[t]
  /\ main \in {"bq_create", "create_consumer", "create_producer", "getchar", "stop_first",
               "join_first", "stop_second"} => ~stopped[Producer]

LEMMA StopStep == MainInv /\ StopInv /\ [Next]_vars => StopInv'
<1> SUFFICES ASSUME MainInv, StopInv, [Next]_vars PROVE StopInv'
  OBVIOUS
<1>0. app \in [Threads -> Gone \cup Inside \cup {"test", "sleep", "print"}]
      /\ Producer \in Threads /\ Consumer \in Threads /\ Producer # Consumer
  BY BqMainAssumption DEF MainInv, Types, Threads
<1> USE DEF StopInv
<1>1. CASE \/ ProducerTest \/ ProducerPush \/ ProducerWakes
           \/ ConsumerTest \/ ConsumerPop \/ ConsumerPrints
  <2>1. UNCHANGED <<stopped, main, process>>
    BY <1>1 DEF ProducerTest, ProducerPush, ProducerWakes, ConsumerTest, ConsumerPop,
                ConsumerPrints, Test
  <2>2. PICK t \in Threads, to \in Inside \cup {"returned", "test", "sleep", "print"} :
          app' = [app EXCEPT ![t] = to] /\ (to = "returned" => stopped[t])
    BY <1>1 DEF ProducerTest, ProducerPush, ProducerWakes, ConsumerTest, ConsumerPop,
                ConsumerPrints, Test, Threads, Inside
  <2>3. \A u \in Threads : app'[u] = "returned" => stopped[u]
    BY <1>0, <2>2
  <2> QED BY <2>1, <2>3 DEF Running
<1>2. CASE \/ CreateQueue \/ DestroyQueue \/ Return \/ Key
  BY <1>2 DEF CreateQueue, DestroyQueue, Return, Key, At, Running
<1>3. CASE \/ Create(Consumer, "create_consumer", "create_producer")
           \/ Create(Producer, "create_producer", "getchar")
  BY <1>0, <1>3 DEF Create, At, Running
<1>4. CASE \/ Stop(StopOrder[1], "stop_first", "join_first")
           \/ Stop(StopOrder[2], "stop_second", "join_second")
  BY <1>0, <1>4 DEF Stop, StopOrder, At, Running
<1>5. CASE \/ Join(StopOrder[1], "join_first", "stop_second")
           \/ Join(StopOrder[2], "join_second", "bq_destroy")
  BY <1>5 DEF Join, At, Running
<1>6. CASE UNCHANGED vars
  BY <1>6 DEF vars, Running
<1> QED BY <1>1, <1>2, <1>3, <1>4, <1>5, <1>6 DEF Next, Main

(* Neither thread nor main can be made to wait for all the others, wherever
   the key finds them: the consumer is stopped while the producer still
   runs, and the holder of the mutex never sleeps (main.c:65-75,
   bq.c:45-78). *)
THEOREM ShutdownIsNeverStuck == Spec => []NeverStuck
<1>1. ASSUME MainInv, StopInv, Q!TypeOK PROVE NeverStuck
  <2> SUFFICES ASSUME Running, app[Producer] # "none"
               PROVE  MainMayStep \/ \E t \in Threads : MayStep(t)
    BY DEF NeverStuck
  <2>0. /\ app \in [Threads -> Gone \cup Inside \cup {"test", "sleep", "print"}]
        /\ Producer \in Threads /\ Consumer \in Threads
        /\ pc[Producer] \in {"idle"} \cup Q!PushLocs
        /\ lock \in {Producer, Consumer, NULL}
    BY <1>1 DEF MainInv, Types, Places, Threads, Q!TypeOK
  <2>1. CASE app[Producer] = "returned"
    BY <1>1, <2>0, <2>1 DEF StopInv, MainMayStep, Gone
  <2>2. CASE app[Producer] # "returned" /\ app[Producer] \notin Inside
    BY <2>0, <2>2 DEF MayStep, Gone
  <2>3. CASE app[Producer] \in Inside /\ (pc[Producer] = "push.lock" => lock = NULL)
    BY <2>0, <2>3 DEF MayStep, Gone, Inside, Q!PushLocs
  <2>4. CASE app[Producer] \in Inside /\ pc[Producer] = "push.lock" /\ lock # NULL
    <3>1. lock = Consumer /\ pc[Consumer] \in Critical /\ app[Consumer] \in Inside
      BY <1>1, <2>0, <2>4 DEF MainInv, Places, Critical
    <3> QED BY <2>0, <3>1 DEF MayStep, Critical, Gone, Inside
  <2> QED BY <2>1, <2>2, <2>3, <2>4
<1>2. Init => StopInv
  BY BqMainAssumption DEF Init, StopInv, Running, Threads
<1>3. Spec => []Q!TypeOK
  <2>1. QW!Spec => []QW!TypeOK
    BY QueueConstants, QW!TypeCorrect
  <2>2. QW!TypeOK => Q!TypeOK
    BY DEF Q!TypeOK, QW!TypeOK, Q!Threads, QW!Threads, Q!PushLocs, QW!PushLocs, Q!PopLocs, QW!PopLocs
  <2> QED BY <2>1, <2>2, RunsTheQueue, QueueOfWakeups, PTL DEF Q!Spec, QW!Spec
<1>4. MainInv /\ StopInv /\ Q!TypeOK => NeverStuck
  BY <1>1
<1> QED BY <1>2, <1>3, <1>4, InitInv, StepInv, StopStep, PTL DEF Spec
==============================================================================
