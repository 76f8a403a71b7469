-------------------------------- MODULE BqMain --------------------------------
(***************************************************************************)
(* The program of sem25_pthread2/bq/main.c on top of the queue of bq.c:    *)
(* main creates the queue and two threads, waits for a key, stops the      *)
(* consumer, then the producer, and destroys the queue.                    *)
(*                                                                         *)
(* pthread_create reports a failure with a positive number, and main tests *)
(* for a negative one: a thread that could not be created is never         *)
(* noticed, and pthread_join is then called on an uninitialised pthread_t, *)
(* which either returns at once or crashes the process.                    *)
(***************************************************************************)
EXTENDS Integers, Sequences, FiniteSets

CONSTANTS
  Producer, Consumer,  \* the two threads main creates
  Node, Data, NULL     \* see BlockingQueue

\* The two threads are two, and NULL is no cell, no value and no thread.
ASSUME BqMainAssumption ==
  /\ Producer # Consumer
  /\ NULL \notin Node \cup {Producer, Consumer} \cup Data

VARIABLES
  pc, lock, head, tail, next, data, heap, node, status, result, chain,
  app,      \* where each thread is in its own loop in main.c
  stopped,  \* the stopped flag of each thread_info
  queue,    \* "none" before bq_create, then "live", then "destroyed"
  main,     \* where main is
  process,  \* "running", "exited" or "crashed"
  printed   \* history: what the consumer has printed since it called bq_pop

Q == INSTANCE BlockingQueue
       WITH Producers <- {Producer}, Consumers <- {Consumer}

Threads == {Producer, Consumer}
bqVars ==
  <<pc, lock, head, tail, next, data, heap, node, status, result, chain>>
vars == <<bqVars, app, stopped, queue, main, process, printed>>

Running == process = "running"

Init ==
  /\ Q!Init
  /\ app = [t \in Threads |-> "none"]
  /\ stopped = [t \in Threads |-> FALSE]
  /\ queue = "none"
  /\ main = "bq_create"
  /\ process = "running"
  /\ printed = NULL

-----------------------------------------------------------------------------
(* The producer's loop *)

\* while (!ti->stopped)
Test(t, call) ==
  /\ Running
  /\ app[t] = "test"
  /\ app' = [app EXCEPT ![t] = IF stopped[t] THEN "returned" ELSE call]
  /\ UNCHANGED <<stopped, queue, main, process, printed>>
  /\ UNCHANGED bqVars

ProducerTest == Test(Producer, "push")

\* One step inside bq_push; when it returns, with or without an error that
\* nobody looks at, the producer sleeps.
ProducerPush ==
  /\ Running
  /\ app[Producer] = "push"
  /\ \/ \E d \in Data : Q!PushAlloc(Producer, d)
     \/ Q!PushNoMemory(Producer)
     \/ Q!Push(Producer)
  /\ app' = [app EXCEPT ![Producer] =
               IF pc'[Producer] = "idle" THEN "sleep" ELSE "push"]
  /\ UNCHANGED <<stopped, queue, main, process, printed>>

ProducerWakes ==
  /\ Running
  /\ app[Producer] = "sleep"
  /\ app' = [app EXCEPT ![Producer] = "test"]
  /\ UNCHANGED <<stopped, queue, main, process, printed>>
  /\ UNCHANGED bqVars

-----------------------------------------------------------------------------
(* The consumer's loop *)

\* Mutant: the consumer returns when it finds nothing to print.
ConsumerTestNonEmpty ==
  /\ Running
  /\ app[Consumer] = "test"
  /\ app' = [app EXCEPT ![Consumer] =
               IF stopped[Consumer] \/ head = NULL THEN "returned" ELSE "pop"]
  /\ UNCHANGED <<stopped, queue, main, process, printed>>
  /\ UNCHANGED bqVars

ConsumerTest == Test(Consumer, "pop")

\* One step inside bq_pop; when it returns, the value is printed.
ConsumerPop ==
  /\ Running
  /\ app[Consumer] = "pop"
  /\ Q!PopCall(Consumer) \/ Q!SpuriousWakeup(Consumer) \/ Q!Pop(Consumer)
  /\ app' = [app EXCEPT ![Consumer] =
               IF pc'[Consumer] = "idle" THEN "print" ELSE "pop"]
  /\ printed' = NULL
  /\ UNCHANGED <<stopped, queue, main, process>>

ConsumerPrints ==
  /\ Running
  /\ app[Consumer] = "print"
  /\ app' = [app EXCEPT ![Consumer] = "test"]
  /\ printed' = result[Consumer]
  /\ UNCHANGED <<stopped, queue, main, process>>
  /\ UNCHANGED bqVars

-----------------------------------------------------------------------------
(* main *)

At(from, to) == Running /\ main = from /\ main' = to

\* The queue is created, or main returns 1.
CreateQueue ==
  /\ \/ /\ At("bq_create", "create_consumer")
        /\ queue' = "live"
        /\ UNCHANGED process
     \/ /\ At("bq_create", "done")
        /\ process' = "exited"
        /\ UNCHANGED queue
  /\ UNCHANGED <<app, stopped, printed>>
  /\ UNCHANGED bqVars

\* pthread_create: whether or not the thread exists, main goes on.
Create(t, from, to) ==
  /\ At(from, to)
  /\ app' \in {app, [app EXCEPT ![t] = "test"]}
  /\ UNCHANGED <<stopped, queue, process, printed>>
  /\ UNCHANGED bqVars

\* The key that getchar waits for.
Key ==
  /\ At("getchar", "stop_first")
  /\ UNCHANGED <<app, stopped, queue, process, printed>>
  /\ UNCHANGED bqVars

\* Mutant: the producer is stopped and joined first.
StopOrderSwapped == <<Producer, Consumer>>

StopOrder == <<Consumer, Producer>>

Stop(t, from, to) ==
  /\ At(from, to)
  /\ stopped' = [stopped EXCEPT ![t] = TRUE]
  /\ UNCHANGED <<app, queue, process, printed>>
  /\ UNCHANGED bqVars

\* Mutant: main goes on without waiting for the thread.
JoinNot(t, from, to) ==
  /\ At(from, to)
  /\ UNCHANGED <<app, stopped, queue, process, printed>>
  /\ UNCHANGED bqVars

\* pthread_join of a thread that exists waits for it; of a pthread_t that
\* pthread_create never wrote, it returns or the process crashes.
Join(t, from, to) ==
  /\ \/ /\ At(from, to)
        /\ app[t] \in {"returned", "none"}
        /\ UNCHANGED process
     \/ /\ At(from, "done")
        /\ app[t] = "none"
        /\ process' = "crashed"
  /\ UNCHANGED <<app, stopped, queue, printed>>
  /\ UNCHANGED bqVars

\* bq_destroy frees the queue and none of its cells, and main returns 0.
DestroyQueue ==
  /\ At("bq_destroy", "return")
  /\ queue' = "destroyed"
  /\ UNCHANGED <<app, stopped, process, printed>>
  /\ UNCHANGED bqVars

Return ==
  /\ At("return", "done")
  /\ process' = "exited"
  /\ UNCHANGED <<app, stopped, queue, printed>>
  /\ UNCHANGED bqVars

Main ==
  \/ CreateQueue
  \/ Create(Consumer, "create_consumer", "create_producer")
  \/ Create(Producer, "create_producer", "getchar")
  \/ Stop(StopOrder[1], "stop_first", "join_first")
  \/ Join(StopOrder[1], "join_first", "stop_second")
  \/ Stop(StopOrder[2], "stop_second", "join_second")
  \/ Join(StopOrder[2], "join_second", "bq_destroy")
  \/ DestroyQueue
  \/ Return

-----------------------------------------------------------------------------

Next ==
  \/ ProducerTest \/ ProducerPush \/ ProducerWakes
  \/ ConsumerTest \/ ConsumerPop \/ ConsumerPrints
  \/ Main \/ Key

Spec == Init /\ [][Next]_vars

(***************************************************************************)
(* Fairness: every thread keeps running; sleep(2) ends; malloc does not    *)
(* fail for ever; a mutex that becomes free again and again is given in    *)
(* the end to the thread that waits for it (the producer holds it for a    *)
(* few instructions every two seconds).  Nobody has to press a key.        *)
(***************************************************************************)
Fairness ==
  /\ WF_vars(ProducerTest) /\ WF_vars(ProducerPush) /\ WF_vars(ProducerWakes)
  /\ SF_vars(ProducerPush /\ \E d \in Data : Q!PushAlloc(Producer, d))
  /\ SF_vars(ProducerPush /\ Q!PushLock(Producer))
  /\ WF_vars(ConsumerTest) /\ WF_vars(ConsumerPrints)
  /\ WF_vars(ConsumerPop /\ (Q!PopCall(Consumer) \/ Q!Pop(Consumer)))
  /\ SF_vars(ConsumerPop /\ (Q!PopLock(Consumer) \/ Q!PopRelock(Consumer)))
  /\ WF_vars(Main)

FairSpec == Spec /\ Fairness
-----------------------------------------------------------------------------
(* Properties *)

(* No thread uses the queue after main has destroyed it, whichever of the
   two threads exist and wherever the key finds them (main.c:67-73). *)
QueueOutlivesThreads ==
  /\ \A t \in Threads : app[t] \in {"push", "pop"} => queue = "live"
  /\ queue = "destroyed" => lock = NULL

(* When both threads exist, a key always ends the program: the consumer is
   not left asleep in bq_pop, because the producer outlives it
   (main.c:65-75). *)
ShutdownTerminates ==
  (main = "stop_first" /\ \A t \in Threads : app[t] # "none")
     ~> (process = "exited" /\ queue = "destroyed")

(* A value at the head of the queue is taken out and printed unless a key
   stops the consumer first (main.c:32-35). *)
HeadIsPrinted ==
  \A n \in Node, d \in Data :
    (head = n /\ data[n] = d /\ app[Consumer] # "none" /\ ~stopped[Consumer])
       ~> (printed = d \/ stopped[Consumer])
==============================================================================
