------------------------------ MODULE FifoQueue ------------------------------
(***************************************************************************)
(* What a blocking queue promises (sem25_pthread2/bq/bq.h:23-27): "bq_push *)
(* adds to the end", "bq_pop returns the element at the head and removes   *)
(* it".  A call is three instants: it is made, it takes effect at one      *)
(* moment, it returns.  Neither a mutex nor a condition variable, a list   *)
(* nor a heap is visible here; BlockingQueue is shown to implement this.   *)
(***************************************************************************)
EXTENDS Integers, Sequences

CONSTANTS
  Producers,  \* threads that call bq_push
  Consumers,  \* threads that call bq_pop
  Data,       \* the values that travel through the queue
  NULL        \* no value

Threads == Producers \cup Consumers

VARIABLES
  queue,   \* the values in the queue, oldest first
  call,    \* how far each thread's current call has got
  arg,     \* the value a producer's unfinished call has still to add
  status,  \* what a producer's last completed call returned: 0 or -1
  result   \* what a consumer's last effective call has returned or will

vars == <<queue, call, arg, status, result>>

Init ==
  /\ queue = <<>>
  /\ call = [t \in Threads |-> "idle"]
  /\ arg = [p \in Producers |-> NULL]
  /\ status = [p \in Producers |-> 0]
  /\ result = [c \in Consumers |-> NULL]

Advance(t, from, to) ==
  /\ call[t] = from
  /\ call' = [call EXCEPT ![t] = to]

PushCall(p, d) ==
  /\ Advance(p, "idle", "called")
  /\ arg' = [arg EXCEPT ![p] = d]
  /\ UNCHANGED <<queue, status, result>>

\* A push may fail, and then it has no effect on the queue.
PushFail(p) ==
  /\ call[p] = "idle"
  /\ status' = [status EXCEPT ![p] = -1]
  /\ UNCHANGED <<queue, call, arg, result>>

PushEffect(p) ==
  /\ Advance(p, "called", "done")
  /\ queue' = Append(queue, arg[p])
  /\ arg' = [arg EXCEPT ![p] = NULL]
  /\ UNCHANGED <<status, result>>

PushReturn(p) ==
  /\ Advance(p, "done", "idle")
  /\ status' = [status EXCEPT ![p] = 0]
  /\ UNCHANGED <<queue, arg, result>>

PopCall(c) ==
  /\ Advance(c, "idle", "called")
  /\ result' = [result EXCEPT ![c] = NULL]
  /\ UNCHANGED <<queue, arg, status>>

\* A pop takes effect only when there is an element: until then it blocks.
PopEffect(c) ==
  /\ Advance(c, "called", "done")
  /\ queue # <<>>
  /\ result' = [result EXCEPT ![c] = Head(queue)]
  /\ queue' = Tail(queue)
  /\ UNCHANGED <<arg, status>>

PopReturn(c) ==
  /\ Advance(c, "done", "idle")
  /\ UNCHANGED <<queue, arg, status, result>>

Next ==
  \/ \E p \in Producers :
        \/ \E d \in Data : PushCall(p, d)
        \/ PushFail(p) \/ PushEffect(p) \/ PushReturn(p)
  \/ \E c \in Consumers : PopCall(c) \/ PopEffect(c) \/ PopReturn(c)

Spec == Init /\ [][Next]_vars
==============================================================================
