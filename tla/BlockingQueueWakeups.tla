------------------------- MODULE BlockingQueueWakeups -------------------------
(***************************************************************************)
(* Why bq_push may signal without looking at who waits: a count of the     *)
(* elements, of the signals still to be sent and of the consumers awake    *)
(* inside bq_pop, for any finite set of threads.                           *)
(***************************************************************************)
EXTENDS BlockingQueueProofs, FiniteSetTheorems

\* Any set of threads can be counted.
LEMMA ThreadSetIsFinite ==
  ASSUME NEW S \in SUBSET Threads
  PROVE  IsFiniteSet(S) /\ Cardinality(S) \in Nat
<1>1. IsFiniteSet(S)
  BY BQAssumption, FS_Subset
<1>2. QED
  BY <1>1, FS_CardinalityType

(* No step loses a wakeup.  bq_push adds an element and a signaller at once;
   pthread_cond_signal turns a signaller into a taker if anyone sleeps;
   bq_pop removes an element together with a taker, and a consumer goes to
   sleep only when the list is empty. *)
LEMMA WakeupStep ==
  ASSUME IInv, IInv', NoLostWakeup, [Next]_vars
  PROVE  NoLostWakeup'
<1>0. /\ IsFiniteSet(Takers) /\ Cardinality(Takers) \in Nat
      /\ IsFiniteSet(Signallers) /\ Cardinality(Signallers) \in Nat
      /\ IsFiniteSet(Takers') /\ Cardinality(Takers') \in Nat
      /\ IsFiniteSet(Signallers') /\ Cardinality(Signallers') \in Nat
  <2>1. /\ Takers \subseteq Threads /\ Signallers \subseteq Threads
        /\ Takers' \subseteq Threads /\ Signallers' \subseteq Threads
    BY DEF Takers, Signallers, Threads
  <2>2. QED
    BY <2>1, ThreadSetIsFinite
<1>1. ASSUME UNCHANGED chain, Waiting' \subseteq Waiting,
             Takers \subseteq Takers', Signallers \subseteq Signallers'
      PROVE  NoLostWakeup'
  <2>1. Cardinality(Takers) <= Cardinality(Takers')
    BY <1>0, <1>1, FS_Subset
  <2>2. Cardinality(Signallers) <= Cardinality(Signallers')
    BY <1>0, <1>1, FS_Subset
  <2>3. Len(chain) \in Nat
    BY DEF IInv, TypeOK
  <2>4. QED
    BY <1>0, <1>1, <2>1, <2>2, <2>3 DEF NoLostWakeup
<1> USE DEF IInv, TypeOK, Threads
<1>2. ASSUME NEW p \in Producers,
             \/ \E d \in Data : PushAlloc(p, d)
             \/ PushNoMemory(p) \/ PushLock(p) \/ PushTail(p) \/ PushUnlock(p)
      PROVE  NoLostWakeup'
  <2>1. UNCHANGED chain /\ \A t \in Threads \ {p} : pc'[t] = pc[t]
    BY <1>2
       DEF PushAlloc, PushNoMemory, PushLock, PushTail, PushUnlock, GoTo,
           queueVars
  <2>2. p \notin Consumers
    BY BQAssumption
  <2>3. p \in Signallers => p \in Signallers'
    BY <1>2
       DEF PushAlloc, PushNoMemory, PushLock, PushTail, PushUnlock, GoTo,
           queueVars, Signallers
  <2>4. QED
    BY <1>1, <2>1, <2>2, <2>3 DEF Waiting, Takers, Signallers
<1>3. ASSUME NEW c \in Consumers,
             \/ PopCall(c) \/ SpuriousWakeup(c) \/ PopLock(c) \/ PopRelock(c)
             \/ PopRead(c) \/ PopUnlock(c) \/ PopFree(c)
      PROVE  NoLostWakeup'
  <2>1. UNCHANGED chain /\ (\A t \in Threads \ {c} : pc'[t] = pc[t])
    BY <1>3
       DEF PopCall, SpuriousWakeup, PopLock, PopRelock, PopRead, PopUnlock,
           PopFree, GoTo, queueVars
  <2>2. c \notin Producers
    BY BQAssumption
  <2>3. /\ c \in Takers => c \in Takers'
        /\ c \notin Waiting'
    BY <1>3
       DEF PopCall, SpuriousWakeup, PopLock, PopRelock, PopRead, PopUnlock,
           PopFree, GoTo, queueVars, Takers, Waiting
  <2>4. QED
    BY <1>1, <2>1, <2>2, <2>3 DEF Waiting, Takers, Signallers
<1>4. ASSUME NEW p \in Producers, PushLink(p)
      PROVE  NoLostWakeup'
  <2>1. /\ Waiting' = Waiting /\ Takers' = Takers
        /\ Signallers' = Signallers \cup {p} /\ p \notin Signallers
    BY <1>4, BQAssumption DEF PushLink, GoTo, Waiting, Takers, Signallers
  <2>2. Len(chain) \in Nat /\ Len(chain') = Len(chain) + 1
    <3>1. node[p] \in Node
      BY <1>4 DEF PushLink, GoTo, LocalInv
    <3>2. QED
      BY <1>4, <3>1 DEF PushLink
  <2>3. Cardinality(Signallers') = Cardinality(Signallers) + 1
    BY <1>0, <2>1, FS_AddElement
  <2>4. QED
    BY <1>0, <2>1, <2>2, <2>3 DEF NoLostWakeup
<1>5. ASSUME NEW p \in Producers, PushSignal(p)
      PROVE  NoLostWakeup'
  <2>1. CASE Waiting = {}
    <3>1. Waiting' = {}
      BY <1>5, <2>1, BQAssumption DEF PushSignal, Waiting
    <3>2. QED
      BY <3>1 DEF NoLostWakeup
  <2>2. ASSUME NEW c \in Waiting,
               pc' = [pc EXCEPT ![p] = "push.unlock", ![c] = "pop.relock"]
        PROVE  NoLostWakeup'
    <3>1. /\ UNCHANGED chain
          /\ Takers' = Takers \cup {c} /\ c \notin Takers
          /\ Signallers' = Signallers \ {p} /\ p \in Signallers
      BY <1>5, <2>2, BQAssumption
         DEF PushSignal, queueVars, Waiting, Takers, Signallers
    <3>2. Cardinality(Takers') = Cardinality(Takers) + 1
      BY <1>0, <3>1, FS_AddElement
    <3>3. Cardinality(Signallers') = Cardinality(Signallers) - 1
      BY <1>0, <3>1, FS_RemoveElement
    <3>4. Len(chain) \in Nat /\ Waiting # {}
      BY <2>2
    <3>5. QED
      BY <1>0, <3>1, <3>2, <3>3, <3>4 DEF NoLostWakeup
  <2>3. QED
    BY <1>5, <2>1, <2>2 DEF PushSignal
<1>6. ASSUME NEW c \in Consumers, PopTest(c)
      PROVE  NoLostWakeup'
  <2>1. CASE head = NULL
    <3>1. chain' = <<>>
      <4>1. chain # <<>> => chain[1] \in Node
        BY EmptySeq
      <4>2. chain = <<>>
        BY <2>1, <4>1, BQAssumption DEF ListInv
      <4>3. QED
        BY <4>2, <1>6 DEF PopTest
    <3>2. Len(chain') = 0
      BY <3>1, EmptySeq
    <3>3. QED
      BY <1>0, <3>2 DEF NoLostWakeup
  <2>2. CASE head # NULL
    <3>1. /\ UNCHANGED chain /\ Waiting' = Waiting
          /\ Takers' = Takers /\ Signallers' = Signallers
      BY <1>6, <2>2, BQAssumption
         DEF PopTest, GoTo, Waiting, Takers, Signallers
    <3>2. QED
      BY <1>1, <3>1
  <2>3. QED
    BY <2>1, <2>2
<1>7. ASSUME NEW c \in Consumers, PopUnlink(c)
      PROVE  NoLostWakeup'
  <2>1. /\ Waiting' = Waiting /\ Signallers' = Signallers
        /\ Takers' = Takers \ {c} /\ c \in Takers
    BY <1>7, BQAssumption DEF PopUnlink, GoTo, Waiting, Takers, Signallers
  <2>2. Len(chain) \in Nat /\ Len(chain') = Len(chain) - 1
    <3>1. chain # <<>>
      BY <1>7 DEF PopUnlink, GoTo, LocalInv
    <3>2. QED
      BY <1>7, <3>1, TailFacts DEF PopUnlink
  <2>3. Cardinality(Takers') = Cardinality(Takers) - 1
    BY <1>0, <2>1, FS_RemoveElement
  <2>4. QED
    BY <1>0, <2>1, <2>2, <2>3 DEF NoLostWakeup
<1>8. ASSUME UNCHANGED vars
      PROVE  NoLostWakeup'
  BY <1>1, <1>8 DEF vars, Waiting, Takers, Signallers
<1>9. QED
  BY <1>2, <1>3, <1>4, <1>5, <1>6, <1>7, <1>8 DEF Next, Push, Pop

(* No wakeup is lost, however many producers and consumers share the queue:
   while a consumer sleeps in bq_pop, every element has a consumer on its way
   or a signal still to come (bq.c:58, 66-68). *)
THEOREM WakeupsAreNotLost == Spec => []NoLostWakeup
<1>1. Init => NoLostWakeup
  BY DEF Init, NoLostWakeup, Waiting, Threads
<1>2. IInv /\ IInv' /\ NoLostWakeup /\ [Next]_vars => NoLostWakeup'
  BY WakeupStep
<1>3. QED
  BY <1>1, <1>2, Invariance, PTL DEF Spec
===============================================================================
