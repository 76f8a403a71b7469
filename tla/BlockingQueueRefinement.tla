------------------------ MODULE BlockingQueueRefinement ------------------------
(***************************************************************************)
(* bq.c implements the FIFO of FifoQueue under the mapping at the end of   *)
(* BlockingQueue: a push takes effect when its cell is linked, a pop when  *)
(* its cell is unlinked, and every other step inside a call is invisible.  *)
(***************************************************************************)
EXTENDS BlockingQueueProofs

\* A step the FIFO does not see.
AbsUnchanged == UNCHANGED <<absQueue, absCall, absArg, status, absResult>>

\* The queue bq_create returns is the empty FIFO with no call in progress.
LEMMA FifoInit ==
  ASSUME Init
  PROVE  Fifo!Init
<1>1. absQueue = <<>>
  BY DEF Init, absQueue
<1>2. absCall = [t \in Threads |-> "idle"]
  BY DEF Init, absCall, AbsCall
<1>3. absArg = [p \in Producers |-> NULL]
  BY DEF Init, absArg, AbsCall, Threads
<1>4. absResult = [c \in Consumers |-> NULL]
  BY DEF Init, absResult, AbsCall, Threads
<1>5. QED
  BY <1>1, <1>2, <1>3, <1>4 DEF Init, Fifo!Init, Fifo!Threads, Threads

\* Every step of bq.c is a step of the FIFO or changes nothing it shows.
LEMMA FifoStep ==
  ASSUME IInv, IInv', [Next]_vars
  PROVE  [Fifo!Next]_(Fifo!vars)
<1> USE BQAssumption DEF IInv, TypeOK, Threads
<1>1. ASSUME NEW p \in Producers,
             PushLock(p) \/ PushTail(p) \/ PushSignal(p)
      PROVE  AbsUnchanged
  <2>1. UNCHANGED <<chain, data, node, status, result>>
    BY <1>1 DEF PushLock, PushTail, PushSignal, queueVars
  <2>2. \A t \in Threads : AbsCall(t)' = AbsCall(t)
    BY <1>1 DEF PushLock, PushTail, PushSignal, GoTo, Waiting, AbsCall
  <2>3. QED
    BY <2>1, <2>2 DEF AbsUnchanged, absQueue, absCall, absArg, absResult
<1>2. ASSUME NEW c \in Consumers,
             PopLock(c) \/ PopTest(c) \/ SpuriousWakeup(c) \/ PopRelock(c) \/ PopUnlock(c)
      PROVE  AbsUnchanged
  <2>1. UNCHANGED <<chain, data, node, status, result>>
    BY <1>2
       DEF PopLock, PopTest, SpuriousWakeup, PopRelock, PopUnlock, queueVars
  <2>2. \A t \in Threads : AbsCall(t)' = AbsCall(t)
    BY <1>2
       DEF PopLock, PopTest, SpuriousWakeup, PopRelock, PopUnlock, GoTo,
           AbsCall
  <2>3. QED
    BY <2>1, <2>2 DEF AbsUnchanged, absQueue, absCall, absArg, absResult
<1>3. ASSUME NEW c \in Consumers, PopRead(c)
      PROVE  AbsUnchanged
  <2>1. /\ UNCHANGED <<chain, data, status>>
        /\ \A t \in Threads \ {c} : node'[t] = node[t]
    BY <1>3 DEF PopRead, queueVars
  <2>2. \A t \in Threads : AbsCall(t)' = AbsCall(t)
    BY <1>3 DEF PopRead, GoTo, AbsCall
  <2>3. AbsCall(c) = "called" /\ \A u \in Consumers \ {c} : result'[u] = result[u]
    BY <1>3 DEF PopRead, GoTo, AbsCall
  <2>4. QED
    BY <2>1, <2>2, <2>3 DEF AbsUnchanged, absQueue, absCall, absArg, absResult
<1>4. ASSUME NEW p \in Producers, NEW d \in Data, PushAlloc(p, d)
      PROVE  Fifo!PushCall(p, d)
  <2>1. PICK n \in Node \ heap : /\ node' = [node EXCEPT ![p] = n]
                 /\ data' = [data EXCEPT ![n] = d]
    BY <1>4 DEF PushAlloc
  <2>2. /\ pc[p] = "idle" /\ pc' = [pc EXCEPT ![p] = "push.lock"]
        /\ UNCHANGED <<chain, status, result>>
    BY <1>4 DEF PushAlloc, GoTo
  <2>3. absQueue' = absQueue
    <3>1. \A i \in 1..Len(chain) : chain[i] # n
      BY <2>1 DEF OneOwner, Linked
    <3>2. QED
      BY <2>1, <2>2, <3>1 DEF absQueue
  <2>4. absCall[p] = "idle" /\ absCall' = [absCall EXCEPT ![p] = "called"]
    BY <2>2 DEF absCall, AbsCall
  <2>5. absArg' = [absArg EXCEPT ![p] = d]
    <3>1. AbsCall(p)' = "called" /\ data'[node'[p]] = d
      BY <2>1, <2>2 DEF AbsCall
    <3>2. ASSUME NEW q \in Producers \ {p}
          PROVE  /\ AbsCall(q)' = AbsCall(q)
                 /\ AbsCall(q) = "called" => data'[node'[q]] = data[node[q]]
      <4>1. AbsCall(q)' = AbsCall(q) /\ node'[q] = node[q]
        BY <2>1, <2>2 DEF AbsCall
      <4>2. AbsCall(q) = "called" => pc[q] \in {"push.lock", "push.link"}
        BY DEF AbsCall, PushLocs
      <4>3. AbsCall(q) = "called" => node[q] \in Node /\ node[q] # n
        BY <2>1, <4>2 DEF OneOwner, Owns, LocalInv
      <4>4. QED
        BY <2>1, <4>1, <4>3
    <3>3. ASSUME NEW q \in Producers
          PROVE  (IF AbsCall(q)' = "called" THEN data'[node'[q]] ELSE NULL)
                    = IF q = p THEN d
                      ELSE IF AbsCall(q) = "called" THEN data[node[q]] ELSE NULL
      BY <3>1, <3>2
    <3>4. absArg' = [q \in Producers |->
                       IF AbsCall(q)' = "called" THEN data'[node'[q]] ELSE NULL]
      BY DEF absArg
    <3>5. [absArg EXCEPT ![p] = d] = [q \in Producers |->
             IF q = p THEN d
             ELSE IF AbsCall(q) = "called" THEN data[node[q]] ELSE NULL]
      BY DEF absArg
    <3>6. QED
      BY <3>3, <3>4, <3>5
  <2>6. absResult' = absResult
    BY <2>2 DEF absResult, AbsCall
  <2>7. QED
    BY <2>2, <2>3, <2>4, <2>5, <2>6 DEF Fifo!PushCall, Fifo!Advance
<1>5. ASSUME NEW p \in Producers, PushNoMemory(p)
      PROVE  Fifo!PushFail(p)
  BY <1>5
     DEF PushNoMemory, queueVars, Fifo!PushFail, absQueue, absCall, absArg,
         absResult, AbsCall
<1>6. ASSUME NEW p \in Producers, PushLink(p)
      PROVE  Fifo!PushEffect(p)
  <2>1. /\ pc[p] = "push.link" /\ pc' = [pc EXCEPT ![p] = "push.tail"]
        /\ node[p] \in Node
        /\ chain' = Append(chain, node[p])
        /\ UNCHANGED <<data, node, status, result>>
    BY <1>6 DEF PushLink, GoTo, LocalInv
  <2>2. absArg[p] = data[node[p]]
    BY <2>1 DEF absArg, AbsCall
  <2>3. absQueue' = Append(absQueue, data[node[p]])
    <3>1. absQueue \in Seq(Data) /\ Len(absQueue) = Len(chain)
      BY DEF absQueue
    <3>2. absQueue' \in Seq(Data) /\ Len(absQueue') = Len(chain')
      BY DEF absQueue
    <3>3. /\ Len(chain') = Len(chain) + 1
          /\ chain'[Len(chain) + 1] = node[p]
          /\ \A i \in 1..Len(chain) : chain'[i] = chain[i]
      BY <2>1
    <3>4. data[node[p]] \in Data
      BY <2>1
    <3>5. /\ Append(absQueue, data[node[p]]) \in Seq(Data)
          /\ Len(Append(absQueue, data[node[p]])) = Len(chain')
      BY <3>1, <3>3, <3>4, AppendProperties
    <3>6. \A i \in 1..Len(chain') : absQueue'[i] = Append(absQueue, data[node[p]])[i]
      BY <2>1, <3>1, <3>3, <3>4, AppendProperties DEF absQueue
    <3>7. QED
      BY <3>2, <3>5, <3>6, SeqEqual
  <2>4. absCall[p] = "called" /\ absCall' = [absCall EXCEPT ![p] = "done"]
    BY <2>1 DEF absCall, AbsCall
  <2>5. absArg' = [absArg EXCEPT ![p] = NULL]
    BY <2>1 DEF absArg, AbsCall
  <2>6. absResult' = absResult
    BY <2>1 DEF absResult, AbsCall
  <2>7. QED
    BY <2>1, <2>2, <2>3, <2>4, <2>5, <2>6 DEF Fifo!PushEffect, Fifo!Advance
<1>7. ASSUME NEW p \in Producers, PushUnlock(p)
      PROVE  Fifo!PushReturn(p)
  <2>1. /\ pc[p] = "push.unlock" /\ pc' = [pc EXCEPT ![p] = "idle"]
        /\ status' = [status EXCEPT ![p] = 0]
        /\ node' = [node EXCEPT ![p] = NULL]
        /\ UNCHANGED <<chain, data, result>>
    BY <1>7 DEF PushUnlock, GoTo
  <2>2. absCall[p] = "done" /\ absCall' = [absCall EXCEPT ![p] = "idle"]
    BY <2>1 DEF absCall, AbsCall
  <2>3. UNCHANGED <<absQueue, absArg, absResult>>
    BY <2>1 DEF absQueue, absArg, absResult, AbsCall
  <2>4. QED
    BY <2>1, <2>2, <2>3 DEF Fifo!PushReturn, Fifo!Advance
<1>8. ASSUME NEW c \in Consumers, PopCall(c)
      PROVE  Fifo!PopCall(c)
  <2>1. /\ pc[c] = "idle" /\ pc' = [pc EXCEPT ![c] = "pop.lock"]
        /\ result' = [result EXCEPT ![c] = NULL]
        /\ UNCHANGED <<chain, data, node, status>>
    BY <1>8 DEF PopCall, GoTo, queueVars
  <2>2. absCall[c] = "idle" /\ absCall' = [absCall EXCEPT ![c] = "called"]
    BY <2>1 DEF absCall, AbsCall
  <2>3. absResult' = [absResult EXCEPT ![c] = NULL]
    BY <2>1 DEF absResult, AbsCall
  <2>4. UNCHANGED <<absQueue, absArg>>
    BY <2>1 DEF absQueue, absArg, AbsCall
  <2>5. QED
    BY <2>1, <2>2, <2>3, <2>4 DEF Fifo!PopCall, Fifo!Advance
<1>9. ASSUME NEW c \in Consumers, PopUnlink(c)
      PROVE  Fifo!PopEffect(c)
  <2>1. /\ pc[c] = "pop.unlink" /\ pc' = [pc EXCEPT ![c] = "pop.unlock"]
        /\ chain' = Tail(chain)
        /\ UNCHANGED <<data, node, status, result>>
    BY <1>9 DEF PopUnlink, GoTo
  <2>2. chain # <<>> /\ result[c] = data[chain[1]]
    BY <2>1 DEF LocalInv, ListInv
  <2>a. /\ Len(chain) \in Nat \ {0} /\ Len(chain') = Len(chain) - 1
        /\ \A i \in 1..Len(chain') : chain'[i] = chain[i + 1]
    BY <2>1, <2>2, TailFacts
  <2>3. /\ absQueue \in Seq(Data) /\ absQueue # <<>>
        /\ Len(absQueue) = Len(chain) /\ Head(absQueue) = result[c]
    <3>1. absQueue \in Seq(Data) /\ Len(absQueue) = Len(chain)
      BY DEF absQueue
    <3>2. absQueue # <<>>
      BY <3>1, <2>a, EmptySeq
    <3>3. absQueue[1] = result[c]
      BY <2>2, <2>a DEF absQueue
    <3>4. QED
      BY <3>1, <3>2, <3>3
  <2>4. absQueue' = Tail(absQueue)
    <3>1. absQueue' \in Seq(Data) /\ Len(absQueue') = Len(chain')
      BY DEF absQueue
    <3>2. /\ Tail(absQueue) \in Seq(Data) /\ Len(Tail(absQueue)) = Len(chain) - 1
          /\ \A i \in 1..Len(Tail(absQueue)) : Tail(absQueue)[i] = absQueue[i + 1]
      BY <2>3, TailFacts
    <3>3. \A i \in 1..Len(chain') : absQueue'[i] = absQueue[i + 1]
      BY <2>1, <2>a DEF absQueue
    <3>4. Len(absQueue') = Len(Tail(absQueue))
      BY <2>a, <3>1, <3>2
    <3>5. \A i \in 1..Len(absQueue') : absQueue'[i] = Tail(absQueue)[i]
      <4> DEFINE t == Tail(absQueue)
      <4>1. /\ Len(t) = Len(chain')
            /\ \A i \in 1..Len(t) : t[i] = absQueue[i + 1]
        BY <2>a, <3>2
      <4> HIDE DEF t
      <4>2. \A i \in 1..Len(absQueue') : absQueue'[i] = t[i]
        BY <3>1, <3>3, <4>1
      <4>3. QED
        BY <4>2 DEF t
    <3>6. QED
      BY <3>1, <3>2, <3>4, <3>5, SeqEqual
  <2>5. absCall[c] = "called" /\ absCall' = [absCall EXCEPT ![c] = "done"]
    BY <2>1 DEF absCall, AbsCall
  <2>6. absArg' = absArg
    BY <2>1 DEF absArg, AbsCall
  <2>7. absResult' = [absResult EXCEPT ![c] = result[c]]
    BY <2>1 DEF absResult, AbsCall
  <2>8. QED
    BY <2>1, <2>3, <2>4, <2>5, <2>6, <2>7 DEF Fifo!PopEffect, Fifo!Advance
<1>10. ASSUME NEW c \in Consumers, PopFree(c)
       PROVE  Fifo!PopReturn(c)
  <2>1. /\ pc[c] = "pop.free" /\ pc' = [pc EXCEPT ![c] = "idle"]
        /\ node' = [node EXCEPT ![c] = NULL]
        /\ UNCHANGED <<chain, data, status, result>>
    BY <1>10 DEF PopFree, GoTo
  <2>2. absCall[c] = "done" /\ absCall' = [absCall EXCEPT ![c] = "idle"]
    BY <2>1 DEF absCall, AbsCall
  <2>3. UNCHANGED <<absQueue, absArg, absResult>>
    BY <2>1 DEF absQueue, absArg, absResult, AbsCall
  <2>4. QED
    BY <2>1, <2>2, <2>3 DEF Fifo!PopReturn, Fifo!Advance
<1>11. ASSUME UNCHANGED vars
       PROVE  AbsUnchanged
  BY <1>11
     DEF vars, AbsUnchanged, absQueue, absCall, absArg, absResult, AbsCall
<1>12. AbsUnchanged => UNCHANGED Fifo!vars
  BY DEF AbsUnchanged, Fifo!vars
<1>13. QED
  BY <1>1, <1>2, <1>3, <1>4, <1>5, <1>6, <1>7, <1>8, <1>9, <1>10, <1>11, <1>12
     DEF Next, Push, Pop, Fifo!Next

(* Whatever the threads and the scheduler do, values come out of bq_pop in the
   order bq_push linked them, each once (bq.h:23-27). *)
THEOREM Refinement == Spec => ImplementsFifo
<1>1. Init => Fifo!Init
  BY FifoInit
<1>2. IInv /\ IInv' /\ [Next]_vars => [Fifo!Next]_(Fifo!vars)
  BY FifoStep
<1>3. QED
  BY <1>1, <1>2, Invariance, PTL DEF Spec, ImplementsFifo, Fifo!Spec
================================================================================
