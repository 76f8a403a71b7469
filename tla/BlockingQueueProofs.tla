------------------------- MODULE BlockingQueueProofs -------------------------
(***************************************************************************)
(* Proofs about BlockingQueue for any finite set of threads, any heap and  *)
(* any set of values.                                                      *)
(***************************************************************************)
EXTENDS BlockingQueue, SequenceTheorems, TLAPS

-----------------------------------------------------------------------------
(* Removing the head of a sequence: what PopUnlink does to chain. *)
LEMMA TailFacts ==
  ASSUME NEW S, NEW s \in Seq(S), s # <<>>
  PROVE  /\ Len(s) \in Nat \ {0} /\ s[1] \in S
         /\ Tail(s) \in Seq(S) /\ Len(Tail(s)) = Len(s) - 1
         /\ \A i \in 1..Len(Tail(s)) : Tail(s)[i] = s[i + 1]
         /\ Tail(s) = <<>> <=> Len(s) = 1
<1>1. Len(s) \in Nat \ {0} /\ s[1] \in S
  BY EmptySeq
<1>2. /\ Tail(s) \in Seq(S) /\ Len(Tail(s)) = Len(s) - 1
      /\ \A i \in 1..Len(Tail(s)) : Tail(s)[i] = s[i + 1]
  BY HeadTailProperties
<1>3. \A t \in Seq(S) : t = <<>> <=> Len(t) = 0
  <2>1. TAKE t \in Seq(S)
  <2>2. CASE t = <<>>
    BY <2>2, EmptySeq, Zenon
  <2>3. CASE t # <<>>
    <3>1. Len(t) # 0
      BY <2>3, EmptySeq
    <3>2. QED
      BY <2>3, <3>1
  <2>4. QED
    BY <2>2, <2>3
<1>4. Tail(s) = <<>> <=> Len(Tail(s)) = 0
  BY <1>2, <1>3, Zenon
<1>5. QED
  BY <1>1, <1>2, <1>4

\* When no element occurs twice, the others are the elements of the tail.
LEMMA TailElements ==
  ASSUME NEW S, NEW s \in Seq(S), s # <<>>,
         \A i, j \in 1..Len(s) : s[i] = s[j] => i = j
  PROVE  LET Elements(q) == {q[i] : i \in 1..Len(q)} IN
         /\ s[1] \in Elements(s)
         /\ Elements(Tail(s)) = Elements(s) \ {s[1]}
<1> DEFINE Elements(q) == {q[i] : i \in 1..Len(q)}
<1>1. /\ Len(s) \in Nat \ {0} /\ Len(Tail(s)) = Len(s) - 1
      /\ \A i \in 1..Len(Tail(s)) : Tail(s)[i] = s[i + 1]
  BY TailFacts
<1>2. 1 \in 1..Len(s)
  BY <1>1
<1>3. Elements(Tail(s)) \subseteq Elements(s) \ {s[1]}
  <2>1. \A i \in 1..Len(Tail(s)) : i + 1 \in 1..Len(s) /\ s[i + 1] # s[1]
    BY <1>1, <1>2
  <2>2. QED
    BY <1>1, <2>1
<1>4. Elements(s) \ {s[1]} \subseteq Elements(Tail(s))
  <2>1. \A i \in 1..Len(s) :
           s[i] # s[1] => i - 1 \in 1..Len(Tail(s)) /\ s[i] = Tail(s)[i - 1]
    BY <1>1
  <2>2. QED
    BY <2>1
<1>5. QED
  BY <1>2, <1>3, <1>4

-----------------------------------------------------------------------------
(* The inductive invariant holds of the queue that bq_create returns. *)
LEMMA InvInit ==
  ASSUME Init
  PROVE  IInv
<1>1. TypeOK
  BY EmptySeq DEF Init, TypeOK, Threads
<1>2. LockInv
  BY BQAssumption DEF Init, LockInv, Critical, Threads
<1>3. ListInv
  BY DEF Init, ListInv
<1>4. OneOwner
  BY DEF Init, OneOwner, Owns, Linked
<1>5. LocalInv
  BY DEF Init, LocalInv, Threads
<1>6. QED
  BY <1>1, <1>2, <1>3, <1>4, <1>5 DEF IInv

(* Every step of bq.c preserves the inductive invariant.  One step of the
   proof for each action, and under it one for each part of the invariant.
   Where an action takes the mutex or holds it, LockInv says that no other
   thread is between lock and unlock, so the list is as this thread left it;
   where it touches a cell outside the mutex, OneOwner says that the cell is
   not in the list. *)
LEMMA InvStep ==
  ASSUME IInv, [Next]_vars
  PROVE  IInv'
<1> USE BQAssumption DEF IInv, Threads
<1>1. ASSUME NEW p \in Producers, NEW d \in Data, PushAlloc(p, d) PROVE IInv'
  <2>1. TypeOK' BY <1>1 DEF PushAlloc, GoTo, TypeOK, PushLocs
  <2>2. LockInv' BY <1>1 DEF PushAlloc, GoTo, LockInv, Critical
  <2>3. ListInv' BY <1>1 DEF PushAlloc, GoTo, ListInv, OneOwner, Linked
  <2>4. OneOwner'
    BY <1>1, <2>1 DEF PushAlloc, GoTo, TypeOK, ListInv, OneOwner, Owns, Linked
  <2>5. LocalInv'
    BY <1>1 DEF PushAlloc, GoTo, TypeOK, ListInv, LocalInv, OneOwner, Linked
  <2>6. QED BY <2>1, <2>2, <2>3, <2>4, <2>5
<1>2. ASSUME NEW p \in Producers, PushNoMemory(p) PROVE IInv'
  <2>1. TypeOK' BY <1>2 DEF PushNoMemory, queueVars, TypeOK
  <2>2. LockInv' BY <1>2 DEF PushNoMemory, queueVars, LockInv
  <2>3. ListInv' BY <1>2 DEF PushNoMemory, queueVars, ListInv
  <2>4. OneOwner'
    BY <1>2 DEF PushNoMemory, queueVars, OneOwner, Owns, Linked
  <2>5. LocalInv' BY <1>2 DEF PushNoMemory, queueVars, LocalInv
  <2>6. QED BY <2>1, <2>2, <2>3, <2>4, <2>5
<1>3. ASSUME NEW p \in Producers, PushLock(p) PROVE IInv'
  <2>1. TypeOK' BY <1>3 DEF PushLock, GoTo, Acquire, TypeOK, PushLocs
  <2>2. LockInv'
    BY <1>3 DEF PushLock, GoTo, Acquire, TypeOK, LockInv, Critical
  <2>3. ListInv'
    BY <1>3 DEF PushLock, Acquire, ListInv, LockInv, Critical
  <2>4. OneOwner' BY <1>3 DEF PushLock, GoTo, OneOwner, Owns, Linked
  <2>5. LocalInv' BY <1>3 DEF PushLock, GoTo, LocalInv
  <2>6. QED BY <2>1, <2>2, <2>3, <2>4, <2>5
<1>4. ASSUME NEW p \in Producers, PushLink(p) PROVE IInv'
  <2>0. node[p] \in Node BY <1>4 DEF PushLink, GoTo, LocalInv
  <2>a. chain' \in Seq(Node) BY <1>4, <2>0 DEF PushLink, TypeOK
  <2>b. next' \in [Node -> Node \cup {NULL}]
    BY <1>4 DEF PushLink, TypeOK
  <2>c. head' \in Node \cup {NULL} BY <1>4 DEF PushLink, TypeOK
  <2>1. TypeOK' BY <1>4, <2>a DEF PushLink, GoTo, TypeOK, PushLocs
  <2>2. LockInv' BY <1>4 DEF PushLink, GoTo, LockInv, Critical
  <2>3. ListInv'
    BY <1>4, <2>1
       DEF PushLink, GoTo, TypeOK, ListInv, LocalInv, OneOwner, Owns, Linked,
           LockInv, Critical, PushLocs
  <2>4. OneOwner'
    BY <1>4
       DEF PushLink, GoTo, TypeOK, LocalInv, OneOwner, Owns, Linked, LockInv,
           Critical, PushLocs
  <2>5. LocalInv'
    BY <1>4, <2>1
       DEF PushLink, GoTo, TypeOK, ListInv, LocalInv, OneOwner, Owns, Linked,
           LockInv, Critical, PushLocs
  <2>6. QED BY <2>1, <2>2, <2>3, <2>4, <2>5
<1>5. ASSUME NEW p \in Producers, PushTail(p) PROVE IInv'
  <2>1. TypeOK' BY <1>5 DEF PushTail, GoTo, TypeOK, PushLocs
  <2>2. LockInv' BY <1>5 DEF PushTail, GoTo, LockInv, Critical
  <2>3. ListInv' BY <1>5 DEF PushTail, GoTo, ListInv, LocalInv
  <2>4. OneOwner' BY <1>5 DEF PushTail, GoTo, OneOwner, Owns, Linked
  <2>5. LocalInv' BY <1>5 DEF PushTail, GoTo, LocalInv
  <2>6. QED BY <2>1, <2>2, <2>3, <2>4, <2>5
<1>6. ASSUME NEW p \in Producers, PushSignal(p) PROVE IInv'
  <2>1. TypeOK'
    BY <1>6
       DEF PushSignal, Waiting, queueVars, TypeOK, PushLocs, PopLocs, ListInv
  <2>2. LockInv'
    BY <1>6 DEF PushSignal, queueVars, TypeOK, LockInv, Critical
  <2>3. ListInv'
    BY <1>6 DEF PushSignal, queueVars, ListInv, LockInv, Critical
  <2>4. OneOwner'
    BY <1>6
       DEF PushSignal, Waiting, queueVars, TypeOK, ListInv, LocalInv, OneOwner,
           Owns, Linked, LockInv, Critical, PushLocs
  <2>5. LocalInv'
    BY <1>6, <2>1 DEF PushSignal, queueVars, TypeOK, LocalInv, PushLocs
  <2>6. QED BY <2>1, <2>2, <2>3, <2>4, <2>5
<1>7. ASSUME NEW p \in Producers, PushUnlock(p) PROVE IInv'
  <2>1. TypeOK' BY <1>7 DEF PushUnlock, GoTo, TypeOK
  <2>2. LockInv' BY <1>7 DEF PushUnlock, GoTo, TypeOK, LockInv, Critical
  <2>3. ListInv' BY <1>7 DEF PushUnlock, GoTo, ListInv
  <2>4. OneOwner' BY <1>7 DEF PushUnlock, GoTo, OneOwner, Owns, Linked
  <2>5. LocalInv' BY <1>7 DEF PushUnlock, GoTo, TypeOK, LocalInv
  <2>6. QED BY <2>1, <2>2, <2>3, <2>4, <2>5
<1>8. ASSUME NEW c \in Consumers, PopCall(c) PROVE IInv'
  <2>1. TypeOK' BY <1>8 DEF PopCall, GoTo, queueVars, TypeOK, PopLocs
  <2>2. LockInv' BY <1>8 DEF PopCall, GoTo, queueVars, LockInv, Critical
  <2>3. ListInv' BY <1>8 DEF PopCall, GoTo, queueVars, ListInv
  <2>4. OneOwner'
    BY <1>8 DEF PopCall, GoTo, queueVars, OneOwner, Owns, Linked
  <2>5. LocalInv' BY <1>8 DEF PopCall, GoTo, queueVars, LocalInv
  <2>6. QED BY <2>1, <2>2, <2>3, <2>4, <2>5
<1>9. ASSUME NEW c \in Consumers, SpuriousWakeup(c) PROVE IInv'
  <2>1. TypeOK'
    BY <1>9 DEF SpuriousWakeup, GoTo, queueVars, TypeOK, PopLocs
  <2>2. LockInv'
    BY <1>9 DEF SpuriousWakeup, GoTo, queueVars, LockInv, Critical
  <2>3. ListInv' BY <1>9 DEF SpuriousWakeup, GoTo, queueVars, ListInv
  <2>4. OneOwner'
    BY <1>9 DEF SpuriousWakeup, GoTo, queueVars, OneOwner, Owns, Linked
  <2>5. LocalInv' BY <1>9 DEF SpuriousWakeup, GoTo, queueVars, LocalInv
  <2>6. QED BY <2>1, <2>2, <2>3, <2>4, <2>5
<1>10. ASSUME NEW c \in Consumers, PopLock(c) PROVE IInv'
  <2>1. TypeOK' BY <1>10 DEF PopLock, GoTo, Acquire, TypeOK, PopLocs
  <2>2. LockInv'
    BY <1>10 DEF PopLock, GoTo, Acquire, TypeOK, LockInv, Critical
  <2>3. ListInv'
    BY <1>10 DEF PopLock, Acquire, ListInv, LockInv, Critical
  <2>4. OneOwner' BY <1>10 DEF PopLock, GoTo, OneOwner, Owns, Linked
  <2>5. LocalInv' BY <1>10 DEF PopLock, GoTo, LocalInv
  <2>6. QED BY <2>1, <2>2, <2>3, <2>4, <2>5
<1>11. ASSUME NEW c \in Consumers, PopTest(c) PROVE IInv'
  <2>1. TypeOK' BY <1>11 DEF PopTest, GoTo, TypeOK, PopLocs, ListInv
  <2>2. LockInv'
    BY <1>11 DEF PopTest, GoTo, TypeOK, LockInv, Critical, PushLocs
  <2>3. ListInv' BY <1>11 DEF PopTest, GoTo, ListInv, LockInv, Critical
  <2>4. OneOwner'
    BY <1>11
       DEF PopTest, GoTo, TypeOK, ListInv, OneOwner, Owns, Linked, LockInv
  <2>5. LocalInv' BY <1>11 DEF PopTest, GoTo, TypeOK, ListInv, LocalInv
  <2>6. QED BY <2>1, <2>2, <2>3, <2>4, <2>5
<1>12. ASSUME NEW c \in Consumers, PopRelock(c) PROVE IInv'
  <2>1. TypeOK' BY <1>12 DEF PopRelock, GoTo, Acquire, TypeOK, PopLocs
  <2>2. LockInv'
    BY <1>12 DEF PopRelock, GoTo, Acquire, TypeOK, LockInv, Critical
  <2>3. ListInv'
    BY <1>12 DEF PopRelock, Acquire, ListInv, LockInv, Critical
  <2>4. OneOwner' BY <1>12 DEF PopRelock, GoTo, OneOwner, Owns, Linked
  <2>5. LocalInv' BY <1>12 DEF PopRelock, GoTo, LocalInv
  <2>6. QED BY <2>1, <2>2, <2>3, <2>4, <2>5
<1>13. ASSUME NEW c \in Consumers, PopRead(c) PROVE IInv'
  <2>1. TypeOK'
    BY <1>13 DEF PopRead, GoTo, queueVars, TypeOK, PopLocs, ListInv, LocalInv
  <2>2. LockInv'
    BY <1>13 DEF PopRead, GoTo, queueVars, LockInv, Critical
  <2>3. ListInv' BY <1>13 DEF PopRead, GoTo, queueVars, ListInv
  <2>4. OneOwner'
    BY <1>13 DEF PopRead, GoTo, queueVars, OneOwner, Owns, Linked
  <2>5. LocalInv'
    BY <1>13 DEF PopRead, GoTo, queueVars, TypeOK, ListInv, LocalInv
  <2>6. QED BY <2>1, <2>2, <2>3, <2>4, <2>5
<1>14. ASSUME NEW c \in Consumers, PopUnlink(c) PROVE IInv'
  <2>1. TypeOK' BY <1>14 DEF PopUnlink, GoTo, TypeOK, PopLocs, LocalInv
  <2>2. LockInv' BY <1>14 DEF PopUnlink, GoTo, LockInv, Critical
  <2>a. chain # <<>> /\ node[c] = head
    BY <1>14 DEF PopUnlink, GoTo, LocalInv
  <2>h. pc[c] = "pop.unlink" /\ head' = next[head] /\ UNCHANGED <<next, tail>>
    BY <1>14, <2>a DEF PopUnlink, GoTo
  <2>b. /\ Len(chain) \in Nat \ {0}
        /\ Len(chain') = Len(chain) - 1
        /\ \A i \in 1..Len(chain') : chain'[i] = chain[i + 1]
        /\ chain' = <<>> <=> Len(chain) = 1
    BY <1>14, <2>a, TailFacts DEF PopUnlink, TypeOK
  <2>c. /\ lock = c
        /\ (\A q \in Producers : pc[q] # "push.tail" /\ pc'[q] # "push.tail")
    BY <1>14 DEF PopUnlink, GoTo, LockInv, Critical
  <2>3. ListInv'
    <3>1. (head = IF chain = <<>> THEN NULL ELSE chain[1])'
      BY <2>b, <2>h DEF ListInv
    <3>2. (\A i \in 1..Len(chain) :
        next[chain[i]] = IF i = Len(chain) THEN NULL ELSE chain[i + 1])'
       <4>1. TAKE i \in 1..Len(chain')
       <4>2. i + 1 \in 1..Len(chain) BY <2>b
       <4>3. QED BY <2>b, <2>h DEF ListInv
    <3>3. (\A i, j \in 1..Len(chain) : chain[i] = chain[j] => i = j)'
      BY <2>b DEF ListInv
    <3>4. (chain # <<>> => tail = chain[Len(chain)])'
      BY <2>b, <2>c, <2>h DEF ListInv
    <3>5. QED BY <3>1, <3>2, <3>3, <3>4 DEF ListInv
  <2>e. Linked' = Linked \ {node[c]} /\ node[c] \in Linked
    <3>1. chain' = Tail(chain) BY <1>14 DEF PopUnlink
    <3>2. node[c] = chain[1] BY <2>a DEF ListInv
    <3>3. /\ chain \in Seq(Node)
          /\ \A i, j \in 1..Len(chain) : chain[i] = chain[j] => i = j
      BY DEF TypeOK, ListInv
    <3>5. /\ {Tail(chain)[i] : i \in 1..Len(Tail(chain))} = Linked \ {chain[1]}
          /\ chain[1] \in Linked
      BY <2>a, <3>3, TailElements, Zenon DEF Linked
    <3>6. QED BY <3>1, <3>2, <3>5, Zenon DEF Linked
  <2>f. /\ pc[c] = "pop.unlink"
        /\ pc' = [pc EXCEPT ![c] = "pop.unlock"]
        /\ UNCHANGED <<heap, node>>
    BY <1>14 DEF PopUnlink, GoTo
  <2>g. /\ Owns(c) = {}
        /\ Owns(c)' = {node[c]}
        /\ \A t \in Threads : t # c => Owns(t)' = Owns(t)
    BY <2>f DEF Owns, TypeOK
  <2>4. OneOwner' BY <2>e, <2>f, <2>g DEF OneOwner
  <2>5. LocalInv'
    BY <1>14 DEF PopUnlink, GoTo, TypeOK, LocalInv, LockInv, Critical
  <2>6. QED BY <2>1, <2>2, <2>3, <2>4, <2>5
<1>15. ASSUME NEW c \in Consumers, PopUnlock(c) PROVE IInv'
  <2>1. TypeOK' BY <1>15 DEF PopUnlock, GoTo, TypeOK, PopLocs
  <2>2. LockInv' BY <1>15 DEF PopUnlock, GoTo, TypeOK, LockInv, Critical
  <2>3. ListInv' BY <1>15 DEF PopUnlock, GoTo, ListInv
  <2>4. OneOwner' BY <1>15 DEF PopUnlock, GoTo, OneOwner, Owns, Linked
  <2>5. LocalInv' BY <1>15 DEF PopUnlock, GoTo, LocalInv
  <2>6. QED BY <2>1, <2>2, <2>3, <2>4, <2>5
<1>16. ASSUME NEW c \in Consumers, PopFree(c) PROVE IInv'
  <2>1. TypeOK' BY <1>16 DEF PopFree, GoTo, TypeOK
  <2>2. LockInv' BY <1>16 DEF PopFree, GoTo, LockInv, Critical
  <2>3. ListInv' BY <1>16 DEF PopFree, GoTo, ListInv
  <2>a. /\ pc[c] = "pop.free"
        /\ pc' = [pc EXCEPT ![c] = "idle"]
        /\ heap' = heap \ {node[c]}
        /\ Linked' = Linked
        /\ node' = [node EXCEPT ![c] = NULL]
    BY <1>16 DEF PopFree, GoTo, Linked
  <2>b. /\ Owns(c) = {node[c]}
        /\ Owns(c)' = {}
        /\ \A t \in Threads : t # c => Owns(t)' = Owns(t)
    BY <2>a DEF Owns, TypeOK
  <2>4. OneOwner' BY <2>a, <2>b DEF OneOwner
  <2>5. LocalInv' BY <1>16 DEF PopFree, GoTo, TypeOK, LocalInv
  <2>6. QED BY <2>1, <2>2, <2>3, <2>4, <2>5
<1>17. ASSUME UNCHANGED vars PROVE IInv'
  BY <1>17 DEF vars, TypeOK, ListInv, LocalInv, OneOwner, Owns, Linked, LockInv
<1>18. QED
  BY <1>1, <1>2, <1>3, <1>4, <1>5, <1>6, <1>7, <1>8, <1>9, <1>10, <1>11, <1>12,
     <1>13, <1>14, <1>15, <1>16, <1>17
     DEF Next, Push, Pop

(* Every reachable state of bq.c has a well-formed list, a mutex held by the
   one thread that is inside, and one owner for each allocated cell. *)
THEOREM Invariance == Spec => []IInv
<1>1. Init => IInv
  BY InvInit
<1>2. IInv /\ [Next]_vars => IInv'
  BY InvStep
<1>3. QED
  BY <1>1, <1>2, PTL DEF Spec

(* Type correctness of bq.c: every pointer is NULL or names a cell, and every
   thread is at a statement of the function it called. *)
THEOREM TypeCorrect == Spec => []TypeOK
<1>1. IInv => TypeOK
  BY DEF IInv
<1>2. QED
  BY <1>1, Invariance, PTL

(* No thread ever dereferences or frees a cell that is not allocated, for any
   number of threads and any heap (bq.c:50-56, 70-77). *)
THEOREM MemorySafety == Spec => []MemorySafe
<1>1. ASSUME IInv
      PROVE  MemorySafe
  <2> USE <1>1 DEF IInv
  <2>1. SUFFICES ASSUME NEW t \in Threads
                 PROVE  Touches(t) \subseteq heap
    BY DEF MemorySafe
  <2>2. chain # <<>> => chain[1] \in heap /\ chain[Len(chain)] \in heap
    <3>1. chain # <<>> => 1 \in 1..Len(chain) /\ Len(chain) \in 1..Len(chain)
      BY EmptySeq DEF TypeOK
    <3>2. \A i \in 1..Len(chain) : chain[i] \in heap
      BY DEF TypeOK, OneOwner, Linked
    <3>3. QED
      BY <3>1, <3>2
  <2>3. CASE pc[t] = "push.link" /\ head # NULL
    <3>1. \A p \in Producers : pc[p] # "push.tail"
      BY <2>3 DEF LockInv, Critical, Threads
    <3>2. tail = chain[Len(chain)] /\ chain # <<>>
      BY <2>3, <3>1 DEF ListInv
    <3>3. QED
      BY <2>2, <2>3, <3>2 DEF Touches
  <2>4. CASE pc[t] \in {"pop.read", "pop.unlink"}
    <3>1. t \in Consumers
      BY <2>4 DEF TypeOK, Threads, PushLocs
    <3>2. chain # <<>> /\ head = chain[1]
      BY <2>4, <3>1 DEF LocalInv, ListInv
    <3>3. pc[t] = "pop.unlink" => node[t] = head
      BY <3>1 DEF LocalInv
    <3>4. QED
      BY <2>2, <2>4, <3>2, <3>3 DEF Touches
  <2>5. CASE pc[t] = "pop.free"
    <3>1. t \in Consumers
      BY <2>5 DEF TypeOK, Threads, PushLocs
    <3>2. node[t] \in Node /\ node[t] \in Owns(t)
      BY <2>5, <3>1 DEF LocalInv, Owns
    <3>3. QED
      BY <2>5, <3>2 DEF OneOwner, Touches
  <2>6. QED
    BY <2>3, <2>4, <2>5 DEF Touches
<1>2. QED
  BY <1>1, Invariance, PTL

==============================================================================
