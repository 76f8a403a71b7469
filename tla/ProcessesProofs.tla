--------------------------- MODULE ProcessesProofs ---------------------------
(***************************************************************************)
(* The programs of MCProcesses keep their data straight for any number of  *)
(* threads, any sizes of buffers and files, and any failure: the counter   *)
(* and the clock of timer, the blocks and the sum of parallel_sum, the     *)
(* output that rotatelog moves from a pipe to its files, the signals of    *)
(* signalfd_example. Each program has inductive invariants of its own, and *)
(* the last theorem lifts what they imply to the programs together.        *)
(***************************************************************************)
EXTENDS MCProcesses, SequenceTheorems, NumberLemmas, TLAPS

-----------------------------------------------------------------------------
(* sem16_signals/timer *)

\* The statements of bar that belong to a signal.
HandlerLocs(s) == CASE s = "ALRM" -> {"alarm", "load", "store"}
             [] s = "USR2" -> {"zero"}
             [] s = "USR1" -> {"set"}

\* What the counter may hold.
Counter == 0..(Wrap - 1)
\* A handler being executed.
HandlerFrame == [sig : Signal, loc : {"alarm", "load", "store", "zero", "set"},
          reg : Counter]

(* The counter is exact; a handler between the load and the store of cnt++
   has loaded it; and the handlers of SIGALRM and SIGUSR2, which mask each
   other, are never on the stack together or twice. *)
TimerInv ==
  /\ stack \in Seq(HandlerFrame) /\ cnt \in Counter /\ pending \subseteq Signal
  /\ cnt = since
  /\ \A h \in 1..Len(stack) :
       /\ stack[h].loc \in HandlerLocs(stack[h].sig)
       /\ stack[h].loc = "store" => stack[h].reg = cnt
  /\ \A j, h \in 1..Len(stack) :
       stack[j].sig # "USR1" /\ stack[h].sig # "USR1" => j = h

\* A sequence without its last element.
LEMMA FrontOfSeq ==
  ASSUME NEW S, NEW q \in Seq(S), q # <<>>
  PROVE  LET f == SubSeq(q, 1, Len(q) - 1) IN
         /\ f \in Seq(S) /\ Len(f) = Len(q) - 1
         /\ \A h \in 1..(Len(q) - 1) : f[h] = q[h]
<1> DEFINE m == Len(q) - 1
<1>1. m \in Nat /\ m + 1 = Len(q)
  BY EmptySeq
<1>2. \A h \in 1..m : q[h] \in S
  BY <1>1, ElementOfSeq
<1> HIDE DEF m
<1>3. /\ SubSeq(q, 1, m) \in Seq(S)
      /\ Len(SubSeq(q, 1, m)) = IF 1 <= m THEN m - 1 + 1 ELSE 0
      /\ \A h \in 1..(m - 1 + 1) : SubSeq(q, 1, m)[h] = q[1 + h - 1]
  BY <1>1, <1>2, SubSeqProperties
<1>4. /\ Len(SubSeq(q, 1, m)) = m
      /\ \A h \in 1..m : SubSeq(q, 1, m)[h] = q[h]
  BY <1>1, <1>3
<1> QED BY <1>3, <1>4 DEF m

\* The invariant holds while nothing is counted.
LEMMA TimerInitInv == Init => TimerInv
<1> SUFFICES ASSUME Init PROVE TimerInv
  OBVIOUS
<1>1. stack \in Seq(HandlerFrame) /\ Len(stack) = 0
  BY EmptySeq DEF Init
<1>2. cnt \in Counter /\ pending \subseteq Signal /\ cnt = since
  <2>1. cnt = 0 /\ since = 0 /\ pending = {}
    BY DEF Init
  <2>2. 0 \in Counter
    BY TimerAssumption DEF Counter
  <2> QED BY <2>1, <2>2
<1> QED BY <1>1, <1>2 DEF TimerInv

\* A signal that interrupts anything between two memory accesses preserves
\* the invariant, and so does each statement of bar and of main.
LEMMA TimerStepInv == TimerInv /\ [Next]_vars => TimerInv'
<1> SUFFICES ASSUME TimerInv, [Next]_vars PROVE TimerInv'
  OBVIOUS
<1> USE TimerAssumption DEF TimerInv
<1>1. CASE Main
  BY <1>1 DEF Main, Sigaction, SigactionFails, FirstAlarm, Pause, Test, PrintCounter, Clear, At
<1>2. ASSUME NEW s \in Signal, Deliver(s) PROVE TimerInv'
  <2>1. UNCHANGED <<cnt, since>> /\ pending' \subseteq Signal
    BY <1>2 DEF Deliver
  <2>2. CASE UNCHANGED stack
    BY <2>1, <2>2
  <2>3. CASE stack' = Append(stack, [sig |-> s, loc |-> FirstStatement(s), reg |-> 0])
    <3> DEFINE f == [sig |-> s, loc |-> FirstStatement(s), reg |-> 0]
    <3>1. f \in HandlerFrame /\ f.loc \in HandlerLocs(s) /\ f.loc # "store"
      BY DEF HandlerFrame, Signal, FirstStatement, HandlerLocs, Counter
    <3>2. /\ stack' \in Seq(HandlerFrame) /\ Len(stack') = Len(stack) + 1
          /\ \A h \in 1..Len(stack) : stack'[h] = stack[h]
          /\ stack'[Len(stack) + 1] = f
      BY <2>3, <3>1
    <3>3. s # "USR1" => \A h \in 1..Len(stack) : stack[h].sig = "USR1"
      <4> SUFFICES ASSUME s # "USR1", NEW h \in 1..Len(stack), stack[h].sig # "USR1"
                   PROVE FALSE
        BY DEF HandlerFrame
      <4>1. stack[h] \in HandlerFrame
        BY ElementOfSeq
      <4>2. stack[h].sig \in {"ALRM", "USR2"} /\ s \in {"ALRM", "USR2"}
        BY <4>1 DEF HandlerFrame, Signal
      <4>3. s \in {stack[h].sig} \cup SaMask(stack[h].sig)
        BY <4>2 DEF SaMask
      <4>4. s \in Blocked
        BY <4>3 DEF Blocked
      <4> QED BY <4>4, <1>2 DEF Deliver
    <3>4. \A h \in 1..Len(stack') : h \in 1..Len(stack) \/ h = Len(stack) + 1
      BY <3>2
    <3> QED BY <2>1, <3>1, <3>2, <3>3, <3>4
  <2> QED BY <1>2, <2>2, <2>3 DEF Deliver
<1>3. CASE Handler
  <2> DEFINE n == Len(stack)
  <2>1. stack # <<>>
    BY <1>3 DEF Handler, Alarm, Load, Store, Reset, Ask, In
  <2>2. /\ stack \in Seq(HandlerFrame) /\ n \in 1..n /\ n \in Nat \ {0}
        /\ Top \in HandlerFrame /\ Top = stack[n]
        /\ \A h \in 1..n : stack[h] \in HandlerFrame
    BY <2>1, EmptySeq, ElementOfSeq DEF Top
  <2>3. ASSUME Return
        PROVE  /\ stack' \in Seq(HandlerFrame) /\ Len(stack') = n - 1
               /\ \A h \in 1..Len(stack') :
                    stack'[h] = stack[h] /\ h \in 1..n /\ h # n
    <3>1. stack' \in Seq(HandlerFrame) /\ Len(stack') = n - 1
          /\ \A h \in 1..(n - 1) : stack'[h] = stack[h]
      BY <2>1, <2>2, <2>3, FrontOfSeq DEF Return
    <3> QED BY <2>2, <3>1
  <2>4. ASSUME NEW f \in HandlerFrame, stack' = [stack EXCEPT ![n] = f]
        PROVE  /\ stack' \in Seq(HandlerFrame) /\ Len(stack') = n
               /\ \A h \in 1..n : stack'[h] = IF h = n THEN f ELSE stack[h]
    BY <2>2, <2>4, ExceptSeq
  <2>5. CASE Alarm
    <3>1. stack' = [stack EXCEPT ![n] = [Top EXCEPT !.loc = "load"]]
      BY <2>2, <2>5 DEF Alarm
    <3>2. [Top EXCEPT !.loc = "load"] \in HandlerFrame
      BY <2>2 DEF HandlerFrame
    <3>3. Top.sig = "ALRM"
      BY <2>2, <2>5 DEF Alarm, In, HandlerLocs, HandlerFrame, Signal
    <3> QED BY <2>2, <2>4, <2>5, <3>1, <3>2, <3>3 DEF Alarm, HandlerLocs, HandlerFrame
  <2>6. CASE Load
    <3>1. stack' = [stack EXCEPT ![n] = [Top EXCEPT !.loc = "store", !.reg = cnt]]
      BY <2>2, <2>6 DEF Load
    <3>2. [Top EXCEPT !.loc = "store", !.reg = cnt] \in HandlerFrame
      BY <2>2 DEF HandlerFrame
    <3>3. Top.sig = "ALRM"
      BY <2>2, <2>6 DEF Load, In, HandlerLocs, HandlerFrame, Signal
    <3> QED BY <2>2, <2>4, <2>6, <3>1, <3>2, <3>3 DEF Load, HandlerLocs, HandlerFrame
  <2>7. CASE Store \/ Reset
    <3>1. Top.sig # "USR1"
      BY <2>2, <2>7 DEF Store, Reset, In, HandlerLocs, HandlerFrame, Signal
    <3>2. \A h \in 1..n : h # n => stack[h].loc # "store"
      BY <2>2, <3>1 DEF HandlerLocs, HandlerFrame, Signal
    <3>3. cnt' = since' /\ cnt' \in Counter
      BY <2>2, <2>7 DEF Store, Reset, In, Counter
    <3> QED BY <2>2, <2>3, <2>7, <3>2, <3>3 DEF Store, Reset
  <2>8. CASE Ask
    BY <2>2, <2>3, <2>8 DEF Ask
  <2> QED BY <1>3, <2>5, <2>6, <2>7, <2>8 DEF Handler
<1>4. CASE AlarmExpires
  BY <1>4 DEF AlarmExpires, Signal
<1>5. ASSUME NEW s \in Signal, Kill(s) PROVE TimerInv'
  BY <1>5 DEF Kill
<1>6. CASE UNCHANGED vars
  BY <1>6 DEF vars
<1> QED BY <1>1, <1>2, <1>3, <1>4, <1>5, <1>6 DEF Next

(* However signals interrupt main and each other, no increment and no reset
   of the counter is lost: the masks of sigaction make cnt++ atomic for
   those that write it (timer.c:11-20, 51-60). *)
THEOREM TimerIsExact == Spec => []CounterIsExact
<1>1. TimerInv => CounterIsExact
  BY DEF TimerInv, CounterIsExact
<1> QED BY <1>1, TimerInitInv, TimerStepInv, PTL DEF Spec

\* main's loop, after the handlers are installed and the first alarm is set.
Looping == {"pause", "paused", "test", "print", "clear"}

\* A second is running, or over and not yet handled: bar has still to call
\* alarm for the next one.
SecondIsRunning ==
  \/ armed \/ "ALRM" \in pending
  \/ \E h \in 1..Len(stack) : stack[h].loc = "alarm"

(* Once main is in its loop no signal ends the process, and the chain of
   alarms never breaks: neither a handler that interrupts bar before it has
   called alarm, nor one that masks SIGALRM, nor an alarm that expires while
   another is pending stops the clock (timer.c:11-20, 51-65).  That an asked
   print is not waited for for ever rests on it. *)
ClockTicks == main \in Looping => process = "running" /\ SecondIsRunning

ClockInv ==
  /\ ClockTicks
  /\ main \in {"sigaction_USR1", "sigaction_USR2", "sigaction_ALRM", "alarm"} \cup Looping
  /\ main = "sigaction_USR2" => "USR1" \in installed
  /\ main = "sigaction_ALRM" => {"USR1", "USR2"} \subseteq installed
  /\ main \in {"alarm"} \cup Looping => Signal \subseteq installed

\* Each step of main, of a handler and of the kernel.
LEMMA ClockStepInv == TimerInv /\ ClockInv /\ [Next]_vars => ClockInv'
<1> SUFFICES ASSUME TimerInv, ClockInv, [Next]_vars PROVE ClockInv'
  OBVIOUS
<1> DEFINE n == Len(stack)
<1>0. stack \in Seq(HandlerFrame) /\ n \in Nat
  BY DEF TimerInv
<1>s. Signal = {"USR1", "USR2", "ALRM"}
  BY DEF Signal
<1> HIDE DEF n
<1>1. CASE process = "running" /\ Main
  <2>1. UNCHANGED <<stack, pending>> /\ (SigactionFails \/ UNCHANGED process)
    BY <1>1 DEF Main, Sigaction, SigactionFails, FirstAlarm, Pause, Test, PrintCounter, Clear, At
  <2>f. CASE SigactionFails
    BY <2>f DEF SigactionFails, ClockInv, ClockTicks, Looping
  <2>2. CASE FirstAlarm
    BY <1>1, <2>2 DEF FirstAlarm, At, ClockInv, ClockTicks, SecondIsRunning, Looping
  <2>3. CASE Pause \/ Test \/ PrintCounter \/ Clear
    <3>1. main \in Looping /\ main' \in Looping /\ UNCHANGED <<armed, installed, process>>
      BY <2>3 DEF Pause, Test, PrintCounter, Clear, At, Looping
    <3> QED BY <2>1, <3>1 DEF ClockInv, ClockTicks, SecondIsRunning, Looping
  <2>4. ASSUME NEW x, NEW from, NEW to, Sigaction(x, from, to),
               <<x, from, to>> \in {<<"USR1", "sigaction_USR1", "sigaction_USR2">>,
                                    <<"USR2", "sigaction_USR2", "sigaction_ALRM">>,
                                    <<"ALRM", "sigaction_ALRM", "alarm">>}
        PROVE  ClockInv'
    <3>1. main = from /\ main' = to /\ installed' = installed \cup {x} /\ UNCHANGED process
      BY <2>4 DEF Sigaction, At
    <3> QED BY <1>s, <2>4, <3>1 DEF ClockInv, ClockTicks, Looping
  <2> QED BY <1>1, <2>f, <2>2, <2>3, <2>4 DEF Main
<1>2. CASE process = "running" /\ Handler
  <2>1. /\ UNCHANGED <<main, installed, pending, process>> /\ n \in 1..n
        /\ stack[n] = Top /\ n \in Nat \ {0}
    BY <1>0, <1>2, EmptySeq
    DEF Handler, Alarm, Load, Store, Reset, Ask, In, n, Top
  <2>2. CASE Alarm
    BY <2>1, <2>2 DEF Alarm, ClockInv, ClockTicks, SecondIsRunning
  <2>3. CASE Load \/ Store \/ Reset \/ Ask
    <3>1. stack[n].loc # "alarm" /\ UNCHANGED armed
      BY <2>1, <2>3 DEF Load, Store, Reset, Ask, In
    <3>2. \A h \in 1..n : h # n => h \in 1..Len(stack') /\ stack'[h] = stack[h]
      <4>1. CASE Load
        BY <1>0, <2>1, <4>1 DEF Load, n
      <4>2. CASE Store \/ Reset \/ Ask
        <5>1. stack' = SubSeq(stack, 1, n - 1) /\ stack # <<>>
          BY <4>2 DEF Store, Reset, Ask, Return, In, n
        <5>2. Len(stack') = n - 1 /\ \A h \in 1..(n - 1) : stack'[h] = stack[h]
          BY <1>0, <5>1, FrontOfSeq DEF n
        <5> QED BY <2>1, <5>2
      <4> QED BY <2>3, <4>1, <4>2
    <3>3. SecondIsRunning => SecondIsRunning'
      <4>1. ASSUME NEW h \in 1..n, stack[h].loc = "alarm"
            PROVE  \E g \in 1..Len(stack') : stack'[g].loc = "alarm"
        <5>1. h # n
          BY <3>1, <4>1
        <5> QED BY <3>2, <4>1, <5>1
      <4> QED BY <2>1, <3>1, <4>1 DEF SecondIsRunning, n
    <3> QED BY <2>1, <3>3 DEF ClockInv, ClockTicks
  <2> QED BY <1>2, <2>2, <2>3 DEF Handler
<1>3. CASE process = "running" /\ (AlarmExpires \/ \E x \in Signal : Kill(x))
  BY <1>3 DEF AlarmExpires, Kill, ClockInv, ClockTicks, SecondIsRunning
<1>4. ASSUME NEW x \in Signal, process = "running", Deliver(x) PROVE ClockInv'
  <2>1. x \in pending /\ pending' = pending \ {x} /\ UNCHANGED <<installed, armed>>
    BY <1>4 DEF Deliver
  <2>2. CASE main \in {"alarm"} \cup Looping
    <3>1. /\ stack' = Append(stack, [sig |-> x, loc |-> FirstStatement(x), reg |-> 0])
          /\ UNCHANGED process /\ main' = IF main = "paused" THEN "test" ELSE main
      BY <1>4, <2>2 DEF Deliver, ClockInv
    <3>2. /\ Len(stack') = n + 1 /\ \A h \in 1..n : stack'[h] = stack[h]
          /\ stack'[n + 1].loc = FirstStatement(x)
      BY <1>0, <3>1 DEF n
    <3>3. x = "ALRM" => SecondIsRunning'
      BY <1>0, <3>2 DEF SecondIsRunning, FirstStatement
    <3>4. x # "ALRM" /\ SecondIsRunning => SecondIsRunning'
      <4>1. ASSUME NEW h \in 1..n, stack[h].loc = "alarm"
            PROVE  \E g \in 1..Len(stack') : stack'[g].loc = "alarm"
        BY <1>0, <3>2, <4>1
      <4> QED BY <2>1, <4>1 DEF SecondIsRunning, n
    <3> QED BY <1>4, <2>1, <2>2, <3>1, <3>3, <3>4 DEF ClockInv, ClockTicks, Looping
  <2>3. CASE main \notin {"alarm"} \cup Looping
    <3>1. main' = main
      BY <1>4, <2>3 DEF Deliver, Looping
    <3> QED BY <2>1, <2>3, <3>1 DEF ClockInv, ClockTicks
  <2> QED BY <2>2, <2>3
<1>5. CASE UNCHANGED vars
  BY <1>5 DEF vars, ClockInv, ClockTicks, SecondIsRunning
<1> QED BY <1>1, <1>2, <1>3, <1>4, <1>5 DEF Next

(* The clock of timer never stops, whichever handlers interrupt each other. *)
THEOREM ClockKeepsTicking == Spec => []ClockTicks
<1>1. Init => ClockInv
  BY DEF Init, ClockInv, ClockTicks, Looping
<1>2. ClockInv => ClockTicks
  BY DEF ClockInv
<1> QED BY <1>1, <1>2, ClockStepInv, TimerInitInv, TimerStepInv, PTL DEF Spec

(* A print that was asked for stays asked for until the counter is printed,
   unless it came between printf and to_print = 0: nothing else takes the
   flag back (timer.c:11-13, 67-73). *)
RequestStays ==
  [][asked /\ to_print = 1 /\ main # "clear" /\ asked' => to_print' = 1 /\ main' # "clear"]_vars

(* Nothing but the window between printf and to_print = 0 loses a request. *)
THEOREM RequestsStay == Spec => RequestStays
<1>1. [Next]_vars
      => [asked /\ to_print = 1 /\ main # "clear" /\ asked' => to_print' = 1 /\ main' # "clear"]_vars
  BY DEF Next, Main, Sigaction, SigactionFails, FirstAlarm, Pause, Test, PrintCounter, Clear, At, Handler, Alarm,
         Load, Store, Reset, Ask, AlarmExpires, Kill, Deliver, vars
<1> QED BY <1>1, PTL DEF Spec, RequestStays

-----------------------------------------------------------------------------
(* sem24_pthread/parallel_sum *)

\* Where the block of thread t begins.
BlockBegin(t) == Sum!BlockSize * (t - 1)

\* The blocks lie in the array one behind the other.
LEMMA BlockFacts ==
  /\ \A t \in Sum!Thread :
       /\ BlockBegin(t) \in Nat /\ Sum!BlockEnd(t) \in Nat
       /\ BlockBegin(t) <= Sum!BlockEnd(t) /\ Sum!BlockEnd(t) <= ArrLen
  /\ \A t, u \in Sum!Thread : t < u => Sum!BlockEnd(t) <= BlockBegin(u)
<1>1. Sum!BlockSize \in Nat /\ ArrLen = Sum!BlockSize * ThreadCount
  BY MCAssumption DEF Sum!ConstantsOK, Sum!BlockSize
<1>2. \A m, n \in Nat : 
        /\ Sum!BlockSize * m \in Nat
        /\ m <= n => Sum!BlockSize * m <= Sum!BlockSize * n
  BY <1>1
<1>3. \A t \in Sum!Thread : /\ t \in Nat /\ t - 1 \in Nat /\ t - 1 <= t
                        /\ t <= ThreadCount /\ ThreadCount \in Nat
  BY MCAssumption DEF Sum!ConstantsOK, Sum!Thread
<1>4. \A t, u \in Sum!Thread : t < u => t <= u - 1
  BY MCAssumption DEF Sum!ConstantsOK, Sum!Thread
<1> QED BY <1>1, <1>2, <1>3, <1>4 DEF BlockBegin, Sum!BlockEnd

\* A thread_info.
ThreadInfo == [begin : Nat, end : Nat, sum : 0..(Word - 1)]

\* What holds of a thread that main has tried to create: its block is its
\* own, and it is somewhere in it, or does not exist, or has returned.
Created(t) ==
  /\ ti[t].begin = BlockBegin(t) /\ ti[t].end = Sum!BlockEnd(t)
  /\ \/ index[t] \in {Sum!NotCreated, Sum!Returned}
     \/ BlockBegin(t) <= index[t] /\ index[t] <= Sum!BlockEnd(t)

\* The threads from k on have not been touched up to where main creates them.
SumInv ==
  /\ adder \in {"malloc", "create", "join", "done", "failed", "crash"} /\ k \in Nat \ {0}
  /\ arr \in [1..ArrLen -> Value]
  /\ ti \in [Sum!Thread -> ThreadInfo] /\ index \in [Sum!Thread -> Int]
  /\ \A t \in Sum!Thread :
       \/ /\ adder \in {"malloc", "create", "failed"} /\ k <= t
          /\ index[t] = Sum!NotCreated /\ ti[t].begin = 0 /\ ti[t].end = 0
       \/ Created(t)

\* No thread exists at first, and no block.
LEMMA SumInitInv == Sum!Init => SumInv
<1> SUFFICES ASSUME Sum!Init PROVE SumInv
  OBVIOUS
<1>1. ti \in [Sum!Thread -> ThreadInfo]
  BY MCAssumption DEF Sum!Init, Sum!ConstantsOK, ThreadInfo
<1>2. /\ index \in [Sum!Thread -> Int]
      /\ \A t \in Sum!Thread : index[t] = Sum!NotCreated /\ ti[t].begin = 0 /\ ti[t].end = 0
  BY DEF Sum!Init, Sum!NotCreated
<1>3. \A t \in Sum!Thread : k <= t
  BY MCAssumption DEF Sum!Init, Sum!Thread, Sum!ConstantsOK
<1> QED BY <1>1, <1>2, <1>3 DEF Sum!Init, SumInv, Sum!NotCreated

\* Every step of main and of the threads preserves the invariant.
LEMMA SumStepInv == SumInv /\ [Sum!Next]_(Sum!vars) => SumInv'
<1> SUFFICES ASSUME SumInv, [Sum!Next]_(Sum!vars) PROVE SumInv'
  OBVIOUS
<1> USE DEF SumInv
<1>0. Sum!Thread \subseteq Nat \ {0} /\ ThreadCount \in Nat \ {0} /\ Word \in Nat \ {0}
  BY MCAssumption DEF Sum!ConstantsOK, Sum!Thread
<1>m. CASE Sum!Malloc
  BY <1>m DEF Sum!Malloc, Created
<1>1. CASE Sum!Create
  <2>1. PICK j \in Sum!Thread : j = k
    BY <1>1, MCAssumption DEF Sum!Create, Sum!ConstantsOK, Sum!Thread
  <2>2. ti' = [ti EXCEPT ![j].begin = BlockBegin(j), ![j].end = Sum!BlockEnd(j)]
    BY <1>1, <2>1 DEF Sum!Create, BlockBegin
  <2>3. ti' \in [Sum!Thread -> ThreadInfo]
    <3>1. BlockBegin(j) \in Nat /\ Sum!BlockEnd(j) \in Nat
      BY <2>1, BlockFacts
    <3>2. PICK b \in Nat, e \in Nat : b = BlockBegin(j) /\ e = Sum!BlockEnd(j)
      BY <3>1
    <3>3. ti' = [ti EXCEPT ![j].begin = b, ![j].end = e]
      BY Zenon, <2>2, <3>2
    <3>4. ti \in [Sum!Thread -> [begin : Nat, end : Nat, sum : 0..(Word - 1)]]
      BY DEF ThreadInfo
    <3>5. ti' \in [Sum!Thread -> [begin : Nat, end : Nat, sum : 0..(Word - 1)]]
      BY <3>3, <3>4
    <3> QED BY <3>5 DEF ThreadInfo
  <2>4. UNCHANGED index \/ index' = [index EXCEPT ![j] = BlockBegin(j)]
    BY <1>1, <2>1 DEF Sum!Create, BlockBegin
  <2>5. index' \in [Sum!Thread -> Int]
    BY <2>1, <2>4, BlockFacts
  <2>6. ti'[j].begin = BlockBegin(j) /\ ti'[j].end = Sum!BlockEnd(j)
    BY <2>1, <2>2 DEF ThreadInfo
  <2>7. index'[j] = index[j] \/ index'[j] = BlockBegin(j)
    BY <2>1, <2>4
  <2>8. \A t \in Sum!Thread : t # j => ti'[t] = ti[t] /\ index'[t] = index[t]
    BY <2>1, <2>2, <2>4
  <2>9. UNCHANGED <<arr, adder>> /\ k' = k + 1
    BY <1>1 DEF Sum!Create
  <2>10. Created(j)'
    BY <2>1, <2>6, <2>7, BlockFacts DEF Created
  <2>11. \A t \in Sum!Thread : t # j /\ k <= t => k' <= t
    BY <1>0, <2>1, <2>9
  <2> QED BY <2>1, <2>3, <2>5, <2>8, <2>9, <2>10, <2>11 DEF Created
<1>2. CASE Sum!AllCreated
  <2>1. \A t \in Sum!Thread : Created(t)
    BY <1>0, <1>2 DEF Sum!AllCreated, Sum!Thread
  <2> QED BY <1>2, <2>1 DEF Sum!AllCreated, Created
<1>3. CASE Sum!Join \/ Sum!PrintSum
  BY <1>3 DEF Sum!Join, Sum!PrintSum, Created
<1>4. ASSUME NEW t \in Sum!Thread, Sum!AddElement(t) PROVE SumInv'
  <2>1. /\ Created(t) /\ BlockBegin(t) <= index[t] /\ index[t] < Sum!BlockEnd(t)
    BY <1>4 DEF Sum!AddElement, Sum!Running, Sum!NotCreated, Created, Sum!Returned
  <2>2. arr[index[t] + 1] \in Nat
    <3>1. index[t] + 1 \in 1..ArrLen
      BY <2>1, BlockFacts, MCAssumption DEF Sum!ConstantsOK
    <3> QED BY <3>1, MCAssumption DEF Sum!ConstantsOK
  <2>3. (ti[t].sum + arr[index[t] + 1]) % Word \in 0..(Word - 1)
    <3>1. ti[t].sum \in Nat
      BY <1>0 DEF ThreadInfo
    <3> QED BY <1>0, <2>2, <3>1
  <2>4. ti' \in [Sum!Thread -> ThreadInfo]
    BY <1>4, <2>3 DEF Sum!AddElement, ThreadInfo
  <2>5. index' = [index EXCEPT ![t] = @ + 1]
    BY <1>4 DEF Sum!AddElement
  <2>6. \A u \in Sum!Thread : ti'[u].begin = ti[u].begin /\ ti'[u].end = ti[u].end
    BY <1>4 DEF Sum!AddElement, ThreadInfo
  <2>7. UNCHANGED <<arr, adder, k>>
    BY <1>4 DEF Sum!AddElement
  <2>8. Created(t)'
    BY <2>1, <2>5, <2>6, BlockFacts DEF Created
  <2>9. index' \in [Sum!Thread -> Int] /\ \A u \in Sum!Thread : u # t => index'[u] = index[u]
    BY <2>5
  <2> QED BY <2>4, <2>6, <2>7, <2>8, <2>9 DEF Created
<1>5. ASSUME NEW t \in Sum!Thread, Sum!Return(t) PROVE SumInv'
  <2>1. Created(t)
    BY <1>5 DEF Sum!Return, Sum!Running, Sum!NotCreated
  <2>2. index' = [index EXCEPT ![t] = Sum!Returned] /\ index' \in [Sum!Thread -> Int]
    BY <1>5 DEF Sum!Return, Sum!Returned
  <2>3. UNCHANGED <<arr, ti, adder, k>>
    BY <1>5 DEF Sum!Return
  <2>4. index'[t] = Sum!Returned /\ \A u \in Sum!Thread : u # t => index'[u] = index[u]
    BY <2>2
  <2>5. Created(t)'
    BY <2>1, <2>3, <2>4 DEF Created
  <2>6. ASSUME NEW u \in Sum!Thread, u # t
        PROVE  (adder \in {"malloc", "create", "failed"} /\ k <= u /\ index[u] = Sum!NotCreated
                  /\ ti[u].begin = 0 /\ ti[u].end = 0)' \/ Created(u)'
    BY <2>3, <2>4, <2>6 DEF Created
  <2> QED BY <2>2, <2>3, <2>5, <2>6
<1>6. CASE UNCHANGED Sum!vars
  BY <1>6 DEF Sum!vars, Created
<1> QED BY <1>m, <1>1, <1>2, <1>3, <1>4, <1>5, <1>6 DEF Sum!Next, Sum!Main, Sum!Func

(* For any number of threads and any length of the array, the threads of
   parallel_sum read disjoint blocks that lie in the array, however far
   each has got (parallel_sum.c:77-85). *)
THEOREM ThreadsShareNothing == Sum!Spec => []BlocksAreDisjoint
<1>1. ASSUME SumInv PROVE Sum!BlocksAreDisjoint
  <2> USE <1>1 DEF SumInv, Created
  <2>1. ASSUME NEW t \in Sum!Thread
        PROVE  /\ 0 <= ti[t].begin /\ ti[t].end <= ArrLen
               /\ index[t] \in {Sum!NotCreated, Sum!Returned} \cup ti[t].begin..ti[t].end
    BY BlockFacts, MCAssumption DEF Sum!ConstantsOK
  <2>2. ASSUME NEW t \in Sum!Thread, NEW u \in Sum!Thread, t # u,
               index[t] # Sum!NotCreated, index[u] # Sum!NotCreated
        PROVE  ti[t].end <= ti[u].begin \/ ti[u].end <= ti[t].begin
    <3>1. t < u \/ u < t
      BY <2>2, MCAssumption DEF Sum!Thread, Sum!ConstantsOK
    <3> QED BY <2>2, <3>1, BlockFacts
  <2> QED BY <2>1, <2>2 DEF Sum!BlocksAreDisjoint
<1>2. SumInv => BlocksAreDisjoint
  BY <1>1 DEF BlocksAreDisjoint
<1> QED BY <1>2, SumInitInv, SumStepInv, PTL DEF Sum!Spec

\* The sums of the first elements add one element after the other.
LEMMA SumsAre ==
  ASSUME NEW s \in Seq(Nat)
  PROVE  /\ Sum!SumsOf(s)[0] = 0
         /\ \A n \in 0..Len(s) : Sum!SumsOf(s)[n] \in Nat
         /\ \A n \in 1..Len(s) : Sum!SumsOf(s)[n] = Sum!SumsOf(s)[n - 1] + s[n]
<1> DEFINE l == Len(s)
           add == [p \in Nat \X Nat |-> IF p[1] \in 1..l THEN p[2] + s[p[1]] ELSE p[2]]
           Follows(f) == f = [n \in 0..l |-> IF n = 0 THEN 0 ELSE f[n - 1] + s[n]]
<1>1. l \in Nat /\ \A n \in 1..l : s[n] \in Nat
  OBVIOUS
<1>2. add \in [Nat \X Nat -> Nat]
  BY <1>1
<1>3. \A m, v \in Nat : add[<<m, v>>] = IF m \in 1..l THEN v + s[m] ELSE v
  OBVIOUS
<1>4. Sum!SumsOf(s) = CHOOSE f : Follows(f)
  BY DEF Sum!SumsOf
<1> HIDE DEF l, add
<1>5. PICK g \in [0..l -> Nat] : Solves(g, l, 0, add)
  BY <1>1, <1>2, Recursion
<1>6. g = [m \in 0..l |-> IF m = 0 THEN 0 ELSE add[<<m, g[m - 1]>>]]
  BY <1>5 DEF Solves
<1>7. Follows(g)
  <2>1. ASSUME NEW n \in 0..l, n # 0 PROVE add[<<n, g[n - 1]>>] = g[n - 1] + s[n]
    <3>1. n \in 1..l /\ n \in Nat /\ g[n - 1] \in Nat
      BY <1>1, <2>1
    <3> QED BY <1>3, <3>1
  <2> QED BY <1>6, <2>1
<1> HIDE DEF Follows
<1>8. Follows(Sum!SumsOf(s))
  BY <1>4, <1>7, Zenon
<1> DEFINE S == Sum!SumsOf(s)
<1> HIDE DEF S
<1>9. S = [n \in 0..l |-> IF n = 0 THEN 0 ELSE S[n - 1] + s[n]]
  BY <1>8 DEF Follows, S
<1>10. S[0] = 0 /\ \A n \in 1..l : S[n] = S[n - 1] + s[n]
  BY <1>1, <1>9
<1> DEFINE T == {n \in Nat : n <= l => S[n] \in Nat}
<1>11. Nat \subseteq T
  <2>1. 0 \in T
    BY <1>10
  <2>2. \A n \in Nat : n \in T => n + 1 \in T
    <3>1. ASSUME NEW n \in Nat, n \in T, n + 1 <= l PROVE S[n + 1] \in Nat
      <4>1. n + 1 \in 1..l /\ (n + 1) - 1 = n /\ S[n] \in Nat
        BY <1>1, <3>1
      <4>2. S[n + 1] = S[(n + 1) - 1] + s[n + 1] /\ s[n + 1] \in Nat
        BY <1>1, <1>10, <4>1, Zenon
      <4>3. S[n + 1] = S[n] + s[n + 1]
        BY <4>1, <4>2, Zenon
      <4> QED BY <4>1, <4>2, <4>3
    <3> QED BY <3>1
  <2> HIDE DEF T
  <2> QED BY <2>1, <2>2, Induction
<1> QED BY <1>1, <1>10, <1>11 DEF S, l

\* Sums of the whole array, of what is covered of it, and of what the sum
\* fields held at first.
OfArray(n) == Sum!SumsOf(arr)[n]
OfCovered(n) == Sum!SumsOf(Sum!Covered)[n]
OfJunk(n) == Sum!SumsOf(junk)[n]

\* What the sums are taken of.
SumData == arr \in [1..ArrLen -> Value] /\ junk \in [Sum!Thread -> Garbage]

LEMMA DataSums ==
  ASSUME SumData
  PROVE  /\ OfArray(0) = 0 /\ OfCovered(0) = 0 /\ OfJunk(0) = 0
         /\ \A n \in 0..ArrLen : OfArray(n) \in Nat /\ OfCovered(n) \in Nat
         /\ \A n \in 0..ThreadCount : OfJunk(n) \in Nat
         /\ \A n \in 1..ArrLen :
              /\ OfArray(n) = OfArray(n - 1) + arr[n]
              /\ OfCovered(n) = OfCovered(n - 1) + Sum!Covered[n]
         /\ \A n \in 1..ThreadCount : OfJunk(n) = OfJunk(n - 1) + junk[n]
         /\ Sum!Total(Sum!Covered) = OfCovered(ArrLen)
         /\ Sum!Total(junk) = OfJunk(ThreadCount)
<1>0. /\ ArrLen \in Nat /\ ThreadCount \in Nat /\ Value \subseteq Nat /\ Garbage \subseteq Nat
      /\ Sum!Thread = 1..ThreadCount
  BY MCAssumption DEF Sum!ConstantsOK, Sum!Thread
<1>1. arr \in [1..ArrLen -> Nat] /\ junk \in [1..ThreadCount -> Nat]
  BY <1>0 DEF SumData
<1>2. Sum!Covered \in [1..ArrLen -> Nat]
  BY <1>1 DEF Sum!Covered
<1>3. \A n \in Nat : \A f \in [1..n -> Nat] : f \in Seq(Nat) /\ Len(f) = n
  OBVIOUS
<1> DEFINE Cov == Sum!Covered
<1> HIDE DEF Cov
<1>4. /\ arr \in Seq(Nat) /\ Len(arr) = ArrLen /\ junk \in Seq(Nat) /\ Len(junk) = ThreadCount
      /\ Cov \in Seq(Nat) /\ Len(Cov) = ArrLen
  BY <1>0, <1>1, <1>2, <1>3 DEF Cov
<1>5. /\ OfArray(0) = 0 /\ \A n \in 0..ArrLen : OfArray(n) \in Nat
      /\ \A n \in 1..ArrLen : OfArray(n) = OfArray(n - 1) + arr[n]
  BY <1>4, SumsAre DEF OfArray
<1>6. /\ OfCovered(0) = 0 /\ \A n \in 0..ArrLen : OfCovered(n) \in Nat
      /\ \A n \in 1..ArrLen : OfCovered(n) = OfCovered(n - 1) + Cov[n]
  <2> DEFINE F == Sum!SumsOf(Cov)
  <2>1. /\ F[0] = 0 /\ \A n \in 0..ArrLen : F[n] \in Nat
        /\ \A n \in 1..ArrLen : F[n] = F[n - 1] + Cov[n]
    BY <1>4, SumsAre
  <2> HIDE DEF F
  <2>2. \A n : OfCovered(n) = F[n]
    BY DEF OfCovered, Cov, F
  <2> QED BY <2>1, <2>2
<1>7. /\ OfJunk(0) = 0 /\ \A n \in 0..ThreadCount : OfJunk(n) \in Nat
      /\ \A n \in 1..ThreadCount : OfJunk(n) = OfJunk(n - 1) + junk[n]
  BY <1>4, SumsAre DEF OfJunk
<1>8. /\ Sum!Total(Sum!Covered) = OfCovered(ArrLen)
      /\ Sum!Total(junk) = OfJunk(ThreadCount)
  BY <1>4 DEF Sum!Total, OfCovered, OfJunk, Cov
<1> QED BY <1>5, <1>6, <1>7, <1>8 DEF Cov

\* Of a block, what is covered is all or nothing.
LEMMA BlockCovered ==
  ASSUME SumData, NEW t \in Sum!Thread
  PROVE  OfCovered(Sum!BlockEnd(t)) - OfCovered(BlockBegin(t))
           = IF index[t] = Sum!NotCreated THEN 0
             ELSE OfArray(Sum!BlockEnd(t)) - OfArray(BlockBegin(t))
<1> DEFINE B == Sum!BlockSize
           b == BlockBegin(t)
           Block(n) == IF index[t] = Sum!NotCreated THEN 0 ELSE OfArray(b + n) - OfArray(b)
           T == {n \in Nat : n <= B => OfCovered(b + n) - OfCovered(b) = Block(n)}
<1>1. /\ B \in Nat /\ b \in Nat /\ b = B * (t - 1) /\ t - 1 \in Int /\ t \in Int
      /\ Sum!BlockEnd(t) = b + B /\ b + B <= ArrLen /\ ArrLen \in Nat /\ b <= ArrLen
  <2>1. B \in Nat /\ t - 1 \in Int /\ t \in Int /\ ArrLen \in Nat
    BY MCAssumption DEF Sum!ConstantsOK, Sum!BlockSize, Sum!Thread
  <2>2. B * t = B * (t - 1) + B
    BY <2>1
  <2> QED BY <2>1, <2>2, BlockFacts DEF BlockBegin, Sum!BlockEnd
<1> HIDE DEF B, b
<1>2. OfArray(b) \in Nat /\ OfCovered(b) \in Nat
  BY <1>1, DataSums
<1>3. ASSUME NEW n \in Nat, n \in T, n + 1 <= B
      PROVE  OfCovered(b + (n + 1)) - OfCovered(b) = Block(n + 1)
  <2> DEFINE j == b + (n + 1)
  <2>1. /\ j \in 1..ArrLen /\ j - 1 = b + n /\ j - 1 \in 0..ArrLen /\ j - 1 \in Int
        /\ B \in Nat \ {0} /\ n \in 0..(B - 1)
    BY <1>1, <1>3
  <2>2. (j - 1) \div B = t - 1
    <3>1. j - 1 = B * (t - 1) + n
      BY <1>1, <2>1
    <3> HIDE DEF j
    <3>2. \A q, h \in Int : \A r \in 0..(B - 1) : q = B * h + r => q \div B = h
      BY <2>1, DivisionUnique
    <3> QED BY <1>1, <2>1, <3>1, <3>2, Zenon
  <2>3. Sum!Covered[j] = IF index[t] = Sum!NotCreated THEN 0 ELSE arr[j]
    <3>1. (t - 1) + 1 = t
      BY <1>1
    <3> QED BY <2>1, <2>2, <3>1 DEF Sum!Covered, B
  <2>4. /\ OfCovered(j) = OfCovered(j - 1) + Sum!Covered[j]
        /\ OfArray(j) = OfArray(j - 1) + arr[j]
        /\ OfCovered(j - 1) \in Nat /\ OfArray(j - 1) \in Nat
        /\ OfCovered(j) \in Nat /\ OfArray(j) \in Nat /\ arr[j] \in Nat
    <3>1. arr[j] \in Nat
      BY <2>1, MCAssumption DEF SumData, Sum!ConstantsOK
    <3> HIDE DEF j
    <3>2. j \in 0..ArrLen
      BY <1>1, <2>1
    <3> QED BY <2>1, <3>1, <3>2, DataSums
  <2>5. OfCovered(j - 1) - OfCovered(b)
          = IF index[t] = Sum!NotCreated THEN 0 ELSE OfArray(j - 1) - OfArray(b)
    <3>1. n <= B
      BY <2>1, <1>1
    <3> QED BY <1>3, <2>1, <3>1
  <2> HIDE DEF j
  <2>6. OfCovered(j) - OfCovered(b)
          = IF index[t] = Sum!NotCreated THEN 0 ELSE OfArray(j) - OfArray(b)
    BY <1>2, <2>3, <2>4, <2>5
  <2> QED BY <2>6 DEF j
<1>4. Nat \subseteq T
  <2>1. 0 \in T
    <3>1. b + 0 = b
      BY <1>1
    <3> QED BY <1>2, <3>1
  <2>2. \A n \in Nat : n \in T => n + 1 \in T
    BY <1>3
  <2> HIDE DEF T
  <2> QED BY <2>1, <2>2, Induction
<1>5. OfCovered(b + B) - OfCovered(b) = Block(B)
  <2>1. B \in T /\ B <= B
    BY <1>1, <1>4
  <2> HIDE DEF Block
  <2> QED BY <2>1
<1> QED BY <1>1, <1>5 DEF b

\* How far thread t has got in its block: to its end, when it has returned.
Reached(t) == IF index[t] = Sum!Returned THEN Sum!BlockEnd(t) ELSE index[t]

\* A thread has added the elements before the one it is at to what its sum
\* held at first, and main the sums of the threads it has joined.
AddedInv ==
  /\ SumData
  /\ \A t \in Sum!Thread :
       ti[t].sum = IF index[t] = Sum!NotCreated THEN junk[t]
                   ELSE (junk[t] + (OfArray(Reached(t)) - OfArray(BlockBegin(t)))) % Word
  /\ adder \in {"malloc", "create"} => sum = 0 /\ \A t \in Sum!Thread : t >= k => index[t] = Sum!NotCreated
  /\ adder \in {"join", "done"} =>
       /\ k \in 1..(ThreadCount + 1)
       /\ sum = (OfJunk(k - 1) + OfCovered(Sum!BlockSize * (k - 1))) % Word
  /\ adder = "done" => k = ThreadCount + 1
  /\ printed # -1 => adder = "done" /\ printed = sum

\* What is covered depends on which threads exist, not on where they are.
LEMMA SumsStay ==
  ASSUME SumInv, SumData, UNCHANGED <<arr, junk>>, index' \in [Sum!Thread -> Int]
  PROVE  /\ SumData'
         /\ \A n : OfArray(n)' = OfArray(n) /\ OfJunk(n)' = OfJunk(n)
         /\ (\A t \in Sum!Thread : index'[t] = Sum!NotCreated <=> index[t] = Sum!NotCreated)
              => \A n : OfCovered(n)' = OfCovered(n)
<1>1. SumData' /\ \A n : OfArray(n)' = OfArray(n) /\ OfJunk(n)' = OfJunk(n)
  BY DEF SumData, OfArray, OfJunk
<1>2. ASSUME \A t \in Sum!Thread : index'[t] = Sum!NotCreated <=> index[t] = Sum!NotCreated
      PROVE  Sum!Covered' = Sum!Covered
  <2>1. ASSUME NEW j \in 1..ArrLen PROVE ((j - 1) \div Sum!BlockSize) + 1 \in Sum!Thread
    <3> DEFINE B == Sum!BlockSize
               q == (j - 1) \div B
    <3>1. /\ B \in Nat /\ ArrLen = B * ThreadCount /\ ThreadCount \in Nat /\ j - 1 \in Int
          /\ 0 <= j - 1 /\ j - 1 < ArrLen /\ Sum!Thread = 1..ThreadCount
      BY MCAssumption DEF Sum!ConstantsOK, Sum!BlockSize, Sum!Thread
    <3>2. B # 0
      BY <3>1
    <3> HIDE DEF B
    <3>3. PICK r \in 0..(B - 1) : q \in Int /\ j - 1 = B * q + r
      BY <3>1, <3>2, DivisionInt
    <3> HIDE DEF q
    <3>4. CASE q < 0
      <4>1. B * q <= B * (-1)
        BY <3>1, <3>3, <3>4
      <4> QED BY <3>1, <3>3, <4>1
    <3>5. CASE q >= ThreadCount
      <4>1. B * q >= B * ThreadCount
        BY <3>1, <3>3, <3>5
      <4> QED BY <3>1, <3>3, <4>1
    <3>6. q \in 0..(ThreadCount - 1)
      BY <3>1, <3>3, <3>4, <3>5
    <3> QED BY <3>1, <3>6 DEF q, B
  <2> QED BY <1>2, <2>1 DEF Sum!Covered
<1>3. ASSUME Sum!Covered' = Sum!Covered PROVE \A n : OfCovered(n)' = OfCovered(n)
  BY <1>3 DEF OfCovered
<1> QED BY <1>1, <1>2, <1>3

\* Nothing has been added at first.
LEMMA AddedInitInv == Sum!Init => AddedInv
<1> SUFFICES ASSUME Sum!Init PROVE AddedInv
  OBVIOUS
<1>1. \A t \in Sum!Thread : ti[t].sum = junk[t] /\ index[t] = Sum!NotCreated
  BY DEF Sum!Init
<1> QED BY <1>1 DEF Sum!Init, AddedInv, SumData

\* Where a thread is in its block, and what its constants are.
LEMMA SumFacts ==
  ASSUME SumInv, SumData
  PROVE  /\ Word \in Nat \ {0} /\ ThreadCount \in Nat \ {0} /\ Sum!Thread = 1..ThreadCount
         /\ ArrLen \in Nat
         /\ \A t \in Sum!Thread :
              /\ junk[t] \in 0..(Word - 1) /\ ti[t].sum \in 0..(Word - 1)
              /\ index[t] # Sum!NotCreated => Created(t)
              /\ BlockBegin(t) \in 0..ArrLen /\ Sum!BlockEnd(t) \in 0..ArrLen
              /\ index[t] # Sum!NotCreated => Reached(t) \in BlockBegin(t)..Sum!BlockEnd(t)
              /\ index[t] # Sum!NotCreated => Reached(t) \in 0..ArrLen
              /\ OfArray(BlockBegin(t)) \in Nat /\ OfArray(Sum!BlockEnd(t)) \in Nat
<1>1. /\ Word \in Nat \ {0} /\ ThreadCount \in Nat \ {0} /\ Sum!Thread = 1..ThreadCount
      /\ ArrLen \in Nat /\ Garbage \subseteq 0..(Word - 1)
  BY MCAssumption DEF Sum!ConstantsOK, Sum!Thread
<1>2. ASSUME NEW t \in Sum!Thread
      PROVE  /\ junk[t] \in 0..(Word - 1) /\ ti[t].sum \in 0..(Word - 1)
             /\ index[t] # Sum!NotCreated => Created(t)
             /\ BlockBegin(t) \in 0..ArrLen /\ Sum!BlockEnd(t) \in 0..ArrLen
             /\ BlockBegin(t) <= Sum!BlockEnd(t)
  <2>1. junk[t] \in 0..(Word - 1) /\ ti[t].sum \in 0..(Word - 1)
    BY <1>1 DEF SumInv, SumData, ThreadInfo
  <2>2. index[t] # Sum!NotCreated => Created(t)
    BY DEF SumInv
  <2> QED BY <1>1, <2>1, <2>2, BlockFacts
<1>3. ASSUME NEW t \in Sum!Thread, index[t] # Sum!NotCreated
      PROVE  Reached(t) \in BlockBegin(t)..Sum!BlockEnd(t) /\ Reached(t) \in 0..ArrLen
  <2>1. index[t] \in Int
    BY DEF SumInv
  <2> QED BY <1>1, <1>2, <1>3, <2>1 DEF Created, Reached
<1> QED BY <1>1, <1>2, <1>3, DataSums

\* A step of a thread or of main adds what it should.
LEMMA AddedStepInv ==
  SumInv /\ SumInv' /\ AddedInv /\ [Sum!Next]_(Sum!vars) => AddedInv'
<1> SUFFICES ASSUME SumInv, SumInv', AddedInv, [Sum!Next]_(Sum!vars) PROVE AddedInv'
  OBVIOUS
<1> DEFINE Of(t) == IF index[t] = Sum!NotCreated THEN junk[t]
                    ELSE (junk[t] + (OfArray(Reached(t)) - OfArray(BlockBegin(t)))) % Word
<1>0. /\ SumData /\ \A t \in Sum!Thread : ti[t].sum = Of(t)
      /\ Word \in Nat \ {0} /\ ThreadCount \in Nat \ {0} /\ Sum!Thread = 1..ThreadCount
      /\ ArrLen \in Nat /\ ti \in [Sum!Thread -> ThreadInfo] /\ index \in [Sum!Thread -> Int]
      /\ ti' \in [Sum!Thread -> ThreadInfo] /\ index' \in [Sum!Thread -> Int]
      /\ k \in Nat \ {0}
  BY SumFacts DEF AddedInv, SumInv
<1>a. UNCHANGED <<arr, junk>>
  BY DEF Sum!Next, Sum!Main, Sum!Func, Sum!vars, Sum!Malloc, Sum!Create, Sum!AllCreated, Sum!Join,
         Sum!PrintSum, Sum!AddElement, Sum!Return
<1>b. /\ SumData' /\ \A n : OfArray(n)' = OfArray(n) /\ OfJunk(n)' = OfJunk(n)
      /\ (\A t \in Sum!Thread : index'[t] = Sum!NotCreated <=> index[t] = Sum!NotCreated)
            => \A n : OfCovered(n)' = OfCovered(n)
  BY <1>0, <1>a, SumsStay
<1> HIDE DEF Of
<1>c. ASSUME NEW t \in Sum!Thread, UNCHANGED <<index[t], ti[t]>>
      PROVE  ti'[t].sum = Of(t)'
  <2>1. /\ index'[t] = index[t] /\ junk'[t] = junk[t] /\ Reached(t)' = Reached(t)
        /\ OfArray(Reached(t))' = OfArray(Reached(t))
        /\ OfArray(BlockBegin(t))' = OfArray(BlockBegin(t))
    BY <1>a, <1>b, <1>c DEF Reached, OfArray, BlockBegin, Sum!BlockEnd, Sum!BlockSize
  <2> QED BY <1>0, <1>c, <2>1 DEF Of
<1>d. ASSUME \A t \in Sum!Thread : ti'[t].sum = Of(t)',
             (adder \in {"malloc", "create"} => sum = 0
                /\ \A t \in Sum!Thread : t >= k => index[t] = Sum!NotCreated)',
             (adder \in {"join", "done"} =>
                /\ k \in 1..(ThreadCount + 1)
                /\ sum = (OfJunk(k - 1) + OfCovered(Sum!BlockSize * (k - 1))) % Word)',
             (adder = "done" => k = ThreadCount + 1)',
             (printed # -1 => adder = "done" /\ printed = sum)'
      PROVE  AddedInv'
  BY <1>b, <1>d DEF AddedInv, Of
<1>m. CASE Sum!Malloc
  <2>1. /\ adder = "malloc" /\ adder' \in {"create", "failed"}
        /\ UNCHANGED <<ti, index, k, sum, printed>>
    BY <1>m DEF Sum!Malloc
  <2>2. \A t \in Sum!Thread : ti'[t].sum = Of(t)'
    BY <1>c, <2>1
  <2> QED BY <1>d, <2>1, <2>2 DEF AddedInv
<1>1. CASE Sum!Create
  <2>1. PICK j \in Sum!Thread : j = k
    BY <1>0, <1>1 DEF Sum!Create
  <2>2. /\ adder = "create" /\ UNCHANGED <<adder, sum, printed>> /\ k' = k + 1 /\ sum = 0
        /\ printed = -1 /\ \A t \in Sum!Thread : t >= k => index[t] = Sum!NotCreated
        /\ ti' = [ti EXCEPT ![j].begin = BlockBegin(j), ![j].end = Sum!BlockEnd(j)]
        /\ UNCHANGED index \/ index' = [index EXCEPT ![j] = BlockBegin(j)]
    BY <1>1, <2>1 DEF Sum!Create, BlockBegin, AddedInv
  <2>3. ASSUME NEW t \in Sum!Thread, t # j PROVE UNCHANGED <<index[t], ti[t]>>
    BY <1>0, <2>2, <2>3
  <2>4. ti'[j].sum = Of(j)'
    <3>1. ti'[j].sum = junk[j] /\ index[j] = Sum!NotCreated
      <4>1. ti'[j].sum = ti[j].sum
        BY <1>0, <2>2 DEF ThreadInfo
      <4>2. index[j] = Sum!NotCreated
        BY <1>0, <2>1, <2>2
      <4> QED BY <1>0, <4>1, <4>2 DEF Of
    <3>2. CASE index'[j] = Sum!NotCreated
      BY <1>a, <3>1, <3>2 DEF Of
    <3>3. CASE index'[j] # Sum!NotCreated
      <4>1. index' = [index EXCEPT ![j] = BlockBegin(j)] /\ index'[j] = BlockBegin(j)
        BY <1>0, <2>2, <3>1, <3>3
      <4>2. BlockBegin(j) \in Nat /\ OfArray(BlockBegin(j)) \in Nat /\ junk[j] \in 0..(Word - 1)
        BY <1>0, SumFacts
      <4>3. Reached(j)' = BlockBegin(j)
        BY <4>1, <4>2 DEF Reached, Sum!Returned
      <4>4. /\ OfArray(Reached(j))' = OfArray(BlockBegin(j))
            /\ OfArray(BlockBegin(j))' = OfArray(BlockBegin(j)) /\ junk'[j] = junk[j]
        BY <1>a, <4>3 DEF OfArray, BlockBegin, Sum!BlockSize
      <4>5. junk[j] + (OfArray(BlockBegin(j)) - OfArray(BlockBegin(j))) = junk[j]
        BY <1>0, <4>2
      <4>6. junk[j] % Word = junk[j]
        BY <1>0, <4>2, OwnRemainder
      <4> QED BY <3>1, <3>3, <4>4, <4>5, <4>6 DEF Of
    <3> QED BY <3>2, <3>3
  <2>5. \A t \in Sum!Thread : ti'[t].sum = Of(t)'
    BY <1>c, <2>3, <2>4
  <2>6. \A t \in Sum!Thread : t >= k' => index'[t] = Sum!NotCreated
    <3>1. \A t \in Sum!Thread : t >= k' => t # j /\ t >= k
      BY <1>0, <2>1, <2>2
    <3> QED BY <2>2, <2>3, <3>1
  <2> QED BY <1>d, <2>2, <2>5, <2>6
<1>2. CASE Sum!AllCreated
  <2>1. /\ adder = "create" /\ adder' = "join" /\ k' = 1 /\ UNCHANGED <<ti, index, sum, printed>>
        /\ sum = 0 /\ printed = -1
    BY <1>2 DEF Sum!AllCreated, AddedInv
  <2>2. \A t \in Sum!Thread : ti'[t].sum = Of(t)'
    BY <1>c, <2>1
  <2>3. (OfJunk(0) + OfCovered(0)) % Word = 0 /\ OfJunk(0)' = OfJunk(0) /\ OfCovered(0)' = OfCovered(0)
    BY <1>0, <1>b, <2>1, DataSums
  <2>4. Sum!BlockSize * 0 = 0 /\ 1 \in 1..(ThreadCount + 1)
    BY <1>0, MCAssumption DEF Sum!ConstantsOK, Sum!BlockSize
  <2>5. (sum = (OfJunk(k - 1) + OfCovered(Sum!BlockSize * (k - 1))) % Word)'
    <3>1. k' - 1 = 0 /\ (Sum!BlockSize * (k - 1))' = 0
      BY <2>1, <2>4 DEF Sum!BlockSize
    <3>2. OfJunk(k - 1)' = OfJunk(0)' /\ OfCovered(Sum!BlockSize * (k - 1))' = OfCovered(0)'
      BY <3>1 DEF OfJunk, OfCovered
    <3> QED BY <2>1, <2>3, <3>2
  <2> QED BY <1>d, <2>1, <2>2, <2>4, <2>5
<1>3. CASE Sum!Join
  <2>1. PICK j \in Sum!Thread : j = k
    BY <1>0, <1>3 DEF Sum!Join
  <2>2. /\ adder = "join" /\ UNCHANGED <<ti, index, printed>> /\ printed = -1
        /\ sum = (OfJunk(j - 1) + OfCovered(BlockBegin(j))) % Word
    BY <1>3, <2>1 DEF Sum!Join, AddedInv, BlockBegin
  <2>3. \A t \in Sum!Thread : ti'[t].sum = Of(t)'
    BY <1>c, <2>2
  <2>4. CASE adder' = "crash"
    BY <1>d, <2>2, <2>3, <2>4
  <2>5. CASE adder' # "crash"
    <3>1. /\ index[j] \in {Sum!Returned, Sum!NotCreated} /\ sum' = (sum + ti[j].sum) % Word
          /\ k' = j + 1 /\ adder' = "join"
      BY <1>3, <2>1, <2>5 DEF Sum!Join
    <3> DEFINE p == OfJunk(j - 1)
               c == OfCovered(BlockBegin(j))
               e == OfCovered(Sum!BlockEnd(j))
    <3>2. /\ p \in Nat /\ c \in Nat /\ e \in Nat /\ junk[j] \in Nat
          /\ OfJunk(j) = p + junk[j]
      <4>1. j - 1 \in 0..ThreadCount /\ j \in 1..ThreadCount
        BY <1>0
      <4>2. /\ BlockBegin(j) \in 0..ArrLen /\ Sum!BlockEnd(j) \in 0..ArrLen
            /\ junk[j] \in 0..(Word - 1)
        BY <1>0, SumFacts
      <4>3. junk[j] \in Nat
        BY <1>0, <4>2
      <4>4. OfJunk(j) = OfJunk(j - 1) + junk[j] /\ OfJunk(j - 1) \in Nat
        BY <1>0, <4>1, DataSums
      <4>5. c \in Nat /\ e \in Nat
        BY <1>0, <4>2, DataSums
      <4> QED BY <4>3, <4>4, <4>5
    <3> HIDE DEF p, c, e
    <3>3. ti[j].sum = (junk[j] + (e - c)) % Word
      <4>1. CASE index[j] = Sum!NotCreated
        <5>1. e - c = 0 /\ ti[j].sum = junk[j] /\ junk[j] \in 0..(Word - 1)
          BY <1>0, <4>1, BlockCovered, SumFacts DEF Of, e, c
        <5>2. junk[j] + (e - c) = junk[j]
          BY <3>2, <5>1
        <5>3. junk[j] % Word = junk[j]
          BY <1>0, <5>1, OwnRemainder, Zenon
        <5> QED BY <5>1, <5>2, <5>3
      <4>2. CASE index[j] # Sum!NotCreated
        <5>1. /\ ti[j].sum = (junk[j] + (OfArray(Reached(j)) - OfArray(BlockBegin(j)))) % Word
              /\ Reached(j) = Sum!BlockEnd(j)
          BY <1>0, <3>1, <4>2 DEF Of, Reached
        <5>2. e - c = OfArray(Sum!BlockEnd(j)) - OfArray(BlockBegin(j))
          BY <1>0, <4>2, BlockCovered DEF e, c
        <5> QED BY <5>1, <5>2
      <4> QED BY <4>1, <4>2
    <3>4. sum' = (OfJunk(j) + e) % Word
      <4>1. sum' = ((p + c) + (junk[j] + (e - c))) % Word
        <5>1. p + c \in Int /\ junk[j] + (e - c) \in Int
          BY <3>2
        <5>2. sum = (p + c) % Word
          BY <2>2 DEF p, c
        <5> QED BY <1>0, <3>1, <3>3, <5>1, <5>2, SumOfTwo
      <4>2. (p + c) + (junk[j] + (e - c)) = OfJunk(j) + e
        BY <3>2
      <4> QED BY <4>1, <4>2
    <3>5. (sum = (OfJunk(k - 1) + OfCovered(Sum!BlockSize * (k - 1))) % Word)'
      <4>1. k' - 1 = j /\ (Sum!BlockSize * (k - 1))' = Sum!BlockEnd(j)
        BY <1>0, <3>1 DEF Sum!BlockEnd, Sum!BlockSize
      <4>2. OfJunk(j)' = OfJunk(j) /\ OfCovered(Sum!BlockEnd(j))' = e
        BY <1>b, <2>2 DEF e, OfCovered, Sum!BlockEnd, Sum!BlockSize
      <4>3. /\ OfJunk(k - 1)' = OfJunk(j)'
            /\ OfCovered(Sum!BlockSize * (k - 1))' = OfCovered(Sum!BlockEnd(j))'
        BY <4>1 DEF OfJunk, OfCovered, Sum!BlockEnd, Sum!BlockSize
      <4> QED BY <3>4, <4>2, <4>3
    <3>6. k' \in 1..(ThreadCount + 1)
      BY <1>0, <3>1
    <3> QED BY <1>d, <2>2, <2>3, <3>1, <3>5, <3>6
  <2> QED BY <2>4, <2>5
<1>4. CASE Sum!PrintSum
  <2>1. /\ adder = "join" /\ adder' = "done" /\ UNCHANGED <<ti, index, k, sum>>
        /\ printed' = sum /\ k \in 1..(ThreadCount + 1) /\ k = ThreadCount + 1
        /\ sum = (OfJunk(k - 1) + OfCovered(Sum!BlockSize * (k - 1))) % Word
    BY <1>0, <1>4 DEF Sum!PrintSum, AddedInv
  <2>2. \A t \in Sum!Thread : ti'[t].sum = Of(t)'
    BY <1>c, <2>1
  <2>3. (sum = (OfJunk(k - 1) + OfCovered(Sum!BlockSize * (k - 1))) % Word)'
    BY <1>a, <1>b, <2>1 DEF OfJunk, OfCovered, Sum!BlockSize
  <2> QED BY <1>d, <2>1, <2>2, <2>3
<1>r. ASSUME NEW t \in Sum!Thread, UNCHANGED <<adder, k, sum, printed>>,
             index[t] # Sum!NotCreated, index'[t] # Sum!NotCreated,
             \A u \in Sum!Thread : u # t => UNCHANGED <<index[u], ti[u]>>,
             ti'[t].sum = Of(t)'
      PROVE  AddedInv'
  <2>1. \A u \in Sum!Thread : ti'[u].sum = Of(u)'
    BY <1>c, <1>r
  <2>2. \A u \in Sum!Thread : index'[u] = Sum!NotCreated <=> index[u] = Sum!NotCreated
    BY <1>r
  <2>3. OfCovered(Sum!BlockSize * (k - 1))' = OfCovered(Sum!BlockSize * (k - 1))
        /\ OfJunk(k - 1)' = OfJunk(k - 1)
    BY <1>a, <1>b, <1>r, <2>2 DEF OfCovered, OfJunk, Sum!BlockSize
  <2> QED BY <1>d, <1>r, <2>1, <2>2, <2>3 DEF AddedInv
<1>5. ASSUME NEW t \in Sum!Thread, Sum!AddElement(t) PROVE AddedInv'
  <2>1. /\ index[t] >= 0 /\ index[t] < ti[t].end /\ UNCHANGED <<adder, k, sum, printed>>
        /\ ti' = [ti EXCEPT ![t].sum = (@ + arr[index[t] + 1]) % Word]
        /\ index' = [index EXCEPT ![t] = @ + 1]
    BY <1>5 DEF Sum!AddElement, Sum!Running
  <2>2. /\ index[t] # Sum!NotCreated /\ index[t] # Sum!Returned
        /\ index'[t] = index[t] + 1 /\ index'[t] # Sum!NotCreated /\ index'[t] # Sum!Returned
    BY <1>0, <2>1 DEF Sum!NotCreated, Sum!Returned
  <2>3. \A u \in Sum!Thread : u # t => UNCHANGED <<index[u], ti[u]>>
    BY <1>0, <2>1
  <2> DEFINE b == OfArray(BlockBegin(t))
             n == index[t]
             x == OfArray(n)
  <2>4. /\ n \in 0..ArrLen /\ n + 1 \in 1..ArrLen /\ (n + 1) - 1 = n
        /\ x \in Nat /\ b \in Nat /\ junk[t] \in Nat
        /\ arr[n + 1] \in Nat /\ OfArray(n + 1) = x + arr[n + 1]
    <3>1. Created(t) /\ ti[t].end = Sum!BlockEnd(t) /\ Sum!BlockEnd(t) \in 0..ArrLen /\ n \in Int
      BY <1>0, <2>2, SumFacts DEF Created
    <3>2. n \in 0..ArrLen /\ n + 1 \in 1..ArrLen /\ (n + 1) - 1 = n
      <4>1. n >= 0 /\ n < Sum!BlockEnd(t)
        BY <2>1, <3>1
      <4> HIDE DEF n
      <4> QED BY <1>0, <3>1, <4>1
    <3>3. arr[n + 1] \in Nat
      BY <1>0, <3>2, MCAssumption DEF Sum!ConstantsOK, SumData
    <3> HIDE DEF n
    <3>4. x \in Nat /\ OfArray(n + 1) = OfArray((n + 1) - 1) + arr[n + 1]
      BY <1>0, <3>2, DataSums DEF x
    <3>5. b \in Nat /\ junk[t] \in Nat
      BY <1>0, SumFacts
    <3> QED BY <3>2, <3>3, <3>4, <3>5
  <2> HIDE DEF b, n, x
  <2>5. ti[t].sum = (junk[t] + (x - b)) % Word
    BY <1>0, <2>2 DEF Of, Reached, x, n, b
  <2>6. ti'[t].sum = (ti[t].sum + arr[n + 1]) % Word
    BY <1>0, <2>1 DEF ThreadInfo, n
  <2>7. ti'[t].sum = (junk[t] + (OfArray(n + 1) - b)) % Word
    <3>1. ti'[t].sum = ((junk[t] + (x - b)) + arr[n + 1]) % Word
      <4>1. junk[t] + (x - b) \in Int /\ arr[n + 1] \in Int
        BY <2>4
      <4>2. (((junk[t] + (x - b)) % Word) + arr[n + 1]) % Word
              = ((junk[t] + (x - b)) + arr[n + 1]) % Word
        BY <1>0, <4>1, SumOfRemainders, Zenon
      <4> QED BY <2>5, <2>6, <4>2
    <3>2. (junk[t] + (x - b)) + arr[n + 1] = junk[t] + (OfArray(n + 1) - b)
      BY <2>4
    <3> QED BY <3>1, <3>2
  <2>8. ti'[t].sum = Of(t)'
    <3>1. /\ Reached(t)' = n + 1 /\ junk'[t] = junk[t]
      BY <1>a, <2>2 DEF Reached, n
    <3>2. OfArray(Reached(t))' = OfArray(n + 1) /\ OfArray(BlockBegin(t))' = b
      BY <1>a, <3>1 DEF OfArray, BlockBegin, Sum!BlockSize, b
    <3> QED BY <1>a, <2>2, <2>7, <3>1, <3>2 DEF Of
  <2> QED BY <1>r, <2>1, <2>2, <2>3, <2>8
<1>6. ASSUME NEW t \in Sum!Thread, Sum!Return(t) PROVE AddedInv'
  <2>1. /\ index[t] >= 0 /\ index[t] >= ti[t].end /\ UNCHANGED <<ti, adder, k, sum, printed>>
        /\ index' = [index EXCEPT ![t] = Sum!Returned]
    BY <1>6 DEF Sum!Return, Sum!Running
  <2>2. /\ index[t] # Sum!NotCreated /\ index[t] # Sum!Returned
        /\ index'[t] = Sum!Returned /\ index'[t] # Sum!NotCreated
    BY <1>0, <2>1 DEF Sum!NotCreated, Sum!Returned
  <2>3. \A u \in Sum!Thread : u # t => UNCHANGED <<index[u], ti[u]>>
    BY <1>0, <2>1
  <2>4. Reached(t) = Sum!BlockEnd(t)
    <3>1. Created(t) /\ Reached(t) = index[t] /\ Sum!BlockEnd(t) \in 0..ArrLen /\ ArrLen \in Nat
          /\ Reached(t) \in BlockBegin(t)..Sum!BlockEnd(t) /\ BlockBegin(t) \in 0..ArrLen
      BY <1>0, <2>2, SumFacts DEF Reached
    <3> QED BY <2>1, <3>1 DEF Created
  <2>5. ti'[t].sum = Of(t)'
    <3>1. Reached(t)' = Reached(t) /\ junk'[t] = junk[t]
      BY <1>a, <2>2, <2>4 DEF Reached, Sum!BlockEnd, Sum!BlockSize
    <3>2. OfArray(Reached(t))' = OfArray(Reached(t))
          /\ OfArray(BlockBegin(t))' = OfArray(BlockBegin(t))
      BY <1>a, <3>1 DEF OfArray, BlockBegin, Sum!BlockSize
    <3>3. ti[t].sum = (junk[t] + (OfArray(Reached(t)) - OfArray(BlockBegin(t)))) % Word
      BY <1>0, <2>2 DEF Of
    <3> QED BY <2>1, <2>2, <3>1, <3>2, <3>3 DEF Of
  <2> QED BY <1>r, <2>1, <2>2, <2>3, <2>5
<1>7. CASE UNCHANGED Sum!vars
  <2>1. UNCHANGED <<ti, index, adder, k, sum, printed>>
    BY <1>7 DEF Sum!vars
  <2>2. \A t \in Sum!Thread : ti'[t].sum = Of(t)'
    BY <1>c, <2>1
  <2>3. OfCovered(Sum!BlockSize * (k - 1))' = OfCovered(Sum!BlockSize * (k - 1))
        /\ OfJunk(k - 1)' = OfJunk(k - 1)
    BY <1>a, <1>b, <2>1 DEF OfCovered, OfJunk, Sum!BlockSize
  <2> QED BY <1>d, <2>1, <2>2, <2>3 DEF AddedInv
<1> QED BY <1>m, <1>1, <1>2, <1>3, <1>4, <1>5, <1>6, <1>7 DEF Sum!Next, Sum!Main, Sum!Func

(* For any number of threads, any numbers, any memory of ti and any threads
   that cannot be created: what parallel_sum prints is the sum of the blocks
   of the threads that were created, plus what the sum fields held, modulo
   the width of size_t, in whatever order the threads ran
   (parallel_sum.c:56-58, 75-100). *)
THEOREM PrintedSumIsExact == Sum!Spec => []PrintsWhatWasSummed
<1>1. ASSUME SumInv, AddedInv PROVE Sum!PrintsWhatWasSummed
  <2>1. SUFFICES ASSUME printed # -1
                 PROVE  printed = (Sum!Total(Sum!Covered) + Sum!Total(junk)) % Word
    BY DEF Sum!PrintsWhatWasSummed
  <2>2. /\ k = ThreadCount + 1 /\ SumData
        /\ printed = (OfJunk(k - 1) + OfCovered(Sum!BlockSize * (k - 1))) % Word
    BY <1>1, <2>1 DEF AddedInv
  <2>3. k - 1 = ThreadCount /\ Sum!BlockSize * ThreadCount = ArrLen
        /\ ThreadCount \in Nat /\ ArrLen \in Nat
    BY <2>2, MCAssumption DEF Sum!ConstantsOK, Sum!BlockSize
  <2>4. printed = (OfJunk(ThreadCount) + OfCovered(ArrLen)) % Word
    BY <2>2, <2>3
  <2>5. OfJunk(ThreadCount) \in Nat /\ OfCovered(ArrLen) \in Nat
        /\ Sum!Total(Sum!Covered) = OfCovered(ArrLen) /\ Sum!Total(junk) = OfJunk(ThreadCount)
    BY <2>2, <2>3, DataSums
  <2> QED BY <2>4, <2>5
<1>2. SumInv /\ AddedInv => PrintsWhatWasSummed
  BY <1>1 DEF PrintsWhatWasSummed
<1>3. Sum!Init => SumInv /\ AddedInv
  BY SumInitInv, AddedInitInv
<1>4. (SumInv /\ AddedInv) /\ [Sum!Next]_(Sum!vars) => (SumInv /\ AddedInv)'
  BY SumStepInv, AddedStepInv
<1> QED BY <1>2, <1>3, <1>4, PTL DEF Sum!Spec

-----------------------------------------------------------------------------
(* sem15_pipe/rotatelog *)

\* Bytes, numbered in the order the child writes them.
Bytes == Seq(Nat)
\* The first n bytes the child writes.
UpTo(n) == [j \in 1..n |-> j]
\* The bytes q are the first ones, in order.
Spells(q) == q = UpTo(Len(q))
\* The parent has not left its read loop.
InLoop == loc \notin {"wait", "exit", "done"}

(* The types; buf holds bytes only between read and fwrite; the log and its
   FILE are empty whenever fopen is about to empty the log, and the FILE
   when rename is called. *)
Streams ==
  /\ lost \in Bytes /\ old \in Bytes /\ log \in Bytes /\ buffer \in Bytes
  /\ chunk \in Bytes /\ pipe \in Bytes /\ made \in Nat
  /\ loc # "fwrite" => chunk = <<>>
  /\ loc \in {"fork", "close", "fopen", "reopen"} => log = <<>> /\ buffer = <<>>
  /\ loc = "rename" => buffer = <<>>

\* written counts the bytes of log.txt and of its FILE while the loop runs,
\* and reaches the limit only with the read that fills the file; it still
\* counts those that fclose could not write.
FileSizes ==
  /\ written \in Nat
  /\ loc = "fwrite" => Len(chunk) <= ReadBuf
  /\ loc \in {"fork", "close", "fopen", "read", "fwrite", "fclose"} =>
       Len(log) + Len(buffer) = written
  /\ loc = "rename" => Len(log) <= written /\ ("fclose" \notin failed => Len(log) = written)
  /\ loc \in {"fork", "close", "fopen", "read", "fwrite"} => written < MaxFile
  /\ loc \in {"fclose", "rename"} => MaxFile <= written /\ written < MaxFile + ReadBuf
  /\ loc \in {"fork", "close", "fopen"} => written = 0
  /\ Log!FilesAreBounded

\* The bytes q are some of the first n, in their order.
Ordered(q, n) ==
  /\ \A j \in 1..Len(q) : q[j] \in 1..n
  /\ \A h, j \in 1..Len(q) : h < j => q[h] < q[j]

\* All bytes that are anywhere.
Everywhere == Log!Kept \o chunk \o pipe

\* No byte is missing, where each fclose has written all of its FILE.
Spelled ==
  /\ Spells(Log!Kept)
  /\ InLoop => Everywhere = UpTo(made)

\* OutputIsKept, which the loop preserves as a whole.
InOrder == Ordered(Everywhere, made) /\ ("fclose" \notin failed => Spelled)

\* The inductive invariant of rotatelog.
LogInv == Streams /\ FileSizes /\ InOrder

\* Concatenation of sequences of bytes.
LEMMA Concatenations ==
  /\ <<>> \in Bytes /\ Len(<<>>) = 0
  /\ \A q, r \in Bytes : q \o r \in Bytes /\ Len(q \o r) = Len(q) + Len(r)
  /\ \A q \in Bytes : Len(q) \in Nat /\ q \o <<>> = q /\ <<>> \o q = q
  /\ \A q, r, t \in Bytes : (q \o r) \o t = q \o (r \o t)
  BY EmptySeq, LenProperties, ConcatProperties, ConcatEmptySeq, ConcatAssociative DEF Bytes

\* Its associativity alone.
LEMMA Associativity ==
  \A q, r, t \in Bytes : (q \o r) \o t = q \o (r \o t)
  BY Concatenations

\* A beginning of the first n bytes is itself the first bytes.
LEMMA FirstBytes ==
  ASSUME NEW q \in Bytes, NEW r \in Bytes, NEW n \in Nat, q \o r = UpTo(n)
  PROVE  Spells(q)
<1>1. /\ q \in Seq(Nat) /\ r \in Seq(Nat) /\ Len(q) \in Nat /\ Len(r) \in Nat
      /\ Len(q \o r) = Len(q) + Len(r)
  BY Concatenations DEF Bytes
<1>2. Len(q \o r) = n
  BY DEF UpTo
<1> DEFINE both == q \o r
<1>3. \A j \in 1..(Len(q) + Len(r)) : both[j] = IF j <= Len(q) THEN q[j] ELSE r[j - Len(q)]
  BY <1>1, ConcatProperties
<1>5. both = UpTo(n) /\ n = Len(q) + Len(r)
  BY <1>1, <1>2
<1> HIDE DEF both
<1>4. \A j \in 1..Len(q) : q[j] = j
  BY <1>1, <1>3, <1>5 DEF UpTo
<1> QED BY <1>1, <1>4 DEF Spells, UpTo

\* Bytes stay in their order when some in the middle are gone.
LEMMA MiddleGone ==
  ASSUME NEW a \in Bytes, NEW m \in Bytes, NEW t \in Bytes, NEW n \in Nat,
         Ordered((a \o m) \o t, n)
  PROVE  Ordered(a \o t, n)
<1>1. /\ a \in Seq(Nat) /\ m \in Seq(Nat) /\ t \in Seq(Nat) /\ a \o m \in Seq(Nat)
      /\ Len(a) \in Nat /\ Len(m) \in Nat /\ Len(t) \in Nat
      /\ Len(a \o m) = Len(a) + Len(m)
  BY Concatenations DEF Bytes
<1> DEFINE all == (a \o m) \o t
           rest == a \o t
           Source(j) == IF j <= Len(a) THEN j ELSE j + Len(m)
<1>2. /\ Len(rest) = Len(a) + Len(t)
      /\ \A j \in 1..(Len(a) + Len(t)) :
           rest[j] = IF j <= Len(a) THEN a[j] ELSE t[j - Len(a)]
  BY <1>1, ConcatProperties
<1>3. \A j \in 1..(Len(a) + Len(m)) : j <= Len(a) => (a \o m)[j] = a[j]
  BY <1>1, ConcatProperties
<1>4. /\ Len(all) = (Len(a) + Len(m)) + Len(t)
      /\ \A j \in 1..((Len(a) + Len(m)) + Len(t)) :
           all[j] = IF j <= Len(a) + Len(m) THEN (a \o m)[j]
                    ELSE t[j - (Len(a) + Len(m))]
  <2>1. PICK am \in Seq(Nat) : am = a \o m /\ Len(am) = Len(a) + Len(m)
    BY <1>1
  <2>2. /\ Len(am \o t) = Len(am) + Len(t)
        /\ \A j \in 1..(Len(am) + Len(t)) :
             (am \o t)[j] = IF j <= Len(am) THEN am[j] ELSE t[j - Len(am)]
    BY <1>1, ConcatProperties
  <2> QED BY Zenon, <2>1, <2>2
<1>5. Ordered(all, n)
  OBVIOUS
<1> HIDE DEF all, rest
<1>6. \A j \in 1..Len(rest) : Source(j) \in 1..Len(all) /\ rest[j] = all[Source(j)]
  <2> TAKE j \in 1..Len(rest)
  <2>1. CASE j <= Len(a)
    <3>1. /\ j \in 1..(Len(a) + Len(t)) /\ j \in 1..(Len(a) + Len(m))
          /\ j \in 1..((Len(a) + Len(m)) + Len(t)) /\ j <= Len(a) + Len(m)
      BY <1>1, <1>2, <2>1
    <3> QED BY Zenon, <1>2, <1>3, <1>4, <2>1, <3>1
  <2>2. CASE ~(j <= Len(a))
    <3>1. PICK h : h = j + Len(m)
      OBVIOUS
    <3>2. /\ j \in 1..(Len(a) + Len(t)) /\ h \in 1..((Len(a) + Len(m)) + Len(t))
          /\ ~(h <= Len(a) + Len(m)) /\ h - (Len(a) + Len(m)) = j - Len(a)
      BY <1>1, <1>2, <2>2, <3>1
    <3>3. rest[j] = t[j - Len(a)] /\ all[h] = t[h - (Len(a) + Len(m))]
      BY Zenon, <1>2, <1>4, <2>2, <3>2
    <3>4. Source(j) = h /\ h \in 1..Len(all) /\ rest[j] = all[h]
      BY Zenon, <1>4, <2>2, <3>1, <3>2, <3>3
    <3> QED BY Zenon, <3>4
  <2> QED BY <2>1, <2>2
<1>7. \A h, j \in 1..Len(rest) : h < j => Source(h) < Source(j)
  BY <1>1, <1>2
<1> HIDE DEF Source
<1>8. \A j \in 1..Len(rest) : rest[j] \in 1..n
  BY <1>5, <1>6 DEF Ordered
<1>9. \A h, j \in 1..Len(rest) : h < j => rest[h] < rest[j]
  BY <1>5, <1>6, <1>7 DEF Ordered
<1> QED BY <1>8, <1>9 DEF Ordered, rest

\* The bytes the child writes next come after all others.
LEMMA NextOnes ==
  ASSUME NEW q \in Bytes, NEW m \in Nat, NEW n \in Nat, Ordered(q, m)
  PROVE  Ordered(q \o [j \in 1..n |-> m + j], m + n)
<1> DEFINE more == [j \in 1..n |-> m + j]
           both == q \o more
<1>1. /\ q \in Seq(Nat) /\ more \in Seq(Nat) /\ Len(q) \in Nat /\ Len(more) = n
  BY Concatenations DEF Bytes
<1>2. \A j \in 1..n : more[j] = m + j
  OBVIOUS
<1> HIDE DEF more
<1>3. /\ Len(both) = Len(q) + n
      /\ \A j \in 1..(Len(q) + n) : both[j] = IF j <= Len(q) THEN q[j] ELSE more[j - Len(q)]
  BY <1>1, ConcatProperties
<1> HIDE DEF both
<1>4. \A j \in 1..Len(both) :
         \/ j \in 1..Len(q) /\ both[j] = q[j]
         \/ j > Len(q) /\ both[j] = m + (j - Len(q)) /\ j - Len(q) \in 1..n
  <2> TAKE j \in 1..Len(both)
  <2>1. CASE j <= Len(q)
    BY <1>1, <1>3, <2>1
  <2>2. CASE ~(j <= Len(q))
    <3>1. j - Len(q) \in 1..n /\ j > Len(q) /\ j \in 1..(Len(q) + n)
      BY <1>1, <1>3, <2>2
    <3> QED BY Zenon, <1>2, <1>3, <2>2, <3>1
  <2> QED BY <2>1, <2>2
<1>5. \A j \in 1..Len(both) : both[j] \in 1..(m + n)
  <2> TAKE j \in 1..Len(both)
  <2>1. CASE j \in 1..Len(q) /\ both[j] = q[j]
    <3>1. q[j] \in 1..m
      BY <2>1 DEF Ordered
    <3> QED BY <2>1, <3>1
  <2>2. CASE j > Len(q) /\ both[j] = m + (j - Len(q)) /\ j - Len(q) \in 1..n
    <3>1. PICK d \in 1..n : d = j - Len(q)
      BY <2>2
    <3>2. both[j] = m + d
      BY <2>2, <3>1
    <3> QED BY <3>2
  <2> QED BY <1>4, <2>1, <2>2
<1>6. \A h, j \in 1..Len(both) : h < j => both[h] < both[j]
  <2> SUFFICES ASSUME NEW h \in 1..Len(both), NEW j \in 1..Len(both), h < j
               PROVE  both[h] < both[j]
    OBVIOUS
  <2>0. Len(q) \in Nat /\ h \in Nat /\ j \in Nat
    BY <1>1
  <2>1. CASE h \in 1..Len(q) /\ both[h] = q[h]
    <3>1. q[h] \in 1..m
      BY <2>1 DEF Ordered
    <3>2. CASE j \in 1..Len(q) /\ both[j] = q[j]
      BY <2>1, <3>2 DEF Ordered
    <3>3. CASE j > Len(q) /\ both[j] = m + (j - Len(q)) /\ j - Len(q) \in 1..n
      <4>1. PICK d \in 1..n : d = j - Len(q)
        BY <3>3
      <4>2. both[j] = m + d
        BY <3>3, <4>1
      <4> QED BY <2>1, <3>1, <4>2
    <3> QED BY <1>4, <3>2, <3>3
  <2>2. CASE h > Len(q) /\ both[h] = m + (h - Len(q)) /\ h - Len(q) \in 1..n
    <3>1. j > Len(q) /\ j \notin 1..Len(q)
      BY <2>0, <2>2
    <3>2. both[j] = m + (j - Len(q))
      BY <1>4, <3>1
    <3> QED BY <2>0, <2>2, <3>2
  <2> QED BY <1>4, <2>1, <2>2
<1> QED BY <1>5, <1>6 DEF Ordered, both, more

\* The next n bytes after the first m.
LEMMA MoreBytes ==
  ASSUME NEW m \in Nat, NEW n \in Nat
  PROVE  /\ [j \in 1..n |-> m + j] \in Bytes
         /\ UpTo(m) \o [j \in 1..n |-> m + j] = UpTo(m + n)
<1> DEFINE more == [j \in 1..n |-> m + j]
<1>1. /\ UpTo(m) \in Seq(Nat) /\ more \in Seq(Nat) /\ UpTo(m + n) \in Seq(Nat)
      /\ Len(UpTo(m)) = m /\ Len(more) = n /\ Len(UpTo(m + n)) = m + n
  BY DEF UpTo
<1>2. \A j \in 1..(m + n) : /\ j <= m => UpTo(m)[j] = j
                            /\ j > m => more[j - m] = j
                            /\ UpTo(m + n)[j] = j
  BY DEF UpTo
<1> HIDE DEF more
<1>3. /\ UpTo(m) \o more \in Seq(Nat) /\ Len(UpTo(m) \o more) = m + n
      /\ \A j \in 1..(m + n) : (UpTo(m) \o more)[j] = IF j <= m THEN UpTo(m)[j] ELSE more[j - m]
  BY SMTT(30), <1>1, ConcatProperties
<1>4. \A j \in 1..(m + n) : (UpTo(m) \o more)[j] = UpTo(m + n)[j]
  <2> TAKE j \in 1..(m + n)
  <2>1. CASE j <= m
    BY Zenon, <1>2, <1>3, <2>1
  <2>2. CASE ~(j <= m)
    <3>1. j > m
      BY <2>2
    <3> QED BY Zenon, <1>2, <1>3, <2>2, <3>1
  <2> QED BY <2>1, <2>2
<1>5. UpTo(m) \o more = UpTo(m + n)
  BY <1>1, <1>3, <1>4, SeqEqual
<1> QED BY <1>1, <1>5 DEF more, Bytes

\* read takes bytes from the front of the pipe and leaves the rest, without a
\* gap.
LEMMA CutInTwo ==
  ASSUME NEW q \in Bytes, NEW n \in Nat, n <= Len(q)
  PROVE  /\ SubSeq(q, 1, n) \in Bytes /\ SubSeq(q, n + 1, Len(q)) \in Bytes
         /\ Len(SubSeq(q, 1, n)) = n
         /\ SubSeq(q, 1, n) \o SubSeq(q, n + 1, Len(q)) = q
<1>1. q \in Seq(Nat) /\ Len(q) \in Nat
  BY Concatenations DEF Bytes
<1>2. \A j \in 1..Len(q) : q[j] \in Nat
  BY <1>1
<1>3. SubSeq(q, 1, n) \in Seq(Nat) /\ Len(SubSeq(q, 1, n)) = n
  BY <1>1, <1>2, SubSeqProperties
<1>4. SubSeq(q, n + 1, Len(q)) \in Seq(Nat)
  BY <1>1, <1>2, SubSeqProperties
<1>5. SubSeq(q, 1, n) \o SubSeq(q, n + 1, Len(q)) = SubSeq(q, 1, Len(q))
  <2>1. 1 \in 1..(Len(q) + 1) /\ n \in (1 - 1)..Len(q) /\ Len(q) \in n..Len(q)
    BY <1>1
  <2> QED BY Zenon, <1>1, <2>1, ConcatAdjacentSubSeq
<1>6. SubSeq(q, 1, Len(q)) = q
  BY <1>1, SubSeqFull
<1> QED BY <1>3, <1>4, <1>5, <1>6 DEF Bytes

\* A disk that is full takes the beginning of the bytes q behind the log x.
LEMMA TakesTheBeginning ==
  ASSUME NEW x \in Bytes, NEW q \in Bytes, NEW n \in 0..Len(q)
  PROVE  \E b \in Bytes, c \in Bytes :
            /\ b = SubSeq(q, 1, n) /\ b \o c = q
            /\ x \o b \in Bytes /\ Len(x \o b) = Len(x) + n
<1>1. Len(q) \in Nat
  BY Concatenations
<1>2. n \in Nat /\ n <= Len(q)
  BY <1>1
<1>3. /\ SubSeq(q, 1, n) \in Bytes /\ SubSeq(q, n + 1, Len(q)) \in Bytes
      /\ Len(SubSeq(q, 1, n)) = n
      /\ SubSeq(q, 1, n) \o SubSeq(q, n + 1, Len(q)) = q
  BY <1>2, CutInTwo
<1>4. x \o SubSeq(q, 1, n) \in Bytes /\ Len(x \o SubSeq(q, 1, n)) = Len(x) + n
  BY <1>3, Concatenations
<1> QED BY Zenon, <1>3, <1>4

\* What was replaced, log.txt.old, log.txt and the FILE, one after the other.
FourFiles(a, b, x, y) == a \o b \o x \o y

\* fclose moves the FILE behind the log, and rename the log over the old
\* file, without changing what they spell out together.
LEMMA FilesMove ==
  ASSUME NEW a \in Bytes, NEW b \in Bytes, NEW x \in Bytes, NEW y \in Bytes
  PROVE  /\ FourFiles(a, b, x, y) \in Bytes
         /\ FourFiles(a, b, x \o y, <<>>) = FourFiles(a, b, x, y)
         /\ FourFiles(a \o b, x, <<>>, <<>>) = FourFiles(a, b, x, <<>>)
<1>1. /\ a \o b \in Bytes /\ x \o y \in Bytes /\ (a \o b) \o x \in Bytes
      /\ ((a \o b) \o x) \o y \in Bytes /\ (a \o b) \o (x \o y) \in Bytes
      /\ <<>> \in Bytes
  BY Concatenations
<1>2. FourFiles(a, b, x, y) = ((a \o b) \o x) \o y
  BY DEF FourFiles
<1>3. FourFiles(a, b, x \o y, <<>>) = (a \o b) \o (x \o y)
  BY <1>1, Concatenations DEF FourFiles
<1>4. ((a \o b) \o x) \o y = (a \o b) \o (x \o y)
  <2> DEFINE ab == a \o b
  <2>1. ab \in Bytes
    BY <1>1
  <2> HIDE DEF ab
  <2>2. (ab \o x) \o y = ab \o (x \o y)
    BY Zenon, <2>1, Associativity
  <2> QED BY <2>2 DEF ab
<1>5. FourFiles(a \o b, x, <<>>, <<>>) = (a \o b) \o x /\ FourFiles(a, b, x, <<>>) = (a \o b) \o x
  BY <1>1, Concatenations DEF FourFiles
<1> QED BY <1>1, <1>2, <1>3, <1>4, <1>5

\* Nothing has been written at first.
LEMMA LogInitInv == Log!Init => LogInv
<1> SUFFICES ASSUME Log!Init PROVE LogInv
  OBVIOUS
<1>1. Streams
  BY Concatenations DEF Log!Init, Streams
<1>2. Log!Kept = <<>> /\ Everywhere = <<>>
  BY Concatenations DEF Log!Init, Log!Kept, Everywhere
<1>3. <<>> = UpTo(0)
  BY DEF UpTo
<1>4. InOrder
  BY <1>2, <1>3, Concatenations DEF Log!Init, InOrder, Ordered, Spelled, Spells
<1>5. FileSizes
  BY Concatenations, MCAssumption
  DEF Log!Init, FileSizes, Log!ConstantsOK, Log!FilesAreBounded
<1> QED BY <1>1, <1>4, <1>5 DEF LogInv

\* Where the bytes of the files are as sequences.
LEMMA BytesAre ==
  ASSUME Streams
  PROVE  /\ Log!Kept \in Bytes /\ Everywhere \in Bytes
         /\ Log!Kept \o chunk \in Bytes /\ chunk \o pipe \in Bytes
         /\ lost \o old \o log \in Bytes /\ buffer \o chunk \in Bytes
<1>1. Log!Kept \in Bytes
  BY FilesMove DEF Streams, Log!Kept, FourFiles
<1>2. Log!Kept \o chunk \in Bytes /\ chunk \o pipe \in Bytes /\ buffer \o chunk \in Bytes
  BY <1>1, Concatenations DEF Streams
<1>3. Everywhere \in Bytes
  BY <1>2, Concatenations DEF Streams, Everywhere
<1>4. lost \o old \in Bytes
  BY Concatenations DEF Streams
<1>5. lost \o old \o log \in Bytes
  BY <1>4, Concatenations DEF Streams
<1> QED BY <1>1, <1>2, <1>3, <1>5

\* Associativity for the sequences of the program.
LEMMA Regrouped ==
  ASSUME Streams
  PROVE  /\ \A q \in Bytes : (q \o chunk) \o pipe = q \o (chunk \o pipe)
         /\ \A q \in Bytes : (q \o buffer) \o chunk = q \o (buffer \o chunk)
         /\ \A q, r \in Bytes : q \o (log \o r) = (q \o log) \o r
<1>1. log \in Bytes /\ buffer \in Bytes /\ chunk \in Bytes /\ pipe \in Bytes
  BY DEF Streams
<1>2. \A q \in Bytes : (q \o chunk) \o pipe = q \o (chunk \o pipe)
  BY Zenon, <1>1, Associativity
<1>3. \A q \in Bytes : (q \o buffer) \o chunk = q \o (buffer \o chunk)
  BY Zenon, <1>1, Associativity
<1>4. \A q, r \in Bytes : q \o (log \o r) = (q \o log) \o r
  <2> TAKE q, r \in Bytes
  <2>1. (q \o log) \o r = q \o (log \o r)
    BY Zenon, <1>1, Associativity
  <2> QED BY Zenon, <2>1
<1> QED BY <1>2, <1>3, <1>4

\* A step that moves no byte, or moves bytes among the files only, keeps the
\* order; and so it does when the loop ends.
LEMMA OrderKept ==
  ASSUME Streams, InOrder, Log!Kept' = Log!Kept, Everywhere' = Everywhere,
         UNCHANGED made, InLoop' => InLoop, failed \subseteq failed'
  PROVE  InOrder'
<1>1. Ordered(Everywhere, made)'
  BY DEF InOrder, Ordered
<1>2. "fclose" \notin failed' => Spelled'
  BY DEF InOrder, Spelled, Spells
<1> QED BY <1>1, <1>2 DEF InOrder

\* Bytes are lost between those in the files and the rest: by fclose, or at the
\* end of the loop.
LEMMA OrderCut ==
  ASSUME Streams, InOrder, NEW a \in Bytes, NEW m \in Bytes, NEW t \in Bytes,
         Everywhere = (a \o m) \o t, Everywhere' = a \o t, Log!Kept' = a,
         UNCHANGED made, failed \subseteq failed',
         "fclose" \in failed' \/ (InLoop /\ ~InLoop')
  PROVE  InOrder'
<1>1. made \in Nat
  BY DEF Streams
<1>2. Ordered(a \o t, made)
  BY <1>1, MiddleGone DEF InOrder
<1>3. Ordered(Everywhere, made)'
  BY <1>2 DEF Ordered
<1>4. ASSUME "fclose" \notin failed' PROVE Spelled'
  <2>1. Everywhere = UpTo(made)
    BY <1>4 DEF InOrder, Spelled
  <2>2. PICK r \in Bytes : r = m \o t
    BY Concatenations
  <2>3. a \o r = UpTo(made)
    <3>1. (a \o m) \o t = a \o (m \o t)
      BY Zenon, Associativity
    <3> QED BY <2>1, <2>2, <3>1
  <2>4. Spells(a)
    BY <1>1, <2>3, FirstBytes
  <2> QED BY <1>4, <2>4 DEF Spelled, Spells, UpTo
<1> QED BY <1>3, <1>4 DEF InOrder

\* The child adds the next bytes to the pipe, or ends, or is killed.
LEMMA ChildKeeps == LogInv /\ (Log!Child \/ Log!ChildIsKilled) => LogInv'
<1> SUFFICES ASSUME LogInv, Log!Child \/ Log!ChildIsKilled PROVE LogInv'
  OBVIOUS
<1>0. UNCHANGED <<loc, chunk, written, buffer, stream, log, old, lost>>
  BY DEF Log!Child, Log!ChildIsKilled, Log!ChildWrites, Log!ChildExits, Log!files
<1>f. failed \subseteq failed'
  BY DEF Log!Child, Log!ChildIsKilled, Log!ChildWrites, Log!ChildExits, Log!Fails
<1>1. FileSizes' /\ Log!Kept' = Log!Kept /\ (InLoop' <=> InLoop)
  BY <1>0, <1>f DEF LogInv, FileSizes, Log!FilesAreBounded, Log!Kept, InLoop
<1>2. CASE UNCHANGED <<pipe, made>>
  <2>1. Streams' /\ Everywhere' = Everywhere
    BY <1>0, <1>1, <1>2 DEF LogInv, Streams, Everywhere
  <2> QED BY <1>1, <1>2, <1>f, <2>1, OrderKept DEF LogInv
<1>3. CASE Log!ChildWrites
  <2>0. made \in Nat /\ pipe \in Bytes /\ chunk \in Bytes /\ Log!Kept \in Bytes
    BY FilesMove DEF LogInv, Streams, Log!Kept, FourFiles
  <2>1. PICK n \in Nat : /\ pipe' = pipe \o [j \in 1..n |-> made + j]
                         /\ made' = made + n
    BY <1>3, MCAssumption DEF Log!ChildWrites, Log!Least, Log!ConstantsOK
  <2> DEFINE more == [j \in 1..n |-> made + j]
  <2>2. more \in Bytes /\ UpTo(made) \o more = UpTo(made + n)
    BY <2>0, MoreBytes
  <2>3. pipe' = pipe \o more
    BY <2>1
  <2> HIDE DEF more
  <2>4. Streams'
    <3>1. pipe' \in Bytes
      BY Zenon, <2>0, <2>2, <2>3, Concatenations
    <3>2. made' \in Nat
      BY <2>0, <2>1
    <3> QED BY <1>0, <3>1, <3>2 DEF LogInv, Streams
  <2>5. Everywhere' = Everywhere \o more /\ Everywhere \in Bytes
    <3>1. Log!Kept \o chunk \in Bytes /\ Everywhere \in Bytes
      BY BytesAre DEF LogInv
    <3>2. (Log!Kept \o chunk) \o (pipe \o more) = ((Log!Kept \o chunk) \o pipe) \o more
      BY Zenon, <3>1, <2>0, <2>2, Concatenations
    <3>3. Everywhere' = (Log!Kept \o chunk) \o (pipe \o more)
      BY Zenon, <1>0, <1>1, <2>3 DEF Everywhere
    <3> QED BY Zenon, <3>1, <3>2, <3>3 DEF Everywhere
  <2>6. InOrder'
    <3>1. Ordered(Everywhere', made')
      <4>1. Ordered(Everywhere \o [j \in 1..n |-> made + j], made + n)
        BY <2>0, <2>5, NextOnes DEF LogInv, InOrder
      <4> QED BY Zenon, <2>1, <2>5, <4>1 DEF more
    <3>2. ASSUME "fclose" \notin failed' PROVE Spelled'
      <4>1. Spelled
        BY <1>f, <3>2 DEF LogInv, InOrder
      <4>2. Spells(Log!Kept)'
        BY <1>1, <4>1 DEF Spelled, Spells
      <4>3. InLoop' => Everywhere' = UpTo(made')
        <5>1. ASSUME InLoop' PROVE Everywhere' = UpTo(made + n)
          BY Zenon, <1>1, <2>2, <2>5, <4>1, <5>1 DEF Spelled
        <5> QED BY Zenon, <2>1, <5>1
      <4> QED BY <4>2, <4>3 DEF Spelled, UpTo
    <3> QED BY <3>1, <3>2 DEF InOrder, Ordered
  <2> QED BY <1>1, <2>4, <2>6 DEF LogInv
<1>4. CASE Log!ChildExits \/ Log!ChildIsKilled
  BY <1>2, <1>4 DEF Log!ChildExits, Log!ChildIsKilled
<1> QED BY <1>3, <1>4 DEF Log!Child

\* fclose and exit write the FILE to log.txt, or no more than its beginning.
LEMMA FlushKeeps ==
  ASSUME LogInv, Log!Flush(buffer), UNCHANGED <<chunk, written, old, lost, pipe, made>>,
         \/ loc = "fclose" /\ loc' = "rename"
         \/ loc = "exit" /\ loc' = "done"
  PROVE  LogInv'
<1>i. Streams /\ FileSizes /\ InOrder
  BY DEF LogInv
<1>c. MaxFile \in Nat \ {0} /\ ReadBuf \in Nat \ {0}
  BY MCAssumption DEF Log!ConstantsOK
<1>b. /\ lost \in Bytes /\ old \in Bytes /\ log \in Bytes /\ buffer \in Bytes
      /\ chunk \in Bytes /\ pipe \in Bytes
  BY <1>i DEF Streams
<1>l. /\ Len(log) \in Nat /\ Len(buffer) \in Nat /\ Len(<<>>) = 0 /\ <<>> \in Bytes
      /\ Len(old) \in Nat /\ buffer' = <<>>
  BY <1>b, Concatenations DEF Log!Flush
<1>1. CASE log' = log \o buffer /\ UNCHANGED failed
  <2>2. log' \in Bytes /\ Len(log') = Len(log) + Len(buffer)
    BY <1>i, <1>1, Concatenations DEF Streams
  <2>3. Streams'
    BY <1>i, <1>l, <2>2 DEF Streams
  <2>4. FileSizes'
    BY <1>i, <1>c, <1>l, <1>1, <2>2 DEF FileSizes, Log!FilesAreBounded
  <2>5. Log!Kept' = Log!Kept
    <3>1. /\ Log!Kept = FourFiles(lost, old, log, buffer)
          /\ Log!Kept' = FourFiles(lost, old, log \o buffer, <<>>)
      BY Zenon, <1>l, <1>1 DEF Log!Kept, FourFiles
    <3>2. lost \in Bytes /\ old \in Bytes /\ log \in Bytes /\ buffer \in Bytes
      BY <1>i DEF Streams
    <3> QED BY <3>1, <3>2, FilesMove
  <2>6. InOrder'
    <3>1. Everywhere' = Everywhere /\ (InLoop' => InLoop)
      BY <2>5 DEF Everywhere, InLoop
    <3> QED BY <1>i, <1>1, <2>5, <3>1, OrderKept
  <2> QED BY <2>3, <2>4, <2>6 DEF LogInv
<1>2. ASSUME Log!Fails("fclose"), NEW n \in 0..Len(buffer), log' = log \o SubSeq(buffer, 1, n)
      PROVE  LogInv'
  <2>1. PICK q \in Bytes, r \in Bytes :
           /\ q = SubSeq(buffer, 1, n) /\ q \o r = buffer
           /\ log \o q \in Bytes /\ Len(log \o q) = Len(log) + n
    BY <1>b, TakesTheBeginning
  <2>2. log' = log \o q /\ log' \in Bytes /\ Len(log') = Len(log) + n
    BY Zenon, <1>2, <2>1
  <2>3. failed' = failed \cup {"fclose"}
    BY <1>2 DEF Log!Fails
  <2>4. Streams'
    BY <1>i, <1>l, <2>2 DEF Streams
  <2>5. FileSizes'
    BY <1>i, <1>c, <1>l, <2>2, <2>3 DEF FileSizes, Log!FilesAreBounded
  <2>6. InOrder'
    <3>0. PICK p \in Bytes : p = lost \o old \o log
      BY <1>i, BytesAre
    <3>1. PICK t \in Bytes : t = chunk \o pipe
      BY <1>i, BytesAre
    <3>2. PICK a \in Bytes : a = p \o q
      BY Concatenations
    <3>3. Log!Kept = a \o r /\ Log!Kept \in Bytes
      <4>1. Log!Kept = p \o (q \o r)
        BY Zenon, <2>1, <3>0 DEF Log!Kept
      <4>2. p \o (q \o r) = (p \o q) \o r
        BY Zenon, Associativity
      <4> QED BY Zenon, <1>i, <3>2, <4>1, <4>2, BytesAre
    <3>4. Everywhere = (a \o r) \o t
      <4>1. (Log!Kept \o chunk) \o pipe = Log!Kept \o (chunk \o pipe)
        BY Zenon, <1>i, <3>3, Regrouped
      <4> QED BY Zenon, <3>1, <3>3, <4>1 DEF Everywhere
    <3>5. Log!Kept' = a
      <4>1. Log!Kept' = (lost \o old \o (log \o q)) \o <<>>
        BY Zenon, <1>l, <2>2 DEF Log!Kept
      <4>2. PICK lo \in Bytes : lo = lost \o old
        BY <1>i, Concatenations DEF Streams
      <4>3. lo \o (log \o q) = (lo \o log) \o q
        BY Zenon, <1>i, Regrouped
      <4>4. lo \o (log \o q) = a
        BY Zenon, <3>0, <3>2, <4>2, <4>3
      <4>5. a \o <<>> = a
        BY Concatenations
      <4> QED BY Zenon, <4>1, <4>2, <4>4, <4>5
    <3>6. Everywhere' = a \o t
      <4>1. (a \o chunk) \o pipe = a \o (chunk \o pipe)
        BY Zenon, <1>i, Regrouped
      <4>2. Everywhere' = (a \o chunk) \o pipe
        BY Zenon, <3>5 DEF Everywhere
      <4> QED BY Zenon, <3>1, <4>1, <4>2
    <3> QED BY <1>i, <2>3, <3>4, <3>5, <3>6, OrderCut
  <2> QED BY <2>4, <2>5, <2>6 DEF LogInv
<1> QED BY <1>1, <1>2 DEF Log!Flush

\* The loop ends at a write that fails: log.txt has the beginning of what the
\* FILE and buf held.
LEMMA WriteFails ==
  ASSUME LogInv, loc = "fwrite", loc' = "wait", chunk' = <<>>, buffer' = <<>>,
         UNCHANGED <<written, old, lost, pipe, made>>, failed \subseteq failed',
         NEW n \in 0..Len(buffer \o chunk), log' = log \o SubSeq(buffer \o chunk, 1, n)
  PROVE  LogInv'
<1>i. Streams /\ FileSizes /\ InOrder
  BY DEF LogInv
<1>c. MaxFile \in Nat \ {0} /\ ReadBuf \in Nat \ {0}
  BY MCAssumption DEF Log!ConstantsOK
<1>b. /\ lost \in Bytes /\ old \in Bytes /\ log \in Bytes /\ buffer \in Bytes
      /\ chunk \in Bytes /\ pipe \in Bytes
  BY <1>i DEF Streams
<1>l. /\ Len(log) \in Nat /\ Len(buffer) \in Nat /\ Len(chunk) \in Nat /\ <<>> \in Bytes
      /\ Len(<<>>) = 0 /\ Len(old) \in Nat /\ buffer \o chunk \in Bytes
      /\ Len(buffer \o chunk) = Len(buffer) + Len(chunk)
  BY <1>b, Concatenations
<1>1. PICK q \in Bytes, r \in Bytes :
         /\ q = SubSeq(buffer \o chunk, 1, n) /\ q \o r = buffer \o chunk
         /\ log \o q \in Bytes /\ Len(log \o q) = Len(log) + n
  BY Zenon, <1>b, <1>l, TakesTheBeginning
<1>2. log' = log \o q /\ log' \in Bytes /\ Len(log') = Len(log) + n
  BY Zenon, <1>1
<1>3. Streams'
  BY <1>i, <1>l, <1>2 DEF Streams
<1>4. FileSizes'
  BY <1>i, <1>c, <1>l, <1>2 DEF FileSizes, Log!FilesAreBounded
<1>5. InOrder'
  <2>0. PICK p \in Bytes : p = lost \o old \o log
    BY <1>i, BytesAre
  <2>1. PICK a \in Bytes : a = p \o q
    BY Concatenations
  <2>2. Log!Kept \o chunk = a \o r
    <3>1. Log!Kept \o chunk = (p \o buffer) \o chunk
      BY Zenon, <2>0 DEF Log!Kept
    <3>2. (p \o buffer) \o chunk = p \o (buffer \o chunk)
      BY Zenon, <1>i, Regrouped
    <3>3. p \o (q \o r) = (p \o q) \o r
      BY Zenon, Associativity
    <3> QED BY Zenon, <1>1, <2>1, <3>1, <3>2, <3>3
  <2>3. Everywhere = (a \o r) \o pipe
    BY Zenon, <2>2 DEF Everywhere
  <2>4. Log!Kept' = a
    <3>1. Log!Kept' = (lost \o old \o (log \o q)) \o <<>>
      BY Zenon, <1>2 DEF Log!Kept
    <3>2. PICK lo \in Bytes : lo = lost \o old
      BY <1>i, Concatenations DEF Streams
    <3>3. lo \o (log \o q) = (lo \o log) \o q
      BY Zenon, <1>i, Regrouped
    <3>4. lo \o (log \o q) = a
      BY Zenon, <2>0, <2>1, <3>2, <3>3
    <3>5. a \o <<>> = a
      BY Concatenations
    <3> QED BY Zenon, <3>1, <3>2, <3>4, <3>5
  <2>5. Everywhere' = a \o pipe
    <3>1. Everywhere' = (a \o <<>>) \o pipe
      BY Zenon, <2>4 DEF Everywhere
    <3>2. a \o <<>> = a
      BY Concatenations
    <3> QED BY Zenon, <3>1, <3>2
  <2>6. pipe \in Bytes /\ InLoop /\ ~InLoop'
    BY <1>i DEF Streams, InLoop
  <2> QED BY <1>i, <2>3, <2>4, <2>5, <2>6, OrderCut
<1> QED BY <1>3, <1>4, <1>5 DEF LogInv

\* Every statement of the parent preserves the invariant, whether its call
\* succeeds or fails (rotatelog.c:17-51).
LEMMA ParentKeeps == LogInv /\ Log!Parent => LogInv'
<1> SUFFICES ASSUME LogInv, Log!Parent PROVE LogInv'
  OBVIOUS
<1>c. /\ MaxFile \in Nat \ {0} /\ ReadBuf \in Nat \ {0}
  BY MCAssumption DEF Log!ConstantsOK
<1>i. Streams /\ FileSizes /\ InOrder
  BY DEF LogInv
<1>l. /\ Len(log) \in Nat /\ Len(buffer) \in Nat /\ Len(chunk) \in Nat /\ Len(old) \in Nat
      /\ Len(<<>>) = 0 /\ <<>> \in Bytes /\ Log!Kept \in Bytes
  BY <1>i, Concatenations, BytesAre DEF Streams
<1>s. ASSUME UNCHANGED <<log, buffer, old, lost, chunk, pipe, made>>, InLoop' => InLoop,
             failed \subseteq failed'
      PROVE  InOrder'
  <2>1. Log!Kept' = Log!Kept /\ Everywhere' = Everywhere
    BY <1>s DEF Log!Kept, Everywhere
  <2> QED BY <1>i, <1>s, <2>1, OrderKept
<1>1. CASE Log!Fork \/ Log!CloseWriteEnd
  <2>1. /\ loc \in {"fork", "close"} /\ loc' \in {"close", "fopen", "done"}
        /\ UNCHANGED <<chunk, written, buffer, stream, log, old, lost, pipe, made>>
        /\ failed \subseteq failed'
    BY <1>1 DEF Log!Fork, Log!CloseWriteEnd, Log!files, Log!Fails
  <2>2. Streams'
    BY <1>i, <2>1 DEF Streams
  <2>3. FileSizes'
    BY <1>i, <1>c, <1>l, <2>1 DEF FileSizes, Log!FilesAreBounded, Streams
  <2>4. InOrder'
    BY <1>s, <2>1 DEF InLoop
  <2> QED BY <2>2, <2>3, <2>4 DEF LogInv
<1>2. CASE Log!Fopen \/ Log!Reopen
  <2>1. /\ loc \in {"fopen", "reopen"} /\ loc' \in {"read", "wait"}
        /\ log' = log /\ log = <<>> /\ buffer = <<>>
        /\ UNCHANGED <<chunk, buffer, old, lost, pipe, made>>
        /\ loc' = "read" => written' = 0
        /\ written' \in Nat
        /\ failed \subseteq failed'
    BY <1>2, <1>i DEF Log!Fopen, Log!Reopen, Log!pipeVars, Log!Fails, Streams, FileSizes
  <2>2. Streams'
    BY <1>i, <2>1 DEF Streams
  <2>3. FileSizes'
    BY <1>i, <1>c, <1>l, <2>1 DEF FileSizes, Log!FilesAreBounded
  <2>4. InOrder'
    BY <1>s, <2>1 DEF InLoop
  <2> QED BY <2>2, <2>3, <2>4 DEF LogInv
<1>3. CASE Log!Read
  <2>1. CASE loc' = "wait" /\ UNCHANGED <<chunk, pipe>>
    <3>1. /\ loc = "read" /\ UNCHANGED <<made, written, buffer, log, old, lost>>
          /\ failed \subseteq failed'
      BY <1>3, <2>1 DEF Log!Read, Log!files, Log!Fails
    <3>2. Streams'
      BY <1>i, <2>1, <3>1 DEF Streams
    <3>3. FileSizes'
      BY <1>i, <1>c, <1>l, <2>1, <3>1 DEF FileSizes, Log!FilesAreBounded
    <3>4. InOrder'
      BY <1>s, <2>1, <3>1 DEF InLoop
    <3> QED BY <3>2, <3>3, <3>4 DEF LogInv
  <2>2. CASE loc' # "wait"
    <3>1. /\ loc = "read" /\ UNCHANGED <<made, written, buffer, log, old, lost, failed>>
          /\ loc' = "fwrite"
      BY <1>3, <2>2 DEF Log!Read, Log!files
    <3>2. PICK n \in Nat : /\ n <= ReadBuf /\ n <= Len(pipe)
                           /\ chunk' = SubSeq(pipe, 1, n)
                           /\ pipe' = SubSeq(pipe, n + 1, Len(pipe))
      <4>1. Len(pipe) \in Nat
        BY <1>i, Concatenations DEF Streams
      <4>2. Log!Least(ReadBuf, Len(pipe)) \in Nat /\ Log!Least(ReadBuf, Len(pipe)) <= ReadBuf
            /\ Log!Least(ReadBuf, Len(pipe)) <= Len(pipe)
        BY <1>c, <4>1 DEF Log!Least
      <4>3. /\ chunk' = SubSeq(pipe, 1, Log!Least(ReadBuf, Len(pipe)))
            /\ pipe' = SubSeq(pipe, Log!Least(ReadBuf, Len(pipe)) + 1, Len(pipe))
        BY <1>3, <2>2 DEF Log!Read
      <4> QED BY <4>2, <4>3
    <3>3. /\ chunk' \in Bytes /\ pipe' \in Bytes /\ chunk' \o pipe' = pipe
          /\ Len(chunk') = n
      BY <1>i, <3>2, CutInTwo DEF Streams
    <3>4. Streams'
      BY <1>i, <3>1, <3>3 DEF Streams
    <3>5. FileSizes'
      BY <1>i, <1>c, <1>l, <3>1, <3>2, <3>3 DEF FileSizes, Log!FilesAreBounded
    <3>6. chunk = <<>> /\ Log!Kept' = Log!Kept /\ InLoop
      BY <1>i, <3>1 DEF Streams, InLoop, Log!Kept
    <3>7. (Log!Kept' \o chunk') \o pipe' = Log!Kept \o (chunk' \o pipe')
      BY <1>l, <3>3, <3>6, Concatenations
    <3>8. (Log!Kept \o chunk) \o pipe = Log!Kept \o pipe
      BY <1>l, <3>6, Concatenations
    <3>9. Everywhere' = Everywhere
      BY Zenon, <3>3, <3>7, <3>8 DEF Everywhere
    <3>10. InOrder'
      BY <1>i, <3>1, <3>6, <3>9, OrderKept
    <3> QED BY <3>4, <3>5, <3>10 DEF LogInv
  <2> QED BY <1>3, <2>1, <2>2 DEF Log!Read
<1>4. CASE Log!Fwrite
  <2>0. /\ loc = "fwrite" /\ chunk' = <<>> /\ UNCHANGED <<old, lost, pipe, made>>
    BY <1>4 DEF Log!Fwrite, Log!pipeVars
  <2>1. CASE /\ buffer' = buffer \o chunk /\ written' = written + Len(chunk)
             /\ loc' = IF written' >= MaxFile THEN "fclose" ELSE "read"
             /\ UNCHANGED <<log, failed>>
    <3>1. buffer' \in Bytes /\ Len(buffer') = Len(buffer) + Len(chunk)
      BY <1>i, <2>1, Concatenations DEF Streams
    <3>2. Streams'
      BY <1>i, <1>l, <2>0, <2>1, <3>1 DEF Streams
    <3>3. FileSizes'
      <4>1. /\ written \in Nat /\ written < MaxFile /\ Len(chunk) <= ReadBuf
            /\ Len(log) + Len(buffer) = written /\ Log!FilesAreBounded
        BY <1>i, <2>0 DEF FileSizes
      <4>2. /\ written' \in Nat /\ written' < MaxFile + ReadBuf
            /\ Len(log') + Len(buffer') = written'
        <5>1. written' = written + Len(chunk) /\ Len(log') = Len(log)
          BY <2>1
        <5>2. Len(chunk) \in Nat /\ Len(log) \in Nat /\ Len(buffer) \in Nat
          BY <1>l
        <5> QED BY <1>c, <3>1, <4>1, <5>1, <5>2
      <4>3. CASE written' >= MaxFile
        <5>1. loc' = "fclose" /\ MaxFile <= written'
          BY <1>c, <2>1, <4>2, <4>3
        <5> QED BY <2>0, <2>1, <4>1, <4>2, <5>1 DEF FileSizes, Log!FilesAreBounded
      <4>4. CASE ~(written' >= MaxFile)
        <5>1. loc' = "read" /\ written' < MaxFile
          BY <1>c, <2>1, <4>2, <4>4
        <5> QED BY <2>0, <2>1, <4>1, <4>2, <5>1 DEF FileSizes, Log!FilesAreBounded
      <4> QED BY <4>3, <4>4
    <3>4. Log!Kept' = Log!Kept \o chunk
      <4>1. PICK p : p = (lost \o old) \o log
        OBVIOUS
      <4>2. p \in Bytes /\ buffer \in Bytes /\ chunk \in Bytes
        BY <1>i, <4>1, Concatenations DEF Streams
      <4>3. Log!Kept = p \o buffer /\ Log!Kept' = p \o (buffer \o chunk)
        BY Zenon, <2>0, <2>1, <4>1 DEF Log!Kept
      <4>4. p \o (buffer \o chunk) = (p \o buffer) \o chunk
        BY Zenon, <4>2, Concatenations
      <4> QED BY Zenon, <4>3, <4>4
    <3>5. Log!Kept' \in Bytes
      BY <1>i, <3>4, BytesAre
    <3>6. Everywhere' = Everywhere /\ Everywhere = Log!Kept' \o pipe
      <4>1. Log!Kept' \o <<>> = Log!Kept'
        BY <3>5, Concatenations
      <4>2. Everywhere' = (Log!Kept' \o <<>>) \o pipe
        BY Zenon, <2>0 DEF Everywhere
      <4> QED BY Zenon, <3>4, <4>1, <4>2 DEF Everywhere
    <3>7. ASSUME "fclose" \notin failed' PROVE Spelled'
      <4>1. Spelled /\ InLoop
        BY <1>i, <2>0, <2>1, <3>7 DEF InOrder, InLoop
      <4>2. PICK q \in Bytes : q = Log!Kept'
        BY <3>5
      <4>3. q \o pipe = UpTo(made)
        BY Zenon, <3>6, <4>1, <4>2 DEF Spelled
      <4>4. Spells(q)
        BY <1>i, <4>3, FirstBytes DEF Streams
      <4>5. Everywhere' = UpTo(made')
        BY Zenon, <2>0, <3>6, <4>1 DEF Spelled
      <4> QED BY <4>2, <4>4, <4>5 DEF Spelled, Spells, UpTo
    <3>8. Ordered(Everywhere, made)'
      BY <1>i, <2>0, <3>6 DEF InOrder, Ordered
    <3> QED BY <3>2, <3>3, <3>7, <3>8 DEF LogInv, InOrder
  <2>2. ASSUME loc' = "wait", buffer' = <<>>, UNCHANGED written, failed \subseteq failed',
               NEW n \in 0..Len(buffer \o chunk), log' = log \o SubSeq(buffer \o chunk, 1, n)
        PROVE  LogInv'
    BY <2>0, <2>2, WriteFails
  <2>3. CASE loc' = "wait" /\ buffer' = <<>> /\ UNCHANGED <<written, log, failed>>
    <3>1. buffer \o chunk \in Bytes /\ Len(buffer \o chunk) \in Nat /\ log \in Bytes
      BY <1>i, BytesAre, Concatenations DEF Streams
    <3>2. SubSeq(buffer \o chunk, 1, 0) = <<>> /\ log \o <<>> = log
      <4>1. SubSeq(buffer \o chunk, 1, 0) \in Bytes /\ Len(SubSeq(buffer \o chunk, 1, 0)) = 0
        <5>1. 0 \in Nat /\ 0 <= Len(buffer \o chunk)
          BY <3>1
        <5> QED BY Zenon, <3>1, <5>1, CutInTwo
      <4> QED BY <3>1, <4>1, EmptySeq, Concatenations DEF Bytes
    <3>3. 0 \in 0..Len(buffer \o chunk) /\ log' = log \o SubSeq(buffer \o chunk, 1, 0)
      <4>1. 0 \in 0..Len(buffer \o chunk)
        BY <3>1
      <4> QED BY Zenon, <2>3, <3>2, <4>1
    <3>4. failed \subseteq failed'
      BY <2>3
    <3> QED BY <2>2, <2>3, <3>3, <3>4
  <2>4. CASE loc' = "done" /\ UNCHANGED <<written, log, buffer, failed>>
    <3>2. Streams'
      BY <1>i, <1>l, <2>0, <2>4 DEF Streams
    <3>3. FileSizes'
      BY <1>i, <1>c, <1>l, <2>0, <2>4 DEF FileSizes, Log!FilesAreBounded
    <3>4. Log!Kept' = Log!Kept /\ Everywhere' = Log!Kept \o pipe
      <4>1. Log!Kept' = Log!Kept
        BY <2>0, <2>4 DEF Log!Kept
      <4>2. Everywhere' = (Log!Kept \o <<>>) \o pipe
        BY Zenon, <2>0, <4>1 DEF Everywhere
      <4>3. Log!Kept \o <<>> = Log!Kept
        BY <1>l, Concatenations
      <4> QED BY Zenon, <4>1, <4>2, <4>3
    <3>5. InOrder'
      <4>1. chunk \in Bytes /\ pipe \in Bytes /\ InLoop /\ ~InLoop' /\ failed \subseteq failed'
        BY <1>i, <2>0, <2>4 DEF Streams, InLoop
      <4>2. Everywhere = (Log!Kept \o chunk) \o pipe
        BY DEF Everywhere
      <4> QED BY <1>i, <1>l, <2>0, <3>4, <4>1, <4>2, OrderCut
    <3> QED BY <3>2, <3>3, <3>5 DEF LogInv
  <2>5. ASSUME Log!Fails("fwrite"), loc' = "wait", buffer' = <<>>, UNCHANGED written,
               \E n \in 0..Len(buffer \o chunk) : log' = log \o SubSeq(buffer \o chunk, 1, n)
        PROVE  LogInv'
    BY <2>2, <2>5 DEF Log!Fails
  <2> QED BY <1>4, <2>1, <2>3, <2>4, <2>5 DEF Log!Fwrite
<1>5. CASE Log!Fclose \/ Log!Exit
  <2>1. /\ \/ loc = "fclose" /\ loc' = "rename"
           \/ loc = "exit" /\ loc' = "done"
        /\ Log!Flush(buffer)
        /\ UNCHANGED <<chunk, written, old, lost, pipe, made>>
    BY <1>5 DEF Log!Fclose, Log!Exit, Log!pipeVars
  <2> QED BY <2>1, FlushKeeps
<1>6. CASE Log!Rename
  <2>1. /\ loc = "rename" /\ UNCHANGED <<chunk, written, buffer, pipe, made>> /\ buffer = <<>>
    BY <1>6, <1>i DEF Log!Rename, Log!pipeVars, Streams
  <2>2. CASE old' = log /\ log' = <<>> /\ lost' = lost \o old /\ loc' = "reopen"
             /\ UNCHANGED failed
    <3>1. lost' \in Bytes
      BY <1>i, <2>2, Concatenations DEF Streams
    <3>2. Streams'
      BY <1>i, <1>l, <2>1, <2>2, <3>1 DEF Streams
    <3>3. FileSizes'
      BY <1>i, <1>c, <1>l, <2>1, <2>2 DEF FileSizes, Log!FilesAreBounded
    <3>4. Log!Kept' = Log!Kept
      <4>1. /\ Log!Kept = FourFiles(lost, old, log, <<>>)
            /\ Log!Kept' = FourFiles(lost \o old, log, <<>>, <<>>)
        BY Zenon, <2>1, <2>2 DEF Log!Kept, FourFiles
      <4>2. lost \in Bytes /\ old \in Bytes /\ log \in Bytes /\ <<>> \in Bytes
        BY <1>i, <1>l DEF Streams
      <4> QED BY <4>1, <4>2, FilesMove
    <3>5. InOrder'
      <4>1. Everywhere' = Everywhere /\ (InLoop' => InLoop)
        BY <2>1, <2>2, <3>4 DEF Everywhere, InLoop
      <4> QED BY <1>i, <2>1, <2>2, <3>4, <4>1, OrderKept
    <3> QED BY <3>2, <3>3, <3>5 DEF LogInv
  <2>3. CASE loc' = "wait" /\ UNCHANGED <<log, old, lost>> /\ Log!Fails("rename")
    <3>1. failed \subseteq failed' /\ ("fclose" \in failed => "fclose" \in failed')
      BY <2>3 DEF Log!Fails
    <3>2. Streams'
      BY <1>i, <2>1, <2>3 DEF Streams
    <3>3. FileSizes'
      BY <1>i, <1>c, <1>l, <2>1, <2>3, <3>1 DEF FileSizes, Log!FilesAreBounded
    <3>5. InOrder'
      BY <1>s, <2>1, <2>3, <3>1 DEF InLoop
    <3> QED BY <3>2, <3>3, <3>5 DEF LogInv
  <2> QED BY <1>6, <2>2, <2>3 DEF Log!Rename
<1>7. CASE Log!Wait
  <2>1. /\ loc = "wait" /\ loc' = "exit"
        /\ UNCHANGED <<chunk, written, buffer, log, old, lost, pipe, made>>
        /\ failed \subseteq failed'
    BY <1>7 DEF Log!Wait, Log!files, Log!pipeVars, Log!Fails
  <2>2. Streams' /\ FileSizes'
    BY <1>i, <2>1 DEF Streams, FileSizes, Log!FilesAreBounded
  <2>3. InOrder'
    BY <1>s, <2>1 DEF InLoop
  <2> QED BY <2>2, <2>3 DEF LogInv
<1> QED BY <1>1, <1>2, <1>3, <1>4, <1>5, <1>6, <1>7 DEF Log!Parent

\* Every step of the parent and of its child preserves the invariant.
LEMMA LogStepInv == LogInv /\ [Log!Next]_(Log!vars) => LogInv'
<1> SUFFICES ASSUME LogInv, [Log!Next]_(Log!vars) PROVE LogInv'
  OBVIOUS
<1>1. CASE UNCHANGED Log!vars
  <2>1. UNCHANGED <<made, loc, chunk, pipe, written, buffer, log, old, lost, failed>>
    BY <1>1 DEF Log!vars
  <2>2. Streams' /\ FileSizes'
    BY <2>1 DEF LogInv, Streams, FileSizes, Log!FilesAreBounded
  <2>3. Log!Kept' = Log!Kept /\ Everywhere' = Everywhere /\ (InLoop' <=> InLoop)
    BY <2>1 DEF Log!Kept, Everywhere, InLoop
  <2>4. InOrder'
    BY <2>1, <2>3, OrderKept DEF LogInv
  <2> QED BY <2>2, <2>4 DEF LogInv
<1> QED BY <1>1, ChildKeeps, ParentKeeps DEF Log!Next

(* For any sizes of the buffers, of the pipe and of the files, any output
   and any failure, rotatelog reorders no byte and writes none twice, and it
   loses none but those of a log.txt.old that a rename replaces, as long as
   no fclose, whose result the program ignores, finds the disk full
   (rotatelog.c:26-49). *)
THEOREM RotatedOutputIsKept == Log!Spec => []OutputIsKept
<1>1. LogInv => OutputIsKept
  BY DEF OutputIsKept, LogInv, InOrder, Ordered, Spelled, Everywhere, Log!OutputIsKept,
         Log!Rising, Spells, UpTo, InLoop
<1> QED BY <1>1, LogInitInv, LogStepInv, PTL DEF Log!Spec

(* No file outgrows OUT_FILE_MAX_FIZE by a whole read, and a rotated one is
   full, as long as no fclose finds the disk full (rotatelog.c:33-48). *)
THEOREM RotatedFilesAreBounded == Log!Spec => []FilesAreBounded
<1>1. LogInv => FilesAreBounded
  BY DEF FilesAreBounded, LogInv, FileSizes
<1> QED BY <1>1, LogInitInv, LogStepInv, PTL DEF Log!Spec

\* No call has failed, and a closed FILE does what was meant.
AllIsWell == failed = {} /\ Closed = {"reused"}

(* The write end is open exactly where it should be: in the parent until it
   closes it, in the child while it writes.  So the read loop ends, and the
   parent gets past it, only when the child is done and all is in the files. *)
EndInv ==
  /\ loc \in {"fork", "close", "fopen", "read", "fwrite", "fclose", "rename", "reopen",
              "wait", "exit", "done"}
  /\ child \in {"none", "writing", "exited"}
  /\ child = "none" <=> loc = "fork"
  /\ writers = (IF loc \in {"fork", "close"} THEN {"parent"} ELSE {})
                 \cup (IF child = "writing" THEN {"child"} ELSE {})
  /\ child = "exited" => made = Output
  /\ loc \in {"read", "fwrite", "fclose"} => stream \in {"open", "reused"}
  /\ result = IF loc = "done" THEN "success" ELSE "none"
  /\ ~InLoop => child = "exited" /\ Log!Kept = UpTo(Output)
  /\ loc = "done" => buffer = <<>>

\* What the parent's next call waits for, where it waits for anything.
ParentMayStep ==
  /\ loc = "read" => pipe # <<>> \/ writers = {}
  /\ loc = "fwrite" => stream # "closed"
  /\ loc = "wait" => child # "writing"
\* The child has room in the pipe, or nothing left to write.
ChildMayStep == child = "writing" /\ (made = Output \/ Len(pipe) < PipeSize)

(* Until the program has ended the parent or its child has a step left: they
   never wait for each other, one for room in the pipe or for its end, the
   other for bytes or for waitpid (rotatelog.c:26-51, 105-125). *)
NeitherIsStuck == AllIsWell /\ result = "none" => ParentMayStep \/ ChildMayStep

\* Where the program ends, it has returned 0 and every byte is in the files.
EndsLogged == AllIsWell /\ result # "none" => Log!Logged

\* The end is far at first.
LEMMA EndInitInv == Log!Init => EndInv
  BY DEF Log!Init, EndInv, InLoop

\* The child stops writing only when it has written everything.
LEMMA ChildKeepsEnd ==
  ASSUME EndInv, AllIsWell', Log!Child \/ Log!ChildIsKilled
  PROVE  EndInv'
<1>1. /\ UNCHANGED <<loc, chunk, written, buffer, stream, log, old, lost, result>>
      /\ child = "writing"
  BY DEF Log!Child, Log!ChildIsKilled, Log!ChildWrites, Log!ChildExits, Log!files
<1>2. Log!Kept' = Log!Kept /\ loc # "done" /\ InLoop /\ InLoop' /\ result = "none"
  BY <1>1 DEF Log!Kept, EndInv, InLoop
<1>3. CASE Log!ChildWrites
  <2>1. UNCHANGED <<child, writers>>
    BY <1>3 DEF Log!ChildWrites
  <2> QED BY <1>1, <1>2, <2>1 DEF EndInv
<1>4. CASE ~Log!ChildWrites
  <2>1. made = Output /\ made' = made /\ child' = "exited" /\ writers' = writers \ {"child"}
    BY <1>2, <1>4 DEF AllIsWell, Log!Child, Log!ChildIsKilled, Log!ChildExits, Log!Fails,
       Log!PipeIsRead
  <2> QED BY <1>1, <1>2, <2>1 DEF EndInv
<1> QED BY <1>3, <1>4

\* The parent leaves the loop only at the end of the pipe, with everything
\* in the files, and ends only when the child has ended.
LEMMA ParentKeepsEnd ==
  ASSUME LogInv, EndInv, AllIsWell, AllIsWell', Log!Parent
  PROVE  EndInv'
<1>f. \A f : ~Log!Fails(f)
  BY DEF AllIsWell, Log!Fails
<1>1. CASE Log!Fork \/ Log!CloseWriteEnd
  BY <1>1, <1>f DEF Log!Fork, Log!CloseWriteEnd, Log!files, EndInv, InLoop
<1>2. CASE Log!Fopen \/ Log!Reopen
  BY <1>2, <1>f DEF Log!Fopen, Log!Reopen, Log!pipeVars, EndInv, InLoop, AllIsWell
<1>3. CASE Log!Read
  <2>1. /\ UNCHANGED <<child, made, writers, stream, result, buffer, log, old, lost>>
        /\ loc = "read"
        /\ loc' = "fwrite" \/ (loc' = "wait" /\ pipe = <<>> /\ writers = {})
    BY <1>3, <1>f DEF Log!Read, Log!files
  <2>2. ASSUME pipe = <<>>, writers = {}
        PROVE  child = "exited" /\ Log!Kept = UpTo(Output)
    <3>1. child = "exited" /\ made = Output
      BY <2>1, <2>2 DEF EndInv
    <3>2. Log!Kept \in Bytes /\ chunk = <<>> /\ Log!Kept \o chunk \o pipe = UpTo(made)
      <4>1. "fclose" \notin failed
        BY DEF AllIsWell
      <4> QED BY <2>1, <4>1, BytesAre DEF LogInv, Streams, InOrder, Spelled, Everywhere, InLoop
    <3> QED BY <2>2, <3>1, <3>2, Concatenations
  <2>3. Log!Kept' = Log!Kept
    BY <2>1 DEF Log!Kept
  <2> QED BY <2>1, <2>2, <2>3 DEF EndInv, InLoop
<1>4. CASE Log!Fwrite
  <2>1. /\ loc = "fwrite" /\ loc' \in {"read", "fclose"}
        /\ UNCHANGED <<child, made, writers, stream, result>>
    BY <1>4, <1>f DEF Log!Fwrite, Log!pipeVars, EndInv
  <2> QED BY <2>1 DEF EndInv, InLoop
<1>5. CASE Log!Fclose \/ Log!Rename
  <2>1. /\ loc \in {"fclose", "rename"} /\ loc' \in {"rename", "reopen"}
        /\ UNCHANGED <<child, made, writers, result>>
    BY <1>5, <1>f DEF Log!Fclose, Log!Rename, Log!pipeVars
  <2> QED BY <2>1 DEF EndInv, InLoop
<1>6. CASE Log!Wait
  <2>1. /\ loc = "wait" /\ loc' = "exit" /\ Log!Kept' = Log!Kept
        /\ UNCHANGED <<child, made, writers, result>>
    BY <1>6, <1>f DEF Log!Wait, Log!files, Log!pipeVars, Log!Kept
  <2> QED BY <2>1 DEF EndInv, InLoop
<1>7. CASE Log!Exit
  <2>1. /\ loc = "exit" /\ loc' = "done" /\ buffer' = <<>> /\ log' = log \o buffer
        /\ result' = IF child = "exited" THEN "success" ELSE "failure"
        /\ UNCHANGED <<child, made, writers, old, lost>>
    BY <1>7, <1>f DEF Log!Exit, Log!Flush, Log!pipeVars, AllIsWell
  <2>2. Log!Kept' = Log!Kept
    <3>1. /\ Log!Kept = FourFiles(lost, old, log, buffer)
          /\ Log!Kept' = FourFiles(lost, old, log \o buffer, <<>>)
      BY Zenon, <2>1 DEF Log!Kept, FourFiles
    <3>2. lost \in Bytes /\ old \in Bytes /\ log \in Bytes /\ buffer \in Bytes
      BY DEF LogInv, Streams
    <3> QED BY <3>1, <3>2, FilesMove
  <2> QED BY <2>1, <2>2 DEF EndInv, InLoop
<1> QED BY <1>1, <1>2, <1>3, <1>4, <1>5, <1>6, <1>7 DEF Log!Parent

\* What no step of the program undoes: a failure stays one.
LEMMA EndStepInv ==
  LogInv /\ (AllIsWell => EndInv) /\ [Log!Next]_(Log!vars) => (AllIsWell => EndInv)'
<1> SUFFICES ASSUME LogInv, AllIsWell => EndInv, [Log!Next]_(Log!vars), AllIsWell'
             PROVE  EndInv'
  OBVIOUS
<1>1. AllIsWell
  <2>1. failed \subseteq failed'
    BY DEF Log!Next, Log!Parent, Log!Child, Log!ChildIsKilled, Log!ChildWrites,
       Log!ChildExits, Log!Fork, Log!CloseWriteEnd, Log!Fopen, Log!Read, Log!Fwrite,
       Log!Fclose, Log!Rename, Log!Reopen, Log!Wait, Log!Exit, Log!Flush, Log!Fails, Log!vars
  <2> QED BY <2>1 DEF AllIsWell
<1>2. CASE UNCHANGED Log!vars
  BY <1>1, <1>2 DEF Log!vars, EndInv, InLoop, Log!Kept
<1> QED BY <1>1, <1>2, ChildKeepsEnd, ParentKeepsEnd DEF Log!Next

(* While no call fails, rotatelog cannot hang, and where it ends it has
   logged every byte and returned 0: the half of LogsUnlessACallFails that
   needs no fairness (rotatelog.c:26-51, 105-125).  It needs the parent's
   close of the write end, without which read never sees the end of the pipe. *)
THEOREM RotationEndsLogged == Log!Spec => [](NeitherIsStuck /\ EndsLogged)
<1>1. LogInv /\ (AllIsWell => EndInv) => NeitherIsStuck /\ EndsLogged
  <2> SUFFICES ASSUME LogInv, AllIsWell, EndInv
               PROVE  /\ result = "none" => ParentMayStep \/ ChildMayStep
                      /\ result # "none" => Log!Logged
    BY DEF NeitherIsStuck, EndsLogged
  <2>1. ASSUME result = "none" PROVE ParentMayStep \/ ChildMayStep
    <3>1. CASE loc = "read" /\ pipe = <<>> /\ writers # {}
      <4>1. child = "writing"
        BY <3>1 DEF EndInv
      <4>2. Len(pipe) < PipeSize
        BY <3>1, Concatenations, MCAssumption DEF Log!ConstantsOK
      <4> QED BY <4>1, <4>2 DEF ChildMayStep
    <3>2. CASE ~(loc = "read" /\ pipe = <<>> /\ writers # {})
      BY <3>2 DEF ParentMayStep, EndInv, InLoop
    <3> QED BY <3>1, <3>2
  <2>2. ASSUME result # "none" PROVE Log!Logged
    <3>1. loc = "done" /\ result = "success" /\ buffer = <<>> /\ Log!Kept = UpTo(Output)
      BY <2>2 DEF EndInv, InLoop
    <3>2. Log!Kept = lost \o old \o log
      BY <3>1, Concatenations DEF LogInv, Streams, Log!Kept
    <3> QED BY <3>1, <3>2 DEF Log!Logged, UpTo
  <2> QED BY <2>1, <2>2
<1>2. Log!Init => LogInv /\ (AllIsWell => EndInv)
  BY LogInitInv, EndInitInv
<1>3. (LogInv /\ (AllIsWell => EndInv)) /\ [Log!Next]_(Log!vars)
        => (LogInv /\ (AllIsWell => EndInv))'
  BY LogStepInv, EndStepInv
<1> QED BY <1>1, <1>2, <1>3, PTL DEF Log!Spec

-----------------------------------------------------------------------------
(* sem20_signalfd *)

\* Both signals are blocked and watched once they are to be read; one that is
\* pending came while it was blocked; the process is ended by none.
SfdInv ==
  /\ step \in {"block", "signalfd", "read", "work", "returned", "killed"}
  /\ step \in {"signalfd", "read", "work"} => mask = Sfd!Usr
  /\ step \in {"read", "work"} => watched = Sfd!Usr
  /\ step \in {"block", "killed"} => mask = {}
  /\ mask \subseteq Sfd!Usr /\ waiting \subseteq unserved /\ unserved \subseteq mask
  /\ \A x \in unserved : x \in waiting \/ (step # "read" /\ ssi_signo = x)
  /\ step \in {"block", "signalfd"} => ssi_signo = "none"
  /\ step = "work" => ssi_signo \in Sfd!Usr

(* A signal that came once the mask was set is pending, where the descriptor
   reports it, or is the one do_work is called for, whether it came before
   the descriptor existed or again while it was worked on; and none ends the
   process then (signalfd.c:20-42). *)
SignalIsKept ==
  /\ step \in {"signalfd", "read", "work"} =>
       \A x \in unserved : x \in waiting \/ (step = "work" /\ ssi_signo = x)
  /\ step \in {"read", "work"} => unserved \subseteq watched
  /\ step = "killed" => unserved = {}

(* No signal that comes once the mask is set is lost, however many come and
   whenever. *)
THEOREM SignalsAreKept == Sfd!Spec => []SignalIsKept
<1>1. Sfd!Init => SfdInv
  BY DEF Sfd!Init, SfdInv, Sfd!Usr
<1>2. ASSUME SfdInv, [Sfd!Next]_(Sfd!vars) PROVE SfdInv'
  <2> USE <1>2 DEF SfdInv, Sfd!Usr
  <2>1. CASE Sfd!Block
    BY <2>1 DEF Sfd!Block
  <2>2. CASE Sfd!Open
    BY <2>2 DEF Sfd!Open
  <2>3. CASE Sfd!Read
    BY <2>3 DEF Sfd!Read
  <2>4. CASE Sfd!Work
    BY <2>4 DEF Sfd!Work
  <2>5. CASE Sfd!Fails \/ Sfd!ReadFails
    BY <2>5 DEF Sfd!Fails, Sfd!ReadFails
  <2>6. ASSUME NEW x \in Sfd!Usr, Sfd!Kill(x) PROVE SfdInv'
    <3>1. CASE x \in mask
      BY <2>6, <3>1 DEF Sfd!Kill, Sfd!Runs
    <3>2. CASE x \notin mask
      BY <2>6, <3>2 DEF Sfd!Kill, Sfd!Runs
    <3> QED BY <3>1, <3>2
  <2>7. CASE UNCHANGED Sfd!vars
    BY <2>7 DEF Sfd!vars
  <2> QED BY <2>1, <2>2, <2>3, <2>4, <2>5, <2>6, <2>7 DEF Sfd!Next, Sfd!Main
<1>3. SfdInv => SignalIsKept
  BY DEF SfdInv, SignalIsKept, Sfd!Usr
<1> QED BY <1>1, <1>2, <1>3, PTL DEF Sfd!Spec

-----------------------------------------------------------------------------
(* The programs together *)

\* What the theorems above say of the programs.
ProgramsAreSafe ==
  /\ CounterIsExact /\ ClockTicks /\ BlocksAreDisjoint /\ PrintsWhatWasSummed
  /\ OutputIsKept /\ FilesAreBounded /\ NeitherIsStuck /\ EndsLogged
  /\ SignalIsKept

(* The specification of the programs together is one of each of them, so
   that what is proved of each holds of it: no step of one program is a step
   of another, and the fairness each states is not needed. *)
THEOREM ProgramsAreAlone == MCSpec => []ProgramsAreSafe
<1>1. MCInit => Init /\ Sum!Init /\ Log!Init /\ Sfd!Init
  BY DEF MCInit
<1>2. [MCNext]_MCvars => [Next]_vars
  BY DEF MCNext, MCvars, OfTimer, OfSum, OfLog, OfSfd
<1>3. [MCNext]_MCvars => [Sum!Next]_(Sum!vars)
  <2>1. (UNCHANGED parallelSum) => UNCHANGED Sum!vars
    BY DEF Sum!vars, parallelSum
  <2> QED BY <2>1 DEF MCNext, MCvars, OfTimer, OfSum, OfLog, OfSfd
<1>4. [MCNext]_MCvars => [Log!Next]_(Log!vars)
  <2>1. (UNCHANGED rotateLog) => UNCHANGED Log!vars
    BY DEF Log!vars, rotateLog
  <2> QED BY <2>1 DEF MCNext, MCvars, OfTimer, OfSum, OfLog, OfSfd
<1>5. [MCNext]_MCvars => [Sfd!Next]_(Sfd!vars)
  <2>1. (UNCHANGED signalFd) => UNCHANGED Sfd!vars
    BY DEF Sfd!vars, signalFd
  <2> QED BY <2>1 DEF MCNext, MCvars, OfTimer, OfSum, OfLog, OfSfd
<1>6. MCSpec => Spec /\ Sum!Spec /\ Log!Spec /\ Sfd!Spec
  BY <1>1, <1>2, <1>3, <1>4, <1>5, PTL DEF MCSpec, Spec, Sum!Spec, Log!Spec, Sfd!Spec
<1> QED BY <1>6, TimerIsExact, ClockKeepsTicking, ThreadsShareNothing, PrintedSumIsExact,
          RotatedOutputIsKept, RotatedFilesAreBounded, RotationEndsLogged, SignalsAreKept,
          PTL DEF ProgramsAreSafe
==============================================================================
